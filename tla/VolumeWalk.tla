----------------------------- MODULE VolumeWalk -----------------------------
(***************************************************************************)
(* The directory walk of one FAT32 volume and the search for orphaned      *)
(* directories that follows it: report_root_directory and what it calls in *)
(* src/analysis.rs, over the chain enumeration of src/fat_directory.rs.    *)
(*                                                                         *)
(* The walk is one thread that reads a volume nothing writes.  What makes  *)
(* it hard is the volume: its FAT and its directory entries are damaged or *)
(* stale, so chains cross, loop and run out of range, deleted entries name *)
(* clusters that were reused, one directory is named from several places,  *)
(* and any read may fail.                                                  *)
(*                                                                         *)
(* A cluster's slots are abstracted to what the walk tells apart: whether  *)
(* slots 0 and 1 are `.' naming the cluster and `..', which directories    *)
(* its slots name before the terminator and after it, and whether it holds *)
(* one.  Files are the subject of FileRecovery, not of this module.        *)
(***************************************************************************)
EXTENDS Integers, Sequences, FiniteSets

CONSTANTS
  LastCluster,   \* the last data cluster; the first is 2
  Root,          \* boot.root_cluster
  MaxDepth,      \* MAX_DEPTH, 128 in the code
  MaxChain,      \* max_clusters of enumerate: 65536 slots' worth of clusters
  BadCluster     \* FAT_BAD_CLUSTER, 0x0FFFFFF7

FirstDataCluster == 2
Cluster == FirstDataCluster .. LastCluster

\* FAT entries, masked to 28 bits.
Free       == 0
EndOfChain == BadCluster + 1
FatEntry   == 0 .. BadCluster + 8

\* parse_boot_sector accepts a root cluster only inside the data area.  The
\* code sets the cluster count no upper bound, so neither does this.
ASSUME VolumeAssumption ==
  /\ LastCluster \in Nat
  /\ BadCluster \in Nat
  /\ Root \in Cluster
  /\ MaxDepth \in Nat
  /\ MaxChain \in Nat \ {0}

\* A directory named by an entry: its first cluster, unchecked, and whether
\* the entry is deleted.
Name == [first : Nat, deleted : BOOLEAN]

\* What one cluster holds when it is read as a directory.  Dot entries are in
\* neither list: is_dot_entry keeps them out of the queue and of the search.
Content == [self : BOOLEAN, parent : BOOLEAN, terminator : BOOLEAN,
            entries : Seq(Name), residue : Seq(Name)]

\* The Directory an enumeration builds, and whether it met a terminator.
Directory == [clusters : Seq(Cluster), entries : Seq(Name),
              residue : Seq(Name), terminated : BOOLEAN]

Pending == [first : Nat, depth : Nat, deleted : BOOLEAN]

Job == [first : Nat, depth : 0 .. MaxDepth, deleted : BOOLEAN]

Report == [reached : {"root", "walked", "orphaned"}, deleted : BOOLEAN,
           depth : 0 .. MaxDepth, dir : Directory]

VARIABLES
  fat,        \* the active FAT, by cluster
  content,    \* the data area, by cluster
  phase,      \* which loop of report_root_directory runs
  step,       \* where the enumeration in progress stands
  job,        \* the directory being read, as its caller was given it
  cluster,    \* enumerate's `cluster': the next one to read
  dir,        \* enumerate's `clusters', `entries', `residue', `terminated'
  seen,       \* every cluster of a reported directory
  named,      \* every first cluster the walk was given
  pending,    \* directories named and not yet taken up
  cursor,     \* the search's cluster
  listed,     \* directories the orphaned listings name
  reported,   \* the Directory events, in order
  counts      \* the RunCounts fields these functions touch

volume == <<fat, content>>
enumeration == <<step, job, cluster, dir>>
vars == <<fat, content, phase, step, job, cluster, dir, seen, named, pending,
          cursor, listed, reported, counts>>

Counts == [root_unread : Nat, volumes_analysed : Nat, directories_unread : Nat,
           listings_may_continue : Nat, orphan_search_stopped : Nat]

TypeOK ==
  /\ fat \in [Cluster -> FatEntry]
  /\ content \in [Cluster -> Content]
  /\ phase \in {"root", "walk", "search", "done"}
  /\ step \in {"idle", "reading", "listed", "failed"}
  /\ job \in Job
  /\ cluster \in Nat
  /\ dir \in Directory
  /\ seen \subseteq Cluster
  /\ named \subseteq Nat
  /\ pending \in Seq(Pending)
  /\ cursor \in FirstDataCluster .. LastCluster + 1
  /\ listed \in Seq(Name)
  /\ reported \in Seq(Report)
  /\ counts \in Counts

----------------------------------------------------------------------------

Elements(s) == {s[i] : i \in DOMAIN s}

\* Slots past the terminator name directories too, after the current ones.
NamesOf(d) == d.entries \o d.residue

EmptyDirectory ==
  [clusters |-> <<>>, entries |-> <<>>, residue |-> <<>>, terminated |-> FALSE]

\* One more directory the run did not read, for whatever reason.
WithUnread(c, n) == [c EXCEPT !.directories_unread = @ + n]

WithReport(c, continues) ==
  [c EXCEPT !.listings_may_continue = @ + (IF continues THEN 1 ELSE 0)]

WithStop(c) == [c EXCEPT !.orphan_search_stopped = @ + 1]

Begin(j) ==
  /\ step' = "reading"
  /\ job' = j
  /\ cluster' = j.first
  /\ dir' = EmptyDirectory

Return ==
  /\ step' = "idle"
  /\ UNCHANGED <<job, cluster, dir>>

----------------------------------------------------------------------------
(***************************************************************************)
(* enumerate: one action per way an iteration of its loop can end.  A live *)
(* directory's chain is followed, a deleted one's first cluster is read    *)
(* and nothing else.                                                       *)
(***************************************************************************)

\* ClusterOutOfRange, CyclicChain, TooLarge.  The entry bound never fires
\* before the cluster bound, because a cluster's slots divide 65536.
ChainRefused ==
  \/ cluster \notin Cluster
  \/ cluster \in Elements(dir.clusters)
  \/ Len(dir.clusters) >= MaxChain

RefuseChain ==
  /\ step = "reading"
  /\ ChainRefused
  /\ step' = "failed"
  /\ UNCHANGED <<job, cluster, dir>>

\* The cluster or its FAT entry cannot be read.
EvidenceFails ==
  /\ step = "reading"
  /\ ~ChainRefused
  /\ step' = "failed"
  /\ UNCHANGED <<job, cluster, dir>>

\* Seeded fault: the cluster is read and not recorded in the chain.
WithClusterUnrecorded(d, c) ==
  [d EXCEPT !.entries = @ \o content[c].entries, !.terminated = content[c].terminator]

\* Once a terminator was met, in this cluster or an earlier one of the chain,
\* every further slot is residue.
WithCluster(d, c) ==
  LET slots == content[c] IN
  [clusters   |-> Append(d.clusters, c),
   entries    |-> IF d.terminated THEN d.entries ELSE d.entries \o slots.entries,
   residue    |-> IF d.terminated THEN d.residue \o slots.entries \o slots.residue
                                  ELSE d.residue \o slots.residue,
   terminated |-> d.terminated \/ slots.terminator]

ReadCluster ==
  /\ step = "reading"
  /\ ~ChainRefused
  /\ dir' = WithCluster(dir, cluster)
  /\ \/ /\ job.deleted \/ fat[cluster] >= EndOfChain
        /\ step' = "listed"
        /\ UNCHANGED cluster
     \/ /\ ~job.deleted
        /\ fat[cluster] = BadCluster \/ fat[cluster] < FirstDataCluster
        /\ step' = "failed"
        /\ UNCHANGED cluster
     \/ /\ ~job.deleted
        /\ fat[cluster] \in FirstDataCluster .. BadCluster - 1
        /\ cluster' = fat[cluster]
        /\ UNCHANGED step
  /\ UNCHANGED job

Enumerate ==
  /\ RefuseChain \/ EvidenceFails \/ ReadCluster
  /\ UNCHANGED <<volume, phase, seen, named, pending, cursor, listed, reported, counts>>

----------------------------------------------------------------------------
(***************************************************************************)
(* The checks of a deleted directory: its first cluster is free in the     *)
(* FAT, and begins with `.' naming itself and `..'.                        *)
(***************************************************************************)

\* Seeded fault: the FAT is not consulted.
PassesRange(c) == c \in Cluster

\* Before the cluster is read: in range, and free.
PassesFat(c) == c \in Cluster /\ fat[c] = Free

\* begins_directory, and the two checks after the read.
BeginsDirectory(c) == content[c].self /\ content[c].parent

\* Seeded fault: only the first cluster is compared.
CrossLinkedAtStart == dir.clusters[1] \in seen

\* A live chain that runs into a cluster another directory occupies.
CrossLinked == Elements(dir.clusters) \cap seen # {}

----------------------------------------------------------------------------
(***************************************************************************)
(* Reporting a directory, and queueing what it names.                      *)
(***************************************************************************)

ReportOf(how) ==
  [reached |-> how, deleted |-> job.deleted, depth |-> job.depth, dir |-> dir]

\* Seeded fault: the residue is not queued.
CurrentChildren(d, depth) ==
  [i \in DOMAIN d.entries |->
    [first |-> d.entries[i].first, depth |-> depth + 1, deleted |-> d.entries[i].deleted]]

Children(d, depth) ==
  LET names == NamesOf(d) IN
  [i \in DOMAIN names |->
    [first |-> names[i].first, depth |-> depth + 1, deleted |-> names[i].deleted]]

----------------------------------------------------------------------------
(***************************************************************************)
(* report_root_directory: the root, then the queue, then the search.       *)
(***************************************************************************)

RootUnread ==
  /\ phase = "root" /\ step = "failed"
  /\ counts' = [counts EXCEPT !.root_unread = @ + 1]
  /\ phase' = "done"
  /\ Return
  /\ UNCHANGED <<volume, seen, named, pending, cursor, listed, reported>>

RootListed ==
  /\ phase = "root" /\ step = "listed"
  /\ counts' = [counts EXCEPT !.volumes_analysed = @ + 1]
  /\ seen' = Elements(dir.clusters)
  /\ reported' = Append(reported, ReportOf("root"))
  /\ pending' = pending \o Children(dir, 0)
  /\ phase' = "walk"
  /\ Return
  /\ UNCHANGED <<volume, named, cursor, listed>>

\* Seeded fault: no bound on the depth.
DeclinedIfSeen(next) == next.first \in seen

\* TooDeep, and AlreadyRead by its first cluster.
Declined(next) == next.depth > MaxDepth \/ next.first \in seen

\* Taking a directory off the queue, whatever becomes of it.
Take ==
  /\ phase = "walk" /\ step = "idle" /\ pending # <<>>
  /\ named' = named \cup {Head(pending).first}
  /\ pending' = Tail(pending)
  /\ UNCHANGED <<volume, phase, seen, cursor, listed, reported>>

TakeDeclined ==
  /\ Take
  /\ Declined(Head(pending))
  /\ counts' = WithUnread(counts, 1)
  /\ UNCHANGED enumeration

\* Out of range, in use, or its FAT entry cannot be read.
TakeRefused ==
  /\ Take
  /\ ~Declined(Head(pending))
  /\ Head(pending).deleted
  /\ \E readable \in BOOLEAN : ~readable \/ ~PassesFat(Head(pending).first)
  /\ counts' = WithUnread(counts, 1)
  /\ UNCHANGED enumeration

TakeOpened ==
  /\ Take
  /\ ~Declined(Head(pending))
  /\ Head(pending).deleted => PassesFat(Head(pending).first)
  /\ Begin(Head(pending))
  /\ UNCHANGED counts

SubdirectoryUnread ==
  /\ phase = "walk" /\ step = "failed"
  /\ counts' = WithUnread(counts, 1)
  /\ Return
  /\ UNCHANGED <<volume, phase, seen, named, pending, cursor, listed, reported>>

\* NoSelfEntry or NoParentEntry, and AlreadyRead by a cluster further along.
\* The cross-link is looked for when the whole chain has been read.
Withheld ==
  \/ job.deleted /\ ~BeginsDirectory(job.first)
  \/ CrossLinked

SubdirectoryWithheld ==
  /\ phase = "walk" /\ step = "listed"
  /\ Withheld
  /\ counts' = WithUnread(counts, 1)
  /\ Return
  /\ UNCHANGED <<volume, phase, seen, named, pending, cursor, listed, reported>>

SubdirectoryListed ==
  /\ phase = "walk" /\ step = "listed"
  /\ ~Withheld
  /\ seen' = seen \cup Elements(dir.clusters)
  /\ reported' = Append(reported, ReportOf("walked"))
  /\ counts' = WithReport(counts, job.deleted /\ ~dir.terminated)
  /\ pending' = pending \o Children(dir, job.depth)
  /\ Return
  /\ UNCHANGED <<volume, phase, named, cursor, listed>>

WalkEnds ==
  /\ phase = "walk" /\ step = "idle" /\ pending = <<>>
  /\ phase' = "search"
  /\ cursor' = FirstDataCluster
  /\ UNCHANGED <<volume, enumeration, seen, named, pending, listed, reported, counts>>

----------------------------------------------------------------------------
(***************************************************************************)
(* search_orphaned_directories: every data cluster once, in ascending      *)
(* order, passing over what the walk read or was given.                    *)
(***************************************************************************)

\* Seeded faults: what the walk was given and declined is not remembered; the
\* last cluster is not visited.
SkippedIfSeen(c) == c \in seen
SearchDoneEarly == cursor >= LastCluster

SkippedBySearch(c) == c \in seen \/ c \in named

SearchDone == cursor > LastCluster

Visit ==
  /\ phase = "search" /\ step = "idle"
  /\ ~SearchDone
  /\ UNCHANGED <<volume, seen, named, pending, listed, reported>>

\* Skipped; not a directory; or in use, which is no gap.
PassOver ==
  /\ Visit
  /\ \/ SkippedBySearch(cursor)
     \/ ~BeginsDirectory(cursor)
     \/ ~PassesFat(cursor)
  /\ cursor' = cursor + 1
  /\ UNCHANGED <<enumeration, phase, counts>>

OpenOrphan ==
  /\ Visit
  /\ ~SkippedBySearch(cursor)
  /\ BeginsDirectory(cursor)
  /\ PassesFat(cursor)
  /\ Begin([first |-> cursor, depth |-> 0, deleted |-> TRUE])
  /\ UNCHANGED <<phase, cursor, counts>>

\* Slots 0 and 1, or the FAT entry, cannot be read: the search is over, and
\* what the orphaned listings name is not looked at.
StopSearch ==
  /\ Visit
  /\ ~SkippedBySearch(cursor)
  /\ counts' = WithStop(counts)
  /\ phase' = "done"
  /\ UNCHANGED <<enumeration, cursor>>

OrphanUnread ==
  /\ phase = "search" /\ step = "failed"
  /\ counts' = WithStop(counts)
  /\ phase' = "done"
  /\ Return
  /\ UNCHANGED <<volume, seen, named, pending, cursor, listed, reported>>

OrphanListed ==
  /\ phase = "search" /\ step = "listed"
  /\ seen' = seen \cup {cursor}
  /\ reported' = Append(reported, ReportOf("orphaned"))
  /\ counts' = WithReport(counts, ~dir.terminated)
  /\ listed' = listed \o NamesOf(dir)
  /\ cursor' = cursor + 1
  /\ Return
  /\ UNCHANGED <<volume, phase, named, pending>>

\* Seeded fault: a deleted entry's directory is not looked for.
LiveListedUnread == {i \in DOMAIN listed : ~listed[i].deleted /\ listed[i].first \notin seen}

\* What the orphaned listings name, once for each entry.
ListedUnread == {i \in DOMAIN listed : listed[i].first \notin seen}

SearchEnds ==
  /\ phase = "search" /\ step = "idle"
  /\ SearchDone
  /\ counts' = WithUnread(counts, Cardinality(ListedUnread))
  /\ phase' = "done"
  /\ UNCHANGED <<volume, enumeration, seen, named, pending, cursor, listed, reported>>

----------------------------------------------------------------------------

\* Before the first read, on whatever volume the evidence holds.
Start ==
  /\ phase = "root"
  /\ step = "reading"
  /\ job = [first |-> Root, depth |-> 0, deleted |-> FALSE]
  /\ cluster = Root
  /\ dir = EmptyDirectory
  /\ seen = {}
  /\ named = {}
  /\ pending = <<>>
  /\ cursor = FirstDataCluster
  /\ listed = <<>>
  /\ reported = <<>>
  /\ counts = [root_unread |-> 0, volumes_analysed |-> 0, directories_unread |-> 0,
               listings_may_continue |-> 0, orphan_search_stopped |-> 0]

Init ==
  /\ fat \in [Cluster -> FatEntry]
  /\ content \in [Cluster -> Content]
  /\ Start

\* The volume is reported and the next partition's turn has come.
Finished == phase = "done" /\ UNCHANGED vars

Next ==
  \/ Enumerate
  \/ RootUnread
  \/ RootListed
  \/ TakeDeclined
  \/ TakeRefused
  \/ TakeOpened
  \/ SubdirectoryUnread
  \/ SubdirectoryWithheld
  \/ SubdirectoryListed
  \/ WalkEnds
  \/ PassOver
  \/ OpenOrphan
  \/ StopSearch
  \/ OrphanUnread
  \/ OrphanListed
  \/ SearchEnds
  \/ Finished

\* The functions are loops of one thread that waits for nothing but a read,
\* and a read returns data or an error.
Fairness == WF_vars(Next)

Spec == Init /\ [][Next]_vars /\ Fairness

----------------------------------------------------------------------------
(***************************************************************************)
(* Properties.                                                             *)
(***************************************************************************)

Clusters(r) == r.dir.clusters
Walked == {i \in DOMAIN reported : reported[i].reached # "orphaned"}
Orphaned == {i \in DOMAIN reported : reported[i].reached = "orphaned"}
NamedBy(i) == Elements(NamesOf(reported[i].dir))

\* No cluster is listed twice, by one directory or by two.  A listing's entries
\* are identified by cluster and slot, so no deleted file is assessed or
\* extracted twice, and no two artifacts of a volume share a path: what
\* Destination::path relies on when it says a second file of the same name can
\* only have been there before the run.
ListedOnce ==
  \A i, j \in DOMAIN reported :
    \A p \in DOMAIN Clusters(reported[i]), q \in DOMAIN Clusters(reported[j]) :
      Clusters(reported[i])[p] = Clusters(reported[j])[q] => i = j /\ p = q

\* The search never reports as orphaned a directory some walked listing names:
\* the walk's refusal or bound stands, whatever the cluster looks like later.
RefusalStands ==
  \A i \in Orphaned, j \in Walked :
    \A n \in NamedBy(j) : n.first # Clusters(reported[i])[1]

\* A volume that leaves no gap left nothing unread: every directory that any
\* reported listing names, before its terminator or after it, was read.  This
\* is what Coverage::Complete tells an operator.
NoGapMeansAllRead ==
  /\ phase = "done"
  /\ counts.root_unread = 0
  /\ counts.directories_unread = 0
  /\ counts.orphan_search_stopped = 0
  => \A i \in DOMAIN reported : \A n \in NamedBy(i) :
       \E j \in DOMAIN reported : n.first \in Elements(Clusters(reported[j]))

\* A search that was not stopped missed nothing: every free cluster with a
\* directory's signature is in a reported listing or was named to the walk.
NoOrphanMissed ==
  phase = "done" /\ counts.volumes_analysed = 1 /\ counts.orphan_search_stopped = 0
  => \A c \in Cluster :
       fat[c] = Free /\ content[c].self /\ content[c].parent
       => \/ \E i \in DOMAIN reported : c \in Elements(Clusters(reported[i]))
          \/ \E i \in Walked : \E n \in NamedBy(i) : n.first = c

\* What a listing claims to be agrees with the FAT.  A live chain holds only
\* clusters in use, ended by an end-of-chain mark; a deleted or orphaned
\* directory is one free cluster, so reused content is never shown as a
\* deleted directory's and a deleted directory never swallows its neighbours.
ListingAgreesWithFat ==
  \A i \in DOMAIN reported :
    LET r == reported[i]
        n == Len(Clusters(r)) IN
    IF r.deleted
      THEN n = 1 /\ fat[Clusters(r)[1]] = Free
      ELSE /\ \A p \in 1 .. n - 1 : fat[Clusters(r)[p]] = Clusters(r)[p + 1]
           /\ fat[Clusters(r)[n]] >= EndOfChain

\* Where the walked listings name a directory: a listing and a place in it.
Namings == UNION {{i} \X DOMAIN NamesOf(reported[i].dir) : i \in Walked}

\* Every directory a walked listing names becomes exactly one finding: it is
\* waiting, being read, reported, or one counted gap.
OneFindingEach ==
  phase = "walk" =>
    Cardinality(Namings)
      = Len(pending) + (IF step = "idle" THEN 0 ELSE 1)
          + (Len(reported) - 1) + counts.directories_unread

\* The run comes to the end of every volume, however its chains loop.
Terminates == <>(phase = "done")

\* ADR-0016 Decision E: the walk reads each data cluster as a directory at most
\* once.  A cluster in `seen' is not read again.
ReadAtMostOnce ==
  [][dir'.clusters # dir.clusters /\ dir'.clusters # <<>> => cluster \notin seen]_vars
=============================================================================
