--------------------------- MODULE MCFileRecovery ---------------------------
(***************************************************************************)
(* FileRecovery on a volume of three data clusters of four bytes, with two *)
(* FATs that may disagree and sizes of four bits.  Two entries: the second *)
(* shows what the first leaves behind.                                     *)
(***************************************************************************)
EXTENDS FileRecovery

file(first, size, deleted, listing) ==
  [kind |-> "file", deleted |-> deleted, listing |-> listing, first |-> first, size |-> size]

\* Sizes that end before, at and after a cluster's end and at the field's limit;
\* first clusters reserved, at either end of the volume, and past it.
Files ==
  {file(first, size, TRUE, "walked") : first \in {1, 2, 4, 5}, size \in {0, 4, 5, 9, 15}}
    \cup {file(3, 8, deleted, listing) : deleted \in BOOLEAN, listing \in {"walked", "orphaned"}}

Others ==
  {[kind |-> kind, deleted |-> deleted, listing |-> "orphaned", first |-> 3, size |-> 4] :
     kind \in {"directory", "volume_label"}, deleted \in BOOLEAN}

Lists == {<<a, b>> : a \in Files \cup Others,
                     b \in {file(3, 5, TRUE, "walked"), file(2, 12, FALSE, "orphaned")}}

MCInit ==
  /\ entries \in Lists
  /\ in_use \in [FatIndex -> {{}, {3}, {2, 4}}]
  /\ mirroring \in BOOLEAN /\ active \in FatIndex
  /\ options \in Options
  /\ Start
MCSpec == MCInit /\ [][Next]_vars
=============================================================================
