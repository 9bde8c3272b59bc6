---------------------------- MODULE MCVolumeWalk ----------------------------
(***************************************************************************)
(* VolumeWalk on volumes of four data clusters.  Cluster 2 is the root.    *)
(* The choices below cover what a chain and an entry can do: chains that   *)
(* end, loop, cross, run out of range or into a free cluster; live and     *)
(* deleted entries naming each cluster, one cluster named twice, a reused  *)
(* cluster, a cluster without a signature, names past the terminator.      *)
(***************************************************************************)
EXTENDS VolumeWalk

live(c) == [first |-> c, deleted |-> FALSE]
gone(c) == [first |-> c, deleted |-> TRUE]

\* A cluster that begins as a directory's first cluster does, or does not.
Cell(signed, terminator, entries, residue) ==
  [self |-> signed, parent |-> signed, terminator |-> terminator,
   entries |-> entries, residue |-> residue]

Fats ==
  {[c \in Cluster |-> CASE c = 2 -> f2 [] c = 3 -> f3 [] c = 4 -> f4 [] OTHER -> f5] :
     f2 \in {EndOfChain, 4}, f3 \in {Free, EndOfChain, 5, BadCluster},
     f4 \in {Free, EndOfChain, 2}, f5 \in {Free, EndOfChain, 4, 3}}

RootCells ==
  {Cell(FALSE, TRUE, e, r) :
     e \in {<<live(3)>>, <<live(3), live(5)>>, <<gone(3), gone(4)>>, <<live(9), gone(3)>>,
            <<gone(4), live(3)>>},
     r \in {<<>>, <<gone(5)>>}}

Contents ==
  {[c \in Cluster |-> CASE c = 2 -> c2 [] c = 3 -> c3 [] c = 4 -> c4 [] OTHER -> c5] :
     c2 \in RootCells,
     c3 \in {Cell(TRUE, TRUE, <<gone(4)>>, <<live(5)>>), Cell(TRUE, FALSE, <<live(3), gone(5)>>, <<>>),
             Cell(FALSE, FALSE, <<>>, <<>>)},
     c4 \in {Cell(TRUE, TRUE, <<gone(5)>>, <<>>), Cell(TRUE, FALSE, <<>>, <<>>)},
     c5 \in {Cell(TRUE, TRUE, <<live(3)>>, <<>>), [Cell(TRUE, TRUE, <<>>, <<>>) EXCEPT !.parent = FALSE]}}

MCInit == fat \in Fats /\ content \in Contents /\ Start
MCSpec == MCInit /\ [][Next]_vars /\ Fairness
=============================================================================
