-------------------------- MODULE MCArtifactWriter --------------------------
(***************************************************************************)
(* ArtifactWriter with a file of two clusters and one of one cluster, over *)
(* a destination where either path may hold a file from before, whole or   *)
(* cut short.                                                              *)
(***************************************************************************)
EXTENDS ArtifactWriter

MCLength == <<2, 1>>

Earlier == {[run |-> 0, content |-> c] : c \in {<<1>>, <<1, 2>>}}

MCInit ==
  /\ run = 1
  /\ output \in BOOLEAN
  /\ disk \in [Artifact -> Earlier \cup {NoFile}]
  /\ Start
MCSpec == MCInit /\ [][Next]_vars /\ Fairness
=============================================================================
