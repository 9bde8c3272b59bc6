-------------------------- MODULE ArtifactDelivery --------------------------
(***************************************************************************)
(* What an operator who asked for files is promised, artifact by artifact: *)
(* what the run says of an artifact agrees with what the destination holds *)
(* when it says it, and a file the run did not make is not the run's to    *)
(* change.  ADR-0015 Decisions C, G and H; ArtifactWriter implements it.   *)
(***************************************************************************)
EXTENDS Integers

CONSTANT Artifact

VARIABLES
  file,   \* the destination, by artifact
  told    \* what this run has said of the artifact

vars == <<file, told>>

\* `earlier' is a file this run did not make; `growing' one it is writing.
FileState == {"none", "earlier", "growing", "whole", "damaged"}
Word == {"nothing", "delivered", "doubtful", "withheld", "left"}

TypeOK == file \in [Artifact -> FileState] /\ told \in [Artifact -> Word]

Init ==
  /\ file \in [Artifact -> {"none", "earlier"}]
  /\ told = [a \in Artifact |-> "nothing"]

\* A file is made only where there was none, and one at a time.
Create(a) ==
  /\ told[a] = "nothing" /\ file[a] = "none"
  /\ \A b \in Artifact : file[b] # "growing"
  /\ file' = [file EXCEPT ![a] = "growing"]
  /\ UNCHANGED told

\* What may become of the file when the run says `word' of it: a delivered
\* file is whole, a withheld one is gone, and only a word that says so leaves
\* a damaged one.
Outcome(state, word) ==
  CASE state = "growing" /\ word = "delivered"            -> {"whole"}
    [] state = "growing" /\ word \in {"doubtful", "left"} -> {"whole", "damaged"}
    [] state = "growing" /\ word = "withheld"             -> {"none"}
    [] state = "none" /\ word # "delivered"               -> {"none"}
    [] state = "earlier" /\ word = "withheld"             -> {"earlier"}
    [] OTHER                                              -> {}

Tell(a, word) ==
  /\ told[a] = "nothing" /\ word # "nothing"
  /\ \E state \in Outcome(file[a], word) : file' = [file EXCEPT ![a] = state]
  /\ told' = [told EXCEPT ![a] = word]

\* Another program deletes a file.
Vanish(a) ==
  /\ file' = [file EXCEPT ![a] = "none"]
  /\ UNCHANGED told

\* A new run over the same destination, after the last one ended or was killed.
Restart ==
  /\ file' = [a \in Artifact |-> IF file[a] = "none" THEN "none" ELSE "earlier"]
  /\ told' = [a \in Artifact |-> "nothing"]

Next ==
  \/ \E a \in Artifact : Create(a) \/ Vanish(a)
  \/ \E a \in Artifact, word \in Word : Tell(a, word)
  \/ Restart

Spec == Init /\ [][Next]_vars
=============================================================================
