--------------------------- MODULE MCAnalysisRun ---------------------------
(***************************************************************************)
(* AnalysisRun on tables of three entries over an image of four sectors of *)
(* four bytes and, at one of its lengths, part of a fifth.                 *)
(***************************************************************************)
EXTENDS AnalysisRun

partition(boot, start, count) ==
  [type |-> "other", boot_indicator |-> boot, start_lba |-> start, sector_count |-> count,
   zero |-> FALSE]

blank(type, zero) ==
  [type |-> type, boot_indicator |-> "inactive", start_lba |-> 0, sector_count |-> 0,
   zero |-> zero]

\* Within the image, up to its end, past it by a part of a sector, and past it
\* by so much that the sum leaves the word.
Entries ==
  {blank("unused", TRUE), blank("unused", FALSE), blank("gpt_protective", FALSE),
   partition("inactive", 1, 0), partition("active", 1, 2), partition("neither", 2, 2),
   partition("active", 3, 1), partition("inactive", 4, 1), partition("inactive", 7, 2)}

MCInit ==
  /\ destination \in {"not_asked", "unusable", "holds_evidence", "apart"}
  /\ length \in {0, 3, 16, 18}
  /\ signature \in BOOLEAN
  /\ table \in [Index -> Entries]
  /\ \E r \in Record, s \in {"fat32", "unidentified"} :
       record = [i \in Index |-> IF i = 1 THEN r ELSE s]
  /\ destination \in {"unusable", "holds_evidence"} => length = 0
  /\ Start
MCSpec == MCInit /\ [][Next]_vars
=============================================================================
