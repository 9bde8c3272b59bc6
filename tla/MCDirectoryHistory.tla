------------------------- MODULE MCDirectoryHistory -------------------------
(***************************************************************************)
(* DirectoryHistory with bytes of three bits and names of three of them:   *)
(* two that differ in the first byte alone, one of which has to be         *)
(* escaped, in a directory of five slots in two clusters.                  *)
(***************************************************************************)
EXTENDS DirectoryHistory, TLC

CONSTANT zero, file

MCData == {zero, file}
MCNames == {<<3, 6, 2>>, <<7, 6, 2>>, <<4, 4, 2>>}
MCPrintable == {2, 3, 4, 6}

\* A directory of any content, as an image with unreadable sectors may have it:
\* what could not be read is zero.
Kinds ==
  {Blank, [ShortEntry(<<3, 6, 2>>, file) EXCEPT !.first = Free],
   [Component(<<4, 4, 2>>, 1, TRUE) EXCEPT !.first = Free],
   ShortEntry(<<4, 4, 2>>, file)}

AnyInit ==
  /\ slots \in [Slot -> Kinds]
  /\ live = {} /\ created = 0
  /\ origin = [i \in Slot |-> NoName]
AnySpec == AnyInit /\ [][FALSE]_vars
=============================================================================
