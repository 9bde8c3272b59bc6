--------------------------- MODULE MCVolumeLayout ---------------------------
(***************************************************************************)
(* VolumeLayout with numbers of five bits, sectors of four bytes that hold *)
(* two allocation entries, and FAT32 from three clusters on.  The fields   *)
(* take values at the edges the checks are made of.                        *)
(***************************************************************************)
EXTENDS VolumeLayout

record(spc, reserved, fats, total, size, root) ==
  [bytes_per_sector |-> 4, sectors_per_cluster |-> spc, reserved_sectors |-> reserved,
   fat_count |-> fats, root_entry_count |-> 0, total_sectors_16 |-> 0,
   total_sectors_32 |-> total, fat_size_16 |-> 0, fat_size_32 |-> size,
   root_cluster |-> root, mirroring |-> TRUE, active |-> 0,
   oem |-> "other", sound |-> TRUE, media |-> TRUE, sound_32 |-> TRUE]

\* Two FATs of 16 sectors are exactly the word, three of 11 one more.
Plain ==
  {record(spc, reserved, fats, total, size, root) :
     spc \in {0, 1, 2, 3, 4}, reserved \in {0, 1, 4, 31}, fats \in 0 .. 3,
     total \in {0, 8, 12, 13, 20, 31}, size \in {0, 2, 3, 4, 11, 16}, root \in {2, 4, 5}}

\* The second FAT is the one that is maintained.
Unmirrored ==
  {[p EXCEPT !.mirroring = FALSE, !.active = 1] : p \in {q \in Plain : q.fat_count # 0 /\ q.root_cluster = 2}}

\* One field at a time away from the plain record.
Odd ==
  LET p == record(1, 1, 2, 13, 4, 2) IN
  {[p EXCEPT !.mirroring = FALSE, !.active = a] : a \in 0 .. 3}
    \cup {[p EXCEPT !.oem = o] : o \in {"exfat", "ntfs"}}
    \cup {[p EXCEPT !.sound = FALSE], [p EXCEPT !.media = FALSE], [p EXCEPT !.sound_32 = FALSE]}
    \cup {[p EXCEPT !.bytes_per_sector = 8, !.sectors_per_cluster = s] : s \in {1, 2}}
    \cup {[p EXCEPT !.bytes_per_sector = 5]}
    \cup {[p EXCEPT !.root_entry_count = n] : n \in {1, 31}}
    \cup {[p EXCEPT !.total_sectors_16 = 12], [p EXCEPT !.fat_size_16 = 4]}

MCInit ==
  /\ boot \in Plain \cup Unmirrored \cup Odd
  /\ extent \in {[start_lba |-> 1, sector_count |-> n] : n \in {12, 13, 31}}
  /\ Start
MCSpec == MCInit /\ [][Next]_vars
=============================================================================
