-------------------------- MODULE MCExFatBootRegion --------------------------
(***************************************************************************)
(* ExFatBootRegion with the format's own sizes, but for a largest 32-bit   *)
(* value scaled down until a volume of a few megabytes meets it.  Either   *)
(* one region has every combination of a range of fields and the others    *)
(* are blank, or each offset has one of a few regions.                     *)
(***************************************************************************)
EXTENDS ExFatBootRegion

MCSectorSizes == {512, 1024, 2048, 4096}
MCClusterSizes == {1, 2, 8, 8192, 65536}

\* A volume of this many bytes, in one sector clusters, that meets every rule.
Whole(sector, bytes) ==
  LET length == bytes \div sector
      fat == DivCeil((length + 2) * 4, sector)
  IN [sector |-> sector, sealed |-> TRUE, branded |-> TRUE, cluster |-> 1, fats |-> 1,
      length |-> length, fatOffset |-> 24, fatLength |-> fat,
      heapOffset |-> 24 + fat, count |-> AtMost(length - 24 - fat, MaxClusterCount),
      root |-> 2, major |-> 1, minor |-> 0, activeFat |-> 0, percent |-> 100]

Blank(sector) == [Whole(512, MinVolumeBytes) EXCEPT !.sector = sector, !.sealed = FALSE]

\* Two FATs, one after the other, and the clusters that are left.
TwoFats(sector, bytes) ==
  LET r == Whole(sector, bytes) IN
  [r EXCEPT !.fats = 2, !.heapOffset = @ + r.fatLength, !.count = @ - r.fatLength]

\* Around the smallest volume and the scaled end of a 32-bit field.
Shapes ==
  {[Whole(512, length * 512) EXCEPT
      !.fatOffset = offset, !.fatLength = fat, !.heapOffset = heap, !.cluster = cluster,
      !.fats = fats, !.count = ((length - heap) \div cluster) + off,
      !.root = IF last THEN ((length - heap) \div cluster) + root ELSE root] :
    length \in {2047, 2048, 2050}, offset \in {23, 24}, fat \in {2, 15, 16},
    heap \in {39, 40, 2032}, cluster \in {1, 8}, fats \in {1, 2}, off \in -1..1,
    root \in {1, 2}, last \in BOOLEAN}

\* More clusters fit than a FAT can describe.
Capped ==
  {[Whole(512, 2200 * 512) EXCEPT !.count = count, !.fatLength = 17, !.heapOffset = 41] :
     count \in {2099, 2100, 2101, 2110}}

Others ==
  {[Whole(512, MinVolumeBytes) EXCEPT !.fats = 0],
   [Whole(512, MinVolumeBytes) EXCEPT !.fats = 3]} \cup
  {[Whole(512, MinVolumeBytes) EXCEPT !.branded = FALSE],
   [Whole(512, MinVolumeBytes) EXCEPT !.cluster = 65536],
   [Whole(512, MinVolumeBytes) EXCEPT !.major = 2],
   [Whole(512, MinVolumeBytes) EXCEPT !.major = 100],
   [Whole(512, MinVolumeBytes) EXCEPT !.minor = 100],
   [Whole(512, MinVolumeBytes) EXCEPT !.activeFat = 1],
   [Whole(512, MinVolumeBytes) EXCEPT !.percent = 101],
   [Whole(512, MinVolumeBytes) EXCEPT !.percent = 255],
   [TwoFats(512, MinVolumeBytes) EXCEPT !.activeFat = 1],
   TwoFats(512, MinVolumeBytes)}

\* One region varies, the others are blank.
OneAt(at, regions) ==
  {[o \in Offsets |-> IF o = at THEN r ELSE Blank(0)] : r \in regions}

\* At the offset of each backup: its own region, one of another size, two FATs,
\* a malformed one or none; at 0 the same or an unusable size.
Some(s) ==
  {Whole(s, MinVolumeBytes), Whole(512, MinVolumeBytes), TwoFats(s, MinVolumeBytes),
   Blank(s), Blank(0)}

Mixed ==
  {[o \in Offsets |->
      IF o = 0 THEN m ELSE IF o = 6144 THEN a ELSE IF o = 12288 THEN b
      ELSE IF o = 24576 THEN c ELSE d] :
     m \in {Whole(512, MinVolumeBytes), TwoFats(4096, MinVolumeBytes), Blank(0),
            Blank(512), Blank(2048), Blank(4096)},
     a \in Some(512), b \in Some(1024), c \in Some(2048), d \in Some(4096)}

\* Partitions around the ends of the regions of each size.
Short == {0, 1} \cup {n * 12 + k : n \in {1, 2, 4, 8, 16}, k \in {-1, 0}}

MCInit ==
  /\ \/ disk \in OneAt(0, Shapes \cup Capped \cup Others) /\ sectors = 2048
     \/ disk \in OneAt(6144, Capped \cup Others) /\ sectors \in {2048, 2200}
     \/ disk \in OneAt(0, Capped) /\ sectors \in {2199, 2200}
     \/ disk \in Mixed /\ sectors = 2048
     \/ disk \in {[o \in Offsets |-> Blank(s)] : s \in Sizes} /\ sectors \in Short
  /\ Start
MCSpec == MCInit /\ [][Next]_vars
=============================================================================
