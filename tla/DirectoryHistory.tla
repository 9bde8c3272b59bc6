-------------------------- MODULE DirectoryHistory --------------------------
(***************************************************************************)
(* A directory as a file system wrote it, and what DirectorySlots makes of *)
(* it at every moment.  The operations are those of a FAT driver, outside  *)
(* this program: it creates entries with and without long names, deletes   *)
(* them by their first byte, uses free slots again, and formats the        *)
(* directory by its terminator alone.                                      *)
(***************************************************************************)
EXTENDS DirectorySlots

CONSTANTS
  Names,        \* the 8.3 names, before an initial 0xE5 is escaped
  MaxParts,     \* bound on the components of a long name
  MaxCreated    \* bound on the entries created

\* No name begins with what would end the directory or with a space, and the
\* first byte of a component is its ordinal, with LastBit when it is the last,
\* which is never the mark of a deleted entry.
ASSUME HistoryAssumption ==
  /\ \A name \in Names : name \in Name /\ name[1] \notin {0, Space}
  /\ MaxParts \in Nat /\ MaxParts < LastBit /\ MaxParts + LastBit < Free
  /\ MaxCreated \in Nat

VARIABLES
  slots,        \* the bytes of the directory
  live,         \* the files it holds: [name, at, parts, data]
  origin,       \* the name the bytes of each slot were written for, or NoName
  created       \* how many files were created

vars == <<slots, live, origin, created>>

Files == [name : Names, at : Slot, parts : 0 .. MaxParts, data : Data]

\* What a lookup through the program gives, for every deleted short entry.
FirstBytes(entries) ==
  {Associate(entries, i) : i \in {j \in DOMAIN entries : IsDeletedShort(entries[j])}}

TypeOK ==
  /\ slots \in [Slot -> RawSlot]
  /\ live \subseteq Files
  /\ origin \in [Slot -> Names \cup {NoName}]
  /\ created \in 0 .. MaxCreated
  /\ FirstBytes(Listing(slots)) \cup FirstBytes(Residue(slots)) \subseteq FirstByte

----------------------------------------------------------------------------

Stored(name) == [name EXCEPT ![1] = IF @ = Free THEN Escape ELSE @]

\* Where the driver stops reading.
DriverEnd ==
  CHOOSE e \in 1 .. SlotCount + 1 :
    /\ \A i \in 1 .. e - 1 : slots[i].first # 0
    /\ e \in Slot => slots[e].first = 0

MayBeUsed(i) == i >= DriverEnd \/ slots[i].first = Free

Component(name, ordinal, last) ==
  [first |-> IF last THEN ordinal + LastBit ELSE ordinal,
   rest |-> [k \in 1 .. NameLen - 1 |-> Space],
   attr |-> LongNameAttribute, sum |-> Chksum(Stored(name)), data |-> NoData]

ShortEntry(name, data) ==
  [first |-> Stored(name)[1], rest |-> Tail(Stored(name)), attr |-> {"archive"}, sum |-> 0,
   data |-> data]

\* The components come first, the last of them first, and then the short entry.
Written(name, parts, data, at, i) ==
  IF i = at THEN ShortEntry(name, data)
  ELSE Component(name, at - i, at - i = parts)

\* Past the old end a new one has to be written.
Create(name, parts, data) ==
  /\ created < MaxCreated
  /\ \A f \in live : f.name # name
  /\ \E at \in Slot :
       LET run == at - parts .. at IN
       /\ run \subseteq Slot
       /\ at - parts <= DriverEnd
       /\ \A i \in run : MayBeUsed(i)
       /\ slots' = [i \in Slot |->
                      IF i \in run THEN Written(name, parts, data, at, i)
                      ELSE IF i = at + 1 /\ i > DriverEnd THEN Blank
                      ELSE slots[i]]
       /\ origin' = [i \in Slot |->
                       IF i \in run THEN name
                       ELSE IF i = at + 1 /\ i > DriverEnd THEN NoName
                       ELSE origin[i]]
       /\ live' = live \cup {[name |-> name, at |-> at, parts |-> parts, data |-> data]}
  /\ created' = created + 1

Delete(f) ==
  /\ slots' = [i \in Slot |->
                 IF i \in f.at - f.parts .. f.at THEN [slots[i] EXCEPT !.first = Free]
                 ELSE slots[i]]
  /\ live' = live \ {f}
  /\ UNCHANGED <<origin, created>>

\* A formatter that writes the terminator and clears nothing after it.
Format ==
  /\ slots' = [slots EXCEPT ![1] = Blank]
  /\ origin' = [origin EXCEPT ![1] = NoName]
  /\ live' = {}
  /\ UNCHANGED created

Init ==
  /\ slots = [i \in Slot |-> Blank]
  /\ live = {}
  /\ origin = [i \in Slot |-> NoName]
  /\ created = 0

Next ==
  \/ \E name \in Names, parts \in 0 .. MaxParts, data \in Data \ {NoData} :
       Create(name, parts, data)
  \/ \E f \in live : Delete(f)
  \/ Format

Spec == Init /\ [][Next]_vars

----------------------------------------------------------------------------
(***************************************************************************)
(* Properties.                                                             *)
(***************************************************************************)

ObservedAt(kind) == {o.slot : o \in {p \in Observations(slots) : p.kind = kind}}

\* The listing is the directory: its live short entries are the files there are,
\* each with its name as stored and whatever it holds, each after the components
\* of its own long name in their order, and no component is left over.  A name is
\* reported as unprintable exactly where a file has one, and content past the
\* terminator exactly in the clusters that hold what the driver left there.
ListingIsTheDirectory ==
  LET entries == Listing(slots)
      kindAt(i) == entries[i].kind
      at(kind) == {i \in DOMAIN entries : entries[i].kind.kind = kind}
  IN /\ {<<i, kindAt(i).raw_name, kindAt(i).data>> : i \in at("ShortName")}
          = {<<f.at, Stored(f.name), f.data>> : f \in live}
     /\ at("LongName") = UNION {f.at - f.parts .. f.at - 1 : f \in live}
     /\ \A f \in live : \A i \in f.at - f.parts .. f.at - 1 :
          kindAt(i) = [kind |-> "LongName", last |-> i = f.at - f.parts,
                       checksum |-> Chksum(Stored(f.name)), ordinal |-> f.at - i]
     /\ ObservedAt("NameNotPrintableAscii")
          = {f.at : f \in {g \in live : \E k \in 1 .. NameLen : g.name[k] \notin Printable}}
     /\ {ClusterOf(i) : i \in ObservedAt("ContentAfterTerminator")}
          = {ClusterOf(i) : i \in {j \in Slot : j > DriverEnd /\ origin[j] # NoName}}

\* The name the entry at this index of entries was written for.
NameOf(entries, i) == origin[entries[i].slot]

\* A first byte is stated as recovered, and is the right one, whenever the slot
\* before a deleted entry is a deleted component of the same name.  So an entry
\* that is said to be not associated has another file's component before it.
FirstByteIsEvidence ==
  \A entries \in {Listing(slots), Residue(slots)} :
    \A i \in DOMAIN entries :
      IsDeletedShort(entries[i]) /\ i > 1 /\ IsDeletedComponent(entries[i - 1])
        /\ NameOf(entries, i - 1) = NameOf(entries, i)
      => Associate(entries, i) =
           [kind |-> "Recovered", byte |-> Stored(NameOf(entries, i))[1]]

\* The components a deleted entry is associated with are in the slots right
\* before it: n-1, n-2 and so on.
AssociatesByPosition ==
  \A entries \in {Listing(slots), Residue(slots)} :
    \A i \in DOMAIN entries :
      IsDeletedShort(entries[i]) =>
        \A k \in Components(entries, i) : entries[k].slot = entries[i].slot - (i - k)
=============================================================================
