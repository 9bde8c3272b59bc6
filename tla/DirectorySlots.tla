--------------------------- MODULE DirectorySlots ---------------------------
(***************************************************************************)
(* What the program makes of the slots of a directory, one by one and side *)
(* by side: classify, chksum, recover_first_byte, associate and the slot   *)
(* loop of enumerate in src/fat_directory.rs.                              *)
(*                                                                         *)
(* A byte has ByteSize values, 256 in the code, and a name NameLen bytes,  *)
(* 11 in the code.  `data' stands for the fields of a slot that are kept   *)
(* and not interpreted here: first cluster, size and DIR_NTRes.            *)
(***************************************************************************)
EXTENDS Integers, Sequences, FiniteSets

CONSTANTS
  ByteSize,       \* values of a byte, a power of two
  NameLen,        \* bytes of a name field
  StemLen,        \* of which the stem
  Free,           \* NAME_DELETED, the first byte of a deleted entry
  Escape,         \* NAME_ESCAPED_E5, stored for a name that begins with it
  LastBit,        \* LDIR_ORD_LAST
  Space,          \* the byte that pads a stem and an extension
  Printable,      \* the bytes of printable ASCII
  Data,           \* what else a slot holds
  NoData,         \* all of it zero
  SlotsPerCluster,
  SlotCount       \* slots of the directory's clusters

Byte == 0 .. ByteSize - 1
Slot == 1 .. SlotCount

ASSUME SlotsAssumption ==
  /\ ByteSize \in Nat /\ ByteSize % 2 = 0
  /\ NameLen \in Nat /\ StemLen \in 1 .. NameLen - 1
  /\ Free \in Byte \ {0} /\ Escape \in Byte \ {0, Free} /\ LastBit \in Byte \ {0}
  /\ Space \in Printable /\ Printable \subseteq Byte \ {0, Free, Escape}
  /\ NoData \in Data
  /\ SlotsPerCluster \in Nat \ {0} /\ SlotCount \in Nat

\* NAME_TERMINATOR
Terminator == 0

Attribute == {"read_only", "hidden", "system", "volume_id", "directory", "archive"}

\* ATTR_LONG_NAME: it holds volume_id, so only equality tells the two apart.
LongNameAttribute == {"read_only", "hidden", "system", "volume_id"}

Name == [1 .. NameLen -> Byte]
Surviving == [1 .. NameLen - 1 -> Byte]

\* The 32 bytes of a slot. `sum' is the byte at LDIR_Chksum.
RawSlot == [first : Byte, rest : Surviving, attr : SUBSET Attribute, sum : Byte, data : Data]

Blank == [first |-> 0, rest |-> [k \in 1 .. NameLen - 1 |-> 0], attr |-> {}, sum |-> 0,
          data |-> NoData]

RawName(s) == <<s.first>> \o s.rest

----------------------------------------------------------------------------
(***************************************************************************)
(* Names.                                                                  *)
(***************************************************************************)

\* What is left of a padded field.
TrimTrailingSpaces(bytes) ==
  LET kept == {k \in DOMAIN bytes : \E l \in k .. Len(bytes) : bytes[l] # Space}
  IN SubSeq(bytes, 1, Cardinality(kept))

NoName == <<>>

\* STEM and EXT of a name that can be printed. An escaped first byte stands for
\* one that cannot.
ShortName(raw) ==
  LET stem == TrimTrailingSpaces(SubSeq(raw, 1, StemLen))
      ext == TrimTrailingSpaces(SubSeq(raw, StemLen + 1, NameLen))
  IN IF (\A k \in 1 .. NameLen : raw[k] \in Printable) /\ stem # <<>>
     THEN <<stem, ext>> ELSE NoName

\* Seeded fault: the low bit is shifted out.
ShiftRight(sum) == sum \div 2

\* One bit to the right, around the byte.
Rotate(sum) == (sum % 2) * (ByteSize \div 2) + (sum \div 2)

\* The checksum a long-name component has of its short name.
Chksum(name) ==
  LET sum[n \in 0 .. NameLen] ==
        IF n = 0 THEN 0 ELSE (Rotate(sum[n - 1]) + name[n]) % ByteSize
  IN sum[NameLen]

None == -1

\* Seeded fault: a byte no live entry begins with is handed on.
AnyByte(b) == TRUE

\* 0x00 ends a directory and 0xE5 is stored escaped.
LiveFirstByte(b) == b \notin {Terminator, Free}

\* Every byte is tried; the answer has to be the only one, and a live one.
RecoverFirstByte(surviving, checksum) ==
  LET found == {b \in Byte : Chksum(<<b>> \o surviving) = checksum} IN
  IF \E b \in found : found = {b} /\ LiveFirstByte(b)
  THEN CHOOSE b \in found : TRUE
  ELSE None

----------------------------------------------------------------------------
(***************************************************************************)
(* One slot.                                                               *)
(***************************************************************************)

IsLast(b) == (b \div LastBit) % 2 = 1

\* The branches classify and classify_deleted share, by the attribute.
Shape(attr) ==
  CASE attr = LongNameAttribute -> "LongName"
    [] attr # LongNameAttribute /\ "volume_id" \notin attr -> "ShortName"
    [] attr # LongNameAttribute /\ "volume_id" \in attr ->
         IF "directory" \in attr THEN "Invalid" ELSE "VolumeLabel"

\* What survives the loss of the first byte.
ClassifyDeleted(s) ==
  CASE Shape(s.attr) = "LongName" -> [kind |-> "LongName", checksum |-> s.sum]
    [] Shape(s.attr) = "VolumeLabel" -> [kind |-> "VolumeLabel", surviving |-> s.rest]
    [] Shape(s.attr) = "Invalid" -> [kind |-> "Invalid", attr |-> s.attr]
    [] Shape(s.attr) = "ShortName" ->
         [kind |-> "ShortName", surviving |-> s.rest, directory |-> "directory" \in s.attr,
          data |-> s.data]

ClassifyLive(s) ==
  CASE Shape(s.attr) = "LongName" ->
         [kind |-> "LongName", last |-> IsLast(s.first), checksum |-> s.sum,
          ordinal |-> IF IsLast(s.first) THEN s.first - LastBit ELSE s.first]
    [] Shape(s.attr) = "VolumeLabel" ->
         [kind |-> "VolumeLabel", name |-> ShortName(RawName(s)), raw_name |-> RawName(s)]
    [] Shape(s.attr) = "Invalid" -> [kind |-> "Invalid", attr |-> s.attr]
    [] Shape(s.attr) = "ShortName" ->
         [kind |-> "ShortName", name |-> ShortName(RawName(s)), raw_name |-> RawName(s),
          directory |-> "directory" \in s.attr, data |-> s.data]

\* Seeded fault: the attribute decides before the first byte.
AttributeFirst(s) ==
  s.first = Free /\ Shape(s.attr) # "LongName"

\* The first byte decides deletion before the attribute decides anything.
IsDeleted(s) == s.first = Free

Classify(s) ==
  IF s.first = Terminator THEN [kind |-> "Terminator"]
  ELSE IF IsDeleted(s) THEN [kind |-> "Deleted", was |-> ClassifyDeleted(s)]
  ELSE ClassifyLive(s)

----------------------------------------------------------------------------
(***************************************************************************)
(* The slots of a directory, in the order of its chain.                    *)
(***************************************************************************)

\* The first terminator, or one past the last slot.
End(slots) ==
  CHOOSE e \in 1 .. SlotCount + 1 :
    /\ \A i \in 1 .. e - 1 : Classify(slots[i]).kind # "Terminator"
    /\ e \in Slot => Classify(slots[e]).kind = "Terminator"

EntryOf(slots, i) == [slot |-> i, kind |-> Classify(slots[i])]

Listing(slots) == [i \in 1 .. End(slots) - 1 |-> EntryOf(slots, i)]

ResidueSlots(slots) == {i \in Slot : i > End(slots) /\ slots[i] # Blank}

\* The k-th of some slots: it has k of them up to it.
SlotAt(chosen, k) == CHOOSE i \in chosen : Cardinality({j \in chosen : j <= i}) = k

\* What lies past the terminator, without the slots that hold nothing.
Residue(slots) ==
  [k \in 1 .. Cardinality(ResidueSlots(slots)) |->
     EntryOf(slots, SlotAt(ResidueSlots(slots), k))]

ClusterOf(i) == (i - 1) \div SlotsPerCluster

Observations(slots) ==
  {[kind |-> "NameNotPrintableAscii", slot |-> i] :
     i \in {j \in DOMAIN Listing(slots) :
              /\ Classify(slots[j]).kind \in {"ShortName", "VolumeLabel"}
              /\ Classify(slots[j]).name = NoName}}
  \cup {[kind |-> "InvalidAttribute", slot |-> i] :
          i \in {j \in DOMAIN Listing(slots) : Classify(slots[j]).kind = "Invalid"}}
  \cup {[kind |-> "ContentAfterTerminator", slot |-> i] :
          i \in {j \in ResidueSlots(slots) :
                   \A l \in ResidueSlots(slots) : ClusterOf(l) = ClusterOf(j) => j <= l}}

IsDeletedShort(e) == e.kind.kind = "Deleted" /\ e.kind.was.kind = "ShortName"
IsDeletedComponent(e) == e.kind.kind = "Deleted" /\ e.kind.was.kind = "LongName"

\* The entries associate walks back over: deleted components with one checksum.
Components(entries, index) ==
  {k \in 1 .. index - 1 :
     /\ \A l \in k .. index - 1 : IsDeletedComponent(entries[l])
     /\ \A l \in k .. index - 1 :
          entries[l].kind.was.checksum = entries[index - 1].kind.was.checksum}

\* The first byte of the deleted short entry at index.
Associate(entries, index) ==
  IF Components(entries, index) = {} THEN [kind |-> "Destroyed"]
  ELSE LET byte == RecoverFirstByte(entries[index].kind.was.surviving,
                                    entries[index - 1].kind.was.checksum)
       IN IF byte = None THEN [kind |-> "NotAssociated"]
          ELSE [kind |-> "Recovered", byte |-> byte]

FirstByte ==
  {[kind |-> "Destroyed"], [kind |-> "NotAssociated"]}
    \cup [kind : {"Recovered"}, byte : Byte \ {Terminator, Free}]
=============================================================================
