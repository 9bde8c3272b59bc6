--------------------------- MODULE DirectoryProofs ---------------------------
(***************************************************************************)
(* Theorems about DirectoryHistory and the DirectorySlots it reads, for    *)
(* every size of a byte, a name and a directory.                           *)
(***************************************************************************)
EXTENDS DirectoryHistory, FiniteSetTheorems, SequenceTheorems, WellFoundedInduction, TLAPS

----------------------------------------------------------------------------
(***************************************************************************)
(* Numbers.                                                                *)
(***************************************************************************)

\* Among some numbers one is the least.
LEMMA LeastNat ==
  ASSUME NEW T, T \subseteq Nat, T # {}
  PROVE  \E m \in T : \A n \in T : m <= n
<1> DEFINE R == {ss \in Nat \X Nat : ss[1] < ss[2]}
<1>1. IsWellFoundedOn(R, Nat)
  BY NatLessThanWellFounded DEF OpToRel
<1> HIDE DEF R
<1>2. PICK m \in T : \A n \in T : <<n, m>> \notin R
  BY <1>1, WFMin
<1>3. ASSUME NEW n \in T PROVE m <= n
  <2>1. n \in Nat /\ m \in Nat
    BY ONLY T \subseteq Nat, m \in T, n \in T
  <2>2. <<n, m>> \notin R
    BY <1>2, <1>3
  <2>3. ~(n < m)
    <3> SUFFICES ASSUME n < m PROVE <<n, m>> \in R
      BY <2>2
    <3>1. <<n, m>>[1] = n /\ <<n, m>>[2] = m
      OBVIOUS
    <3>2. <<n, m>> \in Nat \X Nat
      BY <2>1
    <3> QED
      BY <3>1, <3>2 DEF R
  <2> QED
    BY ONLY <2>1, <2>3
<1> QED
  BY <1>3

\* Induction, for a set in place of a predicate.
LEMMA SetInduction ==
  ASSUME NEW S, 0 \in S, \A n \in Nat : n \in S => n + 1 \in S
  PROVE  Nat \subseteq S
<1> DEFINE T == Nat \ S
<1> SUFFICES ASSUME T # {} PROVE FALSE
  OBVIOUS
<1>1. PICK m \in T : \A n \in T : m <= n
  <2> T \subseteq Nat
    OBVIOUS
  <2> HIDE DEF T
  <2> QED
    BY LeastNat
<1>2. m # 0 /\ m - 1 \in Nat
  BY <1>1
<1>3. m - 1 \in S
  BY <1>1, <1>2
<1>4. m - 1 + 1 \in S
  BY <1>2, <1>3
<1> QED
  BY <1>1, <1>2, <1>4

LEMMA SmallRemainder ==
  ASSUME NEW x \in Nat, NEW b \in Nat, x < b
  PROVE  x % b = x
OBVIOUS

LEMMA OnceAround ==
  ASSUME NEW x \in Nat, NEW b \in Nat, b # 0, b <= x, x < b + b
  PROVE  x % b = x - b
OBVIOUS

\* A sum of two bytes, as a byte.
LEMMA Wrapped ==
  ASSUME NEW x \in Nat, NEW v \in Nat, NEW b \in Nat, x < b, v < b
  PROVE  (x + v) % b = IF x + v < b THEN x + v ELSE x + v - b
<1>1. CASE x + v < b
  BY <1>1, SmallRemainder
<1>2. CASE ~(x + v < b)
  <2>1. b <= x + v /\ x + v < b + b /\ b # 0 /\ x + v \in Nat
    BY <1>2
  <2> QED
    BY <1>2, <2>1, OnceAround
<1> QED
  BY <1>1, <1>2

LEMMA SumsDiffer ==
  ASSUME NEW x \in Nat, NEW y \in Nat, NEW v \in Nat, NEW b \in Nat, x < b, y < b, v < b,
         (IF x + v < b THEN x + v ELSE x + v - b) = (IF y + v < b THEN y + v ELSE y + v - b)
  PROVE  x = y
OBVIOUS

\* The same byte added, what was added to is told by the sum.
LEMMA SumInjective ==
  ASSUME NEW x \in Nat, NEW y \in Nat, NEW v \in Nat, NEW b \in Nat, x < b, y < b, v < b,
         (x + v) % b = (y + v) % b
  PROVE  x = y
BY Wrapped, SumsDiffer

LEMMA ByteSumTells ==
  ASSUME NEW x \in Byte, NEW y \in Byte, NEW v \in Byte,
         (x + v) % ByteSize = (y + v) % ByteSize
  PROVE  x = y
<1>1. ByteSize \in Nat
  BY SlotsAssumption
<1>2. /\ x \in Nat /\ x < ByteSize /\ y \in Nat /\ y < ByteSize
      /\ v \in Nat /\ v < ByteSize
  BY <1>1 DEF Byte
<1> QED
  BY <1>1, <1>2, SumInjective

\* Halves of bytes, and the bit that goes around.
LEMMA RotateNumber ==
  ASSUME NEW x \in Nat, NEW h \in Nat, x < 2 * h
  PROVE  (x % 2) * h + (x \div 2) \in Nat /\ (x % 2) * h + (x \div 2) < 2 * h
OBVIOUS

LEMMA RotateTells ==
  ASSUME NEW x \in Nat, NEW y \in Nat, NEW h \in Nat, x < 2 * h, y < 2 * h,
         (x % 2) * h + (x \div 2) = (y % 2) * h + (y \div 2)
  PROVE  x = y
OBVIOUS

LEMMA Halves == /\ ByteSize \div 2 \in Nat
                /\ ByteSize = 2 * (ByteSize \div 2)
BY SlotsAssumption

\* To rotate a byte loses nothing of it.
LEMMA RotateInjective ==
  ASSUME NEW x \in Byte, NEW y \in Byte
  PROVE  /\ Rotate(x) \in Byte
         /\ Rotate(x) = Rotate(y) => x = y
<1>1. ByteSize \in Nat
  BY SlotsAssumption
<1>2. /\ x \in Nat /\ x < 2 * (ByteSize \div 2)
      /\ y \in Nat /\ y < 2 * (ByteSize \div 2)
  BY <1>1, Halves DEF Byte
<1>3. Rotate(x) \in Nat /\ Rotate(x) < ByteSize
  BY <1>2, Halves, RotateNumber DEF Rotate
<1>4. Rotate(x) = Rotate(y) => x = y
  BY <1>2, Halves, RotateTells DEF Rotate
<1> QED
  BY <1>1, <1>3, <1>4 DEF Byte

----------------------------------------------------------------------------
(***************************************************************************)
(* The checksum.                                                           *)
(***************************************************************************)

SumAt(name, sum, n) == IF n = 0 THEN 0 ELSE (Rotate(sum[n - 1]) + name[n]) % ByteSize

\* The running sums of chksum, by the bytes summed up.
Sums(name) == CHOOSE sum : sum = [n \in 0 .. NameLen |-> SumAt(name, sum, n)]

LEMMA ChksumIs ==
  ASSUME NEW name
  PROVE  Chksum(name) = Sums(name)[NameLen]
BY DEF Chksum, Sums, SumAt

\* There are such sums.
LEMMA SumsExist ==
  ASSUME NEW name
  PROVE  Sums(name) = [n \in 0 .. NameLen |-> SumAt(name, Sums(name), n)]
<1> DEFINE S == {n \in Nat : \E sum : sum = [k \in 0 .. n |-> SumAt(name, sum, k)]}
<1>1. 0 \in S
  <2> DEFINE sum == [k \in 0 .. 0 |-> 0]
  <2>1. sum = [k \in 0 .. 0 |-> SumAt(name, sum, k)]
    BY DEF SumAt
  <2> QED
    BY <2>1
<1>2. ASSUME NEW n \in Nat, n \in S PROVE n + 1 \in S
  <2>1. PICK sum : sum = [k \in 0 .. n |-> SumAt(name, sum, k)]
    BY <1>2
  <2> DEFINE more == [k \in 0 .. n + 1 |-> IF k = n + 1 THEN SumAt(name, sum, n + 1) ELSE sum[k]]
  <2>2. ASSUME NEW k \in 0 .. n + 1 PROVE more[k] = SumAt(name, more, k)
    <3>1. CASE k = 0
      <4>1. k # n + 1 /\ k \in 0 .. n
        BY <3>1
      <4>2. more[k] = sum[k] /\ sum[k] = SumAt(name, sum, k)
        BY <2>1, <4>1
      <4> QED
        BY <3>1, <4>2 DEF SumAt
    <3>2. CASE k # 0
      <4>1. k - 1 \in 0 .. n /\ k - 1 \in 0 .. n + 1 /\ k - 1 # n + 1
        BY <3>2
      <4>2. more[k - 1] = sum[k - 1]
        BY <4>1
      <4>3. SumAt(name, more, k) = SumAt(name, sum, k)
        BY <3>2, <4>2 DEF SumAt
      <4>4. CASE k = n + 1
        BY <4>3, <4>4
      <4>5. CASE k # n + 1
        <5>1. k \in 0 .. n
          BY <4>5
        <5>2. more[k] = sum[k] /\ sum[k] = SumAt(name, sum, k)
          BY <2>1, <4>5, <5>1
        <5> QED
          BY <4>3, <5>2
      <4> QED
        BY <4>4, <4>5
    <3> QED
      BY <3>1, <3>2
  <2>3. more = [k \in 0 .. n + 1 |-> SumAt(name, more, k)]
    BY <2>2
  <2> HIDE DEF more
  <2>4. \E s : s = [k \in 0 .. n + 1 |-> SumAt(name, s, k)]
    BY <2>3
  <2> QED
    BY <2>4
<1> HIDE DEF S
<1>3. NameLen \in S
  BY <1>1, <1>2, SetInduction, SlotsAssumption
<1>4. \E sum : sum = [n \in 0 .. NameLen |-> SumAt(name, sum, n)]
  BY <1>3 DEF S
<1> QED
  BY <1>4 DEF Sums

\* They are bytes.
LEMMA SumsAreBytes ==
  ASSUME NEW name \in Name
  PROVE  /\ \A n \in 0 .. NameLen : Sums(name)[n] \in Byte
         /\ Chksum(name) \in Byte
<1>0. NameLen \in Nat /\ NameLen > 0 /\ ByteSize \in Nat
  BY SlotsAssumption
<1> DEFINE sum == Sums(name)
           S == {n \in Nat : n <= NameLen => sum[n] \in Byte}
<1>1. \A n \in 0 .. NameLen : sum[n] = SumAt(name, sum, n)
  BY SumsExist
<1>2. 0 \in Byte
  BY SlotsAssumption DEF Byte
<1> HIDE DEF sum
<1>3. 0 \in S
  BY <1>0, <1>1, <1>2 DEF SumAt
<1>4. ASSUME NEW n \in Nat, n \in S PROVE n + 1 \in S
  <2> SUFFICES ASSUME n + 1 <= NameLen PROVE sum[n + 1] \in Byte
    OBVIOUS
  <2>1. n <= NameLen /\ n + 1 \in 1 .. NameLen /\ n + 1 # 0 /\ n + 1 - 1 = n
    BY <1>0
  <2>2. sum[n] \in Byte
    BY <1>4, <2>1
  <2>3. name[n + 1] \in Byte
    BY <2>1 DEF Name
  <2>4. sum[n + 1] = (Rotate(sum[n]) + name[n + 1]) % ByteSize
    BY <1>0, <1>1, <2>1 DEF SumAt
  <2>5. Rotate(sum[n]) \in Byte
    BY <2>2, RotateInjective
  <2>6. \A a, b \in Byte : (a + b) % ByteSize \in Byte
    BY <1>0, <1>2 DEF Byte
  <2> QED
    BY <2>3, <2>4, <2>5, <2>6
<1> HIDE DEF S
<1>5. Nat \subseteq S
  BY <1>3, <1>4, SetInduction
<1>6. \A n \in 0 .. NameLen : sum[n] \in Byte
  BY <1>0, <1>5 DEF S
<1> QED
  BY <1>0, <1>6, ChksumIs DEF sum

\* Two names with one checksum that differ in the first byte at most are one.
LEMMA ChksumTellsFirst ==
  ASSUME NEW a \in Name, NEW b \in Name, \A k \in 2 .. NameLen : a[k] = b[k],
         Chksum(a) = Chksum(b)
  PROVE  a[1] = b[1]
<1>0. NameLen \in Nat /\ NameLen > 1 /\ ByteSize \in Nat
  BY SlotsAssumption
<1> DEFINE p == Sums(a)
           q == Sums(b)
           S == {n \in Nat : n + 1 <= NameLen /\ p[n + 1] = q[n + 1] => p[1] = q[1]}
<1>1. /\ \A n \in 0 .. NameLen : p[n] = SumAt(a, p, n) /\ q[n] = SumAt(b, q, n)
      /\ \A n \in 0 .. NameLen : p[n] \in Byte /\ q[n] \in Byte
  BY SumsExist, SumsAreBytes
<1>2. p[NameLen] = q[NameLen]
  BY ChksumIs
<1> HIDE DEF p, q
<1>3. 0 \in S
  OBVIOUS
<1>4. ASSUME NEW n \in Nat, n \in S PROVE n + 1 \in S
  <2> SUFFICES ASSUME n + 1 + 1 <= NameLen, p[n + 1 + 1] = q[n + 1 + 1] PROVE p[1] = q[1]
    OBVIOUS
  <2>1. /\ n + 1 <= NameLen /\ n + 1 \in 0 .. NameLen
        /\ n + 1 + 1 \in 2 .. NameLen /\ n + 1 + 1 \in 0 .. NameLen /\ n + 1 + 1 # 0
        /\ n + 1 + 1 - 1 = n + 1 /\ n + 1 + 1 \in 1 .. NameLen
    BY <1>0
  <2> DEFINE v == a[n + 1 + 1]
  <2>2. v \in Byte /\ b[n + 1 + 1] = v
    BY <2>1 DEF Name
  <2>3. /\ p[n + 1 + 1] = (Rotate(p[n + 1]) + v) % ByteSize
        /\ q[n + 1 + 1] = (Rotate(q[n + 1]) + v) % ByteSize
    BY <1>1, <2>1, <2>2 DEF SumAt
  <2>4. p[n + 1] \in Byte /\ q[n + 1] \in Byte
    BY <1>1, <2>1
  <2>5. Rotate(p[n + 1]) \in Byte /\ Rotate(q[n + 1]) \in Byte
    BY <2>4, RotateInjective
  <2> DEFINE x == Rotate(p[n + 1])
             y == Rotate(q[n + 1])
  <2>6. (x + v) % ByteSize = (y + v) % ByteSize
    BY ONLY <2>3, p[n + 1 + 1] = q[n + 1 + 1]
  <2>7. x = y
    <3> HIDE DEF x, y, v
    <3> QED
      BY ONLY <2>2, <2>5, <2>6, ByteSumTells DEF x, y
  <2>8. p[n + 1] = q[n + 1]
    BY <2>4, <2>7, RotateInjective
  <2> QED
    BY <1>4, <2>1, <2>8
<1> HIDE DEF S
<1>5. Nat \subseteq S
  BY <1>3, <1>4, SetInduction
<1>6. p[1] = q[1]
  <2>1. NameLen - 1 \in S /\ NameLen - 1 + 1 = NameLen
    BY <1>0, <1>5
  <2> QED
    BY <1>0, <1>2, <2>1 DEF S
<1>7. ASSUME NEW c \in Name PROVE SumAt(c, Sums(c), 1) = c[1]
  <2>1. Sums(c)[0] = 0
    BY <1>0, SumsExist DEF SumAt
  <2>2. Rotate(0) = 0
    <3>1. 0 % 2 = 0 /\ 0 \div 2 = 0
      OBVIOUS
    <3>2. 0 * (ByteSize \div 2) + 0 = 0
      BY Halves
    <3> QED
      BY ONLY <3>1, <3>2 DEF Rotate
  <2>3. c[1] \in Byte
    BY <1>0 DEF Name
  <2>4. (0 + c[1]) % ByteSize = c[1]
    <3>1. c[1] \in Nat /\ c[1] < ByteSize /\ 0 + c[1] = c[1]
      BY <1>0, <2>3 DEF Byte
    <3> QED
      BY <1>0, <3>1, SmallRemainder
  <2> QED
    BY <2>1, <2>2, <2>4 DEF SumAt
<1>8. p[1] = a[1] /\ q[1] = b[1]
  BY <1>0, <1>1, <1>7 DEF p, q
<1> QED
  BY <1>6, <1>8

----------------------------------------------------------------------------
(***************************************************************************)
(* Names and first bytes.                                                  *)
(***************************************************************************)

LEMMA SameFunction ==
  ASSUME NEW S, NEW T, NEW f \in [S -> T], NEW g \in [S -> T], \A k \in S : f[k] = g[k]
  PROVE  f = g
OBVIOUS

LEMMA NameIsSeq ==
  ASSUME NEW s \in Name
  PROVE  s \in Seq(Byte) /\ Len(s) = NameLen /\ s[1] \in Byte
<1>1. NameLen \in Nat /\ NameLen > 1
  BY SlotsAssumption
<1>2. s \in [1 .. NameLen -> Byte]
  BY DEF Name
<1>3. s \in Seq(Byte)
  BY ONLY <1>1, <1>2, SeqDef
<1> QED
  BY ONLY <1>1, <1>2, <1>3

\* A first byte before what survives of a name.
LEMMA Joined ==
  ASSUME NEW b \in Byte, NEW rest \in Surviving
  PROVE  LET s == <<b>> \o rest IN
         s \in Name /\ s[1] = b /\ \A k \in 2 .. NameLen : s[k] = rest[k - 1]
<1>1. NameLen \in Nat /\ NameLen > 1 /\ NameLen - 1 \in Nat
  BY SlotsAssumption
<1>2. rest \in [1 .. NameLen - 1 -> Byte]
  BY DEF Surviving
<1>3. rest \in Seq(Byte) /\ Len(rest) = NameLen - 1
  BY ONLY <1>1, <1>2, SeqDef
<1>4. <<b>> \in Seq(Byte) /\ Len(<<b>>) = 1 /\ <<b>>[1] = b
  OBVIOUS
<1> DEFINE s == <<b>> \o rest
<1>5. /\ s \in Seq(Byte) /\ Len(s) = 1 + (NameLen - 1)
      /\ \A k \in 1 .. 1 + (NameLen - 1) :
           s[k] = IF k <= 1 THEN <<b>>[k] ELSE rest[k - 1]
  BY ONLY <1>3, <1>4, ConcatProperties
<1>6. 1 + (NameLen - 1) = NameLen
  BY ONLY <1>1
<1> HIDE DEF s
<1>7. s \in [1 .. NameLen -> Byte]
  BY ONLY <1>5, <1>6
<1>8. s[1] = b
  BY ONLY <1>1, <1>4, <1>5, <1>6
<1>9. \A k \in 2 .. NameLen : s[k] = rest[k - 1]
  BY ONLY <1>1, <1>5, <1>6
<1> QED
  BY <1>7, <1>8, <1>9 DEF s, Name

\* What survives of a name, and the whole of it again.
LEMMA TailOfName ==
  ASSUME NEW s \in Name
  PROVE  /\ Tail(s) \in Surviving
         /\ \A k \in 2 .. NameLen : Tail(s)[k - 1] = s[k]
         /\ <<s[1]>> \o Tail(s) = s
<1>1. NameLen \in Nat /\ NameLen > 1
  BY SlotsAssumption
<1>2. s \in Seq(Byte) /\ Len(s) = NameLen /\ s[1] \in Byte
  BY NameIsSeq
<1>3. s # <<>>
  BY <1>1, <1>2
<1>4. /\ Tail(s) \in Seq(Byte) /\ Len(Tail(s)) = NameLen - 1
      /\ \A k \in 1 .. NameLen - 1 : Tail(s)[k] = s[k + 1]
  BY ONLY <1>1, <1>2, <1>3, HeadTailProperties
<1>5. Tail(s) \in Surviving
  <2>1. PICK rest : rest = Tail(s)
    OBVIOUS
  <2>2. rest \in Seq(Byte) /\ Len(rest) = NameLen - 1
    BY <1>4, <2>1
  <2>3. rest \in [1 .. NameLen - 1 -> Byte]
    BY ONLY <2>2
  <2> QED
    BY <2>1, <2>3 DEF Surviving
<1>6. \A k \in 2 .. NameLen : Tail(s)[k - 1] = s[k]
  <2> TAKE k \in 2 .. NameLen
  <2>1. k - 1 \in 1 .. NameLen - 1 /\ k - 1 + 1 = k
    BY <1>1
  <2> QED
    BY <1>4, <2>1
<1>7. <<s[1]>> \o Tail(s) = s
  <2>0. PICK t : t = <<s[1]>> \o Tail(s)
    OBVIOUS
  <2>1. t \in Name /\ t[1] = s[1] /\ \A k \in 2 .. NameLen : t[k] = Tail(s)[k - 1]
    BY <1>2, <1>5, <2>0, Joined
  <2>2. ASSUME NEW k \in 1 .. NameLen PROVE t[k] = s[k]
    <3>1. CASE k = 1
      BY <2>1, <3>1
    <3>2. CASE k # 1
      <4>1. k \in 2 .. NameLen
        BY <1>1, <3>2
      <4> QED
        BY <1>6, <2>1, <4>1
    <3> QED
      BY <3>1, <3>2
  <2>3. t = s
    <3>1. PICK places : places = 1 .. NameLen
      OBVIOUS
    <3>2. t \in [places -> Byte] /\ s \in [places -> Byte]
      BY <2>1, <3>1 DEF Name
    <3>3. \A k \in places : t[k] = s[k]
      BY <2>2, <3>1
    <3> QED
      BY ONLY <3>2, <3>3, SameFunction
  <2> QED
    BY <2>0, <2>3
<1> QED
  BY <1>5, <1>6, <1>7

\* As stored, no name begins with the mark of a deleted entry or of the end.
LEMMA StoredName ==
  ASSUME NEW name \in Names
  PROVE  /\ Stored(name) \in Name
         /\ Stored(name)[1] \notin {0, Free, Space}
         /\ Stored(name)[1] \in Printable <=> name[1] \in Printable
         /\ \A k \in 2 .. NameLen : Stored(name)[k] = name[k]
<1>1. name \in [1 .. NameLen -> Byte] /\ name[1] \notin {0, Space}
  BY HistoryAssumption DEF Name
<1>2. NameLen \in Nat /\ NameLen > 1
  BY SlotsAssumption
<1>3. /\ Escape \in Byte /\ Escape # 0 /\ Escape # Free /\ Escape # Space
      /\ Free \notin Printable /\ Escape \notin Printable
  BY SlotsAssumption
<1>4. Stored(name) = [name EXCEPT ![1] = IF name[1] = Free THEN Escape ELSE name[1]]
  BY DEF Stored
<1>5. Stored(name)[1] = IF name[1] = Free THEN Escape ELSE name[1]
  BY <1>1, <1>2, <1>4
<1>6. Stored(name) \in [1 .. NameLen -> Byte]
  BY ONLY <1>1, <1>2, <1>3, <1>4
<1>7. \A k \in 2 .. NameLen : Stored(name)[k] = name[k]
  BY ONLY <1>1, <1>2, <1>4
<1> QED
  BY <1>1, <1>3, <1>5, <1>6, <1>7 DEF Name

\* recover_first_byte gives a byte a live entry can begin with, or none.
LEMMA RecoveredIsLive ==
  ASSUME NEW surviving, NEW checksum
  PROVE  RecoverFirstByte(surviving, checksum) \in (Byte \ {Terminator, Free}) \cup {None}
<1> DEFINE found == {b \in Byte : Chksum(<<b>> \o surviving) = checksum}
<1>1. ASSUME NEW b \in found, found = {b}, LiveFirstByte(b)
      PROVE  (CHOOSE x \in found : TRUE) = b
  BY <1>1
<1> QED
  BY <1>1 DEF RecoverFirstByte, LiveFirstByte

\* A name is recovered from all of it but the first byte and the checksum.
LEMMA RecoveredIsRight ==
  ASSUME NEW s \in Name, LiveFirstByte(s[1])
  PROVE  RecoverFirstByte(Tail(s), Chksum(s)) = s[1]
<1> DEFINE found == {b \in Byte : Chksum(<<b>> \o Tail(s)) = Chksum(s)}
<1>1. s[1] \in found
  BY NameIsSeq, TailOfName
<1>2. ASSUME NEW b \in found PROVE b = s[1]
  <2>1. Tail(s) \in Surviving /\ \A k \in 2 .. NameLen : Tail(s)[k - 1] = s[k]
    BY TailOfName
  <2>2. PICK t : t = <<b>> \o Tail(s)
    OBVIOUS
  <2>3. t \in Name /\ t[1] = b /\ \A k \in 2 .. NameLen : t[k] = Tail(s)[k - 1]
    BY <2>1, <2>2, Joined
  <2>4. Chksum(t) = Chksum(s) /\ \A k \in 2 .. NameLen : t[k] = s[k]
    BY <2>1, <2>2, <2>3
  <2>5. t[1] = s[1]
    BY <2>3, <2>4, ChksumTellsFirst
  <2> QED
    BY <2>3, <2>5
<1>3. found = {s[1]}
  BY <1>1, <1>2
<1> HIDE DEF found
<1>4. (CHOOSE x \in found : TRUE) = s[1]
  BY <1>3
<1> QED
  BY <1>3, <1>4 DEF RecoverFirstByte, found

\* ADR-0007 C.2 and the comment of recover_first_byte: whatever bytes survive and
\* whatever the checksum, exactly one first byte reproduces it.  The code tries
\* all of them and does not rely on this.
THEOREM ExactlyOneFirstByte ==
  ASSUME NEW surviving \in Surviving, NEW checksum \in Byte
  PROVE  \E b \in Byte : {c \in Byte : Chksum(<<c>> \o surviving) = checksum} = {b}
<1> DEFINE F == [b \in Byte |-> Chksum(<<b>> \o surviving)]
<1>1. ByteSize \in Nat /\ Byte = 0 .. ByteSize - 1
  BY SlotsAssumption DEF Byte
<1>2. IsFiniteSet(Byte)
  BY ONLY <1>1, FS_Interval
<1>3. \A b \in Byte : F[b] = Chksum(<<b>> \o surviving) /\ F[b] \in Byte
  BY Joined, SumsAreBytes
<1>4. F \in [Byte -> Byte]
  BY <1>3
<1>5. ASSUME NEW b \in Byte, NEW c \in Byte, F[b] = F[c] PROVE b = c
  <2> DEFINE s == <<b>> \o surviving
             t == <<c>> \o surviving
  <2>1. s \in Name /\ s[1] = b /\ \A k \in 2 .. NameLen : s[k] = surviving[k - 1]
    BY Joined
  <2>2. t \in Name /\ t[1] = c /\ \A k \in 2 .. NameLen : t[k] = surviving[k - 1]
    BY Joined
  <2>3. Chksum(s) = Chksum(t)
    BY <1>3, <1>5
  <2> HIDE DEF s, t
  <2>4. s[1] = t[1]
    BY <2>1, <2>2, <2>3, ChksumTellsFirst
  <2> QED
    BY <2>1, <2>2, <2>4
<1> HIDE DEF F
<1>6. F \in Injection(Byte, Byte)
  BY ONLY <1>4, <1>5 DEF Injection, IsInjective
<1>7. F \in Surjection(Byte, Byte)
  BY ONLY <1>2, <1>6, FS_Injection
<1>8. PICK b \in Byte : F[b] = checksum
  BY <1>7 DEF Surjection
<1>9. {c \in Byte : Chksum(<<c>> \o surviving) = checksum} = {b}
  BY <1>3, <1>5, <1>8
<1> QED
  BY <1>9

\* When no byte is given, that is proof: no live name that ends in these bytes has
\* that checksum.  When one is given, it is the first byte of the only one.
THEOREM NoByteIsProof ==
  ASSUME NEW surviving \in Surviving, NEW checksum \in Byte
  PROVE  LET byte == RecoverFirstByte(surviving, checksum)
             fits(b) == LiveFirstByte(b) /\ Chksum(<<b>> \o surviving) = checksum
         IN /\ byte = None => \A b \in Byte : ~fits(b)
            /\ byte # None => {b \in Byte : fits(b)} = {byte}
<1> DEFINE found == {b \in Byte : Chksum(<<b>> \o surviving) = checksum}
           byte == RecoverFirstByte(surviving, checksum)
<1>1. PICK b \in Byte : found = {b}
  BY ExactlyOneFirstByte
<1>2. byte = IF \E c \in found : found = {c} /\ LiveFirstByte(c)
             THEN CHOOSE c \in found : TRUE ELSE None
  BY DEF RecoverFirstByte
<1>3. b # None
  BY SlotsAssumption DEF Byte, None
<1>4. \A c \in Byte : Chksum(<<c>> \o surviving) = checksum <=> c = b
  BY <1>1
<1> HIDE DEF found
<1>5. byte = IF LiveFirstByte(b) THEN b ELSE None
  BY <1>1, <1>2
<1> HIDE DEF byte
<1>6. CASE LiveFirstByte(b)
  BY <1>3, <1>4, <1>5, <1>6 DEF byte
<1>7. CASE ~LiveFirstByte(b)
  BY <1>4, <1>5, <1>7 DEF byte
<1> QED
  BY <1>6, <1>7

----------------------------------------------------------------------------
(***************************************************************************)
(* What a driver writes, and what is made of it.                           *)
(***************************************************************************)

\* A slot written for a name, whether it was deleted since or not.
WrittenFor(s, name) ==
  /\ s.first # 0
  /\ \/ s.attr = LongNameAttribute /\ s.sum = Chksum(Stored(name))
     \/ s.attr = {"archive"} /\ s.rest = Tail(Stored(name))

LEMMA Shapes ==
  /\ Shape(LongNameAttribute) = "LongName"
  /\ Shape({"archive"}) = "ShortName"
  /\ LongNameAttribute \subseteq Attribute /\ {"archive"} \subseteq Attribute
  /\ LongNameAttribute # {"archive"}
<1>1. "archive" \notin LongNameAttribute /\ "volume_id" \notin {"archive"}
  BY DEF LongNameAttribute
<1>2. LongNameAttribute # {"archive"}
  BY <1>1
<1> QED
  BY <1>1, <1>2 DEF Shape, LongNameAttribute, Attribute

LEMMA Sizes ==
  /\ Slot \subseteq Nat /\ SlotCount \in Nat /\ NameLen \in Nat /\ NameLen > 1
  /\ 0 \in Byte /\ Free \in Byte /\ Free # 0
  /\ ByteSize \in Nat /\ MaxParts \in Nat /\ LastBit \in Nat /\ LastBit # 0
  /\ MaxParts < LastBit /\ MaxParts + LastBit < Free /\ Free < ByteSize
BY SlotsAssumption, HistoryAssumption DEF Byte, Slot

LEMMA DivisionOnce ==
  ASSUME NEW x \in Nat, NEW b \in Nat, b # 0, x < b
  PROVE  x \div b = 0 /\ (x + b) \div b = 1
OBVIOUS

\* The first byte of a component is its ordinal and whether it is the last.
LEMMA Ordinals ==
  ASSUME NEW o \in 1 .. MaxParts
  PROVE  /\ {o, o + LastBit} \subseteq Byte \ {0, Free}
         /\ ~IsLast(o) /\ IsLast(o + LastBit)
         /\ o + LastBit - LastBit = o
<1>1. /\ o \in Nat /\ o < LastBit /\ LastBit \in Nat /\ LastBit # 0
      /\ o # 0 /\ o + LastBit < Free /\ Free < ByteSize /\ Free \in Nat
  BY Sizes DEF Byte
<1>2. o \div LastBit = 0 /\ (o + LastBit) \div LastBit = 1
  BY ONLY <1>1, DivisionOnce
<1>3. ~IsLast(o) /\ IsLast(o + LastBit)
  BY ONLY <1>2 DEF IsLast
<1>4. {o, o + LastBit} \subseteq Byte \ {0, Free}
  BY ONLY <1>1, Sizes DEF Byte
<1>5. o + LastBit - LastBit = o
  BY ONLY <1>1
<1> QED
  BY <1>3, <1>4, <1>5

LEMMA BlankSlot == Blank \in RawSlot /\ Blank.first = 0
<1>1. 0 \in Byte /\ NoData \in Data
  BY Sizes, SlotsAssumption
<1>2. [k \in 1 .. NameLen - 1 |-> 0] \in Surviving
  BY <1>1 DEF Surviving
<1> QED
  BY <1>1, <1>2 DEF Blank, RawSlot

\* A component.
LEMMA ComponentWritten ==
  ASSUME NEW name \in Names, NEW o \in 1 .. MaxParts, NEW last \in BOOLEAN
  PROVE  LET s == Component(name, o, last) IN
         /\ s \in RawSlot /\ s.first \notin {0, Free} /\ WrittenFor(s, name)
         /\ Classify(s) = [kind |-> "LongName", last |-> last,
                           checksum |-> Chksum(Stored(name)), ordinal |-> o]
<1> DEFINE s == Component(name, o, last)
<1>1. s = [first |-> IF last THEN o + LastBit ELSE o,
           rest |-> [k \in 1 .. NameLen - 1 |-> Space],
           attr |-> LongNameAttribute, sum |-> Chksum(Stored(name)), data |-> NoData]
  BY DEF Component
<1>2. /\ s.first = IF last THEN o + LastBit ELSE o
      /\ s.rest = [k \in 1 .. NameLen - 1 |-> Space]
      /\ s.attr = LongNameAttribute /\ s.sum = Chksum(Stored(name)) /\ s.data = NoData
  BY <1>1
<1>3. s.first \in Byte \ {0, Free}
  BY <1>2, Ordinals
<1>4. s.sum \in Byte
  BY <1>2, StoredName, SumsAreBytes
<1>5. s.rest \in Surviving
  BY <1>2, SlotsAssumption DEF Surviving
<1>6. s.attr \in SUBSET Attribute /\ s.data \in Data
  BY <1>2, Shapes, SlotsAssumption
<1>7. s \in RawSlot
  BY <1>1, <1>2, <1>3, <1>4, <1>5, <1>6 DEF RawSlot
<1>8. IsLast(s.first) <=> last
  BY <1>2, Ordinals
<1>9. (IF IsLast(s.first) THEN s.first - LastBit ELSE s.first) = o
  <2>1. s.first = IF last THEN o + LastBit ELSE o
    BY <1>2
  <2> HIDE DEF s
  <2> QED
    <3>1. CASE last
      <4>1. IsLast(s.first) /\ s.first = o + LastBit
        BY ONLY <1>8, <2>1, <3>1
      <4>2. s.first - LastBit = o
        <5>1. o \in Nat /\ LastBit \in Nat
          BY Sizes
        <5> QED
          BY ONLY <4>1, <5>1
      <4> QED
        BY ONLY <4>1, <4>2
    <3>2. CASE ~last
      BY ONLY <1>8, <2>1, <3>2
    <3> QED
      BY <3>1, <3>2
<1>10. Shape(s.attr) = "LongName"
  BY <1>2, Shapes
<1> HIDE DEF s
<1>11. ClassifyLive(s) = [kind |-> "LongName", last |-> IsLast(s.first), checksum |-> s.sum,
                          ordinal |-> IF IsLast(s.first) THEN s.first - LastBit ELSE s.first]
  BY <1>10 DEF ClassifyLive
<1>12. Classify(s) = ClassifyLive(s)
  BY <1>3 DEF Classify, IsDeleted, Terminator
<1>13. IsLast(s.first) = last
  BY <1>8 DEF IsLast
<1>14. Classify(s) = [kind |-> "LongName", last |-> last,
                      checksum |-> Chksum(Stored(name)), ordinal |-> o]
  BY <1>2, <1>9, <1>11, <1>12, <1>13
<1>15. WrittenFor(s, name)
  BY <1>2, <1>3 DEF WrittenFor
<1> QED
  BY <1>3, <1>7, <1>14, <1>15 DEF s

\* A short entry.
LEMMA ShortWritten ==
  ASSUME NEW name \in Names, NEW data \in Data
  PROVE  LET s == ShortEntry(name, data) IN
         /\ s \in RawSlot /\ s.first \notin {0, Free} /\ WrittenFor(s, name)
         /\ Classify(s) = [kind |-> "ShortName", name |-> ShortName(Stored(name)),
                           raw_name |-> Stored(name), directory |-> FALSE, data |-> data]
<1> DEFINE s == ShortEntry(name, data)
           raw == Stored(name)
<1>0. raw \in Name /\ raw[1] \notin {0, Free, Space}
  BY StoredName
<1>1. s = [first |-> raw[1], rest |-> Tail(raw), attr |-> {"archive"}, sum |-> 0,
           data |-> data]
  BY DEF ShortEntry
<1> HIDE DEF raw
<1>2. /\ s.first = raw[1] /\ s.rest = Tail(raw)
      /\ s.attr = {"archive"} /\ s.sum = 0 /\ s.data = data
  BY <1>1
<1>3. raw[1] \in Byte /\ Tail(raw) \in Surviving /\ <<raw[1]>> \o Tail(raw) = raw
  BY <1>0, NameIsSeq, TailOfName
<1>4. s \in RawSlot
  BY <1>1, <1>3, Shapes, Sizes DEF RawSlot
<1>5. Shape(s.attr) = "ShortName"
  BY <1>2, Shapes
<1> HIDE DEF s
<1>6. RawName(s) = raw
  BY <1>2, <1>3 DEF RawName
<1>7. ClassifyLive(s) =
        [kind |-> "ShortName", name |-> ShortName(RawName(s)), raw_name |-> RawName(s),
         directory |-> "directory" \in s.attr, data |-> s.data]
  BY <1>5 DEF ClassifyLive
<1>8. Classify(s) = ClassifyLive(s)
  BY <1>0, <1>2 DEF Classify, IsDeleted, Terminator
<1>9. ("directory" \in s.attr) = FALSE
  BY <1>2
<1>10. Classify(s) = [kind |-> "ShortName", name |-> ShortName(raw),
                      raw_name |-> raw, directory |-> FALSE, data |-> data]
  BY <1>2, <1>6, <1>7, <1>8, <1>9
<1>11. WrittenFor(s, name)
  BY <1>0, <1>2 DEF WrittenFor, raw
<1> QED
  BY <1>0, <1>2, <1>4, <1>10, <1>11 DEF s, raw

\* The slots of a file are well formed, and none is the end or deleted.
LEMMA WrittenRight ==
  ASSUME NEW name \in Names, NEW parts \in 0 .. MaxParts, NEW data \in Data, NEW at \in Slot,
         NEW i \in at - parts .. at
  PROVE  LET s == Written(name, parts, data, at, i) IN
         s \in RawSlot /\ s.first \notin {0, Free} /\ WrittenFor(s, name)
<1>1. CASE i = at
  BY <1>1, ShortWritten DEF Written
<1>2. CASE i # at
  <2>1. at \in Nat /\ parts \in Nat /\ parts <= MaxParts /\ i \in Int
    BY Sizes
  <2>2. at - i \in 1 .. MaxParts
    BY ONLY <1>2, <2>1, Sizes, i \in at - parts .. at
  <2>3. (at - i = parts) \in BOOLEAN
    OBVIOUS
  <2> QED
    BY <1>2, <2>2, <2>3, ComponentWritten DEF Written
<1> QED
  BY <1>1, <1>2

----------------------------------------------------------------------------
(***************************************************************************)
(* Types.                                                                  *)
(***************************************************************************)

\* What associate says is one of three things, whatever the entries.
LEMMA Associated ==
  ASSUME NEW entries, NEW i
  PROVE  Associate(entries, i) \in FirstByte
<1> DEFINE byte == RecoverFirstByte(entries[i].kind.was.surviving,
                                    entries[i - 1].kind.was.checksum)
<1>1. byte \in (Byte \ {Terminator, Free}) \cup {None}
  BY RecoveredIsLive
<1> HIDE DEF byte
<1>2. /\ [kind |-> "Destroyed"] \in FirstByte /\ [kind |-> "NotAssociated"] \in FirstByte
      /\ byte # None => [kind |-> "Recovered", byte |-> byte] \in FirstByte
  BY <1>1 DEF FirstByte
<1>3. Associate(entries, i) \in
        {[kind |-> "Destroyed"], [kind |-> "NotAssociated"], [kind |-> "Recovered", byte |-> byte]}
  BY DEF Associate, byte
<1>4. Associate(entries, i) = [kind |-> "Recovered", byte |-> byte] => byte # None
        \/ Associate(entries, i) \in FirstByte
  BY <1>2 DEF Associate, byte
<1> QED
  BY <1>2, <1>3, <1>4

Typed ==
  /\ slots \in [Slot -> RawSlot]
  /\ live \subseteq Files
  /\ origin \in [Slot -> Names \cup {NoName}]
  /\ created \in 0 .. MaxCreated

LEMMA TypedIsEnough == Typed <=> TypeOK
BY Associated DEF Typed, TypeOK, FirstBytes

LEMMA FileTyped ==
  ASSUME Typed, NEW f \in live
  PROVE  /\ f.name \in Names /\ f.at \in Slot /\ f.parts \in 0 .. MaxParts /\ f.data \in Data
         /\ f.at \in Nat /\ f.parts \in Nat /\ f.at <= SlotCount
BY Sizes DEF Typed, Files, Slot

----------------------------------------------------------------------------
(***************************************************************************)
(* The history.                                                            *)
(***************************************************************************)

Run(f) == f.at - f.parts .. f.at

\* The slot at which the directory ends.
Ended(end) ==
  /\ \A i \in 1 .. end - 1 : slots[i].first # 0
  /\ end \in Slot => slots[end].first = 0

\* Each file has its slots to itself, and before the end there is nothing else
\* but what was deleted.
Filed(end) ==
  /\ \A f \in live : Run(f) \subseteq 1 .. end - 1
  /\ \A f \in live : \A i \in Run(f) : slots[i] = Written(f.name, f.parts, f.data, f.at, i)
  /\ \A f, g \in live : f # g => Run(f) \cap Run(g) = {}
  /\ \A i \in 1 .. end - 1 : slots[i].first = Free \/ \E f \in live : i \in Run(f)

HistoryInv ==
  /\ Typed
  /\ \A i \in Slot : origin[i] = NoName <=> slots[i] = Blank
  /\ \A i \in Slot : origin[i] # NoName => WrittenFor(slots[i], origin[i])
  /\ \E end \in 1 .. SlotCount + 1 : Ended(end) /\ Filed(end)

\* There is one end.
LEMMA OneEnd ==
  ASSUME NEW end \in 1 .. SlotCount + 1, Ended(end)
  PROVE  DriverEnd = end
<1>1. PICK e : e = DriverEnd
  OBVIOUS
<1>2. /\ e \in 1 .. SlotCount + 1
      /\ \A i \in 1 .. e - 1 : slots[i].first # 0
      /\ e \in Slot => slots[e].first = 0
  BY <1>1 DEF DriverEnd, Ended
<1>3. SlotCount \in Nat
  BY Sizes
<1>4. ~(e < end)
  BY <1>2, <1>3 DEF Ended, Slot
<1>5. ~(end < e)
  BY <1>2, <1>3 DEF Ended, Slot
<1>6. e = end
  BY ONLY <1>2, <1>3, <1>4, <1>5, end \in 1 .. SlotCount + 1
<1> QED
  BY <1>1, <1>6

LEMMA NamesAreNames == \A name \in Names : name # NoName
<1> SUFFICES ASSUME NEW name \in Names PROVE name # NoName
  OBVIOUS
<1>1. name \in [1 .. NameLen -> Byte] /\ NameLen \in Nat /\ NameLen > 1
  BY HistoryAssumption, Sizes DEF Name
<1>2. Len(name) = NameLen
  BY HistoryAssumption, NameIsSeq
<1>3. Len(NoName) = 0
  BY DEF NoName
<1> QED
  BY <1>1, <1>2, <1>3

\* The slots of a file that is there are neither the end nor deleted.
LEMMA FileSlots ==
  ASSUME Typed, NEW end, Filed(end), NEW f \in live, NEW i \in Run(f)
  PROVE  slots[i].first \notin {0, Free}
<1>1. /\ f.name \in Names /\ f.at \in Slot /\ f.parts \in 0 .. MaxParts /\ f.data \in Data
      /\ i \in f.at - f.parts .. f.at
  BY FileTyped DEF Run
<1>2. slots[i] = Written(f.name, f.parts, f.data, f.at, i)
  BY DEF Filed
<1> QED
  BY <1>1, <1>2, WrittenRight

LEMMA HistoryStart == Init => HistoryInv
<1> SUFFICES ASSUME Init PROVE HistoryInv
  OBVIOUS
<1>1. /\ slots = [i \in Slot |-> Blank] /\ live = {} /\ origin = [i \in Slot |-> NoName]
      /\ created = 0
  BY DEF Init
<1>2. Typed
  BY <1>1, BlankSlot, HistoryAssumption DEF Typed
<1>3. 1 \in 1 .. SlotCount + 1 /\ 1 .. 1 - 1 = {}
  BY Sizes
<1>4. Ended(1)
  BY <1>1, <1>3, BlankSlot DEF Ended
<1>5. Filed(1)
  BY <1>1, <1>3 DEF Filed
<1>6. \A i \in Slot : origin[i] = NoName /\ slots[i] = Blank
  BY <1>1
<1> QED
  BY <1>2, <1>3, <1>4, <1>5, <1>6 DEF HistoryInv

\* A formatter ends the directory at its first slot.
LEMMA FormatKeeps ==
  ASSUME HistoryInv, Format
  PROVE  HistoryInv'
<1>1. /\ slots' = [slots EXCEPT ![1] = Blank] /\ origin' = [origin EXCEPT ![1] = NoName]
      /\ live' = {} /\ created' = created
  BY DEF Format
<1>2. /\ slots \in [Slot -> RawSlot] /\ origin \in [Slot -> Names \cup {NoName}]
      /\ created \in 0 .. MaxCreated
  BY DEF HistoryInv, Typed
<1>3. Typed'
  BY <1>1, <1>2, BlankSlot DEF Typed
<1>4. 1 \in 1 .. SlotCount + 1 /\ 1 .. 1 - 1 = {}
  BY Sizes
<1>5. \A i \in Slot : /\ slots'[i] = IF i = 1 THEN Blank ELSE slots[i]
                      /\ origin'[i] = IF i = 1 THEN NoName ELSE origin[i]
  BY <1>1, <1>2
<1>6. Ended(1)'
  BY <1>4, <1>5, BlankSlot DEF Ended
<1>7. Filed(1)'
  BY <1>1, <1>4 DEF Filed
<1>8. \A i \in Slot : (origin'[i] = NoName <=> slots'[i] = Blank)
  BY <1>5 DEF HistoryInv
<1>9. \A i \in Slot : origin'[i] # NoName => WrittenFor(slots'[i], origin'[i])
  BY <1>5 DEF HistoryInv
<1> QED
  BY <1>3, <1>4, <1>6, <1>7, <1>8, <1>9 DEF HistoryInv, WrittenFor, Stored, Chksum, Rotate

\* A driver marks the slots of a file as deleted.
LEMMA DeleteKeeps ==
  ASSUME HistoryInv, NEW f \in live, Delete(f)
  PROVE  HistoryInv'
<1>1. /\ slots' = [i \in Slot |-> IF i \in Run(f) THEN [slots[i] EXCEPT !.first = Free]
                                                 ELSE slots[i]]
      /\ live' = live \ {f} /\ origin' = origin /\ created' = created
  BY DEF Delete, Run
<1>2. PICK end \in 1 .. SlotCount + 1 : Ended(end) /\ Filed(end)
  BY DEF HistoryInv
<1>3. Typed /\ slots \in [Slot -> RawSlot]
  BY DEF HistoryInv, Typed
<1>4. Free \in Byte /\ Free # 0
  BY Sizes
<1>5. ASSUME NEW s \in RawSlot
      PROVE  LET t == [s EXCEPT !.first = Free] IN
             /\ t \in RawSlot /\ t.first = Free
             /\ t.rest = s.rest /\ t.attr = s.attr /\ t.sum = s.sum
  BY <1>4 DEF RawSlot
<1>6. \A i \in Slot : /\ slots'[i] \in RawSlot
                      /\ slots'[i].rest = slots[i].rest /\ slots'[i].attr = slots[i].attr
                      /\ slots'[i].sum = slots[i].sum
                      /\ i \in Run(f) => slots'[i].first = Free
                      /\ i \notin Run(f) => slots'[i] = slots[i]
  BY <1>1, <1>3, <1>5
<1>7. Typed'
  BY <1>1, <1>3, <1>6 DEF Typed
<1>8. \A i \in Slot : i \in Run(f) => slots[i].first # 0
  BY <1>2, <1>3, FileSlots
<1>9. \A i \in Slot : slots'[i].first = 0 <=> slots[i].first = 0
  BY <1>4, <1>6, <1>8
<1>10. \A i \in Slot : slots'[i] = Blank <=> slots[i] = Blank
  BY <1>4, <1>6, <1>8, BlankSlot
<1>11. \A i \in Slot : WrittenFor(slots[i], origin[i]) => WrittenFor(slots'[i], origin[i])
  BY <1>6, <1>9 DEF WrittenFor
<1>12. \A i \in 1 .. end - 1 : i \in Slot
  BY Sizes DEF Slot
<1>13. Ended(end)'
  BY <1>2, <1>9, <1>12 DEF Ended
<1>14. Filed(end)'
  <2>1. \A g \in live' : g \in live /\ g # f
    BY <1>1
  <2>2. \A g \in live' : Run(g) \subseteq 1 .. end - 1
    BY <1>2, <2>1 DEF Filed
  <2>3. ASSUME NEW g \in live', NEW i \in Run(g)
        PROVE  slots'[i] = Written(g.name, g.parts, g.data, g.at, i)
    <3>1. i \in Slot /\ i \notin Run(f) /\ slots[i] = Written(g.name, g.parts, g.data, g.at, i)
      BY <1>2, <1>12, <2>1, <2>2 DEF Filed
    <3> QED
      BY <1>6, <3>1
  <2>4. \A g, h \in live' : g # h => Run(g) \cap Run(h) = {}
    BY <1>2, <2>1 DEF Filed
  <2>5. ASSUME NEW i \in 1 .. end - 1
        PROVE  slots'[i].first = Free \/ \E g \in live' : i \in Run(g)
    <3>1. i \in Slot
      BY <1>12
    <3>2. CASE i \in Run(f)
      BY <1>6, <3>1, <3>2
    <3>3. CASE i \notin Run(f)
      <4>1. slots'[i] = slots[i]
        BY <1>6, <3>1, <3>3
      <4>2. slots[i].first = Free \/ \E g \in live : i \in Run(g)
        BY <1>2 DEF Filed
      <4> QED
        BY <1>1, <3>3, <4>1, <4>2
    <3> QED
      BY <3>2, <3>3
  <2> QED
    BY <2>2, <2>3, <2>4, <2>5 DEF Filed, Run, Written, Component, ShortEntry, Stored, Chksum,
       Rotate
<1> QED
  BY <1>1, <1>7, <1>10, <1>11, <1>13, <1>14 DEF HistoryInv, WrittenFor, Stored, Chksum, Rotate

\* A driver puts a file into slots that may be used, and past the old end
\* writes a new one.
LEMMA CreateKeeps ==
  ASSUME HistoryInv, NEW name \in Names, NEW parts \in 0 .. MaxParts, NEW data \in Data,
         Create(name, parts, data)
  PROVE  HistoryInv'
<1>1. PICK end \in 1 .. SlotCount + 1 : Ended(end) /\ Filed(end)
  BY DEF HistoryInv
<1>2. DriverEnd = end
  BY <1>1, OneEnd
<1>3. PICK at \in Slot :
        /\ at - parts .. at \subseteq Slot
        /\ at - parts <= end
        /\ \A i \in at - parts .. at : i >= end \/ slots[i].first = Free
        /\ slots' = [i \in Slot |->
                       IF i \in at - parts .. at THEN Written(name, parts, data, at, i)
                       ELSE IF i = at + 1 /\ i > end THEN Blank ELSE slots[i]]
        /\ origin' = [i \in Slot |->
                        IF i \in at - parts .. at THEN name
                        ELSE IF i = at + 1 /\ i > end THEN NoName ELSE origin[i]]
        /\ live' = live \cup {[name |-> name, at |-> at, parts |-> parts, data |-> data]}
  BY <1>2 DEF Create, MayBeUsed
<1>4. created < MaxCreated /\ created' = created + 1
  BY DEF Create
<1> DEFINE f == [name |-> name, at |-> at, parts |-> parts, data |-> data]
           run == at - parts .. at
           e == IF at < end THEN end ELSE at + 1
<1>5. /\ at \in Nat /\ parts \in Nat /\ end \in Nat /\ SlotCount \in Nat /\ SlotCount + 1 >= end
      /\ end >= 1 /\ at >= 1 /\ at <= SlotCount /\ at - parts >= 1
      /\ Slot = 1 .. SlotCount
  <2>1. at - parts \in Slot
    <3>1. at - parts \in run
      BY Sizes
    <3> QED
      BY <1>3, <3>1
  <2> QED
    BY <2>1, Sizes DEF Slot
<1>6. Typed /\ slots \in [Slot -> RawSlot] /\ origin \in [Slot -> Names \cup {NoName}]
      /\ created \in 0 .. MaxCreated /\ live \subseteq Files
  BY DEF HistoryInv, Typed
<1>7. \A i \in Slot : i \in run =>
        LET s == Written(name, parts, data, at, i) IN
        s \in RawSlot /\ s.first \notin {0, Free} /\ WrittenFor(s, name)
  BY WrittenRight
<1>8. /\ Run(f) = run /\ f \in Files /\ live' = live \cup {f}
      /\ f.name = name /\ f.at = at /\ f.parts = parts /\ f.data = data
  BY <1>3 DEF Run, Files
<1>9. \A g \in live : Run(g) \subseteq 1 .. end - 1
  BY <1>1 DEF Filed
<1>10. \A g \in live : \A i \in Run(g) : slots[i].first \notin {0, Free} /\ i \in 1 .. end - 1
  BY <1>1, <1>6, <1>9, FileSlots
<1>11. \A i \in run : ~(i \in 1 .. end - 1) \/ slots[i].first = Free
  BY <1>3, <1>5
<1>12. \A g \in live : Run(g) \cap run = {}
  BY <1>10, <1>11
<1>13. /\ e \in 1 .. SlotCount + 1 /\ e \in Nat /\ end <= e /\ at < e
       /\ (at + 1 > end => e = at + 1) /\ (at + 1 <= end => e = end)
  BY ONLY <1>5 DEF e
<1> HIDE DEF f, e
<1>14. \A i \in Slot : /\ i \in run => slots'[i] = Written(name, parts, data, at, i)
                                      /\ origin'[i] = name
                       /\ i \notin run /\ i = at + 1 /\ i > end =>
                            slots'[i] = Blank /\ origin'[i] = NoName
                       /\ i \notin run /\ ~(i = at + 1 /\ i > end) =>
                            slots'[i] = slots[i] /\ origin'[i] = origin[i]
  BY <1>3
<1>15. \A i \in 1 .. e - 1 : i \in run \/ i \in 1 .. end - 1
  BY ONLY <1>3, <1>5, <1>13 DEF e
<1>16. \A i \in 1 .. e - 1 : i \in Slot /\ ~(i = at + 1 /\ i > end)
  BY ONLY <1>5, <1>13
<1>17. Typed'
  <2>1. slots' \in [Slot -> RawSlot]
    <3>1. slots' = [i \in Slot |-> slots'[i]]
      BY <1>3
    <3>2. \A i \in Slot : slots'[i] \in RawSlot
      BY <1>6, <1>7, <1>14, BlankSlot
    <3> QED
      BY <3>1, <3>2
  <2>2. origin' \in [Slot -> Names \cup {NoName}]
    BY <1>3, <1>6
  <2>3. live' \subseteq Files
    BY <1>6, <1>8
  <2>4. created' \in 0 .. MaxCreated
    BY <1>4, <1>6, HistoryAssumption
  <2> QED
    BY <2>1, <2>2, <2>3, <2>4 DEF Typed
<1>18. \A i \in Slot : origin'[i] = NoName <=> slots'[i] = Blank
  <2> SUFFICES ASSUME NEW i \in Slot PROVE origin'[i] = NoName <=> slots'[i] = Blank
    OBVIOUS
  <2>1. CASE i \in run
    BY <1>7, <1>14, <2>1, BlankSlot, NamesAreNames
  <2>2. CASE i \notin run
    BY <1>14, <2>2 DEF HistoryInv
  <2> QED
    BY <2>1, <2>2
<1>19. \A i \in Slot : origin'[i] # NoName => WrittenFor(slots'[i], origin'[i])
  <2> SUFFICES ASSUME NEW i \in Slot, origin'[i] # NoName
               PROVE  WrittenFor(slots'[i], origin'[i])
    OBVIOUS
  <2>1. CASE i \in run
    BY <1>7, <1>14, <2>1
  <2>2. CASE i \notin run
    BY <1>14, <2>2 DEF HistoryInv
  <2> QED
    BY <2>1, <2>2
<1>20. Ended(e)'
  <2>1. ASSUME NEW i \in 1 .. e - 1 PROVE slots'[i].first # 0
    <3>1. CASE i \in run
      BY <1>7, <1>14, <1>16, <3>1
    <3>2. CASE i \notin run
      BY <1>1, <1>14, <1>15, <1>16, <3>2 DEF Ended
    <3> QED
      BY <3>1, <3>2
  <2>2. ASSUME e \in Slot PROVE slots'[e].first = 0
    <3>1. e \notin run
      BY ONLY <1>5, <1>13
    <3>2. CASE at + 1 > end
      BY <1>13, <1>14, <2>2, <3>1, <3>2, BlankSlot
    <3>3. CASE at + 1 <= end
      <4>1. e = end /\ ~(e = at + 1 /\ e > end)
        BY ONLY <1>5, <1>13, <3>3
      <4> QED
        BY <1>1, <1>14, <2>2, <3>1, <4>1 DEF Ended
    <3> QED
      BY ONLY <1>5, <3>2, <3>3
  <2> QED
    BY <2>1, <2>2 DEF Ended
<1>21. Filed(e)'
  <2>1. ASSUME NEW g \in live' PROVE Run(g) \subseteq 1 .. e - 1
    <3>1. CASE g = f
      BY ONLY <1>5, <1>8, <1>13, <3>1
    <3>2. CASE g \in live
      <4>1. Run(g) \subseteq 1 .. end - 1
        BY <1>9, <3>2
      <4> QED
        BY ONLY <1>5, <1>13, <4>1
    <3> QED
      BY <1>8, <3>1, <3>2
  <2>2. ASSUME NEW g \in live', NEW i \in Run(g)
        PROVE  slots'[i] = Written(g.name, g.parts, g.data, g.at, i)
    <3>0. i \in Slot /\ ~(i = at + 1 /\ i > end)
      BY <1>16, <2>1
    <3>1. CASE g = f
      BY <1>8, <1>14, <3>0, <3>1
    <3>2. CASE g \in live
      <4>1. i \notin run /\ slots[i] = Written(g.name, g.parts, g.data, g.at, i)
        BY <1>1, <1>12, <3>2 DEF Filed
      <4> QED
        BY <1>14, <3>0, <4>1
    <3> QED
      BY <1>8, <3>1, <3>2
  <2>3. ASSUME NEW g \in live', NEW h \in live', g # h PROVE Run(g) \cap Run(h) = {}
    BY <1>1, <1>8, <1>12, <2>3 DEF Filed
  <2>4. ASSUME NEW i \in 1 .. e - 1
        PROVE  slots'[i].first = Free \/ \E g \in live' : i \in Run(g)
    <3>1. CASE i \in run
      BY <1>8, <3>1
    <3>2. CASE i \notin run
      <4>1. slots'[i] = slots[i]
        BY <1>14, <1>16, <3>2
      <4>2. slots[i].first = Free \/ \E g \in live : i \in Run(g)
        BY <1>1, <1>15, <3>2 DEF Filed
      <4> QED
        BY <1>8, <4>1, <4>2
    <3> QED
      BY <3>1, <3>2
  <2> QED
    BY <2>1, <2>2, <2>3, <2>4 DEF Filed, Run, Written, Component, ShortEntry, Stored, Chksum,
       Rotate
<1>22. \E x \in 1 .. SlotCount + 1 : (Ended(x) /\ Filed(x))'
  BY <1>13, <1>20, <1>21
<1> QED
  BY <1>17, <1>18, <1>19, <1>22 DEF HistoryInv, WrittenFor, Stored, Chksum, Rotate

\* The bytes of every slot are what was written for its name, but for the mark of
\* a deleted entry, and the files that are there have their slots to themselves.
THEOREM HistoryInvariant == Spec => []HistoryInv
<1>1. Init => HistoryInv
  BY HistoryStart
<1>2. HistoryInv /\ [Next]_vars => HistoryInv'
  <2> SUFFICES ASSUME HistoryInv, [Next]_vars PROVE HistoryInv'
    OBVIOUS
  <2>1. CASE UNCHANGED vars
    <3>1. slots' = slots /\ live' = live /\ origin' = origin /\ created' = created
      BY <2>1 DEF vars
    <3>2. PICK end \in 1 .. SlotCount + 1 : Ended(end) /\ Filed(end)
      BY DEF HistoryInv
    <3>3. Typed' /\ Ended(end)'
      BY <3>1, <3>2 DEF HistoryInv, Typed, Ended
    <3>4. Filed(end)'
      <4>1. \A f \in live' : \A i \in Run(f) : slots'[i] = Written(f.name, f.parts, f.data, f.at, i)
        BY <3>1, <3>2 DEF Filed
      <4>2. /\ \A f \in live' : Run(f) \subseteq 1 .. end - 1
            /\ \A f, g \in live' : f # g => Run(f) \cap Run(g) = {}
            /\ \A i \in 1 .. end - 1 : slots'[i].first = Free \/ \E f \in live' : i \in Run(f)
        BY <3>1, <3>2 DEF Filed
      <4> QED
        BY <4>1, <4>2 DEF Filed, Run, Written, Component, ShortEntry, Stored, Chksum, Rotate
    <3>5. \A i \in Slot : origin'[i] = NoName <=> slots'[i] = Blank
      BY <3>1 DEF HistoryInv
    <3>6. \A i \in Slot : origin'[i] # NoName => WrittenFor(slots'[i], origin'[i])
      BY <3>1 DEF HistoryInv
    <3> QED
      BY <3>2, <3>3, <3>4, <3>5, <3>6 DEF HistoryInv, WrittenFor, Stored, Chksum, Rotate
  <2>2. ASSUME NEW name \in Names, NEW parts \in 0 .. MaxParts, NEW data \in Data \ {NoData},
               Create(name, parts, data)
        PROVE  HistoryInv'
    BY <2>2, CreateKeeps
  <2>3. ASSUME NEW f \in live, Delete(f) PROVE HistoryInv'
    BY <2>3, DeleteKeeps
  <2>4. CASE Format
    BY <2>4, FormatKeeps
  <2> QED
    BY <2>1, <2>2, <2>3, <2>4 DEF Next
<1> QED
  BY <1>1, <1>2, PTL DEF Spec

\* Whatever was created, deleted and formatted, what the program looks at is a
\* directory, and what it says of a first byte is one of the three things it can.
THEOREM TypeCorrect == Spec => []TypeOK
<1>1. HistoryInv => TypeOK
  BY TypedIsEnough DEF HistoryInv
<1> QED
  BY <1>1, HistoryInvariant, PTL

----------------------------------------------------------------------------
(***************************************************************************)
(* What the program makes of one slot.                                     *)
(***************************************************************************)

LEMMA Kinds ==
  ASSUME NEW s
  PROVE  /\ s.first = 0 => Classify(s) = [kind |-> "Terminator"]
         /\ s.first = Free =>
              /\ Classify(s) = [kind |-> "Deleted", was |-> ClassifyDeleted(s)]
              /\ Classify(s).kind = "Deleted"
         /\ s.first \notin {0, Free} =>
              /\ Classify(s) = ClassifyLive(s)
              /\ Classify(s).kind = Shape(s.attr)
<1>1. Free # 0
  BY Sizes
<1>2. Shape(s.attr) \in {"LongName", "VolumeLabel", "Invalid", "ShortName"}
  BY DEF Shape
<1>3. ClassifyLive(s).kind = Shape(s.attr)
  <2>1. CASE Shape(s.attr) = "LongName"
    BY <2>1 DEF ClassifyLive
  <2>2. CASE Shape(s.attr) = "VolumeLabel"
    BY <2>2 DEF ClassifyLive
  <2>3. CASE Shape(s.attr) = "Invalid"
    BY <2>3 DEF ClassifyLive
  <2>4. CASE Shape(s.attr) = "ShortName"
    BY <2>4 DEF ClassifyLive
  <2> QED
    BY <1>2, <2>1, <2>2, <2>3, <2>4
<1> QED
  BY <1>1, <1>3 DEF Classify, IsDeleted, Terminator

LEMMA Terminates ==
  ASSUME NEW s
  PROVE  Classify(s).kind = "Terminator" <=> s.first = 0
<1>1. Shape(s.attr) \in {"LongName", "VolumeLabel", "Invalid", "ShortName"}
  BY DEF Shape
<1> QED
  BY <1>1, Kinds

\* A deleted entry.
LEMMA DeletedIs ==
  ASSUME NEW s, NEW i
  PROVE  LET e == [slot |-> i, kind |-> Classify(s)] IN
         /\ IsDeletedShort(e) =>
              /\ s.first = Free /\ Shape(s.attr) = "ShortName"
              /\ e.kind.was.surviving = s.rest
         /\ IsDeletedComponent(e) =>
              /\ s.first = Free /\ Shape(s.attr) = "LongName"
              /\ e.kind.was.checksum = s.sum
<1> DEFINE e == [slot |-> i, kind |-> Classify(s)]
<1>1. Shape(s.attr) \in {"LongName", "VolumeLabel", "Invalid", "ShortName"}
  BY DEF Shape
<1>2. Classify(s).kind = "Deleted" => s.first = Free
  BY <1>1, Kinds
<1>3. ASSUME s.first = Free
      PROVE  e.kind.was = ClassifyDeleted(s)
  BY <1>3, Kinds
<1>4. ClassifyDeleted(s).kind = Shape(s.attr)
  <2>1. CASE Shape(s.attr) = "LongName"
    BY <2>1 DEF ClassifyDeleted
  <2>2. CASE Shape(s.attr) = "VolumeLabel"
    BY <2>2 DEF ClassifyDeleted
  <2>3. CASE Shape(s.attr) = "Invalid"
    BY <2>3 DEF ClassifyDeleted
  <2>4. CASE Shape(s.attr) = "ShortName"
    BY <2>4 DEF ClassifyDeleted
  <2> QED
    BY <1>1, <2>1, <2>2, <2>3, <2>4
<1>5. Shape(s.attr) = "ShortName" => ClassifyDeleted(s).surviving = s.rest
  BY DEF ClassifyDeleted
<1>6. Shape(s.attr) = "LongName" => ClassifyDeleted(s).checksum = s.sum
  BY DEF ClassifyDeleted
<1>7. e.kind = Classify(s)
  OBVIOUS
<1> HIDE DEF e
<1>8. IsDeletedShort(e) => s.first = Free /\ Shape(s.attr) = "ShortName"
                             /\ e.kind.was.surviving = s.rest
  BY <1>2, <1>3, <1>4, <1>5, <1>7 DEF IsDeletedShort
<1>9. IsDeletedComponent(e) => s.first = Free /\ Shape(s.attr) = "LongName"
                                 /\ e.kind.was.checksum = s.sum
  BY <1>2, <1>3, <1>4, <1>6, <1>7 DEF IsDeletedComponent
<1> QED
  BY <1>8, <1>9 DEF e

----------------------------------------------------------------------------
(***************************************************************************)
(* The listing and the residue.                                            *)
(***************************************************************************)

LEMMA EndIs ==
  ASSUME NEW end \in 1 .. SlotCount + 1, Ended(end)
  PROVE  End(slots) = end
<1>1. PICK e : e = End(slots)
  OBVIOUS
<1>2. /\ e \in 1 .. SlotCount + 1
      /\ \A i \in 1 .. e - 1 : slots[i].first # 0
      /\ e \in Slot => slots[e].first = 0
  BY <1>1, Terminates DEF End, Ended
<1>3. SlotCount \in Nat
  BY Sizes
<1>4. ~(e < end)
  BY <1>2, <1>3 DEF Ended, Slot
<1>5. ~(end < e)
  BY <1>2, <1>3 DEF Ended, Slot
<1>6. e = end
  BY ONLY <1>2, <1>3, <1>4, <1>5, end \in 1 .. SlotCount + 1
<1> QED
  BY <1>1, <1>6

\* Of some slots there is a k-th.
LEMMA SlotAtIs ==
  ASSUME NEW chosen, chosen \subseteq Slot, NEW k \in 1 .. Cardinality(chosen)
  PROVE  SlotAt(chosen, k) \in chosen
<1> DEFINE UpTo(i) == {j \in chosen : j <= i}
           T == {i \in Nat : Cardinality(UpTo(i)) >= k}
<1>1. /\ SlotCount \in Nat /\ chosen \subseteq 1 .. SlotCount /\ IsFiniteSet(chosen)
      /\ Cardinality(chosen) \in Nat /\ k \in Nat /\ k >= 1 /\ k <= Cardinality(chosen)
  <2>1. SlotCount \in Nat /\ chosen \subseteq 1 .. SlotCount
    BY Sizes DEF Slot
  <2>2. IsFiniteSet(1 .. SlotCount)
    BY ONLY <2>1, FS_Interval
  <2>3. IsFiniteSet(chosen)
    BY ONLY <2>1, <2>2, FS_Subset
  <2>4. Cardinality(chosen) \in Nat
    BY ONLY <2>3, FS_CardinalityType
  <2> QED
    BY <2>1, <2>3, <2>4
<1>2. \A i \in Nat : IsFiniteSet(UpTo(i)) /\ Cardinality(UpTo(i)) \in Nat
  <2> SUFFICES ASSUME NEW i \in Nat
               PROVE  IsFiniteSet(UpTo(i)) /\ Cardinality(UpTo(i)) \in Nat
    OBVIOUS
  <2>1. UpTo(i) \subseteq chosen
    OBVIOUS
  <2>2. IsFiniteSet(UpTo(i))
    BY ONLY <1>1, <2>1, FS_Subset
  <2> QED
    BY ONLY <2>2, FS_CardinalityType
<1>3. UpTo(SlotCount) = chosen
  <2>1. \A j \in chosen : j <= SlotCount
    BY ONLY <1>1
  <2> QED
    BY ONLY <2>1
<1>4. T \subseteq Nat /\ SlotCount \in T
  BY <1>1, <1>3
<1>5. PICK m \in T : \A n \in T : m <= n
  <2>1. T # {}
    BY <1>4
  <2> HIDE DEF T
  <2> QED
    BY ONLY <1>4, <2>1, LeastNat
<1>6. m \in Nat /\ Cardinality(UpTo(m)) >= k
  BY <1>5
<1>7. m # 0
  <2>1. UpTo(0) = {}
    <3>1. \A j \in chosen : ~(j <= 0)
      BY ONLY <1>1
    <3> QED
      BY ONLY <3>1
  <2>2. Cardinality(UpTo(0)) = 0
    BY <2>1, FS_EmptySet
  <2> QED
    BY <1>1, <1>6, <2>2
<1>8. /\ m - 1 \in Nat /\ Cardinality(UpTo(m - 1)) < k
  <2>1. m - 1 \in Nat /\ m - 1 < m /\ ~(m <= m - 1)
    BY <1>6, <1>7
  <2>2. m - 1 \notin T
    BY <1>5, <2>1
  <2>3. ~(Cardinality(UpTo(m - 1)) >= k)
    BY <2>1, <2>2
  <2>4. Cardinality(UpTo(m - 1)) \in Nat
    BY <1>2, <2>1
  <2> HIDE DEF UpTo
  <2> QED
    BY <1>1, <2>1, <2>3, <2>4
<1>9. chosen \subseteq Nat
  BY <1>1
<1>10. m \in chosen
  <2> SUFFICES ASSUME m \notin chosen PROVE FALSE
    OBVIOUS
  <2>1. \A j \in chosen : j <= m <=> j <= m - 1
    BY <1>6, <1>9
  <2>2. UpTo(m) = UpTo(m - 1)
    BY <2>1
  <2>3. Cardinality(UpTo(m)) = Cardinality(UpTo(m - 1)) /\ Cardinality(UpTo(m)) \in Nat
    BY <1>2, <1>6, <2>2
  <2> HIDE DEF UpTo
  <2> QED
    BY <1>1, <1>6, <1>8, <2>3
<1>11. UpTo(m) = UpTo(m - 1) \cup {m}
  <2>1. \A j \in chosen : j <= m <=> (j <= m - 1 \/ j = m)
    BY <1>6, <1>9
  <2> QED
    BY <1>10, <2>1
<1>12. m \notin UpTo(m - 1)
  BY <1>6
<1>13. Cardinality(UpTo(m)) = Cardinality(UpTo(m - 1)) + 1
  <2>1. IsFiniteSet(UpTo(m - 1))
    BY <1>2, <1>8
  <2> HIDE DEF UpTo
  <2>2. PICK less : less = UpTo(m - 1)
    OBVIOUS
  <2>3. IsFiniteSet(less) /\ m \notin less
    BY <1>12, <2>1, <2>2
  <2>4. Cardinality(less \cup {m}) = Cardinality(less) + 1
    BY ONLY <2>3, FS_AddElement
  <2> QED
    BY <1>11, <2>2, <2>4
<1>14. Cardinality(UpTo(m)) = k
  <2>1. Cardinality(UpTo(m)) \in Nat /\ Cardinality(UpTo(m - 1)) \in Nat
    BY <1>2, <1>6, <1>8
  <2> HIDE DEF UpTo
  <2> QED
    BY <1>1, <1>6, <1>8, <1>13, <2>1
<1>15. \E i \in chosen : Cardinality({j \in chosen : j <= i}) = k
  BY <1>10, <1>14
<1> QED
  BY <1>15 DEF SlotAt

\* An entry of the listing or of the residue is what was made of some slot.
LEMMA EntriesAreSlots ==
  ASSUME HistoryInv, NEW entries \in {Listing(slots), Residue(slots)}
  PROVE  /\ \E n \in Nat : DOMAIN entries = 1 .. n
         /\ \A i \in DOMAIN entries :
              \E s \in Slot : entries[i] = [slot |-> s, kind |-> Classify(slots[s])]
<1>1. PICK end \in 1 .. SlotCount + 1 : Ended(end)
  BY DEF HistoryInv
<1>2. End(slots) = end /\ SlotCount \in Nat /\ Slot = 1 .. SlotCount
  BY <1>1, EndIs, Sizes DEF Slot
<1>3. CASE entries = Listing(slots)
  <2>1. entries = [i \in 1 .. end - 1 |-> [slot |-> i, kind |-> Classify(slots[i])]]
    BY <1>2, <1>3 DEF Listing, EntryOf
  <2>2. end - 1 \in Nat /\ \A i \in 1 .. end - 1 : i \in Slot
    BY <1>2
  <2> QED
    BY <2>1, <2>2
<1>4. CASE entries = Residue(slots)
  <2> DEFINE chosen == ResidueSlots(slots)
  <2>1. chosen \subseteq Slot
    BY DEF ResidueSlots
  <2>2. Cardinality(chosen) \in Nat
    <3>1. IsFiniteSet(Slot)
      BY ONLY <1>2, FS_Interval
    <3>2. IsFiniteSet(chosen)
      BY ONLY <2>1, <3>1, FS_Subset
    <3> QED
      BY ONLY <3>2, FS_CardinalityType
  <2>3. entries = [k \in 1 .. Cardinality(chosen) |->
                     [slot |-> SlotAt(chosen, k), kind |-> Classify(slots[SlotAt(chosen, k)])]]
    BY <1>4 DEF Residue, EntryOf
  <2> HIDE DEF chosen
  <2>4. \A k \in 1 .. Cardinality(chosen) : SlotAt(chosen, k) \in Slot
    BY <2>1, SlotAtIs
  <2> QED
    BY <2>2, <2>3, <2>4
<1> QED
  BY <1>3, <1>4

----------------------------------------------------------------------------
(***************************************************************************)
(* The first byte of a deleted name.                                       *)
(***************************************************************************)

\* What was written for a name and deleted still tells its first byte, when a
\* component of the same name is right before it.
LEMMA Evidence ==
  ASSUME HistoryInv, NEW entries, NEW n \in Nat, DOMAIN entries = 1 .. n,
         NEW i \in DOMAIN entries, i > 1, NEW s \in Slot, NEW t \in Slot,
         entries[i] = [slot |-> s, kind |-> Classify(slots[s])],
         entries[i - 1] = [slot |-> t, kind |-> Classify(slots[t])],
         IsDeletedShort(entries[i]), IsDeletedComponent(entries[i - 1]),
         origin[t] = origin[s]
  PROVE  Associate(entries, i) = [kind |-> "Recovered", byte |-> Stored(origin[s])[1]]
<1>1. /\ slots[s].first = Free /\ Shape(slots[s].attr) = "ShortName"
      /\ entries[i].kind.was.surviving = slots[s].rest
  BY DeletedIs
<1>2. /\ slots[t].first = Free /\ Shape(slots[t].attr) = "LongName"
      /\ entries[i - 1].kind.was.checksum = slots[t].sum
  BY DeletedIs
<1>3. slots[s] # Blank
  BY <1>1, BlankSlot, Sizes
<1>4. origin[s] \in Names /\ WrittenFor(slots[s], origin[s]) /\ WrittenFor(slots[t], origin[s])
  BY <1>3 DEF HistoryInv, Typed
<1> DEFINE raw == Stored(origin[s])
<1>5. raw \in Name /\ LiveFirstByte(raw[1]) /\ raw[1] \in Byte
  <2>1. raw \in Name /\ raw[1] \notin {0, Free}
    BY <1>4, StoredName
  <2> QED
    BY <2>1, NameIsSeq DEF LiveFirstByte, Terminator
<1>6. slots[s].rest = Tail(raw)
  BY <1>1, <1>4, Shapes DEF WrittenFor
<1>7. slots[t].sum = Chksum(raw)
  BY <1>2, <1>4, Shapes DEF WrittenFor
<1> HIDE DEF raw
<1>8. RecoverFirstByte(slots[s].rest, slots[t].sum) = raw[1]
  BY <1>5, <1>6, <1>7, RecoveredIsRight
<1>9. raw[1] # None
  BY <1>5, Sizes DEF None, Byte
<1>10. i - 1 \in Components(entries, i)
  <2>1. i - 1 \in 1 .. i - 1 /\ i - 1 .. i - 1 = {i - 1}
    OBVIOUS
  <2> QED
    BY <2>1 DEF Components
<1>11. Associate(entries, i) = [kind |-> "Recovered", byte |-> raw[1]]
  BY <1>1, <1>2, <1>8, <1>9, <1>10 DEF Associate
<1> QED
  BY <1>11 DEF raw

\* A first byte is stated as recovered, and is the one that was written, whenever
\* a deleted component of the same name is right before the entry, in the listing
\* and in what lies past the terminator, whatever was written over the rest.
THEOREM FirstByteCorrect == Spec => []FirstByteIsEvidence
<1>1. HistoryInv => FirstByteIsEvidence
  <2> SUFFICES ASSUME HistoryInv, NEW entries \in {Listing(slots), Residue(slots)},
                      NEW i \in DOMAIN entries, IsDeletedShort(entries[i]), i > 1,
                      IsDeletedComponent(entries[i - 1]),
                      NameOf(entries, i - 1) = NameOf(entries, i)
               PROVE  Associate(entries, i) =
                        [kind |-> "Recovered", byte |-> Stored(NameOf(entries, i))[1]]
    BY DEF FirstByteIsEvidence
  <2>1. PICK n \in Nat : DOMAIN entries = 1 .. n
    BY EntriesAreSlots
  <2>2. i - 1 \in DOMAIN entries
    BY <2>1
  <2>3. PICK s \in Slot : entries[i] = [slot |-> s, kind |-> Classify(slots[s])]
    BY EntriesAreSlots
  <2>4. PICK t \in Slot : entries[i - 1] = [slot |-> t, kind |-> Classify(slots[t])]
    BY <2>2, EntriesAreSlots
  <2>5. NameOf(entries, i) = origin[s] /\ NameOf(entries, i - 1) = origin[t]
    BY <2>3, <2>4 DEF NameOf
  <2> QED
    BY <2>1, <2>3, <2>4, <2>5, Evidence
<1> QED
  BY <1>1, HistoryInvariant, PTL

----------------------------------------------------------------------------
(***************************************************************************)
(* What is listed.                                                         *)
(***************************************************************************)

\* A name no byte of which is unprintable has a stem.
LEMMA StemOfName ==
  ASSUME NEW raw \in Name, raw[1] # Space
  PROVE  TrimTrailingSpaces(SubSeq(raw, 1, StemLen)) # <<>>
<1> DEFINE bytes == SubSeq(raw, 1, StemLen)
           kept == {k \in DOMAIN bytes : \E l \in k .. Len(bytes) : bytes[l] # Space}
<1>1. /\ NameLen \in Nat /\ StemLen \in Nat /\ StemLen >= 1 /\ StemLen <= NameLen
      /\ raw \in Seq(Byte) /\ Len(raw) = NameLen
  BY SlotsAssumption, NameIsSeq
<1>2. /\ bytes \in Seq(Byte) /\ Len(bytes) = StemLen
      /\ DOMAIN bytes = 1 .. StemLen /\ bytes[1] = raw[1]
  BY ONLY <1>1
<1> HIDE DEF bytes
<1>3. 1 \in kept /\ kept \subseteq 1 .. StemLen
  BY <1>1, <1>2
<1> HIDE DEF kept
<1>4. IsFiniteSet(1 .. StemLen) /\ Cardinality(1 .. StemLen) = StemLen
  BY ONLY <1>1, FS_Interval
<1>5. IsFiniteSet(kept) /\ Cardinality(kept) <= StemLen
  BY ONLY <1>3, <1>4, FS_Subset
<1>6. Cardinality(kept) \in Nat /\ Cardinality(kept) # 0
  BY ONLY <1>3, <1>5, FS_CardinalityType, FS_EmptySet
<1> DEFINE c == Cardinality(kept)
<1>7. c \in Nat /\ c # 0 /\ c <= StemLen
  BY <1>5, <1>6
<1> HIDE DEF c
<1>8. Len(SubSeq(bytes, 1, c)) = c
  BY ONLY <1>1, <1>2, <1>7
<1>9. SubSeq(bytes, 1, c) # <<>>
  BY <1>7, <1>8
<1> QED
  BY <1>9 DEF TrimTrailingSpaces, c, kept, bytes

LEMMA Unprintable ==
  ASSUME NEW name \in Names
  PROVE  ShortName(Stored(name)) = NoName <=> \E k \in 1 .. NameLen : name[k] \notin Printable
<1> DEFINE raw == Stored(name)
           stem == TrimTrailingSpaces(SubSeq(raw, 1, StemLen))
           ext == TrimTrailingSpaces(SubSeq(raw, StemLen + 1, NameLen))
<1>1. /\ raw \in Name /\ raw[1] # Space
      /\ raw[1] \in Printable <=> name[1] \in Printable
      /\ \A k \in 2 .. NameLen : raw[k] = name[k]
  BY StoredName
<1>2. NameLen \in Nat /\ \A k \in 1 .. NameLen : k = 1 \/ k \in 2 .. NameLen
  BY Sizes
<1>3. (\A k \in 1 .. NameLen : raw[k] \in Printable)
        <=> ~ \E k \in 1 .. NameLen : name[k] \notin Printable
  BY <1>1, <1>2
<1>4. stem # <<>>
  BY <1>1, StemOfName
<1>5. <<stem, ext>> # NoName
  BY DEF NoName
<1>6. ShortName(raw) = IF (\A k \in 1 .. NameLen : raw[k] \in Printable) /\ stem # <<>>
                       THEN <<stem, ext>> ELSE NoName
  BY DEF ShortName
<1> HIDE DEF stem, ext, raw
<1>7. ShortName(raw) = NoName <=> \E k \in 1 .. NameLen : name[k] \notin Printable
  BY <1>3, <1>4, <1>5, <1>6
<1> QED
  BY <1>7 DEF raw

\* The short entry of a file.
LEMMA FileShort ==
  ASSUME Typed, NEW end, Filed(end), NEW f \in live
  PROVE  /\ f.at \in 1 .. end - 1
         /\ Classify(slots[f.at]) =
              [kind |-> "ShortName", name |-> ShortName(Stored(f.name)),
               raw_name |-> Stored(f.name), directory |-> FALSE, data |-> f.data]
<1>1. /\ f.name \in Names /\ f.data \in Data /\ f.at \in Nat /\ f.parts \in Nat
  BY FileTyped
<1>2. f.at \in Run(f)
  BY <1>1 DEF Run
<1>3. slots[f.at] = ShortEntry(f.name, f.data)
  BY <1>2 DEF Filed, Written
<1>4. f.at \in 1 .. end - 1
  BY <1>2 DEF Filed
<1> QED
  BY <1>1, <1>3, <1>4, ShortWritten

\* The components of a file's long name.
LEMMA FileLong ==
  ASSUME Typed, NEW end, Filed(end), NEW f \in live, NEW i \in f.at - f.parts .. f.at - 1
  PROVE  /\ i \in 1 .. end - 1
         /\ Classify(slots[i]) =
              [kind |-> "LongName", last |-> i = f.at - f.parts,
               checksum |-> Chksum(Stored(f.name)), ordinal |-> f.at - i]
<1>1. /\ f.name \in Names /\ f.at \in Nat /\ f.parts \in Nat /\ f.parts <= MaxParts
      /\ MaxParts \in Nat
  BY FileTyped, Sizes
<1>2. i \in Int /\ i # f.at /\ f.at - i \in 1 .. MaxParts /\ i \in f.at - f.parts .. f.at
  BY ONLY <1>1, i \in f.at - f.parts .. f.at - 1
<1>3. i \in Run(f)
  BY <1>2 DEF Run
<1>4. slots[i] = Component(f.name, f.at - i, f.at - i = f.parts)
  BY <1>2, <1>3 DEF Filed, Written
<1>5. i \in 1 .. end - 1
  BY <1>3 DEF Filed
<1>6. (f.at - i = f.parts) = (i = f.at - f.parts)
  BY ONLY <1>1, <1>2
<1>7. (f.at - i = f.parts) \in BOOLEAN
  OBVIOUS
<1>8. Classify(Component(f.name, f.at - i, f.at - i = f.parts)) =
        [kind |-> "LongName", last |-> f.at - i = f.parts,
         checksum |-> Chksum(Stored(f.name)), ordinal |-> f.at - i]
  BY <1>1, <1>2, <1>7, ComponentWritten
<1> QED
  BY <1>4, <1>5, <1>6, <1>8

\* There is nothing else but what was deleted.
LEMMA Else ==
  ASSUME Typed, NEW end, Filed(end), NEW i \in 1 .. end - 1,
         Classify(slots[i]).kind # "Deleted"
  PROVE  \E f \in live : i = f.at \/ i \in f.at - f.parts .. f.at - 1
<1>1. slots[i].first # Free
  BY Kinds
<1>2. PICK f \in live : i \in Run(f)
  BY <1>1 DEF Filed
<1>3. f.at \in Nat /\ f.parts \in Nat
  BY FileTyped
<1>4. i = f.at \/ i \in f.at - f.parts .. f.at - 1
  BY ONLY <1>2, <1>3 DEF Run
<1> QED
  BY <1>4

\* Observations of three kinds, told apart again.
LEMMA ThreeKinds ==
  ASSUME NEW all, NEW names, NEW invalid, NEW content,
         all = {[kind |-> "NameNotPrintableAscii", slot |-> i] : i \in names}
               \cup {[kind |-> "InvalidAttribute", slot |-> i] : i \in invalid}
               \cup {[kind |-> "ContentAfterTerminator", slot |-> i] : i \in content}
  PROVE  /\ {o.slot : o \in {p \in all : p.kind = "NameNotPrintableAscii"}} = names
         /\ {o.slot : o \in {p \in all : p.kind = "ContentAfterTerminator"}} = content
<1> DEFINE N(i) == [kind |-> "NameNotPrintableAscii", slot |-> i]
           C(i) == [kind |-> "ContentAfterTerminator", slot |-> i]
<1>1. \A i : /\ N(i).kind = "NameNotPrintableAscii" /\ N(i).slot = i
             /\ C(i).kind = "ContentAfterTerminator" /\ C(i).slot = i
  OBVIOUS
<1>2. /\ \A i \in names : N(i) \in all
      /\ \A i \in content : C(i) \in all
  OBVIOUS
<1>3. \A p \in all : /\ p.kind = "NameNotPrintableAscii" => p.slot \in names
                    /\ p.kind = "ContentAfterTerminator" => p.slot \in content
  OBVIOUS
<1> HIDE DEF N, C
<1>4. {o.slot : o \in {p \in all : p.kind = "NameNotPrintableAscii"}} = names
  <2>1. \A i \in names : N(i) \in {p \in all : p.kind = "NameNotPrintableAscii"}
    BY ONLY <1>1, <1>2
  <2>2. \A p \in {q \in all : q.kind = "NameNotPrintableAscii"} : p.slot \in names
    <3> SUFFICES ASSUME NEW p \in all, p.kind = "NameNotPrintableAscii" PROVE p.slot \in names
      OBVIOUS
    <3> QED
      BY <1>3
  <2> QED
    BY ONLY <1>1, <2>1, <2>2
<1>5. {o.slot : o \in {p \in all : p.kind = "ContentAfterTerminator"}} = content
  BY ONLY <1>1, <1>2, <1>3
<1> QED
  BY <1>4, <1>5

\* What is observed of names, and past the terminator.
LEMMA Observed ==
  /\ ObservedAt("NameNotPrintableAscii") =
       {i \in DOMAIN Listing(slots) :
          /\ Classify(slots[i]).kind \in {"ShortName", "VolumeLabel"}
          /\ Classify(slots[i]).name = NoName}
  /\ ObservedAt("ContentAfterTerminator") =
       {i \in ResidueSlots(slots) :
          \A l \in ResidueSlots(slots) : ClusterOf(l) = ClusterOf(i) => i <= l}
<1> DEFINE names == {i \in DOMAIN Listing(slots) :
                       /\ Classify(slots[i]).kind \in {"ShortName", "VolumeLabel"}
                       /\ Classify(slots[i]).name = NoName}
           invalid == {i \in DOMAIN Listing(slots) : Classify(slots[i]).kind = "Invalid"}
           content == {i \in ResidueSlots(slots) :
                        \A l \in ResidueSlots(slots) : ClusterOf(l) = ClusterOf(i) => i <= l}
<1>1. Observations(slots) =
        {[kind |-> "NameNotPrintableAscii", slot |-> i] : i \in names}
        \cup {[kind |-> "InvalidAttribute", slot |-> i] : i \in invalid}
        \cup {[kind |-> "ContentAfterTerminator", slot |-> i] : i \in content}
  BY DEF Observations
<1> HIDE DEF names, invalid, content
<1>2. ObservedAt("NameNotPrintableAscii") = names
  BY <1>1, ThreeKinds DEF ObservedAt
<1>3. ObservedAt("ContentAfterTerminator") = content
  BY <1>1, ThreeKinds DEF ObservedAt
<1> QED
  BY <1>2, <1>3 DEF names, content

\* The first slot with content in a cluster stands for the cluster.
LEMMA Clusters ==
  ASSUME NEW chosen, chosen \subseteq Nat
  PROVE  {ClusterOf(i) : i \in {j \in chosen :
                                  \A l \in chosen : ClusterOf(l) = ClusterOf(j) => j <= l}}
           = {ClusterOf(i) : i \in chosen}
<1> DEFINE first == {j \in chosen : \A l \in chosen : ClusterOf(l) = ClusterOf(j) => j <= l}
<1>1. ASSUME NEW i \in chosen PROVE \E j \in first : ClusterOf(j) = ClusterOf(i)
  <2> DEFINE T == {l \in chosen : ClusterOf(l) = ClusterOf(i)}
  <2>1. T \subseteq Nat /\ T # {}
    OBVIOUS
  <2>2. PICK m \in T : \A l \in T : m <= l
    <3> HIDE DEF T
    <3> QED
      BY ONLY <2>1, LeastNat
  <2>3. m \in first /\ ClusterOf(m) = ClusterOf(i)
    BY <2>2
  <2> QED
    BY <2>3
<1>2. first \subseteq chosen
  OBVIOUS
<1> HIDE DEF first
<1>3. {ClusterOf(i) : i \in first} = {ClusterOf(i) : i \in chosen}
  BY <1>1, <1>2
<1> QED
  BY <1>3 DEF first

\* The listing of a directory that a driver wrote is that directory.
LEMMA Listed ==
  ASSUME HistoryInv
  PROVE  ListingIsTheDirectory
<1>1. PICK end \in 1 .. SlotCount + 1 : Ended(end) /\ Filed(end)
  BY DEF HistoryInv
<1>2. Typed /\ End(slots) = end /\ DriverEnd = end
  BY <1>1, EndIs, OneEnd DEF HistoryInv
<1> DEFINE entries == Listing(slots)
           kindAt(i) == entries[i].kind
           at(kind) == {i \in DOMAIN entries : entries[i].kind.kind = kind}
<1>3. /\ DOMAIN entries = 1 .. end - 1
      /\ \A i \in 1 .. end - 1 : kindAt(i) = Classify(slots[i])
  BY <1>2 DEF Listing, EntryOf
<1> HIDE DEF entries
<1>4. \A f \in live :
        /\ f.at \in 1 .. end - 1
        /\ Classify(slots[f.at]) =
             [kind |-> "ShortName", name |-> ShortName(Stored(f.name)),
              raw_name |-> Stored(f.name), directory |-> FALSE, data |-> f.data]
  BY <1>1, <1>2, FileShort
<1>5. \A f \in live : \A i \in f.at - f.parts .. f.at - 1 :
        /\ i \in 1 .. end - 1
        /\ Classify(slots[i]) =
             [kind |-> "LongName", last |-> i = f.at - f.parts,
              checksum |-> Chksum(Stored(f.name)), ordinal |-> f.at - i]
  BY <1>1, <1>2, FileLong
<1>6. \A i \in 1 .. end - 1 : Classify(slots[i]).kind # "Deleted" =>
        \E f \in live : i = f.at \/ i \in f.at - f.parts .. f.at - 1
  BY <1>1, <1>2, Else
<1>7. /\ \A f \in live : Classify(slots[f.at]).kind = "ShortName"
      /\ \A f \in live : \A i \in f.at - f.parts .. f.at - 1 :
           Classify(slots[i]).kind = "LongName"
  <2>1. ASSUME NEW f \in live PROVE Classify(slots[f.at]).kind = "ShortName"
    <3>1. Classify(slots[f.at]) =
            [kind |-> "ShortName", name |-> ShortName(Stored(f.name)),
             raw_name |-> Stored(f.name), directory |-> FALSE, data |-> f.data]
      BY <1>4
    <3> QED
      BY ONLY <3>1
  <2>2. ASSUME NEW f \in live, NEW i \in f.at - f.parts .. f.at - 1
        PROVE  Classify(slots[i]).kind = "LongName"
    <3>1. Classify(slots[i]) =
            [kind |-> "LongName", last |-> i = f.at - f.parts,
             checksum |-> Chksum(Stored(f.name)), ordinal |-> f.at - i]
      BY <1>5
    <3> QED
      BY ONLY <3>1
  <2> QED
    BY ONLY <2>1, <2>2
<1>8. /\ at("ShortName") = {i \in 1 .. end - 1 : Classify(slots[i]).kind = "ShortName"}
      /\ at("LongName") = {i \in 1 .. end - 1 : Classify(slots[i]).kind = "LongName"}
  BY <1>3
<1>9. at("ShortName") = {f.at : f \in live}
  <2>1. ASSUME NEW i \in at("ShortName") PROVE \E f \in live : i = f.at
    BY <1>6, <1>7, <1>8
  <2>2. ASSUME NEW f \in live PROVE f.at \in at("ShortName")
    BY <1>4, <1>7, <1>8
  <2> HIDE DEF at
  <2> QED
    BY ONLY <2>1, <2>2
<1>10. at("LongName") = UNION {f.at - f.parts .. f.at - 1 : f \in live}
  <2>1. ASSUME NEW i \in at("LongName") PROVE \E f \in live : i \in f.at - f.parts .. f.at - 1
    BY <1>6, <1>7, <1>8
  <2>2. ASSUME NEW f \in live, NEW i \in f.at - f.parts .. f.at - 1
        PROVE  i \in at("LongName")
    BY <1>5, <1>7, <1>8
  <2> HIDE DEF at
  <2> QED
    BY ONLY <2>1, <2>2
<1>11. {<<i, kindAt(i).raw_name, kindAt(i).data>> : i \in at("ShortName")}
         = {<<f.at, Stored(f.name), f.data>> : f \in live}
  <2>1. \A f \in live : kindAt(f.at).raw_name = Stored(f.name) /\ kindAt(f.at).data = f.data
    <3> SUFFICES ASSUME NEW f \in live
                 PROVE  kindAt(f.at).raw_name = Stored(f.name) /\ kindAt(f.at).data = f.data
      OBVIOUS
    <3>1. kindAt(f.at) =
            [kind |-> "ShortName", name |-> ShortName(Stored(f.name)),
             raw_name |-> Stored(f.name), directory |-> FALSE, data |-> f.data]
      BY <1>3, <1>4
    <3> HIDE DEF kindAt
    <3> QED
      BY ONLY <3>1
  <2> HIDE DEF at, kindAt
  <2> QED
    BY ONLY <1>9, <2>1
<1>12. \A f \in live : \A i \in f.at - f.parts .. f.at - 1 :
         kindAt(i) = [kind |-> "LongName", last |-> i = f.at - f.parts,
                      checksum |-> Chksum(Stored(f.name)), ordinal |-> f.at - i]
  BY <1>3, <1>5
<1>13. ObservedAt("NameNotPrintableAscii")
         = {f.at : f \in {g \in live : \E k \in 1 .. NameLen : g.name[k] \notin Printable}}
  <2> DEFINE unprintable(g) == \E k \in 1 .. NameLen : g.name[k] \notin Printable
             noted(i) == /\ Classify(slots[i]).kind \in {"ShortName", "VolumeLabel"}
                         /\ Classify(slots[i]).name = NoName
  <2>1. ObservedAt("NameNotPrintableAscii") = {i \in 1 .. end - 1 : noted(i)}
    BY <1>3, Observed DEF entries
  <2>2. ASSUME NEW f \in live PROVE noted(f.at) <=> unprintable(f)
    <3>1. f.name \in Names
      BY <1>2, FileTyped
    <3>2. ShortName(Stored(f.name)) = NoName <=> unprintable(f)
      BY <3>1, Unprintable
    <3> HIDE DEF unprintable
    <3>3. Classify(slots[f.at]) =
            [kind |-> "ShortName", name |-> ShortName(Stored(f.name)),
             raw_name |-> Stored(f.name), directory |-> FALSE, data |-> f.data]
      BY <1>4
    <3>4. Classify(slots[f.at]).name = ShortName(Stored(f.name))
      BY ONLY <3>3
    <3> QED
      BY <1>7, <3>2, <3>4
  <2>3. ASSUME NEW i \in 1 .. end - 1, noted(i) PROVE \E f \in live : i = f.at
    <3>1. Classify(slots[i]).kind \in {"ShortName", "VolumeLabel"}
      BY <2>3
    <3>2. PICK f \in live : i = f.at \/ i \in f.at - f.parts .. f.at - 1
      BY <1>6, <3>1
    <3> QED
      BY <1>7, <3>1, <3>2
  <2>4. \A f \in live : f.at \in 1 .. end - 1
    BY <1>4
  <2> HIDE DEF unprintable, noted
  <2>5. {i \in 1 .. end - 1 : noted(i)} = {f.at : f \in {g \in live : unprintable(g)}}
    BY ONLY <2>2, <2>3, <2>4
  <2> QED
    BY <2>1, <2>5 DEF unprintable
<1>14. {ClusterOf(i) : i \in ObservedAt("ContentAfterTerminator")}
         = {ClusterOf(i) : i \in {j \in Slot : j > DriverEnd /\ origin[j] # NoName}}
  <2>1. ResidueSlots(slots) = {j \in Slot : j > DriverEnd /\ origin[j] # NoName}
    BY <1>2 DEF ResidueSlots, HistoryInv
  <2>2. ResidueSlots(slots) \subseteq Nat
    BY Sizes DEF ResidueSlots
  <2>3. {ClusterOf(i) : i \in ObservedAt("ContentAfterTerminator")}
          = {ClusterOf(i) : i \in ResidueSlots(slots)}
    BY <2>2, Observed, Clusters
  <2> QED
    BY <2>1, <2>3
<1> QED
  BY <1>10, <1>11, <1>12, <1>13, <1>14 DEF ListingIsTheDirectory, entries

\* The listing of a directory is the directory, whatever was created, deleted and
\* formatted: its live entries are the files, each after the components of its own
\* long name; a name is reported as unprintable where a file has one, and content
\* past the terminator in the clusters that hold some.
THEOREM ListingCorrect == Spec => []ListingIsTheDirectory
BY Listed, HistoryInvariant, PTL
=============================================================================
