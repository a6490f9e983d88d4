---------------------------- MODULE FatTableProofs ----------------------------
(***************************************************************************)
(* Theorems about FatTable, for every sector size, number of sectors and   *)
(* set of values.                                                          *)
(***************************************************************************)
EXTENDS FatTable, TLAPS

(* The one fact about remainders: a byte of the first sector has its own   *)
(* number as its offset.                                                   *)
LEMMA FirstSector == \A x \in Nat, n \in Nat \ {0} : x < n => x % n = x
  BY SMT

LEMMA Halves == \A c \in Nat : c = 2 * (c \div 2) + (c % 2) /\ c \div 2 \in Nat /\ c % 2 \in {0, 1}
  BY SMT

(* Wherever a FAT12 entry is in the first sector, fat12_set_fat_entry      *)
(* finds its first nibble.                                                 *)
LEMMA Nibble12 ==
  ASSUME NEW c \in Nat, c + c \div 2 + 1 < SectorSize
  PROVE  2 * Byte12(c) + (c % 2) = 3 * c
<1>1. SectorSize \in Nat \ {0}
  BY TableAssumption DEF TableAssumption
<1>2. c \div 2 \in Nat /\ c = 2 * (c \div 2) + (c % 2) /\ c % 2 \in {0, 1}
  BY Halves
<1>3. c + c \div 2 \in Nat /\ c + c \div 2 < SectorSize
  BY <1>1, <1>2
<1>4. Byte12(c) = c + c \div 2
  BY <1>1, <1>3, FirstSector DEF Byte12
<1> QED
  BY <1>2, <1>4

LEMMA OrBits == \A x, y \in Nibble : Or(x, y) \in Nibble
  BY SMT DEF Nibble, Or, Either

LEMMA OrZero == \A x \in Nibble : Or(x, 0) = x
<1> TAKE x \in Nibble
<1>1. \A b \in {1, 2, 4, 8} : Bit(0, b) = 0
  BY DEF Bit
<1>2. x \in {0, 1, 2, 3, 4, 5, 6, 7, 8, 9, 10, 11, 12, 13, 14, 15}
  BY DEF Nibble
<1>3. /\ Either(x, 0, 1) = IF Bit(x, 1) = 1 THEN 1 ELSE 0
      /\ Either(x, 0, 2) = IF Bit(x, 2) = 1 THEN 2 ELSE 0
      /\ Either(x, 0, 4) = IF Bit(x, 4) = 1 THEN 4 ELSE 0
      /\ Either(x, 0, 8) = IF Bit(x, 8) = 1 THEN 8 ELSE 0
  BY <1>1 DEF Either
<1> QED
  BY <1>2, <1>3, SMT DEF Or, Bit

-----------------------------------------------------------------------------
LEMMA Marked == \A t \in Types : Mark(t) \in Word /\ Zero \in Word
  BY DEF Mark, Zero, Word, Nibble

LEMMA Stored ==
  ASSUME TypeOK, NEW c \in Cluster(fstype), NEW v \in Word
  PROVE  After(c, v) \in [Address -> Nibble]
<1>1. \A x \in Address : fat[x] \in Nibble
  BY DEF TypeOK
<1>2. \A k \in 0..7 : v[k] \in Nibble
  BY DEF Word
<1>3. c \in Nat
  BY DEF Cluster
<1>4. CASE fstype = "FAT12"
  <2> DEFINE a == 2 * Byte12(c) + (c % 2)
  <2>1. a \in Int
    BY <1>3, TableAssumption DEF TableAssumption, Byte12
  <2>2. ASSUME NEW x \in Address, x \in a..a + 2 PROVE v[x - a] \in Nibble
    BY <2>1, <2>2, <1>2 DEF Address
  <2>3. \A x \in Address : Or(fat[x], v[3]) \in Nibble
    BY <1>1, <1>2, OrBits
  <2>4. Written12(c, v) \in [Address -> Nibble]
    BY <1>1, <2>2, <2>3 DEF Written12
  <2> QED
    BY <1>4, <2>4 DEF After
<1>5. CASE fstype # "FAT12"
  <2> DEFINE a == Stride(fstype) * c
             s == Stride(fstype)
  <2>1. s \in {4, 8}
    BY <1>5, TableAssumption DEF Stride, TypeOK, TableAssumption
  <2>2. a \in Int
    BY <1>3, <2>1
  <2>3. \A k \in 0..7 : Low(fstype, v)[k] \in Nibble
    BY <1>2 DEF Low, Nibble
  <2>4. ASSUME NEW x \in Address, x \in a..a + s - 1 PROVE Low(fstype, v)[x - a] \in Nibble
    <3> HIDE DEF a, s
    <3>1. x - a \in 0..7
      BY <2>1, <2>2, <2>4 DEF Address
    <3> QED
      BY <3>1, <2>3
  <2>5. Written(c, v) \in [Address -> Nibble]
    BY <1>1, <2>4 DEF Written
  <2> QED
    BY <1>5, <2>5 DEF After
<1> QED
  BY <1>4, <1>5

(* No byte of the FAT ever holds what no byte can, whatever is allocated,  *)
(* released or set, and the volume stays of its kind.                      *)
THEOREM TypeCorrect == Spec => []TypeOK
<1>1. Init => TypeOK
  BY DEF Init, TypeOK, Nibble
<1>2. TypeOK /\ [Next]_vars => TypeOK'
  <2> SUFFICES ASSUME TypeOK, [Next]_vars PROVE TypeOK'
    OBVIOUS
  <2>1. ASSUME NEW c \in Cluster(fstype), NEW v \in Word, SetEntry(c, v), UNCHANGED fstype
        PROVE  TypeOK'
    BY <2>1, Stored DEF SetEntry, TypeOK
  <2>2. fstype \in Types
    BY DEF TypeOK
  <2>3. ASSUME NEW c \in Cluster(fstype), Alloc(c) PROVE TypeOK'
    BY <2>1, <2>2, <2>3, Marked DEF Alloc, TypeOK
  <2>4. ASSUME NEW c \in Cluster(fstype), Release(c) PROVE TypeOK'
    BY <2>1, <2>2, <2>4, Marked DEF Release, TypeOK
  <2>5. ASSUME NEW c \in Cluster(fstype), NEW v \in Value, Set(c, v) PROVE TypeOK'
    <3>1. v \in Word
      BY TableAssumption DEF TableAssumption
    <3> QED
      BY <2>1, <2>5, <3>1 DEF Set
  <2>6. ASSUME UNCHANGED vars PROVE TypeOK'
    BY <2>6 DEF vars, TypeOK
  <2> QED
    BY <2>3, <2>4, <2>5, <2>6 DEF Next
<1> QED
  BY <1>1, <1>2, PTL DEF Spec

-----------------------------------------------------------------------------
(* What a written entry is, nibble by nibble: of FAT12 too it is as if the *)
(* entries lay one after the other and shared nothing.                     *)
LEMMA Apart ==
  ASSUME TypeOK, NEW c \in Cluster(fstype), NEW v \in Word, Fits(fstype, c, v)
  PROVE  \A x \in Address :
           After(c, v)[x] =
             IF x \in Stride(fstype) * c..Stride(fstype) * (c + 1) - 1
             THEN Low(fstype, v)[x - Stride(fstype) * c] ELSE fat[x]
<1>1. c \in Nat
  BY DEF Cluster
<1>2. CASE fstype = "FAT12"
  <2>1. SectorSize \in Nat /\ c + c \div 2 + 1 < SectorSize /\ \A k \in 3..7 : v[k] = 0
    BY <1>2, TableAssumption DEF Fits, TableAssumption
  <2>2. 2 * Byte12(c) + (c % 2) = 3 * c
    BY <1>1, <2>1, Nibble12
  <2>3. 2 * Byte12(c) = 3 * c - (c % 2) /\ c % 2 \in {0, 1}
    BY <1>1, <2>2, Halves, TableAssumption DEF Byte12, TableAssumption
  <2>4. 3 * c + 2 < 2 * SectorSize
    BY <1>1, <2>1, Halves
  <2>5. \A x \in Address : fat[x] \in Nibble
    BY DEF TypeOK
  <2>6. \A x \in Address : Or(fat[x], v[3]) = fat[x]
    BY <2>1, <2>5, OrZero
  <2>7. Stride(fstype) = 3
    BY <1>2 DEF Stride
  <2>8. \A x \in Address :
          After(c, v)[x] = IF x \in 3 * c..3 * c + 2 THEN v[x - 3 * c] ELSE fat[x]
    <3> TAKE x \in Address
    <3> DEFINE a == 2 * Byte12(c) + (c % 2)
    <3>1. After(c, v)[x] =
            IF x \in a..a + 2 /\ x < 2 * SectorSize THEN v[x - a]
            ELSE IF c % 2 = 0 /\ x = a + 3 /\ x < 2 * SectorSize THEN Or(fat[x], v[3])
            ELSE fat[x]
      BY <1>2 DEF After, Written12
    <3>2. a = 3 * c
      BY <2>2
    <3>3. x \in Int /\ 3 * c \in Int
      BY <1>1 DEF Address
    <3> HIDE DEF a
    <3>4. x \in 3 * c..3 * c + 2 => x < 2 * SectorSize
      BY <2>1, <2>4, <3>3
    <3> QED
      BY <2>6, <3>1, <3>2, <3>4
  <2>9. \A k \in 0..2 : Low(fstype, v)[k] = v[k]
    BY <1>2 DEF Low, Width
  <2>10. ASSUME NEW x \in Address, x \in 3 * c..3 * c + 2
         PROVE  Low(fstype, v)[x - 3 * c] = v[x - 3 * c]
    <3>1. x - 3 * c \in 0..2
      BY <1>1, <2>10 DEF Address
    <3> QED
      BY <3>1, <2>9
  <2>11. 3 * (c + 1) - 1 = 3 * c + 2
    BY <1>1
  <2> QED
    BY <2>7, <2>8, <2>10, <2>11
<1>3. CASE fstype # "FAT12"
  <2>1. Stride(fstype) \in {4, 8}
    BY <1>3, TableAssumption DEF Stride, TypeOK, TableAssumption
  <2>2. Stride(fstype) * (c + 1) - 1 = Stride(fstype) * c + Stride(fstype) - 1
    BY <1>1, <2>1
  <2> QED
    BY <1>3, <2>2 DEF After, Written
<1> QED
  BY <1>2, <1>3

(* A 12, 16 or 28-bit entry that is set is that, and every other entry is  *)
(* what it was: for every sector size, at every state that the allocator   *)
(* and the shell's commands lead to.  On FAT16 and FAT32 this is so of any *)
(* entry and value, on FAT12 where Fits says: an entry within the first    *)
(* sector, a value of at most 12 bits.                                     *)
THEOREM OneEntry == Spec => []WritesOneEntry
<1>1. TypeOK => WritesOneEntry
  <2> SUFFICES ASSUME TypeOK,
                      NEW c \in Cluster(fstype), NEW v \in Value \union {Zero, Mark(fstype)},
                      Fits(fstype, c, v)
               PROVE  /\ EntryIn(After(c, v), c) = Low(fstype, v)
                      /\ \A d \in Cluster(fstype) \ {c} : EntryIn(After(c, v), d) = EntryOf(d)
    BY DEF WritesOneEntry
  <2> DEFINE s == Stride(fstype)
             w == Width(fstype)
  <2>1. v \in Word
    BY TableAssumption, Marked DEF TypeOK, TableAssumption
  <2>2. s \in {3, 4, 8} /\ w \in 1..s
    BY TableAssumption DEF Stride, Width, TypeOK, TableAssumption
  <2>3. \A x \in Address :
          After(c, v)[x] = IF x \in s * c..s * (c + 1) - 1 THEN Low(fstype, v)[x - s * c] ELSE fat[x]
    BY <2>1, Apart
  <2>4. \A d \in Cluster(fstype), k \in 0..7 : k < w => s * d + k \in Address
    BY <2>2, TableAssumption DEF Cluster, Address, TableAssumption
  <2>5. \A k \in 0..7 : ~(k < w) => Low(fstype, v)[k] = 0
    BY DEF Low
  <2> HIDE DEF s, w
  <2>6. \A d \in Cluster(fstype) : d \in Nat
    BY DEF Cluster
  <2>7. ASSUME NEW k \in 0..7, k < w PROVE After(c, v)[s * c + k] = Low(fstype, v)[k]
    <3>1. s * c + k \in s * c..s * (c + 1) - 1 /\ (s * c + k) - s * c = k
      BY <2>2, <2>6, <2>7
    <3> QED
      BY <2>3, <2>4, <2>7, <3>1
  <2>8. ASSUME NEW d \in Cluster(fstype) \ {c}, NEW k \in 0..7, k < w
        PROVE  After(c, v)[s * d + k] = fat[s * d + k]
    <3>1. s * d + k \notin s * c..s * (c + 1) - 1
      BY <2>2, <2>6, <2>8
    <3> QED
      BY <2>3, <2>4, <2>8, <3>1
  <2>9. EntryIn(After(c, v), c) = Low(fstype, v)
    BY <2>5, <2>7 DEF EntryIn, Low, s, w
  <2>10. ASSUME NEW d \in Cluster(fstype) \ {c} PROVE EntryIn(After(c, v), d) = EntryOf(d)
    BY <2>8 DEF EntryIn, EntryOf, s, w
  <2> QED
    BY <2>9, <2>10
<1> QED
  BY <1>1, TypeCorrect, PTL

(* What was set is what the program then reads, for every sector size: on  *)
(* FAT16 and FAT32 for any entry and value; on FAT12 for an entry within   *)
(* the first sector and a value of at most 12 bits (Fits), and there, if   *)
(* the cluster is even, but for the neighbour's bits.                      *)
THEOREM RoundTrip == Spec => []ReadsBack
<1>1. TypeOK /\ WritesOneEntry => ReadsBack
  <2> SUFFICES ASSUME TypeOK, WritesOneEntry,
                      NEW c \in Cluster(fstype), NEW v \in Value \union {Zero, Mark(fstype)},
                      Fits(fstype, c, v)
               PROVE  /\ Low(fstype, GetIn(After(c, v), c)) = Low(fstype, v)
                      /\ fstype # "FAT12" \/ c % 2 = 1 => GetIn(After(c, v), c) = Low(fstype, v)
    BY DEF ReadsBack
  <2> DEFINE got == GetIn(After(c, v), c)
             w == Width(fstype)
  <2>1. EntryIn(After(c, v), c) = Low(fstype, v)
    BY DEF WritesOneEntry
  <2>2. w \in {3, 4, 7} /\ Taken(fstype, c) \in {w, 4} /\ Taken(fstype, c) >= w
    BY TableAssumption DEF Taken, Width, TypeOK, TableAssumption
  <2>3. \A k \in 0..7 : k < w => got[k] = EntryIn(After(c, v), c)[k]
    BY <2>2 DEF GetIn, EntryIn
  <2>4. Low(fstype, got) = Low(fstype, v)
    BY <2>1, <2>3 DEF Low
  <2>5. ASSUME fstype # "FAT12" \/ c % 2 = 1 PROVE got = EntryIn(After(c, v), c)
    BY <2>5 DEF GetIn, EntryIn, Taken
  <2> QED
    BY <2>1, <2>4, <2>5
<1> QED
  BY <1>1, TypeCorrect, OneEntry, PTL

(* The mark that ends a chain is told from a link for each of the three    *)
(* widths, though FAT12's is read with four bits of its neighbour.         *)
THEOREM EndsSeen == Spec => []MarksEnd
<1>1. TypeOK => MarksEnd
  <2> SUFFICES ASSUME TypeOK, NEW c \in Cluster(fstype), EntryOf(c) = Mark(fstype)
               PROVE  IsLast(fstype, Get(c))
    BY DEF MarksEnd
  <2> DEFINE w == Width(fstype)
             g == Get(c)
  <2>1. w \in {3, 4, 7} /\ (fstype = "FAT12" <=> w = 3) /\ (fstype = "FAT16" <=> w = 4)
        /\ (fstype = "FAT32" <=> w = 7)
    BY TableAssumption DEF Width, TypeOK, TableAssumption
  <2>2. \A k \in 0..7 : k < w => fat[Stride(fstype) * c + k] = 15
    <3>1. \A k \in 0..7 : EntryOf(c)[k] = Mark(fstype)[k]
      OBVIOUS
    <3> QED
      BY <3>1 DEF EntryOf, EntryIn, Mark
  <2>3. Taken(fstype, c) \in {w, 4} /\ Taken(fstype, c) >= w
    BY <2>1 DEF Taken
  <2>4. \A k \in 0..7 : k < w => g[k] = 15
    BY <2>1, <2>2, <2>3 DEF Get, GetIn
  <2>5. g[3] \in Nibble
    <3>1. CASE Taken(fstype, c) < 4
      BY <3>1, <2>1, <2>3 DEF Get, GetIn, Nibble
    <3>2. CASE fstype # "FAT12"
      BY <3>2, <2>1, <2>4 DEF Nibble
    <3>3. CASE fstype = "FAT12" /\ Taken(fstype, c) = 4
      <4>1. c % 2 = 0
        BY <3>3, <2>1 DEF Taken
      <4>2. 3 * c + 3 \in Address
        \* The FAT has an even number of nibbles: an even cluster's entry is not its last.
        <5> DEFINE bytes == SectorSize * Sectors
        <5>1. bytes \in Nat /\ 2 * SectorSize * Sectors = 2 * bytes
          BY TableAssumption DEF TableAssumption
        <5>2. c \in Nat /\ 3 * (c + 1) <= 2 * bytes
          BY <3>3, <5>1 DEF Cluster, Stride
        <5>3. c = 2 * (c \div 2) /\ c \div 2 \in Nat
          BY <4>1, <5>2, Halves
        <5> HIDE DEF bytes
        <5>4. 3 * c + 3 < 2 * bytes
          BY <5>1, <5>2, <5>3
        <5> QED
          BY <5>1, <5>2, <5>4 DEF Address
      <4> QED
        BY <3>3, <4>2 DEF Get, GetIn, Stride, TypeOK
    <3> QED
      BY <3>1, <3>2, <3>3, <2>1, <2>3
  <2> QED
    BY <2>1, <2>3, <2>4, <2>5 DEF IsLast, Reserved, Number, Get, GetIn, Nibble
<1> QED
  BY <1>1, TypeCorrect, PTL

=============================================================================
