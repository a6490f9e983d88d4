------------------------------ MODULE FatTable ------------------------------
(***************************************************************************)
(* The FAT of a FAT12, FAT16 or FAT32 volume as it is on disk: how an      *)
(* entry is written to its bytes, and read and judged.  A byte is two      *)
(* nibbles, the lower first, and so is a 32-bit word eight: a FAT12 entry  *)
(* is three nibbles, and shares a byte with its neighbour.                 *)
(***************************************************************************)
EXTENDS Integers

CONSTANTS Types,        \* the file systems of the volumes
          SectorSize,   \* bytes
          Sectors,      \* of the FAT
          Value         \* 32-bit words that are written as entries

VARIABLES fstype,       \* info.fstype
          fat           \* fat[a]: the nibble at a

vars == <<fstype, fat>>

Nibble == 0..15
Word == [0..7 -> Nibble]

TableAssumption ==
  /\ Types \subseteq {"FAT12", "FAT16", "FAT32"}
  /\ SectorSize \in Nat \ {0} /\ SectorSize % 4 = 0
  /\ Sectors \in Nat \ {0}
  /\ Value \subseteq Word
ASSUME TableAssumption

Address == 0..2 * SectorSize * Sectors - 1

TypeOK == fstype \in Types /\ fat \in [Address -> Nibble]

(* How far apart entries are, and how many nibbles of one count.           *)
Stride(t) == CASE t = "FAT12" -> 3 [] t = "FAT16" -> 4 [] t = "FAT32" -> 8
Width(t) == CASE t = "FAT12" -> 3 [] t = "FAT16" -> 4 [] t = "FAT32" -> 7

(* The clusters whose entries lie in the FAT.                              *)
Cluster(t) == {c \in 2..2 * SectorSize * Sectors : Stride(t) * (c + 1) <= 2 * SectorSize * Sectors}

Zero == [k \in 0..7 |-> 0]
Low(t, v) == [k \in 0..7 |-> IF k < Width(t) THEN v[k] ELSE 0]

-----------------------------------------------------------------------------
(* Seeded fault: of an odd cluster all of the first byte is taken.         *)
TakenOdd(t, c) == IF t = "FAT12" /\ c % 2 = 1 THEN 4 ELSE Width(t)

(* fat12_get_fat_entry: of an even cluster all of the second byte is taken. *)
Taken(t, c) == IF t = "FAT12" /\ c % 2 = 0 THEN 4 ELSE Width(t)

GetIn(f, c) == [k \in 0..7 |-> IF k < Taken(fstype, c) THEN f[Stride(fstype) * c + k] ELSE 0]

Get(c) == GetIn(fat, c)

Number(w) ==
  w[0] + 16 * w[1] + 256 * w[2] + 4096 * w[3] + 65536 * w[4] + 1048576 * w[5] + 16777216 * w[6]

(* Seeded fault: FAT32's limit is taken for every file system.             *)
Reserved32(t) == 268435448

(* fat_check_last_cluster: what ends a chain. *)
Reserved(t) == CASE t = "FAT12" -> 4088 [] t = "FAT16" -> 65528 [] t = "FAT32" -> 268435448

IsLast(t, w) == Number(w) < 2 \/ Number(w) >= Reserved(t)

Bit(x, b) == (x \div b) % 2
Either(x, y, b) == IF Bit(x, b) = 1 \/ Bit(y, b) = 1 THEN b ELSE 0

(* Seeded fault: the bits are added.                                       *)
OrAdded(x, y) == x + y

Or(x, y) == Either(x, y, 1) + Either(x, y, 2) + Either(x, y, 4) + Either(x, y, 8)

(* fat12_set_fat_entry: the byte is looked for in the FAT's first sector,  *)
(* whatever its number, and only that sector is written.  For an even      *)
(* cluster more than 12 bits of the value come through.                    *)
Byte12(c) == (c + c \div 2) % SectorSize

(* Seeded fault: the neighbour's half of the shared byte is not kept.      *)
Written12Whole(c, v) ==
  LET a == 2 * Byte12(c)
  IN  [x \in Address |->
         IF x \in a..a + 3 /\ x < 2 * SectorSize
         THEN IF x - a - (c % 2) \in 0..2 THEN v[x - a - (c % 2)] ELSE 0 ELSE fat[x]]

Written12(c, v) ==
  LET a == 2 * Byte12(c) + (c % 2)
  IN  [x \in Address |->
         IF x \in a..a + 2 /\ x < 2 * SectorSize THEN v[x - a]
         ELSE IF c % 2 = 0 /\ x = a + 3 /\ x < 2 * SectorSize THEN Or(fat[x], v[3])
         ELSE fat[x]]

(* fat16_set_fat_entry and fat32_set_fat_entry; the latter clears the bits *)
(* that are not part of the entry.                                         *)
Written(c, v) ==
  LET a == Stride(fstype) * c
  IN  [x \in Address |-> IF x \in a..a + Stride(fstype) - 1 THEN Low(fstype, v)[x - a] ELSE fat[x]]

After(c, v) == IF fstype = "FAT12" THEN Written12(c, v) ELSE Written(c, v)

SetEntry(c, v) == fat' = After(c, v)

-----------------------------------------------------------------------------
(* The end mark fat_set_bogus_entry writes. *)
Mark(t) == [k \in 0..7 |-> IF k < Width(t) THEN 15 ELSE 0]

Init == fstype \in Types /\ fat = [a \in Address |-> 0]

(* The allocator, and the shell's fat command.                             *)
Set(c, v) == SetEntry(c, v) /\ UNCHANGED fstype

(* The shell's alloc and release, which look at the entry first.           *)
Alloc(c) ==
  /\ IF Get(c) # Zero THEN UNCHANGED fat ELSE SetEntry(c, Mark(fstype))
  /\ UNCHANGED fstype

Release(c) ==
  /\ IF Get(c) = Zero THEN UNCHANGED fat ELSE SetEntry(c, Zero)
  /\ UNCHANGED fstype

Next == \E c \in Cluster(fstype) : Alloc(c) \/ Release(c) \/ \E v \in Value : Set(c, v)

Spec == Init /\ [][Next]_vars

-----------------------------------------------------------------------------
(* Properties.  What the volume says of a cluster: the entry as the file   *)
(* systems define it, whatever the program makes of the bytes.             *)
EntryIn(f, c) == [k \in 0..7 |-> IF k < Width(fstype) THEN f[Stride(fstype) * c + k] ELSE 0]

EntryOf(c) == EntryIn(fat, c)

(* Where fat12_set_fat_entry writes what it should: the entry is within    *)
(* the FAT's first sector, and the value is of at most 12 bits.  The       *)
(* 32-bit end mark of fat_alloc_clusters is not: it spills from an even    *)
(* cluster's entry into the next one.                                      *)
Fits(t, c, v) ==
  t = "FAT12" => c + c \div 2 + 1 < SectorSize /\ \A k \in 3..7 : v[k] = 0

(* To set an entry changes that entry, to what was asked, and no other,    *)
(* though FAT12 entries share bytes, and whatever has been written before; *)
(* as long as a FAT12 entry is in the first sector and the value is of 12  *)
(* bits.                                                                   *)
WritesOneEntry ==
  \A c \in Cluster(fstype), v \in Value \union {Zero, Mark(fstype)} :
    Fits(fstype, c, v) =>
      /\ EntryIn(After(c, v), c) = Low(fstype, v)
      /\ \A d \in Cluster(fstype) \ {c} : EntryIn(After(c, v), d) = EntryOf(d)

(* What was set is what is read, by three functions that write and three   *)
(* that read, but for the bits of its neighbour that an entry of FAT12's   *)
(* even clusters is read with; of FAT12 only as long as the entry is in    *)
(* the first sector and the value is of 12 bits.                           *)
ReadsBack ==
  \A c \in Cluster(fstype), v \in Value \union {Zero, Mark(fstype)} :
    LET got == GetIn(After(c, v), c)
    IN  Fits(fstype, c, v) =>
          /\ Low(fstype, got) = Low(fstype, v)
          /\ fstype # "FAT12" \/ c % 2 = 1 => got = Low(fstype, v)

(* Even those end a chain if their entry says so: the walks of the FAT     *)
(* allocator stop there.                                                   *)
MarksEnd == \A c \in Cluster(fstype) : EntryOf(c) = Mark(fstype) => IsLast(fstype, Get(c))

=============================================================================
