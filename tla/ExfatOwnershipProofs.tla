------------------------- MODULE ExfatOwnershipProofs -------------------------
(***************************************************************************)
(* Proofs about the exFAT allocator, for every volume and every image.     *)
(* First what holds of it under any commands, raw ones and restarts        *)
(* included: its types (the fileinfos, the dentries, their sizes and the   *)
(* registers are within their bounds; the code does write outside the FAT, *)
(* to what the model has as one cell behind it and the words before it),   *)
(* that the two copies of the bitmap agree, and that a cluster being given *)
(* out is free.  The three are proved together, as none is inductive       *)
(* alone: the search reads the bitmap in memory, the property speaks of    *)
(* the one on disk; and a size stays within MaxLen, or a register is a     *)
(* cluster number, only because of where in its command the program is,    *)
(* which is what Ready says.                                               *)
(*                                                                         *)
(* Then what it guarantees to the directories under careful use, where     *)
(* those of the image are sound: their clusters stay their own and marked, *)
(* whatever is filled, made, trimmed and removed, and wherever the program *)
(* is killed.                                                              *)
(*                                                                         *)
(* At last, that with fill and trim alone it loses nothing: at the prompt  *)
(* every marked cluster is a directory's or the volume's own, and every    *)
(* size is true, on disk and in memory.                                    *)
(***************************************************************************)
EXTENDS ExfatOwnership, InductionLemmas

\* The statements of exfat_alloc_clusters.
Growing == {"last", "scan", "link", "mark", "convert", "chain", "runaway", "size"}

(* What holds at each statement of a command, beyond the types: a command  *)
(* that grows a directory has room for it under the bound on sizes, the    *)
(* count of clusters to come is not 0 while one is looked for, a create    *)
(* has a slot, calls left, and a first cluster to put in its dentry, what  *)
(* is cut off is a word the FAT held, and a removal has a slot.            *)
Ready ==
  /\ pc \in Growing => /\ r.op \in {"fill", "create"}
                       /\ r.num > 0
                       /\ head[r.obj].len + r.num <= MaxLen
  /\ pc \in {"scan", "link", "mark"} => r.left > 0
  /\ pc \in {"chain", "runaway"} => r.clu \in Nat
  /\ pc \in Growing \union {"new", "newmark"} =>
       (r.op = "create" => r.slot \in Slot /\ r.passes \in 1..2)
  /\ pc \in {"new", "newmark"} => r.op = "create" /\ r.next >= EXFAT_FIRST_CLUSTER
  /\ pc = "enter" => r.slot \in Slot /\ r.clu \in FirstCluster
  /\ pc = "unmark" => r.next \in Number
  /\ r.op = "remove" => r.slot \in Slot

IInv == TypeOK /\ BitmapCoherent /\ ChosenIsFree /\ Ready

-----------------------------------------------------------------------------
(* Lemmas on the operators.                                                *)

\* Every number a register holds names a word of the FAT, or the cell past its end.
LEMMA ClipWord ==
  ASSUME NEW w \in Number
  PROVE  Clip(w) \in Word
BY VolumeAssumption DEF Clip, Word, Number, Past, EXFAT_BADCLUSTER, MediaType, EXFAT_LASTCLUSTER

LEMMA WordNumber == Word \subseteq Number /\ Number \subseteq Int
BY VolumeAssumption DEF Word, Number, Past, EXFAT_BADCLUSTER, MediaType, EXFAT_LASTCLUSTER

\* What the FAT says of the cluster in a register is a number a register can take.
LEMMA FatEntry ==
  ASSUME TypeOK
  PROVE  r.clu \in Number /\ fat[Clip(r.clu)] \in Number /\ fat[Clip(r.clu)] \in Int
<1>1. r.clu \in Number /\ Clip(r.clu) \in Word /\ fat \in [Word -> Word]
  BY ClipWord DEF TypeOK, VolumeTypeOK, Registers
<1>2. QED  BY <1>1, WordNumber

\* exfat_set_fat_entry keeps the FAT a table of words.
LEMMA SetFatType ==
  ASSUME NEW clu \in Number, NEW entry \in Number, fat \in [Word -> Word], SetFat(clu, entry)
  PROVE  fat' \in [Word -> Word]
BY ClipWord DEF SetFat

\* exfat_save_bitmap keeps both copies sets of clusters, and equal.
LEMMA SaveBitmapBoth ==
  ASSUME NEW clu, NEW value, SaveBitmap(clu, value),
         bitmap \subseteq Cluster, alloc_table \subseteq Cluster, alloc_table = bitmap
  PROVE  bitmap' \subseteq Cluster /\ alloc_table' \subseteq Cluster /\ alloc_table' = bitmap'
BY DEF SaveBitmap

\* exfat_update_filesize keeps the dentries well-typed.
LEMMA UpdateFilesizeType ==
  ASSUME NEW clu, NEW f \in Entry, stream \in [Slot -> Entry], UpdateFilesize(clu, f)
  PROVE  stream' \in [Slot -> Entry]
<1>1. CASE UNCHANGED stream
  BY <1>1
<1>2. CASE stream' = [stream EXCEPT ![StreamOf(clu)].len = f.len, ![StreamOf(clu)].nofat = f.nofat]
  BY <1>2 DEF Entry
<1>3. QED  BY <1>1, <1>2 DEF UpdateFilesize

\* Reading the directory again keeps the heads well-typed.
LEMMA HeadsType ==
  ASSUME NEW d \in [Slot -> Entry], NEW old \in [FirstCluster -> Entry]
  PROVE  Heads(d, old) \in [FirstCluster -> Entry]
<1> DEFINE found(c) == {s \in Slot : d[s].live /\ d[s].clu = c}
           first(c) == CHOOSE s \in found(c) : \A t \in found(c) : s <= t
<1>1. ASSUME NEW c \in FirstCluster, found(c) # {} PROVE d[first(c)] \in Entry
  <2>1. \E s \in found(c) : \A t \in found(c) : s <= t
    <3>1. found(c) \subseteq Nat
      BY DEF Slot
    <3> HIDE DEF found
    <3>2. QED  BY <1>1, <3>1, LeastExists
  <2>2. first(c) \in found(c)
    BY <2>1
  <2>3. QED  BY <2>2
<1>2. \A c \in FirstCluster :
        (IF old[c].live \/ found(c) = {} THEN old[c] ELSE d[first(c)]) \in Entry
  BY <1>1
<1>3. QED  BY <1>2 DEF Heads

\* Before anything is read, the root has the only head.
LEMMA OpenedType ==
  ASSUME NEW flag \in RootFlags
  PROVE  Opened(flag) \in [FirstCluster -> Entry]
BY VolumeAssumption, AllocAssumption DEF Opened, RootHead, NoEntry, Entry, FirstCluster, Cluster, EXFAT_FIRST_CLUSTER

LEMMA NoCallType == NoCall \in Registers
BY VolumeAssumption DEF NoCall, Registers, Command, FirstCluster, Number, NoEntry, Entry

\* The running command's fileinfo is a fileinfo, and remains one when its size is set.
LEMMA FType ==
  ASSUME TypeOK, Ready
  PROVE  F \in Entry
BY DEF TypeOK, Ready, Registers, F

LEMMA SetFType ==
  ASSUME TypeOK, NEW len \in 0..MaxLen, NEW nofat \in BOOLEAN, SetF(len, nofat)
  PROVE  head' \in [FirstCluster -> Entry] /\ child' \in [Slot -> Entry]
<1>1. CASE r.op = "remove"
  BY <1>1 DEF SetF, TypeOK, Entry
<1>2. CASE r.op # "remove"
  BY <1>2 DEF SetF, TypeOK, Entry
<1>3. QED  BY <1>1, <1>2

\* A command that returns leaves nothing behind in the registers.
LEMMA ReturnInv ==
  ASSUME Return
  PROVE  pc' \in Label /\ r' \in Registers /\ ChosenIsFree' /\ Ready'
BY NoCallType DEF Return, Label, ChosenIsFree, Ready, Growing, NoCall

-----------------------------------------------------------------------------
(* The initial states.                                                     *)
LEMMA InitInv == Init => IInv
<1> SUFFICES ASSUME Init PROVE IInv
  OBVIOUS
<1>1. PICK img \in Images, flag \in RootFlags :
        /\ fat = img.fat
        /\ bitmap = img.bitmap
        /\ alloc_table = img.bitmap
        /\ stream = img.stream
        /\ child = img.stream
        /\ head = Heads(img.stream, Opened(flag))
  BY DEF Init
<1>2. pc = "idle" /\ r = NoCall
  BY DEF Init
<1>3. TypeOK
  BY <1>1, <1>2, AllocAssumption, HeadsType, OpenedType, NoCallType DEF TypeOK, VolumeTypeOK, Label
<1>4. BitmapCoherent /\ ChosenIsFree /\ Ready
  BY <1>1, <1>2 DEF BitmapCoherent, ChosenIsFree, Ready, Growing, NoCall
<1>5. QED  BY <1>3, <1>4 DEF IInv

-----------------------------------------------------------------------------
(* exfat_alloc_clusters.                                                   *)

\* Registers and label, when the rest of the state is as it was.
LEMMA OnlyRegisters ==
  ASSUME IInv, UNCHANGED <<volume, memory>>, r' \in Registers, pc' \in Label
  PROVE  TypeOK' /\ BitmapCoherent'
BY DEF IInv, TypeOK, VolumeTypeOK, BitmapCoherent, volume, memory

\* The step writes to the FAT, and changes only the registers besides.
LEMMA OnlyFat ==
  ASSUME IInv, UNCHANGED <<bitmap, stream, alloc_table, memory>>, r' \in Registers, pc' \in Label,
         NEW clu \in Number, NEW entry \in Number, SetFat(clu, entry)
  PROVE  TypeOK' /\ BitmapCoherent'
<1>1. fat' \in [Word -> Word]
  BY SetFatType DEF IInv, TypeOK, VolumeTypeOK
<1>2. QED  BY <1>1 DEF IInv, TypeOK, VolumeTypeOK, BitmapCoherent, memory

\* The step writes to the bitmap, and changes only the registers besides.
LEMMA OnlyBitmap ==
  ASSUME IInv, UNCHANGED <<fat, stream, memory>>, r' \in Registers, pc' \in Label,
         NEW clu, NEW value, SaveBitmap(clu, value)
  PROVE  TypeOK' /\ BitmapCoherent'
<1>1. bitmap' \subseteq Cluster /\ alloc_table' \subseteq Cluster /\ alloc_table' = bitmap'
  BY SaveBitmapBoth DEF IInv, TypeOK, VolumeTypeOK, BitmapCoherent
<1>2. QED  BY <1>1 DEF IInv, TypeOK, VolumeTypeOK, BitmapCoherent, memory

LEMMA ScanFromInv ==
  ASSUME IInv, pc = "last", NEW last \in Number, ScanFrom(last), UNCHANGED <<volume, memory>>
  PROVE  IInv'
<1>1. r \in Registers /\ last + 1 \in Int /\ r.num \in Nat
  BY DEF IInv, TypeOK, Registers, Number, EXFAT_BADCLUSTER, MediaType, EXFAT_LASTCLUSTER
<1>2. r' \in Registers
  BY <1>1, Zenon DEF Registers, ScanFrom
<1>3. pc' = "scan"
  BY DEF ScanFrom, Goto
<1>4. TypeOK' /\ BitmapCoherent'
  BY <1>2, <1>3, OnlyRegisters DEF Label
<1>5. ChosenIsFree'
  BY <1>3 DEF ChosenIsFree
<1>6. Ready'
  BY <1>1, <1>3 DEF IInv, Ready, Growing, ScanFrom, memory
<1>7. QED  BY <1>4, <1>5, <1>6 DEF IInv

LEMMA LastInv ==
  ASSUME IInv, LastContiguous \/ LastFollow \/ LastFound \/ LastMissing
  PROVE  IInv'
<1> F \in Entry /\ r \in Registers
  BY FType DEF IInv, TypeOK
<1>1. CASE LastContiguous
  <2>1. r.obj + F.len - 1 \in Number
    BY VolumeAssumption DEF Entry, Registers, FirstCluster, Cluster, EXFAT_FIRST_CLUSTER, Number, EXFAT_LASTCLUSTER
  <2>2. QED  BY <1>1, <2>1, ScanFromInv DEF LastContiguous
<1>2. CASE LastFollow
  <2>1. fat[Clip(r.clu)] \in Number /\ r.i + 1 \in Nat
    BY FatEntry DEF IInv, Registers
  <2>2. r' \in Registers
    BY <1>2, <2>1, Zenon DEF Registers, LastFollow
  <2>3. TypeOK' /\ BitmapCoherent'
    BY <1>2, <2>2, OnlyRegisters DEF LastFollow, IInv, TypeOK
  <2>4. ChosenIsFree' /\ Ready'
    BY <1>2 DEF LastFollow, IInv, ChosenIsFree, Ready, Growing, memory, volume
  <2>5. QED  BY <2>3, <2>4 DEF IInv
<1>3. CASE LastFound
  BY <1>3, ScanFromInv DEF LastFound, Registers
<1>4. CASE LastMissing
  BY <1>4, ScanFromInv DEF LastMissing, Number, EXFAT_LASTCLUSTER
<1>5. QED  BY <1>1, <1>2, <1>3, <1>4

LEMMA ScanInv ==
  ASSUME IInv, ScanSkip \/ ScanTake \/ ScanExhausted
  PROVE  IInv'
<1> r \in Registers /\ Candidate \in Int
  BY DEF IInv, TypeOK, Registers, Candidate, EXFAT_FIRST_CLUSTER
<1>1. CASE ScanSkip
  <2>1. r' \in Registers
    <3>1. Candidate + 1 \in Int
      OBVIOUS
    <3>2. QED  BY <1>1, <3>1, Zenon DEF Registers, ScanSkip
  <2>2. TypeOK' /\ BitmapCoherent'
    BY <1>1, <2>1, OnlyRegisters DEF ScanSkip, IInv, TypeOK
  <2>3. ChosenIsFree' /\ Ready'
    BY <1>1 DEF ScanSkip, IInv, ChosenIsFree, Ready, Growing, memory, volume
  <2>4. QED  BY <2>2, <2>3 DEF IInv
<1>2. CASE ScanTake
  <2>1. Candidate \in Scanned \ bitmap
    BY <1>2, VolumeAssumption
       DEF ScanTake, InUse, Candidate, Above, Cluster, Scanned, IInv, BitmapCoherent, EXFAT_FIRST_CLUSTER
  <2>2. Candidate \in Number /\ EXFAT_LASTCLUSTER \in Number
    BY <2>1 DEF Scanned, Number, EXFAT_FIRST_CLUSTER
  <2>3. r' \in Registers
    <3>1. (r.contig /\ Candidate - r.clu = 1) \in BOOLEAN
      OBVIOUS
    <3>2. QED  BY <1>2, <3>1, Zenon DEF Registers, ScanTake
  <2>4. TypeOK' /\ BitmapCoherent'
    BY <1>2, <2>2, <2>3, OnlyFat DEF ScanTake, Goto, Label
  <2>5. ChosenIsFree'
    BY <1>2, <2>1 DEF ScanTake, ChosenIsFree, Scanned
  <2>6. Ready'
    BY <1>2 DEF ScanTake, Goto, IInv, Ready, Growing, memory
  <2>7. QED  BY <2>4, <2>5, <2>6 DEF IInv
<1>3. CASE ScanExhausted
  <2>1. TypeOK' /\ BitmapCoherent'
    BY <1>3, OnlyRegisters DEF ScanExhausted, Goto, Label
  <2>2. ChosenIsFree' /\ Ready'
    BY <1>3 DEF ScanExhausted, Goto, IInv, ChosenIsFree, Ready, Growing, memory
  <2>3. QED  BY <2>1, <2>2 DEF IInv
<1>4. QED  BY <1>1, <1>2, <1>3

LEMMA LinkMarkInv ==
  ASSUME IInv, Link \/ Mark
  PROVE  IInv'
<1> r \in Registers
  BY DEF IInv, TypeOK
<1>1. CASE Link
  <2>1. r.clu \in Number /\ r.next \in Number
    BY <1>1 DEF Link, IInv, ChosenIsFree, Scanned, EXFAT_FIRST_CLUSTER, Registers, Number
  <2>2. TypeOK' /\ BitmapCoherent'
    BY <1>1, <2>1, OnlyFat DEF Link, Goto, Label
  <2>3. ChosenIsFree' /\ Ready'
    BY <1>1 DEF Link, Goto, IInv, ChosenIsFree, Scanned, Ready, Growing, memory
  <2>4. QED  BY <2>2, <2>3 DEF IInv
<1>2. CASE Mark
  <2>1. r.next \in Nat /\ r.left - 1 \in Nat
    BY <1>2 DEF Mark, IInv, ChosenIsFree, Scanned, EXFAT_FIRST_CLUSTER, Ready, Registers
  <2>2. r' \in Registers
    <3>1. r.next \in Number /\ (IF r.left = 1 THEN r.next ELSE r.next + 1) \in Int
      BY <2>1 DEF Number
    <3>2. QED  BY <1>2, <2>1, <3>1, Zenon DEF Registers, Mark
  <2>3. TypeOK' /\ BitmapCoherent'
    BY <1>2, <2>2, OnlyBitmap DEF Mark, Goto, Label
  <2>4. ChosenIsFree'
    BY <1>2 DEF Mark, Goto, ChosenIsFree
  <2>5. Ready'
    BY <1>2, <2>1 DEF Mark, Goto, IInv, Ready, Growing, memory, Registers
  <2>6. QED  BY <2>3, <2>4, <2>5 DEF IInv
<1>3. QED  BY <1>1, <1>2

LEMMA ConvertInv ==
  ASSUME IInv, Convert \/ KeepFlags
  PROVE  IInv'
<1> r \in Registers /\ F \in Entry
  BY FType DEF IInv, TypeOK
<1>1. CASE Convert
  <2>1. r.obj \in Number /\ r.obj \in Nat /\ F.len \in Nat /\ F.len \in 0..MaxLen
    BY VolumeAssumption DEF Registers, FirstCluster, Cluster, EXFAT_FIRST_CLUSTER, Number, Entry
  <2>2. r' \in Registers
    BY <1>1, <2>1, Zenon DEF Registers, Convert
  <2>3. TypeOK' /\ BitmapCoherent'
    <3>1. head' \in [FirstCluster -> Entry] /\ child' \in [Slot -> Entry]
      BY <1>1, <2>1, SetFType DEF Convert, IInv
    <3>2. QED  BY <1>1, <2>2, <3>1
               DEF Convert, Goto, Label, IInv, TypeOK, VolumeTypeOK, BitmapCoherent, volume
  <2>4. ChosenIsFree'
    BY <1>1 DEF Convert, Goto, ChosenIsFree
  <2>5. Ready'
    <3>1. r'.op = r.op /\ r'.obj = r.obj /\ r'.num = r.num /\ r'.slot = r.slot /\ r'.passes = r.passes
          /\ r'.clu = r.obj /\ pc' = "chain"
      BY <1>1 DEF Convert, Goto, Registers
    <3>2. r.op \in {"fill", "create"}
      BY <1>1 DEF Convert, IInv, Ready, Growing
    <3>3. head'[r.obj].len = head[r.obj].len
      BY <1>1, <3>2 DEF Convert, SetF, F, IInv, TypeOK, Entry, Registers
    <3>4. QED  BY <1>1, <2>1, <3>1, <3>2, <3>3 DEF Convert, IInv, Ready, Growing
  <2>6. QED  BY <2>3, <2>4, <2>5 DEF IInv
<1>2. CASE KeepFlags
  <2>1. TypeOK' /\ BitmapCoherent'
    BY <1>2, OnlyRegisters DEF KeepFlags, Goto, Label
  <2>2. ChosenIsFree' /\ Ready'
    BY <1>2 DEF KeepFlags, Goto, IInv, ChosenIsFree, Ready, Growing, memory
  <2>3. QED  BY <2>1, <2>2 DEF IInv
<1>3. QED  BY <1>1, <1>2

LEMMA ChainInv ==
  ASSUME IInv, ChainLink \/ ChainDone \/ ChainUnderflow \/ Runaway
  PROVE  IInv'
<1> r \in Registers
  BY DEF IInv, TypeOK
<1>1. CASE ChainLink
  <2>1. r.clu \in Nat /\ r.clu \in Number /\ r.clu + 1 \in Number /\ r.left - 1 \in Nat
    BY <1>1 DEF ChainLink, IInv, Ready, Registers, Number
  <2>2. r' \in Registers
    BY <1>1, <2>1, Zenon DEF Registers, ChainLink
  <2>3. TypeOK' /\ BitmapCoherent'
    BY <1>1, <2>1, <2>2, OnlyFat DEF ChainLink, IInv, TypeOK
  <2>4. ChosenIsFree' /\ Ready'
    BY <1>1, <2>1 DEF ChainLink, IInv, ChosenIsFree, Ready, Growing, memory, Registers
  <2>5. QED  BY <2>3, <2>4 DEF IInv
<1>2. CASE ChainDone \/ ChainUnderflow
  <2>1. TypeOK' /\ BitmapCoherent'
    BY <1>2, OnlyRegisters DEF ChainDone, ChainUnderflow, Goto, Label
  <2>2. ChosenIsFree' /\ Ready'
    BY <1>2 DEF ChainDone, ChainUnderflow, Goto, IInv, ChosenIsFree, Ready, Growing, memory
  <2>3. QED  BY <2>1, <2>2 DEF IInv
<1>3. CASE Runaway
  <2>1. r.clu \in Number /\ r.clu + 1 \in Number /\ Clip(r.clu + 1) \in Number /\ Clip(r.clu + 1) \in Nat
    BY <1>3, VolumeAssumption DEF Runaway, IInv, Ready, Registers, Number, Clip, Past
  <2>2. r' \in Registers
    BY <1>3, <2>1, Zenon DEF Registers, Runaway
  <2>3. TypeOK' /\ BitmapCoherent'
    BY <1>3, <2>1, <2>2, OnlyFat DEF Runaway, IInv, TypeOK
  <2>4. ChosenIsFree' /\ Ready'
    BY <1>3, <2>1 DEF Runaway, IInv, ChosenIsFree, Ready, Growing, memory, Registers
  <2>5. QED  BY <2>3, <2>4 DEF IInv
<1>4. QED  BY <1>1, <1>2, <1>3

LEMMA GrowInv ==
  ASSUME IInv, Grow
  PROVE  IInv'
<1> DEFINE len == F.len + r.num
<1>1. r \in Registers /\ F \in Entry
  BY FType DEF IInv, TypeOK
<1>2. len \in 0..MaxLen
  BY <1>1 DEF Grow, IInv, Ready, Growing, F, Registers, Entry
<1>3. [F EXCEPT !.len = len] \in Entry
  BY <1>1, <1>2, Zenon DEF Entry
<1>4. stream' \in [Slot -> Entry]
  BY <1>3, UpdateFilesizeType DEF Grow, IInv, TypeOK, VolumeTypeOK
<1>5. head' \in [FirstCluster -> Entry] /\ child' \in [Slot -> Entry]
  <2>1. F.nofat \in BOOLEAN
    BY <1>1 DEF Entry
  <2>2. QED  BY <1>2, <2>1, SetFType DEF Grow, IInv
<1>6. pc' \in Label /\ r' \in Registers /\ ChosenIsFree' /\ Ready'
  <2>1. CASE r.op = "create"
    <3>1. pc' = "new" /\ r' = [r EXCEPT !.next = EXFAT_FIRST_CLUSTER]
      BY <2>1 DEF Grow, GrowReturn, Goto
    <3>2. r' \in Registers
      <4>1. EXFAT_FIRST_CLUSTER \in Int
        BY DEF EXFAT_FIRST_CLUSTER
      <4>2. QED  BY <1>1, <3>1, <4>1, Zenon DEF Registers
    <3>3. ChosenIsFree' /\ Ready'
      BY <1>1, <2>1, <3>1 DEF Grow, IInv, ChosenIsFree, Ready, Growing, Registers, EXFAT_FIRST_CLUSTER
    <3>4. QED  BY <3>1, <3>2, <3>3 DEF Label
  <2>2. CASE r.op # "create" /\ r.obj = RootOffset
    <3>1. pc' = "reload" /\ r' = r
      BY <2>2 DEF Grow, GrowReturn, Goto
    <3>2. QED  BY <1>1, <3>1 DEF Label, IInv, ChosenIsFree, Ready, Growing
  <2>3. CASE r.op # "create" /\ r.obj # RootOffset
    BY <2>3, ReturnInv DEF Grow, GrowReturn
  <2>4. QED  BY <2>1, <2>2, <2>3
<1>7. QED  BY <1>4, <1>5, <1>6 DEF Grow, IInv, TypeOK, VolumeTypeOK, BitmapCoherent

-----------------------------------------------------------------------------
(* The directory read again.                                               *)
LEMMA ReloadType ==
  ASSUME IInv, stream' \in [Slot -> Entry], Reload
  PROVE  head' \in [FirstCluster -> Entry] /\ child' \in [Slot -> Entry]
BY HeadsType DEF Reload, IInv, TypeOK

\* The directory is rewritten, or not, and read again, and the command returns.
LEMMA RewriteInv ==
  ASSUME IInv, stream' \in [Slot -> Entry], Reload, Return, UNCHANGED <<fat, bitmap, alloc_table>>
  PROVE  IInv'
<1>1. head' \in [FirstCluster -> Entry] /\ child' \in [Slot -> Entry]
  BY ReloadType
<1>2. pc' \in Label /\ r' \in Registers /\ ChosenIsFree' /\ Ready'
  BY ReturnInv
<1>3. QED  BY <1>1, <1>2 DEF IInv, TypeOK, VolumeTypeOK, BitmapCoherent

LEMMA ReloadInv ==
  ASSUME IInv, FillReload \/ CallReload
  PROVE  IInv'
<1>1. UNCHANGED <<fat, bitmap, stream, alloc_table>> /\ stream' \in [Slot -> Entry]
  BY DEF FillReload, CallReload, volume, IInv, TypeOK, VolumeTypeOK
<1>2. CASE FillReload
  BY <1>1, <1>2, RewriteInv DEF FillReload
<1>3. CASE CallReload
  <2>1. head' \in [FirstCluster -> Entry] /\ child' \in [Slot -> Entry]
    BY <1>1, <1>3, ReloadType DEF CallReload
  <2>2. pc' = "idle" /\ r' = r
    BY <1>3 DEF CallReload
  <2>3. ChosenIsFree' /\ Ready'
    BY <2>2 DEF IInv, ChosenIsFree, Ready, Growing
  <2>4. QED  BY <1>1, <2>1, <2>2, <2>3 DEF IInv, TypeOK, VolumeTypeOK, BitmapCoherent, Label
<1>4. QED  BY <1>2, <1>3

-----------------------------------------------------------------------------
(* exfat_new_clusters, and the dentry that a create writes.                *)
LEMMA NewReturnInv ==
  ASSUME IInv, pc \in {"new", "newmark"}, NEW clu \in FirstCluster, NewReturn(clu), UNCHANGED memory
  PROVE  pc' \in Label /\ r' \in Registers /\ ChosenIsFree' /\ Ready'
<1>1. /\ r \in Registers /\ r.op = "create" /\ r.slot \in Slot /\ r.passes \in 1..2
      /\ clu \in Number /\ r.passes - 1 \in 0..2 /\ EXFAT_FIRST_CLUSTER \in Int
  BY DEF IInv, TypeOK, Ready, Registers, Number, FirstCluster, Cluster, EXFAT_FIRST_CLUSTER
<1>2. r' \in Registers
  BY <1>1, Zenon DEF Registers, NewReturn
<1>3. pc' = IF r.passes > 1 THEN "new" ELSE "enter"
  BY DEF NewReturn, Goto
<1>4. ChosenIsFree' /\ pc' \in Label
  BY <1>3 DEF ChosenIsFree, Label
<1>5. Ready'
  BY <1>1, <1>3 DEF NewReturn, Ready, Growing, Registers, EXFAT_FIRST_CLUSTER
<1>6. QED  BY <1>2, <1>4, <1>5

LEMMA NewInv ==
  ASSUME IInv, NewSkip \/ NewTake \/ NewMark \/ NewExhausted
  PROVE  IInv'
<1> r \in Registers
  BY DEF IInv, TypeOK
<1>1. CASE NewSkip
  <2>1. r' \in Registers
    <3>1. r.next + 1 \in Int
      BY DEF Registers
    <3>2. QED  BY <1>1, <3>1, Zenon DEF Registers, NewSkip
  <2>2. TypeOK' /\ BitmapCoherent'
    BY <1>1, <2>1, OnlyRegisters DEF NewSkip, IInv, TypeOK
  <2>3. ChosenIsFree' /\ Ready'
    BY <1>1 DEF NewSkip, IInv, ChosenIsFree, Ready, Growing, memory, Registers, EXFAT_FIRST_CLUSTER
  <2>4. QED  BY <2>2, <2>3 DEF IInv
<1>2. CASE NewTake
  <2>1. r.next \in Scanned \ bitmap
    BY <1>2, VolumeAssumption
       DEF NewTake, InUse, Cluster, Scanned, IInv, BitmapCoherent, Ready, Registers, EXFAT_FIRST_CLUSTER
  <2>2. r.next \in Number /\ EXFAT_LASTCLUSTER \in Number
    BY <2>1 DEF Scanned, Number, EXFAT_FIRST_CLUSTER
  <2>3. TypeOK' /\ BitmapCoherent'
    BY <1>2, <2>2, OnlyFat DEF NewTake, Goto, Label
  <2>4. ChosenIsFree' /\ Ready'
    BY <1>2, <2>1 DEF NewTake, Goto, IInv, ChosenIsFree, Scanned, Ready, Growing, memory
  <2>5. QED  BY <2>3, <2>4 DEF IInv
<1>3. CASE NewMark
  <2>1. r.next \in FirstCluster
    BY <1>3, VolumeAssumption
       DEF NewMark, IInv, ChosenIsFree, Scanned, FirstCluster, Cluster, EXFAT_FIRST_CLUSTER
  <2>2. pc' \in Label /\ r' \in Registers /\ ChosenIsFree' /\ Ready'
    BY <1>3, <2>1, NewReturnInv DEF NewMark
  <2>3. TypeOK' /\ BitmapCoherent'
    BY <1>3, <2>2, OnlyBitmap DEF NewMark
  <2>4. QED  BY <2>2, <2>3 DEF IInv
<1>4. CASE NewExhausted
  <2>1. pc' \in Label /\ r' \in Registers /\ ChosenIsFree' /\ Ready'
    BY <1>4, NewReturnInv DEF NewExhausted, FirstCluster
  <2>2. TypeOK' /\ BitmapCoherent'
    BY <1>4, <2>1, OnlyRegisters DEF NewExhausted
  <2>3. QED  BY <2>1, <2>2 DEF IInv
<1>5. QED  BY <1>1, <1>2, <1>3, <1>4

LEMMA EnterInv ==
  ASSUME IInv, Enter
  PROVE  IInv'
<1> DEFINE entry == [live |-> TRUE, clu |-> r.clu, len |-> 0, nofat |-> TRUE]
<1>1. entry \in Entry
  BY VolumeAssumption DEF Enter, IInv, Ready, Entry
<1>2. stream' \in [Slot -> Entry]
  BY <1>1 DEF Enter, IInv, TypeOK, VolumeTypeOK
<1>3. QED  BY <1>2, RewriteInv DEF Enter

-----------------------------------------------------------------------------
(* exfat_free_clusters, and the erasure that ends a removal.               *)

\* What a freeing step must show: none of its statements has a part in Ready or ChosenIsFree.
Freeing == {"walk", "cut", "unmark", "shrink", "clear", "erase"}

LEMMA StillFreeing ==
  ASSUME IInv, pc' \in Freeing, r'.op = r.op, r'.slot = r.slot,
         pc' = "unmark" => r'.next \in Number
  PROVE  pc' \in Label /\ ChosenIsFree' /\ Ready'
BY DEF Freeing, Label, IInv, ChosenIsFree, Ready, Growing

LEMMA FinishInv ==
  ASSUME IInv, Finish
  PROVE  pc' \in Label /\ r' \in Registers /\ ChosenIsFree' /\ Ready'
<1>1. CASE r.op = "remove"
  BY <1>1, StillFreeing DEF Finish, Goto, Freeing, IInv, TypeOK
<1>2. CASE r.op # "remove"
  BY <1>2, ReturnInv DEF Finish
<1>3. QED  BY <1>1, <1>2

LEMMA ClearInv ==
  ASSUME IInv, ClearTail \/ ClearDone
  PROVE  IInv'
<1> r \in Registers
  BY DEF IInv, TypeOK
<1>1. CASE ClearTail
  <2>1. r.i + 1 \in Nat
    BY DEF Registers
  <2>2. r' \in Registers
    BY <1>1, <2>1, Zenon DEF Registers, ClearTail
  <2>3. pc' \in Label /\ ChosenIsFree' /\ Ready'
    BY <1>1, StillFreeing DEF ClearTail, Freeing
  <2>4. TypeOK' /\ BitmapCoherent'
    BY <1>1, <2>2, <2>3, OnlyBitmap DEF ClearTail
  <2>5. QED  BY <2>3, <2>4 DEF IInv
<1>2. CASE ClearDone
  BY <1>2, FinishInv, OnlyRegisters DEF ClearDone, IInv
<1>3. QED  BY <1>1, <1>2

LEMMA WalkInv ==
  ASSUME IInv, Walk \/ WalkDone
  PROVE  IInv'
<1> r \in Registers
  BY DEF IInv, TypeOK
<1>1. CASE Walk
  <2>1. fat[Clip(r.clu)] \in Number /\ Up(r.i) \in Nat
    BY FatEntry DEF IInv, Registers, Up
  <2>2. r' \in Registers
    BY <1>1, <2>1, Zenon DEF Registers, Walk
  <2>3. pc' \in Label /\ ChosenIsFree' /\ Ready'
    BY <1>1, StillFreeing DEF Walk, Freeing
  <2>4. QED  BY <1>1, <2>2, <2>3, OnlyRegisters DEF Walk, IInv
<1>2. CASE WalkDone
  <2>1. pc' \in Label /\ ChosenIsFree' /\ Ready'
    BY <1>2, StillFreeing DEF WalkDone, Goto, Freeing
  <2>2. QED  BY <1>2, <2>1, OnlyRegisters DEF WalkDone, IInv
<1>3. QED  BY <1>1, <1>2

LEMMA CutInv ==
  ASSUME IInv, Cut \/ Unmark \/ CutDone
  PROVE  IInv'
<1> r \in Registers
  BY DEF IInv, TypeOK
<1>1. CASE Cut
  <2>1. /\ r.clu \in Number /\ EXFAT_LASTCLUSTER \in Number
        /\ fat[Clip(r.clu)] \in Number /\ fat[Clip(r.clu)] \in Int /\ Up(r.i) \in Nat
    BY FatEntry DEF IInv, Registers, Up, Number
  <2>2. r' \in Registers
    BY <1>1, <2>1, Zenon DEF Registers, Cut
  <2>3. pc' \in Label /\ ChosenIsFree' /\ Ready'
    <3>1. r'.op = r.op /\ r'.slot = r.slot /\ r'.next = fat[Clip(r.clu)] /\ pc' = "unmark"
      BY <1>1 DEF Cut, Goto, Registers
    <3>2. QED  BY <2>1, <3>1, StillFreeing DEF Freeing
  <2>4. QED  BY <1>1, <2>1, <2>2, <2>3, OnlyFat DEF Cut, IInv
<1>2. CASE Unmark
  <2>1. r.next \in Number
    BY <1>2 DEF Unmark, IInv, Ready
  <2>2. r' \in Registers
    BY <1>2, <2>1, Zenon DEF Registers, Unmark
  <2>3. pc' \in Label /\ ChosenIsFree' /\ Ready'
    BY <1>2, StillFreeing DEF Unmark, Goto, Freeing
  <2>4. QED  BY <1>2, <2>2, <2>3, OnlyBitmap DEF Unmark, IInv
<1>3. CASE CutDone
  <2>1. pc' \in Label /\ ChosenIsFree' /\ Ready'
    BY <1>3, StillFreeing DEF CutDone, Goto, Freeing
  <2>2. QED  BY <1>3, <2>1, OnlyRegisters DEF CutDone, IInv
<1>4. QED  BY <1>1, <1>2, <1>3

LEMMA ShrinkInv ==
  ASSUME IInv, Shrink
  PROVE  IInv'
<1> DEFINE left == IF F.len > r.num THEN F.len - r.num ELSE 0
<1>1. r \in Registers /\ F \in Entry
  BY FType DEF IInv, TypeOK
<1>2. left \in 0..MaxLen /\ F.nofat \in BOOLEAN
  BY <1>1, VolumeAssumption DEF Registers, Entry
<1>3. [F EXCEPT !.len = left] \in Entry
  BY <1>1, <1>2, Zenon DEF Entry
<1>4. stream' \in [Slot -> Entry]
  BY <1>3, UpdateFilesizeType DEF Shrink, IInv, TypeOK, VolumeTypeOK
<1>5. head' \in [FirstCluster -> Entry] /\ child' \in [Slot -> Entry]
  BY <1>2, SetFType DEF Shrink, IInv
<1>6. pc' \in Label /\ r' \in Registers /\ ChosenIsFree' /\ Ready'
  BY FinishInv DEF Shrink
<1>7. QED  BY <1>4, <1>5, <1>6 DEF Shrink, IInv, TypeOK, VolumeTypeOK, BitmapCoherent

LEMMA EraseInv ==
  ASSUME IInv, Erase
  PROVE  IInv'
<1>1. NoEntry \in Entry
  BY VolumeAssumption DEF NoEntry, Entry, FirstCluster
<1>2. stream' \in [Slot -> Entry]
  BY <1>1 DEF Erase, IInv, TypeOK, Registers
<1>3. QED  BY <1>2, RewriteInv DEF Erase

-----------------------------------------------------------------------------
(* The commands, and a restart.                                            *)
LEMMA CallGrowInv ==
  ASSUME IInv,
         \/ \E c \in FirstCluster, n \in 1..MaxFill : CallFill(c, n)
         \/ \E s \in Slot, passes \in 1..2, full \in BOOLEAN : CallCreate(s, passes, full)
  PROVE  IInv'
<1>1. ASSUME NEW c \in FirstCluster, NEW n \in 1..MaxFill, CallFill(c, n)
      PROVE  IInv'
  <2>1. c \in Number /\ n \in Nat /\ n > 0 /\ "fill" \in Command
    BY AllocAssumption, VolumeAssumption
       DEF FirstCluster, Cluster, EXFAT_FIRST_CLUSTER, Number, Command
  <2>2. r' \in Registers
    BY <1>1, <2>1, NoCallType, Zenon DEF Registers, CallFill
  <2>3. TypeOK' /\ BitmapCoherent'
    BY <1>1, <2>2, OnlyRegisters DEF CallFill, Goto, Label
  <2>4. r'.op = "fill" /\ r'.obj = c /\ r'.num = n
    BY <1>1 DEF CallFill, NoCall
  <2>5. ChosenIsFree' /\ Ready'
    <3>1. pc' = "last" /\ head' = head /\ head[c].len + n <= MaxLen
      BY <1>1 DEF CallFill, Goto, memory
    <3>2. QED  BY <2>1, <2>4, <3>1 DEF ChosenIsFree, Ready, Growing
  <2>6. QED  BY <2>3, <2>5 DEF IInv
<1>2. ASSUME NEW s \in Slot, NEW passes \in 1..2, NEW full \in BOOLEAN, CallCreate(s, passes, full)
      PROVE  IInv'
  <2>1. /\ RootOffset \in FirstCluster /\ RootOffset \in Number /\ s \in 0..NumSlots /\ 1 \in Nat
        /\ EXFAT_FIRST_CLUSTER \in Int /\ passes \in 0..2 /\ "create" \in Command
    BY VolumeAssumption DEF FirstCluster, Cluster, EXFAT_FIRST_CLUSTER, Number, Slot, Command
  <2>2. r' \in Registers
    BY <1>2, <2>1, NoCallType, Zenon DEF Registers, CallCreate
  <2>3. pc' \in {"last", "new"} /\ (pc' = "last" => full)
    BY <1>2 DEF CallCreate, Goto
  <2>4. TypeOK' /\ BitmapCoherent'
    BY <1>2, <2>2, <2>3, OnlyRegisters DEF CallCreate, Label
  <2>5. /\ r'.op = "create" /\ r'.obj = RootOffset /\ r'.num = 1
        /\ r'.slot = s /\ r'.passes = passes /\ r'.next = EXFAT_FIRST_CLUSTER
    BY <1>2 DEF CallCreate, NoCall
  <2>6. full => head[RootOffset].len + 1 <= MaxLen
    <3>1. head[RootOffset].len \in 0..MaxLen
      BY <2>1 DEF IInv, TypeOK, Entry
    <3>2. full => head[RootOffset].len < MaxLen
      BY <1>2 DEF CallCreate
    <3>3. QED  BY <3>1, <3>2, VolumeAssumption
  <2>7. ChosenIsFree'
    BY <2>3 DEF ChosenIsFree
  <2>8. Ready'
    <3>1. head' = head
      BY <1>2 DEF CallCreate, memory
    <3>2. QED  BY <2>3, <2>5, <2>6, <3>1 DEF Ready, Growing, EXFAT_FIRST_CLUSTER
  <2>9. QED  BY <2>4, <2>7, <2>8 DEF IInv
<1>3. QED  BY <1>1, <1>2

\* exfat_free_clusters begins at a statement that Ready asks nothing of.
LEMMA FreeFromInv ==
  ASSUME IInv, NEW call \in Registers, NEW f \in Entry, FreeFrom(call, f), UNCHANGED <<volume, memory>>,
         f.nofat => call.num <= f.len,
         call.op = "remove" => call.slot \in Slot
  PROVE  IInv'
<1>1. (IF f.nofat THEN f.len - call.num ELSE 0) \in Nat
  BY VolumeAssumption DEF Registers, Entry
<1>2. r' \in Registers
  BY <1>1, Zenon DEF FreeFrom, Registers
<1>3. r'.op = call.op /\ r'.slot = call.slot /\ pc' \in {"clear", "walk"}
  BY DEF FreeFrom, Goto, Registers
<1>4. TypeOK' /\ BitmapCoherent'
  BY <1>2, <1>3, OnlyRegisters DEF Label
<1>5. ChosenIsFree' /\ Ready'
  BY <1>3 DEF ChosenIsFree, Ready, Growing
<1>6. QED  BY <1>4, <1>5 DEF IInv

LEMMA CallFreeInv ==
  ASSUME IInv,
         \/ \E c \in FirstCluster, n \in 0..MaxLen : CallTrim(c, n)
         \/ \E s \in Slot : CallRemove(s)
  PROVE  IInv'
<1>1. ASSUME NEW c \in FirstCluster, NEW n \in 0..MaxLen, CallTrim(c, n)
      PROVE  IInv'
  <2> DEFINE call == [NoCall EXCEPT !.op = "trim", !.obj = c, !.num = n, !.clu = c]
  <2>1. c \in Number /\ n \in Nat /\ "trim" \in Command
    BY VolumeAssumption DEF FirstCluster, Cluster, EXFAT_FIRST_CLUSTER, Number, Command
  <2>2. call \in Registers
    BY <2>1, NoCallType, Zenon DEF Registers
  <2>3. head[c] \in Entry
    BY DEF IInv, TypeOK
  <2>4. call.op = "trim" /\ call.num = n
    BY DEF NoCall
  <2>5. head[c].nofat => n <= head[c].len
    <3>1. head[c].nofat => Loaded(c) = head[c].len
      BY DEF Loaded
    <3>2. QED  BY <1>1, <3>1 DEF CallTrim
  <2>6. FreeFrom(call, head[c]) /\ UNCHANGED <<volume, memory>>
    BY <1>1 DEF CallTrim
  <2> HIDE DEF call
  <2>7. QED  BY <2>2, <2>3, <2>4, <2>5, <2>6, FreeFromInv
<1>2. ASSUME NEW s \in Slot, CallRemove(s)
      PROVE  IInv'
  <2> DEFINE call == [NoCall EXCEPT !.op = "remove", !.slot = s, !.obj = child[s].clu,
                                    !.num = child[s].len, !.clu = child[s].clu, !.data = stream]
  <2>1. child[s] \in Entry /\ stream \in [Slot -> Entry]
    BY DEF IInv, TypeOK, VolumeTypeOK
  <2>2. /\ child[s].clu \in FirstCluster /\ child[s].clu \in Number /\ child[s].len \in Nat
        /\ s \in 0..NumSlots /\ "remove" \in Command
    BY <2>1, VolumeAssumption
       DEF Entry, FirstCluster, Cluster, EXFAT_FIRST_CLUSTER, Number, Slot, Command
  <2>3. call \in Registers
    BY <2>1, <2>2, NoCallType, Zenon DEF Registers
  <2>4. call.slot = s /\ call.num = child[s].len
    BY DEF NoCall
  <2>5. FreeFrom(call, child[s]) /\ UNCHANGED <<volume, memory>>
    BY <1>2 DEF CallRemove
  <2>6. child[s].nofat => call.num <= child[s].len
    BY <2>2, <2>4
  <2> HIDE DEF call
  <2>7. QED  BY <2>1, <2>3, <2>4, <2>5, <2>6, FreeFromInv
<1>3. QED  BY <1>1, <1>2

LEMMA RawInv ==
  ASSUME IInv,
         \/ \E clu \in RawClusters : ShellAlloc(clu) \/ ShellRelease(clu)
         \/ \E e \in RawEntries : ShellFat(e[1], e[2])
  PROVE  IInv'
<1>1. ASSUME UNCHANGED <<pc, r, memory>> PROVE ChosenIsFree' \/ pc # "idle"
  BY <1>1 DEF ChosenIsFree
<1>2. ASSUME UNCHANGED <<pc, r, memory>> PROVE Ready' /\ r' \in Registers /\ pc' \in Label
  BY <1>2 DEF IInv, TypeOK, Ready, Growing, memory
<1>3. ASSUME NEW clu \in RawClusters, ShellAlloc(clu) \/ ShellRelease(clu)
      PROVE  IInv'
  <2>1. CASE UNCHANGED <<alloc_table, bitmap>>
    <3>1. UNCHANGED <<volume, memory>>
      BY <1>3, <2>1 DEF ShellAlloc, ShellRelease, volume
    <3>2. QED  BY <1>1, <1>2, <1>3, <3>1, OnlyRegisters DEF ShellAlloc, ShellRelease, IInv
  <2>2. CASE \E value \in {0, 1} : SaveBitmap(clu, value)
    BY <1>1, <1>2, <1>3, <2>2, OnlyBitmap DEF ShellAlloc, ShellRelease, IInv
  <2>3. QED  BY <1>3, <2>1, <2>2 DEF ShellAlloc, ShellRelease
<1>4. ASSUME NEW e \in RawEntries, ShellFat(e[1], e[2])
      PROVE  IInv'
  <2>1. e[1] \in Number /\ e[2] \in Number
    BY AllocAssumption, WordNumber
  <2>2. TypeOK' /\ BitmapCoherent'
    BY <1>2, <1>4, <2>1, OnlyFat DEF ShellFat
  <2>3. QED  BY <1>1, <1>2, <1>4, <2>2 DEF ShellFat, IInv
<1>5. QED  BY <1>3, <1>4

LEMMA RestartInv ==
  ASSUME IInv, NEW flag \in RootFlags, Restart(flag)
  PROVE  IInv'
<1>1. head' \in [FirstCluster -> Entry] /\ child' \in [Slot -> Entry]
  BY HeadsType, OpenedType DEF Restart, IInv, TypeOK, VolumeTypeOK
<1>2. pc' \in Label /\ r' \in Registers /\ ChosenIsFree' /\ Ready'
  BY ReturnInv DEF Restart
<1>3. QED  BY <1>1, <1>2 DEF Restart, IInv, TypeOK, VolumeTypeOK, BitmapCoherent

-----------------------------------------------------------------------------
(* The theorems.                                                           *)
LEMMA StepInv ==
  ASSUME IInv, Step
  PROVE  IInv'
<1>1. CASE AllocStep
  BY <1>1, LastInv, ScanInv, LinkMarkInv, ConvertInv, ChainInv, GrowInv, ReloadInv DEF AllocStep
<1>2. CASE CreateStep
  BY <1>2, NewInv, EnterInv DEF CreateStep
<1>3. CASE FreeStep
  BY <1>3, ClearInv, WalkInv, CutInv, ShrinkInv, EraseInv DEF FreeStep
<1>4. QED  BY <1>1, <1>2, <1>3 DEF Step

LEMMA NextInv == IInv /\ [Next]_vars => IInv'
<1> SUFFICES ASSUME IInv, [Next]_vars PROVE IInv'
  OBVIOUS
<1>1. CASE Step
  BY <1>1, StepInv
<1>2. CASE FileCommand \/ RawCommand
  BY <1>2, CallGrowInv, ReloadInv, CallFreeInv, RawInv DEF FileCommand, RawCommand
<1>3. CASE \E flag \in RootFlags : Restart(flag)
  BY <1>3, RestartInv
<1>4. CASE UNCHANGED vars
  BY <1>4 DEF vars, IInv, TypeOK, VolumeTypeOK, BitmapCoherent, ChosenIsFree, Ready
<1>5. QED  BY <1>1, <1>2, <1>3, <1>4 DEF Next

THEOREM Invariance == Spec => []IInv
<1>1. QED  BY InitInv, NextInv, PTL DEF Spec

(* No command, typed in any order, on any image, takes a dentry, a         *)
(* fileinfo or a local variable out of its range: a size never passes the  *)
(* room it was given, and the clusters in either copy of the bitmap are    *)
(* clusters of the heap.  It does not say that writes stay inside the FAT, *)
(* which those of the runaway loops do not: what lies behind it is one     *)
(* cell of fat (Clip).                                                     *)
THEOREM TypeCorrect == Spec => []TypeOK
<1>1. IInv => TypeOK
  BY DEF IInv
<1>2. QED  BY <1>1, Invariance, PTL

(* The bitmap in memory and the bitmap on disk agree at every step, over   *)
(* restarts too.                                                           *)
THEOREM BitmapCoherence == Spec => []BitmapCoherent
<1>1. IInv => BitmapCoherent
  BY DEF IInv
<1>2. QED  BY <1>1, Invariance, PTL

(* From its choice by exfat_alloc_clusters or exfat_new_clusters to the    *)
(* moment its bit is set, a cluster is one the disk says is free.          *)
THEOREM ChoiceIsFree == Spec => []ChosenIsFree
<1>1. IInv => ChosenIsFree
  BY DEF IInv
<1>2. QED  BY <1>1, Invariance, PTL

-----------------------------------------------------------------------------
Tip(s) == s[Len(s)]

Members(s) == {s[k] : k \in 1..Len(s)}

NoRepeat(s) == \A j, k \in 1..Len(s) : s[j] = s[k] => j = k

\* The owner the running command was given the first cluster of.
Target == IF r.obj = RootOffset THEN Root ELSE StreamOf(r.obj)

\* What the disk says of that directory.
Dentry == stream[Target]

-----------------------------------------------------------------------------
(* What holds at every step.                                               *)

\* The owners' lists are lists of clusters, and no cluster is in two of them, or twice in one.
ListsSound ==
  /\ \A o \in Owner : Owned(o) \in Seq(Cluster) /\ NoRepeat(Owned(o)) /\ Holds(o) \intersect System = {}
  /\ \A o, p \in Owner : o # p => Holds(o) \intersect Holds(p) = {}

\* The root's clusters end with the mark for that.
RootEnds == fat[Tip(Owned(Root))] = EXFAT_LASTCLUSTER

\* A dentry without a first cluster says that it has none.
DentriesSound ==
  \A s \in Slot : stream[s].live /\ stream[s].clu = 0 => stream[s].len = 0 /\ stream[s].nofat

DiskInv == ListsSound /\ RootEnds /\ DentriesSound

\* The root's fileinfo has room for all the clusters there are.
RootHeaded == head[RootOffset].live /\ head[RootOffset].len >= ClusterCount

\* OwnedIsMarked, but for the root's new cluster only while the root is what grows.
Marked ==
  /\ System \subseteq bitmap
  /\ \A o \in Owner :
       ~(r.op = "remove" /\ o = r.slot) =>
         Holds(o) \ (IF pc = "mark" /\ r.obj = RootOffset THEN {r.next} ELSE {}) \subseteq bitmap

-----------------------------------------------------------------------------
(* What holds while a directory grows.                                     *)

Free == Scanned \ alloc_table

\* The clusters the search has yet to come to.
Ahead == {c \in Scanned : IF r.next > r.last THEN c >= r.next \/ c < r.last ELSE c >= r.next /\ c < r.last}

\* What is asked for is there, where the search has not been, and what it found ends a chain.
Room ==
  /\ pc = "last" => Cardinality(Free) >= r.num
  /\ pc \in {"scan", "link", "mark"} =>
       r.next >= EXFAT_FIRST_CLUSTER /\ Free \subseteq Ahead /\ Cardinality(Free) >= r.left
  /\ pc = "link" => fat[r.next] = EXFAT_LASTCLUSTER

RootGrows ==
  pc \in Growing /\ r.obj = RootOffset =>
    /\ ~head[RootOffset].nofat
    /\ pc \notin {"chain", "runaway"}
    /\ pc = "last" => r.i < Len(Owned(Root)) /\ r.clu = Owned(Root)[r.i + 1]
    /\ pc \in {"scan", "link"} => r.clu = Tip(Owned(Root))
    /\ pc = "mark" => r.next = Tip(Owned(Root))

\* How many clusters are linked already.
Linked ==
  IF pc \in {"scan", "link"} THEN r.num - r.left
  ELSE IF pc = "mark" THEN r.num - r.left + 1
  ELSE r.num

(* P is the clusters of a directory and those it is about to get: on disk  *)
(* the dentry has yet to say so.                                           *)
Growth(P) ==
  /\ NoRepeat(P)
  /\ Members(P) \intersect System = {}
  /\ \A o \in Owner \ {Target} : Members(P) \intersect Holds(o) = {}
  /\ Members(P) \ (IF pc = "mark" THEN {r.next} ELSE {}) \subseteq bitmap
  /\ Linked \in Nat /\ Len(P) = Dentry.len + Linked
  /\ Owned(Target) = SubSeq(P, 1, Dentry.len)
  /\ \A k \in (IF Dentry.nofat THEN Dentry.len ELSE 1)..(Len(P) - 1) : fat[P[k]] = P[k + 1]
  /\ ~(Dentry.nofat /\ Linked = 0) => fat[Tip(P)] = EXFAT_LASTCLUSTER
  /\ Dentry.nofat /\ r.contig => \A k \in 1..Len(P) : P[k] = r.obj + k - 1
  /\ pc \in {"scan", "link"} => r.clu = Tip(P)
  /\ pc = "link" /\ r.contig => r.next = r.clu + 1
  /\ pc = "mark" => r.next = Tip(P)

DirectoryGrows ==
  pc \in Growing /\ r.obj # RootOffset =>
    /\ Target # Root /\ Dentry.len > 0
    /\ head[r.obj].len = Dentry.len
    /\ pc \notin {"chain", "size"} => head[r.obj].nofat = Dentry.nofat
    /\ pc = "last" => Exact(Target) /\ (~Dentry.nofat => r.i < Dentry.len /\ r.clu = Owned(Target)[r.i + 1])
    /\ pc # "runaway"
    /\ pc = "chain" =>
         /\ Dentry.nofat /\ ~head[r.obj].nofat
         /\ r.left \in 1..Dentry.len
         /\ r.clu = r.obj + (Dentry.len - r.left)
         /\ \A c \in r.obj..(r.clu - 1) : fat[c] = c + 1
    /\ pc = "size" =>
         \/ head[r.obj].nofat = Dentry.nofat /\ (Dentry.nofat => r.contig)
         \/ Dentry.nofat /\ ~head[r.obj].nofat /\ \A c \in r.obj..(r.obj + Dentry.len - 2) : fat[c] = c + 1

DirectoryGrowth ==
  pc \in Growing \ {"last"} /\ r.obj # RootOffset => \E P \in Seq(Cluster) : Growth(P)

\* A new entry has a free slot and, at the end, a cluster that nobody has.
EntryIsNew ==
  /\ r.op = "create" => r.slot \in Slot /\ ~stream[r.slot].live
  /\ pc \in {"new", "newmark", "enter"} => r.op = "create"
  /\ pc = "enter" => r.clu = 0 \/ (r.clu \in bitmap \ System /\ \A o \in Owner : r.clu \notin Holds(o))

-----------------------------------------------------------------------------
(* What holds while clusters are freed.                                    *)

\* T is what is still linked of the tail that is cut off.
Rest(T) ==
  /\ r.i < Dentry.len /\ Len(T) = Dentry.len - r.i
  /\ T[1] = IF pc = "cut" THEN r.clu ELSE r.next
  /\ NoRepeat(T)
  /\ Members(T) \intersect System = {}
  /\ \A o \in Owner : Members(T) \intersect Holds(o) = {}
  /\ \A k \in 1..(Len(T) - 1) : fat[T[k]] = T[k + 1]

Whole == pc \in {"walk", "cut"} /\ r.i < Dentry.len - r.num /\ Exact(Target) /\ r.clu = Owned(Target)[r.i + 1]

Trims ==
  r.op = "trim" =>
    /\ pc \in {"walk", "cut", "unmark", "shrink"}
    /\ r.obj # RootOffset /\ Target # Root
    /\ head[r.obj] = Dentry /\ ~Dentry.nofat /\ r.num < Dentry.len
    /\ \/ Whole /\ (pc = "cut" => r.i = Dentry.len - r.num - 1)
       \/ /\ pc # "walk"
          /\ Len(Owned(Target)) = Dentry.len - r.num
          /\ fat[Tip(Owned(Target))] = EXFAT_LASTCLUSTER
          /\ pc = "shrink" \/ \E T \in Seq(Cluster) : Rest(T)

Removes ==
  /\ pc \in {"clear", "walk", "cut", "unmark", "shrink", "erase"} => r.op \in {"trim", "remove"}
  /\ r.op = "remove" =>
    /\ pc \in {"clear", "walk", "cut", "shrink", "erase"}
    /\ r.slot \in Slot /\ stream[r.slot].live
    /\ \A s \in Slot \ {r.slot} : r.data[s] = stream[s]
    /\ pc # "erase" => child[r.slot] = stream[r.slot] /\ r.obj = stream[r.slot].clu /\ r.num = stream[r.slot].len
    /\ pc = "clear" => stream[r.slot].nofat
    /\ pc \in {"walk", "cut", "shrink"} => ~stream[r.slot].nofat /\ Exact(r.slot)
    /\ pc = "walk" /\ r.i < stream[r.slot].len => r.clu = Owned(r.slot)[r.i + 1]
    /\ pc = "cut" => r.i >= stream[r.slot].len

OInv ==
  /\ IInv
  /\ DiskInv /\ RootHeaded /\ Marked
  /\ Room /\ RootGrows /\ DirectoryGrows /\ DirectoryGrowth /\ EntryIsNew
  /\ Trims /\ Removes

-----------------------------------------------------------------------------
(* The clusters of a file, in any FAT.                                     *)

LinkedFrom(f, c, n) == Chain(f, c, n, FALSE)

\* s is what is linked from c: n clusters, or fewer if one of them links to none.
Trace(f, c, n, s) ==
  /\ s \in Seq(Cluster)
  /\ Len(s) \in 1..(IF n <= 1 THEN 1 ELSE n)
  /\ s[1] = c
  /\ \A k \in 1..(Len(s) - 1) : s[k + 1] = f[s[k]]
  /\ Len(s) = (IF n <= 1 THEN 1 ELSE n) \/ f[s[Len(s)]] \notin Cluster

LEMMA ClusterWord == Cluster \subseteq Word /\ Cluster \subseteq Nat /\ 0 \notin Cluster /\ RootOffset \in Cluster
BY VolumeAssumption DEF Cluster, Word, Past, EXFAT_FIRST_CLUSTER

LEMMA ChainTrace ==
  ASSUME NEW f \in [Word -> Word], NEW c \in Cluster, NEW n \in Nat
  PROVE  Trace(f, c, n, LinkedFrom(f, c, n))
<1> DEFINE hop[k \in 0..n] == IF k = 0 THEN c ELSE f[hop[k - 1]]
           ends == {k \in 1..n : k = n \/ hop[k] \notin Cluster}
           size == IF n <= 1 THEN 1 ELSE CHOOSE k \in ends : \A j \in ends : k <= j
<1>0. Cluster \subseteq Word /\ c \in Word
  BY ClusterWord
<1>1. Iterates(hop, f, c, n)
  <2>1. \E h \in [0..n -> Word] : Iterates(h, f, c, n)
    BY <1>0, IteratesExist
  <2>2. \E h : h = [k \in 0..n |-> IF k = 0 THEN c ELSE f[h[k - 1]]]
    BY <2>1, Zenon DEF Iterates
  <2>3. hop = [k \in 0..n |-> IF k = 0 THEN c ELSE f[hop[k - 1]]]
    BY <2>2, Zenon
  <2>4. QED  BY <2>3, Zenon DEF Iterates
<1>2. LinkedFrom(f, c, n) = [k \in 1..size |-> hop[k - 1]]
  BY Zenon DEF LinkedFrom, Chain
<1> HIDE DEF hop
<1>3. hop[0] = c /\ \A k \in 1..n : hop[k] = f[hop[k - 1]]
  <2>1. ASSUME NEW k \in 0..n PROVE hop[k] = IF k = 0 THEN c ELSE f[hop[k - 1]]
    BY <1>1 DEF Iterates
  <2>2. QED  BY <2>1
<1>4. /\ size \in 1..(IF n <= 1 THEN 1 ELSE n)
      /\ \A k \in 1..(size - 1) : hop[k] \in Cluster
      /\ size = (IF n <= 1 THEN 1 ELSE n) \/ hop[size] \notin Cluster
  <2>1. CASE n <= 1
    BY <2>1
  <2>2. CASE n > 1
    <3>1. ends \subseteq Nat /\ n \in ends
      BY <2>2
    <3>2. \E k \in ends : \A j \in ends : k <= j
      BY <3>1, LeastExists
    <3>3. size \in ends /\ \A j \in ends : size <= j
      BY <2>2, <3>2
    <3> HIDE DEF size
    <3>4. QED  BY <2>2, <3>3
  <2>3. QED  BY <2>1, <2>2
<1> HIDE DEF size
<1>5. \A k \in 1..size : k - 1 \in 0..n /\ hop[k - 1] \in Cluster
  <2>1. ASSUME NEW k \in 1..size PROVE hop[k - 1] \in Cluster
    <3>1. k = 1 \/ k - 1 \in 1..(size - 1)
      BY <1>4
    <3>2. QED  BY <1>3, <1>4, <3>1
  <2>2. ASSUME NEW k \in 1..size PROVE k - 1 \in 0..n
    BY <1>4
  <2>3. QED  BY <2>1, <2>2
<1> DEFINE s == LinkedFrom(f, c, n)
<1>6. size \in Nat /\ s \in Seq(Cluster) /\ Len(s) = size /\ \A k \in 1..size : s[k] = hop[k - 1]
  <2>1. size \in Nat
    BY <1>4
  <2>2. \A k \in 1..size : hop[k - 1] \in Cluster
    BY <1>5
  <2>3. QED  BY <1>2, <2>1, <2>2
<1> HIDE DEF s
<1>7. ASSUME NEW k \in 1..(size - 1) PROVE s[k + 1] = f[s[k]]
  <2>1. k \in 1..size /\ k + 1 \in 1..size /\ (k + 1) - 1 = k /\ k \in 1..n
    BY <1>4, <1>6
  <2>2. QED  BY <1>3, <1>6, <2>1
<1>8. s[1] = c
  BY <1>3, <1>4, <1>6
<1>9. size = (IF n <= 1 THEN 1 ELSE n) \/ f[s[size]] \notin Cluster
  <2>1. SUFFICES ASSUME size # (IF n <= 1 THEN 1 ELSE n) PROVE f[s[size]] \notin Cluster
    OBVIOUS
  <2>2. size \in 1..n /\ size \in 1..size
    BY <1>4, <2>1
  <2>3. QED  BY <1>3, <1>4, <1>6, <2>1, <2>2
<1>10. QED  BY <1>4, <1>6, <1>7, <1>8, <1>9 DEF Trace, s

LEMMA TraceType ==
  ASSUME NEW f, NEW c, NEW n, NEW s, Trace(f, c, n, s)
  PROVE  s \in Seq(Cluster) /\ Len(s) \in Nat
<1>1. s \in Seq(Cluster)
  BY DEF Trace
<1>2. QED  BY <1>1

LEMMA TracePrefix ==
  ASSUME NEW f, NEW c, NEW n \in Nat, NEW s, NEW t, Trace(f, c, n, s), Trace(f, c, n, t), Len(s) <= Len(t)
  PROVE  s = t
<1> DEFINE N == IF n <= 1 THEN 1 ELSE n
           l == Len(s)
           m == Len(t)
<1>0. l \in Nat /\ m \in Nat /\ N \in Nat /\ l >= 1 /\ m <= N /\ l <= m /\ s \in Seq(Cluster) /\ t \in Seq(Cluster)
  BY DEF Trace
<1>1. /\ s[1] = c /\ t[1] = c
      /\ \A k \in 1..(l - 1) : s[k + 1] = f[s[k]]
      /\ \A k \in 1..(m - 1) : t[k + 1] = f[t[k]]
      /\ l = N \/ f[s[l]] \notin Cluster
      /\ \A k \in 1..m : t[k] \in Cluster
  BY DEF Trace
<1> HIDE DEF l, m, N
<1>2. \A k \in 1..l : s[k] = t[k]
  <2> DEFINE T == {k \in 0..(l - 1) : s[k + 1] = t[k + 1]}
  <2>1. 0 \in T
    BY <1>0, <1>1
  <2>2. ASSUME NEW k \in 0..((l - 1) - 1), k \in T PROVE k + 1 \in T
    <3>1. k + 1 \in 1..(l - 1) /\ k + 1 \in 1..(m - 1) /\ k + 1 \in 0..(l - 1)
      BY <1>0
    <3>2. QED  BY <1>1, <2>2, <3>1
  <2> HIDE DEF T
  <2>3. l - 1 \in Nat
    BY <1>0
  <2>4. 0..(l - 1) \subseteq T
    BY ONLY <2>1, <2>2, <2>3, InductionUpTo
  <2>5. ASSUME NEW k \in 1..l PROVE s[k] = t[k]
    <3>1. k - 1 \in 0..(l - 1) /\ (k - 1) + 1 = k
      BY <1>0
    <3>2. k - 1 \in T
      BY <2>4, <3>1
    <3>3. QED  BY <3>1, <3>2 DEF T
  <2>6. QED  BY <2>5
<1>3. l = m
  <2> SUFFICES ASSUME l < m PROVE FALSE
    BY <1>0
  <2>1. l \in 1..(m - 1) /\ l \in 1..l /\ l + 1 \in 1..m /\ l # N
    BY <1>0
  <2>2. t[l + 1] = f[s[l]]
    BY <1>1, <1>2, <2>1
  <2>3. QED  BY <1>1, <2>1, <2>2
<1>4. QED  BY <1>0, <1>2, <1>3 DEF l, m

\* What is linked from a cluster is one list.
LEMMA TraceIs ==
  ASSUME NEW f \in [Word -> Word], NEW c \in Cluster, NEW n \in Nat, NEW s, Trace(f, c, n, s)
  PROVE  LinkedFrom(f, c, n) = s
<1>1. Trace(f, c, n, LinkedFrom(f, c, n))
  BY ChainTrace
<1>2. Len(s) \in Nat /\ Len(LinkedFrom(f, c, n)) \in Nat
  BY <1>1, TraceType
<1>3. Len(s) <= Len(LinkedFrom(f, c, n)) \/ Len(LinkedFrom(f, c, n)) <= Len(s)
  BY <1>2
<1>4. CASE Len(s) <= Len(LinkedFrom(f, c, n))
  BY <1>1, <1>4, TracePrefix
<1>5. CASE Len(LinkedFrom(f, c, n)) <= Len(s)
  BY <1>1, <1>5, TracePrefix
<1>6. QED  BY <1>3, <1>4, <1>5



LEMMA TraceKept ==
  ASSUME NEW f, NEW g, NEW c, NEW n, NEW s, Trace(f, c, n, s), \A k \in 1..Len(s) : g[s[k]] = f[s[k]]
  PROVE  Trace(g, c, n, s)
<1>1. Len(s) \in Nat /\ Len(s) \in 1..Len(s)
  BY TraceType DEF Trace
<1>2. ASSUME NEW k \in 1..(Len(s) - 1) PROVE s[k + 1] = g[s[k]]
  <2>1. k \in 1..Len(s)
    BY <1>1
  <2>2. QED  BY <2>1 DEF Trace
<1>3. g[s[Len(s)]] = f[s[Len(s)]]
  BY <1>1
<1>4. QED  BY <1>2, <1>3 DEF Trace

\* Of a trace that is as long as it may be, the last link is not looked at.
LEMMA TraceKeptTip ==
  ASSUME NEW f, NEW g, NEW c, NEW n \in Nat, NEW s, Trace(f, c, n, s), Len(s) = n,
         \A k \in 1..(Len(s) - 1) : g[s[k]] = f[s[k]]
  PROVE  Trace(g, c, n, s)
BY TraceType DEF Trace

-----------------------------------------------------------------------------
(* The clusters of an owner.                                               *)

Run(c, n) == [k \in 1..(IF n = 0 THEN 1 ELSE n) |-> c + k - 1]

LEMMA RunIs ==
  ASSUME NEW c \in Nat, NEW n \in Nat
  PROVE  /\ Len(Run(c, n)) = IF n = 0 THEN 1 ELSE n
         /\ \A k \in 1..Len(Run(c, n)) : Run(c, n)[k] = c + k - 1
         /\ Run(c, n) \in Seq(Nat)
BY DEF Run

LEMMA RootList == ASSUME NEW f, NEW d PROVE OwnedIn(f, d, Root) = LinkedFrom(f, RootOffset, ClusterCount)
BY Zenon DEF OwnedIn, LinkedFrom

LEMMA SlotNotRoot == Root \notin Slot /\ Owner = Slot \union {Root}
BY VolumeAssumption DEF Root, Slot, Owner

LEMMA NoList ==
  ASSUME NEW f, NEW d, NEW s \in Slot, ~(d[s].live /\ d[s].clu \in Cluster)
  PROVE  OwnedIn(f, d, s) = << >>
<1>1. s # Root
  BY SlotNotRoot
<1>2. QED  BY <1>1, Zenon DEF OwnedIn, Chain

LEMMA RunList ==
  ASSUME NEW f, NEW d, NEW s \in Slot, d[s].live, d[s].clu \in Cluster, d[s].nofat
  PROVE  OwnedIn(f, d, s) = Run(d[s].clu, d[s].len)
<1>1. s # Root
  BY SlotNotRoot
<1>2. QED  BY <1>1, Zenon DEF OwnedIn, Chain, Run

LEMMA LinkedList ==
  ASSUME NEW f, NEW d, NEW s \in Slot, d[s].live, d[s].clu \in Cluster, d[s].nofat = FALSE
  PROVE  OwnedIn(f, d, s) = LinkedFrom(f, d[s].clu, d[s].len)
<1>1. s # Root
  BY SlotNotRoot
<1>2. OwnedIn(f, d, s) = Chain(f, d[s].clu, d[s].len, d[s].nofat)
  BY <1>1, Zenon DEF OwnedIn
<1>3. QED  BY <1>2, Zenon DEF LinkedFrom

(* A list is the same while the FAT's entries for its clusters are, and    *)
(* the owner's dentry; of a contiguous one, the FAT says nothing.          *)
LEMMA OwnedKept ==
  ASSUME NEW f \in [Word -> Word], NEW g \in [Word -> Word],
         NEW d \in [Slot -> Entry], NEW e \in [Slot -> Entry],
         NEW o \in Owner, o # Root => e[o] = d[o],
         \/ o # Root /\ d[o].nofat
         \/ \A k \in 1..Len(OwnedIn(f, d, o)) : g[OwnedIn(f, d, o)[k]] = f[OwnedIn(f, d, o)[k]]
  PROVE  OwnedIn(g, e, o) = OwnedIn(f, d, o)
<1>1. ASSUME NEW c \in Cluster, NEW n \in Nat,
             \A k \in 1..Len(LinkedFrom(f, c, n)) : g[LinkedFrom(f, c, n)[k]] = f[LinkedFrom(f, c, n)[k]]
      PROVE  LinkedFrom(g, c, n) = LinkedFrom(f, c, n)
  <2>1. Trace(f, c, n, LinkedFrom(f, c, n))
    BY ChainTrace
  <2>2. Trace(g, c, n, LinkedFrom(f, c, n))
    BY <1>1, <2>1, TraceKept
  <2>3. QED  BY <2>2, TraceIs
<1>2. CASE o = Root
  <2>1. ClusterCount \in Nat /\ RootOffset \in Cluster
    BY VolumeAssumption, ClusterWord
  <2>2. OwnedIn(f, d, o) = LinkedFrom(f, RootOffset, ClusterCount) /\ OwnedIn(g, e, o) = LinkedFrom(g, RootOffset, ClusterCount)
    BY <1>2, RootList
  <2>3. QED  BY <1>1, <1>2, <2>1, <2>2
<1>3. CASE o # Root
  <2>1. o \in Slot /\ e[o] = d[o] /\ d[o].len \in Nat /\ d[o] \in Entry
    BY <1>3, SlotNotRoot DEF Entry
  <2>2. CASE ~(d[o].live /\ d[o].clu \in Cluster)
    BY <2>1, <2>2, NoList
  <2>3. CASE d[o].live /\ d[o].clu \in Cluster /\ d[o].nofat
    BY <2>1, <2>3, RunList
  <2>4. CASE d[o].live /\ d[o].clu \in Cluster /\ ~d[o].nofat
    <3>1. d[o].nofat = FALSE
      BY <2>1, <2>4 DEF Entry
    <3>2. /\ OwnedIn(f, d, o) = LinkedFrom(f, d[o].clu, d[o].len)
          /\ OwnedIn(g, e, o) = LinkedFrom(g, d[o].clu, d[o].len)
      <4>1. OwnedIn(f, d, o) = LinkedFrom(f, d[o].clu, d[o].len)
        BY <2>1, <2>4, <3>1, LinkedList
      <4>2. e[o].live /\ e[o].clu \in Cluster /\ e[o].nofat = FALSE
        BY <2>1, <2>4, <3>1
      <4>3. OwnedIn(g, e, o) = LinkedFrom(g, e[o].clu, e[o].len)
        <5>1. o \in Slot
          BY <2>1
        <5>2. QED  BY ONLY <4>2, <5>1, LinkedList, Zenon
      <4>4. QED  BY <2>1, <4>1, <4>3
    <3>3. QED  BY <1>1, <1>3, <2>1, <2>4, <3>2
  <2>5. QED  BY <2>2, <2>3, <2>4
<1>4. QED  BY <1>2, <1>3

-----------------------------------------------------------------------------
(* The same, as the disk is now.                                           *)

LEMMA Types ==
  ASSUME IInv
  PROVE  /\ fat \in [Word -> Word] /\ stream \in [Slot -> Entry]
         /\ bitmap \subseteq Cluster /\ alloc_table = bitmap
         /\ head \in [FirstCluster -> Entry] /\ child \in [Slot -> Entry]
         /\ r \in Registers
BY DEF IInv, TypeOK, VolumeTypeOK, BitmapCoherent

LEMMA ListType ==
  ASSUME ListsSound, NEW o \in Owner
  PROVE  /\ Owned(o) \in Seq(Cluster) /\ Len(Owned(o)) \in Nat
         /\ \A k \in 1..Len(Owned(o)) : Owned(o)[k] \in Cluster /\ Owned(o)[k] \in Holds(o)
         /\ Holds(o) \subseteq Cluster
<1>1. Owned(o) \in Seq(Cluster)
  BY DEF ListsSound
<1>2. Len(Owned(o)) \in Nat /\ \A k \in 1..Len(Owned(o)) : Owned(o)[k] \in Cluster
  BY <1>1
<1>3. QED  BY <1>1, <1>2 DEF Holds

LEMMA RootTrace ==
  ASSUME IInv
  PROVE  Trace(fat, RootOffset, ClusterCount, Owned(Root))
<1>1. Owned(Root) = LinkedFrom(fat, RootOffset, ClusterCount)
  BY RootList DEF Owned
<1>2. ClusterCount \in Nat /\ RootOffset \in Cluster /\ fat \in [Word -> Word]
  BY VolumeAssumption, ClusterWord, Types
<1>3. QED  BY <1>1, <1>2, ChainTrace

LEMMA LinkedTrace ==
  ASSUME IInv, NEW s \in Slot, stream[s].live, stream[s].clu \in Cluster, ~stream[s].nofat
  PROVE  Trace(fat, stream[s].clu, stream[s].len, Owned(s))
<1>1. fat \in [Word -> Word] /\ stream[s].len \in Nat /\ stream[s].nofat = FALSE
  BY Types DEF Entry
<1>2. Owned(s) = LinkedFrom(fat, stream[s].clu, stream[s].len)
  BY <1>1, LinkedList, Zenon DEF Owned
<1>3. QED  BY <1>1, <1>2, ChainTrace

LEMMA RunOwned ==
  ASSUME IInv, NEW s \in Slot, stream[s].live, stream[s].clu \in Cluster, stream[s].nofat
  PROVE  /\ Len(Owned(s)) = IF stream[s].len = 0 THEN 1 ELSE stream[s].len
         /\ \A k \in 1..Len(Owned(s)) : Owned(s)[k] = stream[s].clu + k - 1
<1>1. stream[s].len \in Nat
  BY Types DEF Entry
<1>2. stream[s].clu \in Nat
  BY ClusterWord
<1>3. Owned(s) = Run(stream[s].clu, stream[s].len)
  BY RunList, Zenon DEF Owned
<1>4. /\ Len(Run(stream[s].clu, stream[s].len)) = IF stream[s].len = 0 THEN 1 ELSE stream[s].len
      /\ \A k \in 1..Len(Run(stream[s].clu, stream[s].len)) : Run(stream[s].clu, stream[s].len)[k] = stream[s].clu + k - 1
  BY ONLY <1>1, <1>2, RunIs
<1>5. QED  BY ONLY <1>3, <1>4

LEMMA StreamOfIs ==
  ASSUME NEW c, StreamOf(c) # 0
  PROVE  StreamOf(c) \in Slot /\ stream[StreamOf(c)].live /\ stream[StreamOf(c)].clu = c
<1> DEFINE found == {s \in Slot : stream[s].live /\ stream[s].clu = c}
<1>1. found # {} /\ StreamOf(c) = CHOOSE s \in found : \A t \in found : s <= t
  BY DEF StreamOf
<1>2. found \subseteq Nat
  BY DEF Slot
<1>3. \E s \in found : \A t \in found : s <= t
  <2> HIDE DEF found
  <2>1. QED  BY <1>1, <1>2, LeastExists
<1>4. StreamOf(c) \in found
  BY <1>1, <1>3
<1>5. QED  BY <1>4

\* A cluster in which a directory begins says whose it is.
LEMMA OneBegins ==
  ASSUME IInv, ListsSound, NEW s \in Slot, stream[s].live, stream[s].clu \in Cluster
  PROVE  /\ Len(Owned(s)) >= 1 /\ Owned(s)[1] = stream[s].clu
         /\ stream[s].clu # RootOffset
         /\ StreamOf(stream[s].clu) = s
<1>1. ASSUME NEW t \in Slot, stream[t].live, stream[t].clu \in Cluster
      PROVE  Len(Owned(t)) >= 1 /\ Owned(t)[1] = stream[t].clu
  <2>1. CASE stream[t].nofat
    <3>1. stream[t].len \in Nat
      BY Types DEF Entry
    <3>2. stream[t].clu \in Nat
      BY <1>1, ClusterWord
    <3>3. Len(Owned(t)) = (IF stream[t].len = 0 THEN 1 ELSE stream[t].len)
          /\ \A k \in 1..Len(Owned(t)) : Owned(t)[k] = stream[t].clu + k - 1
      BY <1>1, <2>1, RunOwned
    <3>4. QED  BY ONLY <3>1, <3>2, <3>3
  <2>2. CASE ~stream[t].nofat
    BY <1>1, <2>2, LinkedTrace DEF Trace
  <2>3. QED  BY <2>1, <2>2
<1>2. ASSUME NEW t \in Slot, stream[t].live, stream[t].clu = stream[s].clu PROVE t = s
  <2>1. stream[s].clu \in Holds(s) /\ stream[s].clu \in Holds(t)
    BY <1>1, <1>2 DEF Holds
  <2>2. s \in Owner /\ t \in Owner
    BY SlotNotRoot
  <2>3. QED  BY <2>1, <2>2 DEF ListsSound
<1>3. StreamOf(stream[s].clu) = s
  <2>1. {t \in Slot : stream[t].live /\ stream[t].clu = stream[s].clu} = {s}
    BY <1>2
  <2>2. s \in Nat
    BY DEF Slot
  <2>3. QED  BY <2>1, <2>2 DEF StreamOf
<1>4. stream[s].clu # RootOffset
  <2>1. stream[s].clu \in Holds(s)
    BY <1>1 DEF Holds
  <2>2. RootOffset \in Holds(Root)
    BY RootTrace DEF Trace, Holds
  <2>3. s \in Owner /\ Root \in Owner /\ s # Root
    BY SlotNotRoot
  <2>4. QED  BY <2>1, <2>2, <2>3 DEF ListsSound
<1>5. QED  BY <1>1, <1>3, <1>4

-----------------------------------------------------------------------------
(* What a step leaves as it was.                                           *)

\* The step changes no list.
SameLists == \A o \in Owner : OwnedIn(fat', stream', o) = OwnedIn(fat, stream, o)

LEMMA ListsQuiet == ASSUME UNCHANGED <<fat, stream>> PROVE SameLists
BY DEF SameLists

(* A write to the FAT entry of a cluster that an owner has not, or has in  *)
(* a contiguous run or as the last one there may be, does not change his   *)
(* list.                                                                   *)
LEMMA ListWrite ==
  ASSUME IInv, IInv', ListsSound, NEW w, NEW v, fat' = [fat EXCEPT ![w] = v],
         NEW o \in Owner, o # Root => stream'[o] = stream[o],
         w \in Holds(o) =>
           /\ o # Root /\ stream[o].live /\ stream[o].clu \in Cluster
           /\ stream[o].nofat \/ (Len(Owned(o)) = stream[o].len /\ w = Tip(Owned(o)))
  PROVE  OwnedIn(fat', stream', o) = OwnedIn(fat, stream, o)
<1>1. fat \in [Word -> Word] /\ stream \in [Slot -> Entry]
  BY Types
<1>2. fat' \in [Word -> Word] /\ stream' \in [Slot -> Entry]
  BY Types DEF IInv, TypeOK, VolumeTypeOK
<1>0. o \in Owner /\ (o # Root => stream'[o] = stream[o])
  OBVIOUS
<1>3. CASE o # Root /\ stream[o].nofat
  BY ONLY <1>0, <1>1, <1>2, <1>3, OwnedKept, Zenon
<1>4. CASE w \notin Holds(o)
  <2>1. ASSUME NEW k \in 1..Len(OwnedIn(fat, stream, o))
        PROVE  fat'[OwnedIn(fat, stream, o)[k]] = fat[OwnedIn(fat, stream, o)[k]]
    <3>1. OwnedIn(fat, stream, o)[k] # w
      BY <1>4 DEF Holds, Owned
    <3>2. OwnedIn(fat, stream, o)[k] \in Word
      BY ListType, ClusterWord DEF Owned
    <3>3. QED  BY <1>1, <3>1, <3>2
  <2>2. QED  BY ONLY <1>0, <1>1, <1>2, <2>1, OwnedKept, Zenon
<1>5. CASE w \in Holds(o) /\ ~stream[o].nofat
  <2>1. /\ o \in Slot /\ stream[o].live /\ stream[o].clu \in Cluster
        /\ Len(Owned(o)) = stream[o].len /\ w = Tip(Owned(o))
    BY <1>5, SlotNotRoot
  <2>2. Trace(fat, stream[o].clu, stream[o].len, Owned(o)) /\ stream[o].len \in Nat /\ stream[o].nofat = FALSE
    BY <1>1, <1>5, <2>1, LinkedTrace DEF Entry
  <2>3. ASSUME NEW k \in 1..(Len(Owned(o)) - 1) PROVE fat'[Owned(o)[k]] = fat[Owned(o)[k]]
    <3>1. k \in 1..Len(Owned(o)) /\ Len(Owned(o)) \in 1..Len(Owned(o)) /\ k # Len(Owned(o))
      BY <2>1, <2>2
    <3>2. Owned(o)[k] # w /\ Owned(o)[k] \in Cluster
      BY <2>1, <3>1, ListType DEF ListsSound, NoRepeat, Tip
    <3>3. QED  BY <1>1, <3>2, ClusterWord
  <2>4. Trace(fat', stream[o].clu, stream[o].len, Owned(o))
    BY ONLY <2>1, <2>2, <2>3, TraceKeptTip
  <2>5. LinkedFrom(fat', stream[o].clu, stream[o].len) = Owned(o)
    BY ONLY <1>2, <2>1, <2>2, <2>4, TraceIs
  <2>6. OwnedIn(fat', stream', o) = LinkedFrom(fat', stream'[o].clu, stream'[o].len)
    <3>1. stream'[o] = stream[o]
      BY <1>5
    <3>2. o \in Slot /\ stream'[o].live /\ stream'[o].clu \in Cluster /\ stream'[o].nofat = FALSE
      BY <2>1, <2>2, <3>1
    <3>3. QED  BY ONLY <3>2, LinkedList, Zenon
  <2>7. QED  BY <1>5, <2>5, <2>6 DEF Owned
<1>6. QED  BY <1>3, <1>4, <1>5

LEMMA ListsWrite ==
  ASSUME IInv, IInv', ListsSound, stream' = stream,
         NEW w, NEW v, fat' = [fat EXCEPT ![w] = v],
         \A o \in Owner : w \in Holds(o) =>
           /\ o # Root /\ stream[o].live /\ stream[o].clu \in Cluster
           /\ stream[o].nofat \/ (Len(Owned(o)) = stream[o].len /\ w = Tip(Owned(o)))
  PROVE  SameLists
BY ListWrite DEF SameLists

LEMMA SameHolds ==
  ASSUME SameLists, NEW o \in Owner
  PROVE  Owned(o)' = Owned(o) /\ Holds(o)' = Holds(o)
BY DEF SameLists, Holds, Owned

LEMMA DiskKept ==
  ASSUME DiskInv, SameLists, stream' = stream, UNCHANGED fat[Tip(Owned(Root))]
  PROVE  DiskInv'
<1> USE DEF DiskInv
<1>1. Root \in Owner
  BY SlotNotRoot
<1>2. ListsSound'
  <2>1. ASSUME NEW o \in Owner
        PROVE  (Owned(o) \in Seq(Cluster) /\ NoRepeat(Owned(o)) /\ Holds(o) \intersect System = {})'
    BY SameHolds DEF ListsSound, NoRepeat
  <2>2. ASSUME NEW o \in Owner, NEW p \in Owner, o # p PROVE (Holds(o) \intersect Holds(p) = {})'
    BY <2>2, SameHolds DEF ListsSound
  <2>3. QED  BY <2>1, <2>2 DEF ListsSound
<1>3. RootEnds'
  BY <1>1 DEF RootEnds, SameLists, Owned, Tip
<1>4. DentriesSound'
  BY DEF DentriesSound
<1>5. QED  BY <1>2, <1>3, <1>4

LEMMA AllMarked ==
  ASSUME Marked, r.op # "remove", ~(pc = "mark" /\ r.obj = RootOffset)
  PROVE  System \subseteq bitmap /\ \A o \in Owner : Holds(o) \subseteq bitmap
BY DEF Marked

LEMMA MarkedAgain ==
  ASSUME SameLists, System \subseteq bitmap', \A o \in Owner : Holds(o) \subseteq bitmap'
  PROVE  Marked'
<1>1. \A o \in Owner : Holds(o)' \subseteq bitmap'
  BY SameHolds
<1>2. QED  BY <1>1 DEF Marked

\* While a directory grows, the phases of freeing are not entered, and the slot stays free.
LEMMA StillGrowing ==
  ASSUME OInv, pc \in Growing, pc' \in Growing, r'.op = r.op, r'.slot = r.slot, stream' = stream
  PROVE  EntryIsNew' /\ Trims' /\ Removes' /\ r.op \in {"fill", "create"}
<1>1. r.op \in {"fill", "create"}
  BY DEF OInv, IInv, Ready
<1>2. EntryIsNew'
  BY DEF OInv, EntryIsNew, Growing
<1>3. Trims' /\ Removes'
  BY <1>1 DEF Trims, Removes, Growing
<1>4. QED  BY <1>1, <1>2, <1>3

(* The step writes the FAT entry of the cluster w and no other; w is not   *)
(* the volume's own, nor of a directory that the command is not on.        *)
Writes(w) ==
  /\ w \in Cluster \ System
  /\ \A x \in Word : x # w => fat'[x] = fat[x]
  /\ \A o \in Owner \ {Operand} : w \notin Holds(o)

LEMMA SameTarget ==
  ASSUME stream' = stream, r'.obj = r.obj
  PROVE  Target' = Target /\ Dentry' = Dentry
BY DEF Target, StreamOf, Dentry

\* A statement of exfat_alloc_clusters that changes nothing but its locals.
LEMMA GrowQuiet ==
  ASSUME OInv, UNCHANGED <<volume, memory>>, pc \in Growing \ {"mark"}, pc' \in Growing,
         r'.op = r.op, r'.slot = r.slot, r'.obj = r.obj
  PROVE  /\ SameLists /\ Target' = Target /\ Dentry' = Dentry
         /\ DiskInv' /\ RootHeaded' /\ Marked' /\ EntryIsNew' /\ Trims' /\ Removes'
<1> UNCHANGED <<fat, stream, bitmap, alloc_table, head, child>>
  BY DEF volume, memory
<1>1. SameLists
  BY ListsQuiet
<1>2. Target' = Target /\ Dentry' = Dentry
  BY SameTarget
<1>3. DiskInv'
  <2>1. Root \in Owner
    BY SlotNotRoot
  <2>2. UNCHANGED fat[Tip(Owned(Root))]
    BY <1>1, <2>1, SameHolds DEF Tip
  <2>3. QED  BY <1>1, <2>2, DiskKept DEF OInv
<1>4. RootHeaded'
  BY DEF OInv, RootHeaded
<1>5. EntryIsNew' /\ Trims' /\ Removes' /\ r.op # "remove"
  BY StillGrowing
<1>6. Marked'
  <2>1. System \subseteq bitmap' /\ \A o \in Owner : Holds(o) \subseteq bitmap'
    BY <1>5, AllMarked DEF OInv
  <2>2. QED  BY <1>1, <2>1, MarkedAgain
<1>7. QED  BY <1>1, <1>2, <1>3, <1>4, <1>5, <1>6

-----------------------------------------------------------------------------
(* exfat_alloc_clusters: where the directory's clusters end.               *)

LEMMA GrowingDirectory ==
  ASSUME OInv, pc \in Growing, r.obj # RootOffset
  PROVE  /\ Target \in Slot /\ Target \in Owner /\ Target # Root /\ Target = StreamOf(r.obj)
         /\ Dentry = stream[Target] /\ Dentry \in Entry /\ Dentry.live
         /\ Dentry.clu = r.obj /\ r.obj \in Cluster /\ r.obj \in Nat
         /\ Dentry.len \in Nat /\ Dentry.len > 0
         /\ F = head[r.obj] /\ head[r.obj].len = Dentry.len
         /\ head[r.obj] \in Entry
<1>1. Target # Root /\ Dentry.len > 0 /\ head[r.obj].len = Dentry.len
  BY DEF OInv, DirectoryGrows
<1>2. Target = StreamOf(r.obj) /\ StreamOf(r.obj) # 0
  BY <1>1 DEF Target, Root
<1>3. Target \in Slot /\ stream[Target].live /\ stream[Target].clu = r.obj
  BY <1>2, StreamOfIs
<1>4. Target \in Owner
  BY <1>3, SlotNotRoot
<1>5. Dentry = stream[Target] /\ Dentry \in Entry
  BY <1>3, Types DEF Dentry, OInv
<1>6. Dentry.len \in Nat
  BY <1>5 DEF Entry
<1>7. r.obj \in FirstCluster
  BY Types DEF OInv, Registers
<1>8. r.obj \in Cluster
  <2>1. r.obj # 0
    BY <1>1, <1>3, <1>5 DEF OInv, DiskInv, DentriesSound
  <2>2. QED  BY <1>7, <2>1 DEF FirstCluster
<1>9. r.obj \in Nat
  BY <1>8, ClusterWord
<1>10. F = head[r.obj] /\ head[r.obj] \in Entry
  BY <1>7, Types DEF F, OInv, IInv, Ready
<1>11. QED  BY <1>1, <1>2, <1>3, <1>4, <1>5, <1>6, <1>8, <1>9, <1>10

LEMMA GrowingRoot ==
  ASSUME OInv, pc \in Growing, r.obj = RootOffset
  PROVE  /\ Target = Root /\ Root \in Owner /\ F = head[RootOffset] /\ ~F.nofat
         /\ head[RootOffset].len \in Nat /\ head[RootOffset].len >= ClusterCount
<1>1. Target = Root /\ Root \in Owner
  BY SlotNotRoot DEF Target
<1>2. F = head[RootOffset] /\ ~F.nofat
  BY DEF F, OInv, IInv, Ready, RootGrows
<1>3. head[RootOffset] \in Entry
  <2>1. RootOffset \in FirstCluster
    BY ClusterWord DEF FirstCluster
  <2>2. QED  BY <2>1, Types DEF OInv
<1>4. QED  BY <1>1, <1>2, <1>3 DEF Entry, OInv, RootHeaded

(* The search starts after the last cluster there is: it has all the free  *)
(* ones before it, and the clusters to come are none as yet.               *)
LEMMA ScanStarts ==
  ASSUME OInv, IInv', pc = "last", UNCHANGED <<volume, memory>>,
         NEW l, l = Tip(Owned(Target)), ScanFrom(l)
  PROVE  OInv'
<1> UNCHANGED <<fat, stream, bitmap, alloc_table, head, child>>
  BY DEF volume, memory
<1>0. pc \in Growing /\ pc' = "scan" /\ pc' \in Growing /\ r \in Registers /\ r.num \in Nat
  BY Types DEF ScanFrom, Goto, Growing, OInv, Registers
<1>1. /\ r'.op = r.op /\ r'.slot = r.slot /\ r'.obj = r.obj /\ r'.num = r.num
      /\ r'.clu = l /\ r'.last = l /\ r'.next = l + 1 /\ r'.left = r.num /\ r'.contig = TRUE
  BY <1>0 DEF ScanFrom, Registers
<1>2. /\ SameLists /\ Target' = Target /\ Dentry' = Dentry
      /\ DiskInv' /\ RootHeaded' /\ Marked' /\ EntryIsNew' /\ Trims' /\ Removes'
  BY <1>0, <1>1, GrowQuiet
<1>3. Target \in Owner /\ Len(Owned(Target)) \in Nat /\ Len(Owned(Target)) >= 1
  <2>1. CASE r.obj = RootOffset
    BY <1>0, <2>1, GrowingRoot, RootTrace, TraceType DEF OInv, Trace
  <2>2. CASE r.obj # RootOffset
    BY <1>0, <2>2, GrowingDirectory, OneBegins, ListType DEF OInv, DiskInv
  <2>3. QED  BY <2>1, <2>2
<1>4. l \in Cluster /\ l \in Holds(Target) /\ Holds(Target) \subseteq bitmap
  <2>1. r.op # "remove"
    BY <1>0 DEF OInv, IInv, Ready
  <2>2. Holds(Target) \subseteq bitmap
    BY <1>3, <2>1, AllMarked DEF OInv
  <2>3. Len(Owned(Target)) \in 1..Len(Owned(Target))
    BY <1>3
  <2>4. QED  BY <1>3, <2>2, <2>3, ListType DEF Tip, OInv, DiskInv
<1>5. Room'
  <2>1. l \in Nat /\ l >= EXFAT_FIRST_CLUSTER
    BY <1>4 DEF Cluster, EXFAT_FIRST_CLUSTER
  <2>2. Free' = Free /\ l \notin Free /\ Cardinality(Free) >= r.num
    BY <1>4, Types DEF Free, OInv, Room
  <2>3. Free \subseteq Ahead'
    BY <1>1, <2>1, <2>2 DEF Ahead, Free, Scanned, EXFAT_FIRST_CLUSTER
  <2>4. QED  BY <1>0, <1>1, <2>1, <2>2, <2>3 DEF Room, EXFAT_FIRST_CLUSTER
<1>6. RootGrows'
  <2>1. SUFFICES ASSUME r.obj = RootOffset PROVE RootGrows'
    BY <1>1 DEF RootGrows
  <2>2. Owned(Root)' = Owned(Root) /\ Target = Root
    BY <1>0, <1>2, <2>1, GrowingRoot, SameHolds
  <2>3. QED  BY <1>0, <1>1, <2>2 DEF OInv, RootGrows, Tip
<1>7. DirectoryGrows'
  BY <1>0, <1>1, <1>2 DEF OInv, DirectoryGrows
<1>8. DirectoryGrowth'
  <2>1. SUFFICES ASSUME r.obj # RootOffset PROVE \E P \in Seq(Cluster) : Growth(P)'
    BY <1>1 DEF DirectoryGrowth
  <2>0. PICK P : P = Owned(Target)
    OBVIOUS
  <2>2. P \in Seq(Cluster) /\ NoRepeat(P) /\ Members(P) = Holds(Target)
    BY <1>3, <2>0, ListType DEF Members, Holds, OInv, DiskInv, ListsSound
  <2>3. /\ Target \in Slot /\ Dentry = stream[Target] /\ Dentry.live /\ Dentry.clu = r.obj /\ r.obj \in Cluster
        /\ Dentry.len \in Nat /\ Dentry.len > 0
    BY <1>0, <2>1, GrowingDirectory
  <2>4. Len(P) = Dentry.len /\ (Dentry.nofat => \A k \in 1..Len(P) : P[k] = r.obj + k - 1)
    <3>1. CASE Dentry.nofat
      BY <2>0, <2>3, <3>1, RunOwned DEF OInv
    <3>2. CASE ~Dentry.nofat
      BY <1>0, <2>0, <2>1, <2>3, <3>2 DEF OInv, DirectoryGrows, Exact
    <3>3. QED  BY <3>1, <3>2
  <2>5. ~Dentry.nofat => /\ fat[Tip(P)] = EXFAT_LASTCLUSTER
                         /\ \A k \in 1..(Len(P) - 1) : fat[P[k]] = P[k + 1]
    <3>1. SUFFICES ASSUME ~Dentry.nofat PROVE fat[Tip(P)] = EXFAT_LASTCLUSTER /\ \A k \in 1..(Len(P) - 1) : fat[P[k]] = P[k + 1]
      OBVIOUS
    <3>2. Exact(Target)
      BY <1>0, <2>1 DEF OInv, DirectoryGrows
    <3>3. Trace(fat, stream[Target].clu, stream[Target].len, P)
      BY <2>0, <2>3, <3>1, LinkedTrace DEF OInv
    <3>4. QED  BY <2>0, <2>3, <2>4, <3>1, <3>2, <3>3 DEF Exact, Trace, Tip
  <2>6. P = SubSeq(P, 1, Dentry.len)
    BY <2>2, <2>4, SubSeqFull
  <2>7. Linked' = 0
    BY <1>0, <1>1 DEF Linked
  <2>8. Owned(Target)' = P /\ \A o \in Owner : Holds(o)' = Holds(o)
    BY <1>2, <1>3, <2>0, SameHolds DEF SameLists, Owned
  <2>9. Members(P) \intersect System = {} /\ \A o \in Owner \ {Target} : Members(P) \intersect Holds(o) = {}
    BY <1>3, <2>2 DEF OInv, DiskInv, ListsSound
  <2>10. Growth(P)'
    BY <1>0, <1>1, <1>2, <1>4, <2>0, <2>2, <2>3, <2>4, <2>5, <2>6, <2>7, <2>8, <2>9 DEF Growth, Tip
  <2>11. QED  BY <2>2, <2>10
<1>9. QED  BY <1>2, <1>5, <1>6, <1>7, <1>8 DEF OInv

\* The clusters of a directory that grows, with those it is about to get.
LEMMA GrowthFacts ==
  ASSUME OInv, pc \in Growing, r.obj # RootOffset, NEW P \in Seq(Cluster), Growth(P)
  PROVE  /\ Len(P) \in Nat /\ Linked \in Nat /\ Dentry.len \in Nat /\ Dentry.len > 0
         /\ Len(P) = Dentry.len + Linked /\ Len(P) \in 1..Len(P)
         /\ \A k \in 1..Len(P) : /\ P[k] \in Cluster /\ P[k] \in Word /\ P[k] \notin System
                                 /\ P[k] \in bitmap \/ (pc = "mark" /\ P[k] = r.next)
                                 /\ \A o \in Owner \ {Target} : P[k] \notin Holds(o)
<1>1. Dentry.len \in Nat /\ Dentry.len > 0
  BY GrowingDirectory
<1>2. Linked \in Nat /\ Len(P) = Dentry.len + Linked
  BY DEF Growth
<1>3. Len(P) \in Nat /\ Len(P) \in 1..Len(P)
  BY <1>1, <1>2
<1>4. \A k \in 1..Len(P) : P[k] \in Members(P)
  BY DEF Members
<1>5. ASSUME NEW k \in 1..Len(P)
      PROVE  /\ P[k] \in Cluster /\ P[k] \in Word /\ P[k] \notin System
             /\ P[k] \in bitmap \/ (pc = "mark" /\ P[k] = r.next)
             /\ \A o \in Owner \ {Target} : P[k] \notin Holds(o)
  <2>1. P[k] \in Cluster /\ P[k] \in Members(P)
    BY <1>4
  <2>2. P[k] \in Word
    BY <2>1, ClusterWord
  <2>3. QED  BY <2>1, <2>2 DEF Growth
<1>6. QED  BY <1>1, <1>2, <1>3, <1>5

LEMMA ClipCluster == ASSUME NEW c \in Cluster PROVE Clip(c) = c /\ c \in Word /\ c \in Nat /\ c # EXFAT_LASTCLUSTER
BY VolumeAssumption DEF Cluster, Clip, Past, Word, EXFAT_FIRST_CLUSTER, EXFAT_LASTCLUSTER

\* The walk to the last cluster of a linked directory is at one of its clusters.
LEMMA LastPosition ==
  ASSUME OInv, pc = "last", ~F.nofat
  PROVE  /\ Target \in Owner /\ Len(Owned(Target)) \in Nat /\ r.i \in Nat
         /\ r.i + 1 \in 1..Len(Owned(Target)) /\ r.clu = Owned(Target)[r.i + 1] /\ r.clu \in Cluster
         /\ fat[Tip(Owned(Target))] = EXFAT_LASTCLUSTER
         /\ \A k \in 1..(Len(Owned(Target)) - 1) : Owned(Target)[k + 1] = fat[Owned(Target)[k]]
         /\ F.len \in Nat /\ Len(Owned(Target)) <= F.len
<1>0. pc \in Growing /\ r.i \in Nat
  BY Types DEF Growing, OInv, Registers
<1>1. CASE r.obj = RootOffset
  <2>1. Target = Root /\ Root \in Owner /\ F.len \in Nat /\ F.len >= ClusterCount /\ ClusterCount \in Nat /\ ClusterCount > 1
    BY <1>0, <1>1, GrowingRoot, VolumeAssumption
  <2>2. Trace(fat, RootOffset, ClusterCount, Owned(Root)) /\ Len(Owned(Root)) \in Nat
    BY RootTrace, TraceType DEF OInv
  <2>3. r.i < Len(Owned(Root)) /\ r.clu = Owned(Root)[r.i + 1]
    BY <1>0, <1>1 DEF OInv, RootGrows
  <2>4. r.i + 1 \in 1..Len(Owned(Root))
    BY <1>0, <2>2, <2>3
  <2>5. r.clu \in Cluster
    BY <2>1, <2>3, <2>4, ListType DEF OInv, DiskInv
  <2>6. QED  BY <1>0, <2>1, <2>2, <2>3, <2>4, <2>5 DEF Trace, OInv, DiskInv, RootEnds
<1>2. CASE r.obj # RootOffset
  <2>1. /\ Target \in Slot /\ Target \in Owner /\ Dentry = stream[Target] /\ Dentry.live /\ Dentry.clu = r.obj
        /\ r.obj \in Cluster /\ Dentry.len \in Nat /\ Dentry.len > 0 /\ F = head[r.obj] /\ F.len = Dentry.len
    BY <1>0, <1>2, GrowingDirectory
  <2>2. ~Dentry.nofat /\ Exact(Target) /\ r.i < Dentry.len /\ r.clu = Owned(Target)[r.i + 1]
    BY <1>0, <1>2, <2>1 DEF OInv, DirectoryGrows
  <2>3. Len(Owned(Target)) = Dentry.len /\ fat[Tip(Owned(Target))] = EXFAT_LASTCLUSTER
    BY <2>1, <2>2 DEF Exact, Tip
  <2>4. Trace(fat, stream[Target].clu, stream[Target].len, Owned(Target))
    BY <2>1, <2>2, LinkedTrace DEF OInv
  <2>5. r.i + 1 \in 1..Len(Owned(Target))
    BY <1>0, <2>1, <2>2, <2>3
  <2>6. r.clu \in Cluster
    BY <2>1, <2>2, <2>5, ListType DEF OInv, DiskInv
  <2>7. QED  BY <1>0, <2>1, <2>2, <2>3, <2>4, <2>5, <2>6 DEF Trace
<1>3. QED  BY <1>1, <1>2

LEMMA LastKeeps ==
  ASSUME OInv, IInv', LastContiguous \/ LastFollow \/ LastFound \/ LastMissing
  PROVE  OInv'
<1>0. pc = "last" /\ pc \in Growing
  BY DEF LastContiguous, LastFollow, LastFound, LastMissing, Growing
<1>1. CASE LastContiguous
  <2>1. F.nofat /\ ScanFrom(r.obj + F.len - 1) /\ UNCHANGED <<volume, memory>>
    BY <1>1 DEF LastContiguous
  <2>2. r.obj # RootOffset
    BY <1>0, <2>1, GrowingRoot
  <2>3. /\ Target \in Slot /\ Dentry = stream[Target] /\ Dentry.live /\ Dentry.clu = r.obj /\ r.obj \in Cluster
        /\ r.obj \in Nat /\ Dentry.len \in Nat /\ Dentry.len > 0 /\ F = head[r.obj] /\ F.len = Dentry.len
    BY <1>0, <2>2, GrowingDirectory
  <2>4. Dentry.nofat
    BY <1>0, <2>1, <2>2, <2>3 DEF OInv, DirectoryGrows
  <2>5. Len(Owned(Target)) = Dentry.len /\ \A k \in 1..Len(Owned(Target)) : Owned(Target)[k] = r.obj + k - 1
    BY <2>3, <2>4, RunOwned DEF OInv
  <2>6. r.obj + F.len - 1 = Tip(Owned(Target))
    BY <2>3, <2>5 DEF Tip
  <2>7. QED  BY <1>0, <2>1, <2>6, ScanStarts
<1>2. CASE LastFollow
  <2> DEFINE s == Owned(Target)
  <2>1. /\ Target \in Owner /\ Len(s) \in Nat /\ r.i \in Nat
        /\ r.i + 1 \in 1..Len(s) /\ r.clu = s[r.i + 1] /\ r.clu \in Cluster
        /\ fat[Tip(s)] = EXFAT_LASTCLUSTER
        /\ \A k \in 1..(Len(s) - 1) : s[k + 1] = fat[s[k]]
    BY <1>0, <1>2, LastPosition DEF LastFollow
  <2>2. fat[r.clu] # EXFAT_LASTCLUSTER /\ r' = [r EXCEPT !.clu = fat[r.clu], !.i = r.i + 1]
        /\ UNCHANGED <<volume, memory, pc>>
    BY <1>2, <2>1, ClipCluster DEF LastFollow
  <2>3. r.i + 1 \in 1..(Len(s) - 1)
    BY <2>1, <2>2 DEF Tip
  <2>4. fat[r.clu] = s[(r.i + 1) + 1]
    BY <2>1, <2>3
  <2>5. /\ r'.op = r.op /\ r'.slot = r.slot /\ r'.obj = r.obj /\ r'.num = r.num
        /\ r'.clu = s[(r.i + 1) + 1] /\ r'.i = r.i + 1
    BY <2>2, <2>4, Types DEF OInv, Registers
  <2>6. /\ SameLists /\ Target' = Target /\ Dentry' = Dentry
        /\ DiskInv' /\ RootHeaded' /\ Marked' /\ EntryIsNew' /\ Trims' /\ Removes'
    BY <1>0, <2>2, <2>5, GrowQuiet
  <2>7. UNCHANGED <<fat, stream, bitmap, alloc_table, head, child, pc>>
    BY <2>2 DEF volume, memory
  <2>8. Owned(Target)' = s
    BY <2>1, <2>6, SameHolds DEF SameLists, Owned
  <2>9. Room'
    BY <1>0, <2>5, <2>7 DEF OInv, Room, Free
  <2>10. RootGrows'
    <3>1. CASE r.obj = RootOffset
      <4>1. Target = Root /\ Owned(Root)' = s
        BY <1>0, <2>1, <2>6, <3>1, GrowingRoot, SameHolds
      <4>2. QED  BY <1>0, <2>1, <2>3, <2>5, <2>7, <4>1 DEF OInv, RootGrows
    <3>2. CASE r.obj # RootOffset
      BY <2>5, <3>2 DEF RootGrows
    <3>3. QED  BY <3>1, <3>2
  <2>11. DirectoryGrows'
    <3>1. CASE r.obj = RootOffset
      BY <2>5, <3>1 DEF DirectoryGrows
    <3>2. CASE r.obj # RootOffset
      <4>1. /\ Target \in Slot /\ Dentry = stream[Target] /\ Dentry.len \in Nat
        BY <1>0, <3>2, GrowingDirectory
      <4>2. Exact(Target) /\ (~Dentry.nofat => r.i < Dentry.len)
        BY <1>0, <3>2 DEF OInv, DirectoryGrows
      <4>3. ~Dentry.nofat => Len(s) = Dentry.len
        BY <4>1, <4>2 DEF Exact
      <4>4. Exact(Target)'
        BY <2>6, <2>7, <2>8, <4>1, <4>2 DEF Exact
      <4>5. QED  BY <1>0, <2>1, <2>3, <2>5, <2>6, <2>7, <2>8, <3>2, <4>3, <4>4 DEF OInv, DirectoryGrows
    <3>3. QED  BY <3>1, <3>2
  <2>12. DirectoryGrowth'
    BY <1>0, <2>7 DEF DirectoryGrowth
  <2>13. QED  BY <2>6, <2>9, <2>10, <2>11, <2>12 DEF OInv
<1>3. CASE LastFound
  <2> DEFINE s == Owned(Target)
  <2>1. /\ Target \in Owner /\ Len(s) \in Nat /\ r.i \in Nat
        /\ r.i + 1 \in 1..Len(s) /\ r.clu = s[r.i + 1] /\ r.clu \in Cluster
        /\ \A k \in 1..(Len(s) - 1) : s[k + 1] = fat[s[k]]
    BY <1>0, <1>3, LastPosition DEF LastFound
  <2>2. fat[r.clu] = EXFAT_LASTCLUSTER /\ ScanFrom(r.clu) /\ UNCHANGED <<volume, memory>>
    BY <1>3, <2>1, ClipCluster DEF LastFound
  <2>3. r.i + 1 = Len(s)
    <3>1. SUFFICES ASSUME r.i + 1 # Len(s) PROVE FALSE
      OBVIOUS
    <3>2. r.i + 1 \in 1..(Len(s) - 1) /\ (r.i + 1) + 1 \in 1..Len(s)
      BY <2>1, <3>1
    <3>3. s[(r.i + 1) + 1] \in Cluster
      BY <2>1, <3>2, ListType DEF OInv, DiskInv
    <3>4. QED  BY <2>1, <2>2, <3>2, <3>3, ClipCluster
  <2>4. r.clu = Tip(s)
    BY <2>1, <2>3 DEF Tip
  <2>5. QED  BY <1>0, <2>2, <2>4, ScanStarts
<1>4. CASE LastMissing
  BY <1>0, <1>4, LastPosition DEF LastMissing
<1>5. QED  BY <1>1, <1>2, <1>3, <1>4

-----------------------------------------------------------------------------
(* exfat_alloc_clusters: the search.                                       *)

\* A free cluster is one that no directory has, nor any that one is about to get.
LEMMA FreeIsFree ==
  ASSUME OInv, r.op # "remove", ~(pc = "mark" /\ r.obj = RootOffset), NEW c \in Free
  PROVE  /\ c \in Cluster /\ c \in Word /\ Clip(c) = c /\ c \notin bitmap /\ c \notin System
         /\ \A o \in Owner : c \notin Holds(o)
<1>1. c \in Cluster /\ c \notin bitmap
  BY VolumeAssumption, Types DEF Free, Scanned, Cluster, EXFAT_FIRST_CLUSTER, OInv
<1>2. System \subseteq bitmap /\ \A o \in Owner : Holds(o) \subseteq bitmap
  BY AllMarked DEF OInv
<1>3. QED  BY <1>1, <1>2, ClipCluster

LEMMA FreeFinite == IsFiniteSet(Free) /\ Cardinality(Free) \in Nat
<1>1. IsFiniteSet(Scanned)
  BY VolumeAssumption, FS_Interval DEF Scanned, EXFAT_FIRST_CLUSTER
<1>2. QED  BY <1>1, FS_Subset, FS_CardinalityType DEF Free

LEMMA ClipLast == Clip(EXFAT_LASTCLUSTER) = EXFAT_LASTCLUSTER /\ EXFAT_LASTCLUSTER \notin Cluster /\ EXFAT_LASTCLUSTER \in Word
BY VolumeAssumption DEF Clip, EXFAT_LASTCLUSTER, Past, Cluster, EXFAT_FIRST_CLUSTER, Word

LEMMA ScanSkipKeeps == ASSUME OInv, IInv', ScanSkip PROVE OInv'
<1>0. /\ pc = "scan" /\ pc' = "scan" /\ pc \in Growing /\ r.next # r.last /\ InUse(Candidate)
      /\ UNCHANGED <<volume, memory>> /\ UNCHANGED <<fat, stream, bitmap, alloc_table, head, child>>
  BY DEF ScanSkip, Growing, volume, memory
<1>1. /\ r'.op = r.op /\ r'.slot = r.slot /\ r'.obj = r.obj /\ r'.num = r.num /\ r'.clu = r.clu
      /\ r'.last = r.last /\ r'.next = Candidate + 1 /\ r'.left = r.left /\ r'.contig = r.contig
  BY Types DEF ScanSkip, OInv, Registers
<1>2. /\ SameLists /\ Target' = Target /\ Dentry' = Dentry
      /\ DiskInv' /\ RootHeaded' /\ Marked' /\ EntryIsNew' /\ Trims' /\ Removes'
  BY <1>0, <1>1, GrowQuiet
<1>3. Target \in Owner
  BY <1>0, GrowingRoot, GrowingDirectory
<1>4. Owned(Target)' = Owned(Target) /\ \A o \in Owner : Holds(o)' = Holds(o)
  BY <1>2, <1>3, SameHolds DEF SameLists, Owned
<1>5. Room'
  <2>1. /\ r.next \in Int /\ r.last \in Int /\ r.next >= 2 /\ Free \subseteq Ahead
        /\ Cardinality(Free) >= r.left /\ ClusterCount \in Nat /\ ClusterCount > 2
    BY <1>0, Types, WordNumber, VolumeAssumption DEF OInv, Room, Registers, EXFAT_FIRST_CLUSTER
  <2>2. Candidate = (IF r.next > ClusterCount - 1 THEN 2 ELSE r.next) /\ Candidate \in Cluster /\ Candidate \notin Free
    BY <1>0, <2>1, Types DEF Candidate, Above, EXFAT_FIRST_CLUSTER, InUse, Free, Cluster
  <2>3. \A c \in Free : c \in Scanned /\ c \in Int /\ c >= 2 /\ c <= ClusterCount - 1 /\ c # Candidate
    BY <2>2 DEF Free, Scanned, EXFAT_FIRST_CLUSTER
  <2>4. Free \subseteq Ahead'
    BY <1>0, <1>1, <2>1, <2>2, <2>3 DEF Ahead, Scanned, EXFAT_FIRST_CLUSTER
  <2>5. Free' = Free
    BY <1>0 DEF Free
  <2>6. QED  BY <1>0, <1>1, <2>1, <2>2, <2>4, <2>5 DEF Room, EXFAT_FIRST_CLUSTER
<1>6. RootGrows'
  <2>1. SUFFICES ASSUME r.obj = RootOffset PROVE RootGrows'
    BY <1>1 DEF RootGrows
  <2>2. Owned(Root)' = Owned(Root)
    BY <1>2, SlotNotRoot, SameHolds
  <2>3. QED  BY <1>0, <1>1, <2>1, <2>2 DEF OInv, RootGrows, Tip
<1>7. DirectoryGrows'
  BY <1>0, <1>1, <1>2 DEF OInv, DirectoryGrows
<1>8. DirectoryGrowth'
  <2>1. SUFFICES ASSUME r.obj # RootOffset PROVE \E P \in Seq(Cluster) : Growth(P)'
    BY <1>1 DEF DirectoryGrowth
  <2>2. PICK P \in Seq(Cluster) : Growth(P)
    BY <1>0, <2>1 DEF OInv, DirectoryGrowth
  <2>3. Linked' = Linked
    BY <1>0, <1>1 DEF Linked
  <2>4. Growth(P)'
    BY <1>0, <1>1, <1>2, <1>4, <2>2, <2>3 DEF Growth
  <2>5. QED  BY <2>4
<1>9. QED  BY <1>2, <1>5, <1>6, <1>7, <1>8 DEF OInv

\* The search does not come back to where it began: what is free is ahead of it, and not nothing.
LEMMA NotExhausted == ASSUME OInv PROVE ~ScanExhausted
<1> SUFFICES ASSUME ScanExhausted PROVE FALSE
  OBVIOUS
<1>1. pc = "scan" /\ r.next = r.last /\ pc \in Growing
  BY DEF ScanExhausted, Growing
<1>2. Free \subseteq Ahead /\ Cardinality(Free) >= r.left /\ r.left > 0 /\ r.left \in Nat /\ r.next \in Int
  BY <1>1, Types DEF OInv, Room, IInv, Ready, Registers
<1>3. Free = {}
  BY <1>1, <1>2 DEF Ahead, Scanned, EXFAT_FIRST_CLUSTER
<1>4. Cardinality(Free) = 0
  BY <1>3, FS_EmptySet
<1>5. QED  BY <1>2, <1>4

LEMMA ScanTakeKeeps == ASSUME OInv, IInv', ScanTake PROVE OInv' /\ SameLists /\ Writes(Candidate)
<1>0. /\ pc = "scan" /\ pc' = "link" /\ pc \in Growing /\ pc' \in Growing /\ ~InUse(Candidate)
      /\ UNCHANGED <<stream, bitmap, alloc_table, head, child>>
  BY DEF ScanTake, Growing, memory, Goto
<1>1. /\ r'.op = r.op /\ r'.slot = r.slot /\ r'.obj = r.obj /\ r'.num = r.num /\ r'.clu = r.clu
      /\ r'.last = r.last /\ r'.next = Candidate /\ r'.left = r.left
      /\ r'.contig = (r.contig /\ Candidate - r.clu = 1)
  BY Types DEF ScanTake, OInv, Registers
<1>2. EntryIsNew' /\ Trims' /\ Removes' /\ r.op # "remove"
  BY <1>0, <1>1, StillGrowing
<1>3. Target' = Target /\ Dentry' = Dentry
  BY <1>0, <1>1, SameTarget
<1>4. Candidate \in Free
  BY <1>0, VolumeAssumption, Types DEF InUse, Candidate, Above, Cluster, Scanned, Free, EXFAT_FIRST_CLUSTER, OInv
<1>5. /\ Candidate \in Cluster /\ Candidate \in Word /\ Clip(Candidate) = Candidate
      /\ Candidate \notin bitmap /\ Candidate \notin System
      /\ \A o \in Owner : Candidate \notin Holds(o)
  BY <1>0, <1>2, <1>4, FreeIsFree
<1>6. fat' = [fat EXCEPT ![Candidate] = EXFAT_LASTCLUSTER]
  BY <1>5, ClipLast DEF ScanTake, SetFat
<1>7. SameLists
  BY <1>0, <1>5, <1>6, ListsWrite DEF OInv, DiskInv
<1>8. \A w \in Word : w # Candidate => fat'[w] = fat[w]
  BY <1>5, <1>6, Types DEF OInv
<1>9. fat'[Candidate] = EXFAT_LASTCLUSTER
  BY <1>5, <1>6, Types DEF OInv
<1>10. Root \in Owner /\ Owned(Root)' = Owned(Root)
  BY <1>7, SlotNotRoot, SameHolds
<1>11. DiskInv'
  <2>1. Tip(Owned(Root)) \in Holds(Root) /\ Tip(Owned(Root)) \in Cluster
    BY <1>10, RootTrace, ListType DEF Trace, Tip, OInv, DiskInv
  <2>2. Tip(Owned(Root)) # Candidate /\ Tip(Owned(Root)) \in Word
    BY <1>5, <1>10, <2>1, ClusterWord
  <2>3. UNCHANGED fat[Tip(Owned(Root))]
    BY <1>8, <1>10, <2>2 DEF Tip
  <2>4. QED  BY <1>0, <1>7, <2>3, DiskKept DEF OInv
<1>12. RootHeaded'
  BY <1>0 DEF OInv, RootHeaded
<1>13. Marked'
  <2>1. System \subseteq bitmap' /\ \A o \in Owner : Holds(o) \subseteq bitmap'
    BY <1>0, <1>2, AllMarked DEF OInv
  <2>2. QED  BY <1>7, <2>1, MarkedAgain
<1>14. Room'
  <2>1. /\ r.next \in Int /\ r.last \in Int /\ r.next >= 2 /\ Free \subseteq Ahead
        /\ Cardinality(Free) >= r.left /\ ClusterCount \in Nat /\ ClusterCount > 2
    BY <1>0, Types, WordNumber, VolumeAssumption DEF OInv, Room, Registers, EXFAT_FIRST_CLUSTER
  <2>2. Candidate = (IF r.next > ClusterCount - 1 THEN 2 ELSE r.next) /\ Candidate >= 2
    BY <1>4, <2>1 DEF Candidate, Above, EXFAT_FIRST_CLUSTER, Free, Scanned
  <2>3. \A c \in Free : c \in Scanned /\ c \in Int /\ c >= 2 /\ c <= ClusterCount - 1
    BY DEF Free, Scanned, EXFAT_FIRST_CLUSTER
  <2>4. Free \subseteq Ahead'
    BY <1>1, <1>4, <2>1, <2>2, <2>3 DEF Ahead, Scanned, EXFAT_FIRST_CLUSTER
  <2>5. Free' = Free
    BY <1>0 DEF Free
  <2>6. QED  BY <1>0, <1>1, <1>9, <2>1, <2>2, <2>4, <2>5 DEF Room, EXFAT_FIRST_CLUSTER
<1>15. RootGrows'
  BY <1>0, <1>1, <1>10 DEF OInv, RootGrows, Tip
<1>16. DirectoryGrows'
  BY <1>0, <1>1, <1>3 DEF OInv, DirectoryGrows
<1>17. DirectoryGrowth'
  <2>1. SUFFICES ASSUME r.obj # RootOffset PROVE \E P \in Seq(Cluster) : Growth(P)'
    BY <1>1 DEF DirectoryGrowth
  <2>2. PICK P \in Seq(Cluster) : Growth(P)
    BY <1>0, <2>1 DEF OInv, DirectoryGrowth
  <2>3. Linked' = Linked
    BY <1>0, <1>1 DEF Linked
  <2>4. Target \in Owner /\ Dentry.len \in Nat /\ Dentry.len > 0
    BY <1>0, <2>1, GrowingDirectory
  <2>5. Owned(Target)' = Owned(Target) /\ \A o \in Owner : Holds(o)' = Holds(o)
    BY <1>3, <1>7, <2>4, SameHolds DEF SameLists, Owned
  <2>6. /\ Len(P) \in Nat /\ Len(P) \in 1..Len(P) /\ \A k \in 1..Len(P) : P[k] \in bitmap /\ P[k] \in Word
    BY <1>0, <2>1, <2>2, GrowthFacts
  <2>7. \A k \in 1..Len(P) : fat'[P[k]] = fat[P[k]]
    BY <1>5, <1>8, <2>6
  <2>8. \A k \in (IF Dentry.nofat THEN Dentry.len ELSE 1)..(Len(P) - 1) : fat'[P[k]] = P[k + 1]
    <3>1. ASSUME NEW k \in (IF Dentry.nofat THEN Dentry.len ELSE 1)..(Len(P) - 1) PROVE fat'[P[k]] = P[k + 1]
      <4>1. k \in 1..Len(P)
        BY <2>4, <2>6
      <4>2. QED  BY <2>2, <2>7, <4>1 DEF Growth
    <3>2. QED  BY <3>1
  <2>9. ~(Dentry.nofat /\ Linked = 0) => fat'[Tip(P)] = EXFAT_LASTCLUSTER
    BY <2>2, <2>6, <2>7 DEF Growth, Tip
  <2>10. r'.contig => r.contig /\ Candidate = r.clu + 1
    <3>1. Candidate \in Int /\ r.clu \in Int
      BY <1>5, Types, WordNumber, ClusterWord DEF OInv, Registers
    <3>2. r'.contig => r.contig /\ Candidate - r.clu = 1
      BY <1>1, Zenon
    <3>3. Candidate - r.clu = 1 => Candidate = r.clu + 1
      BY <3>1
    <3>4. QED  BY <3>2, <3>3, Zenon
  <2>11. Growth(P)'
    BY <1>0, <1>1, <1>3, <2>2, <2>3, <2>5, <2>8, <2>9, <2>10 DEF Growth
  <2>12. QED  BY <2>11
<1>18. Writes(Candidate)
  BY <1>5, <1>8 DEF Writes
<1>19. QED  BY <1>2, <1>7, <1>11, <1>12, <1>13, <1>14, <1>15, <1>16, <1>17, <1>18 DEF OInv

-----------------------------------------------------------------------------
(* exfat_alloc_clusters: the link to the cluster found, and its bit.       *)

\* One list changes, to clusters that no other has.
LEMMA OneListChanges ==
  ASSUME ListsSound, NEW t \in Owner, NEW Q \in Seq(Cluster), OwnedIn(fat', stream', t) = Q,
         \A o \in Owner \ {t} : OwnedIn(fat', stream', o) = OwnedIn(fat, stream, o),
         NoRepeat(Q), Members(Q) \intersect System = {},
         \A o \in Owner \ {t} : Members(Q) \intersect Holds(o) = {}
  PROVE  ListsSound' /\ Holds(t)' = Members(Q) /\ \A o \in Owner \ {t} : Owned(o)' = Owned(o) /\ Holds(o)' = Holds(o)
<1>1. Owned(t)' = Q /\ Holds(t)' = Members(Q)
  BY DEF Holds, Owned, Members
<1>2. \A o \in Owner \ {t} : Owned(o)' = Owned(o) /\ Holds(o)' = Holds(o)
  BY DEF Holds, Owned
<1>3. ASSUME NEW o \in Owner
      PROVE  (Owned(o) \in Seq(Cluster) /\ NoRepeat(Owned(o)) /\ Holds(o) \intersect System = {})'
  <2>1. CASE o = t
    BY <1>1, <2>1 DEF NoRepeat
  <2>2. CASE o # t
    BY <1>2, <2>2 DEF ListsSound, NoRepeat
  <2>3. QED  BY <2>1, <2>2
<1>4. ASSUME NEW o \in Owner, NEW p \in Owner, o # p PROVE (Holds(o) \intersect Holds(p) = {})'
  <2>1. CASE o = t
    BY <1>1, <1>2, <1>4, <2>1
  <2>2. CASE p = t
    BY <1>1, <1>2, <1>4, <2>2
  <2>3. CASE o # t /\ p # t
    BY <1>2, <1>4, <2>3 DEF ListsSound
  <2>4. QED  BY <2>1, <2>2, <2>3
<1>5. ListsSound'
  BY <1>3, <1>4 DEF ListsSound
<1>6. QED  BY <1>1, <1>2, <1>5

\* What is written when a cluster is linked.
LEMMA LinkWrites ==
  ASSUME OInv, Link
  PROVE  /\ r.next \in Cluster /\ r.next \in Word /\ r.next \notin bitmap /\ r.next \notin System
         /\ \A o \in Owner : r.next \notin Holds(o)
         /\ fat[r.next] = EXFAT_LASTCLUSTER
         /\ r.clu \in Cluster => /\ fat' = [fat EXCEPT ![r.clu] = r.next]
                                 /\ fat'[r.clu] = r.next /\ \A w \in Word : w # r.clu => fat'[w] = fat[w]
<1>1. pc = "link" /\ pc \in Growing /\ r.op # "remove" /\ SetFat(r.clu, r.next)
  BY DEF Link, Growing, OInv, IInv, Ready
<1>2. r.next \in Free
  BY <1>1, Types DEF OInv, IInv, ChosenIsFree, Free
<1>3. /\ r.next \in Cluster /\ r.next \in Word /\ Clip(r.next) = r.next /\ r.next \notin bitmap /\ r.next \notin System
      /\ \A o \in Owner : r.next \notin Holds(o)
  BY <1>1, <1>2, FreeIsFree
<1>4. ASSUME r.clu \in Cluster
      PROVE  /\ fat' = [fat EXCEPT ![r.clu] = r.next]
             /\ fat'[r.clu] = r.next /\ \A w \in Word : w # r.clu => fat'[w] = fat[w]
  <2>1. Clip(r.clu) = r.clu /\ r.clu \in Word
    BY <1>4, ClipCluster
  <2>2. fat' = [fat EXCEPT ![r.clu] = r.next]
    BY <1>1, <1>3, <2>1 DEF SetFat
  <2>3. QED  BY <2>1, <2>2, Types DEF OInv
<1>5. fat[r.next] = EXFAT_LASTCLUSTER
  BY <1>1 DEF OInv, Room
<1>6. QED  BY <1>3, <1>4, <1>5

LEMMA AppendIs ==
  ASSUME NEW S, NEW s \in Seq(S), NEW e \in S
  PROVE  /\ Append(s, e) \in Seq(S) /\ Len(s) \in Nat /\ Len(Append(s, e)) = Len(s) + 1
         /\ \A k \in 1..Len(s) : Append(s, e)[k] = s[k]
         /\ Append(s, e)[Len(s) + 1] = e
         /\ Tip(Append(s, e)) = e
         /\ Members(Append(s, e)) = Members(s) \union {e}
         /\ NoRepeat(s) /\ e \notin Members(s) => NoRepeat(Append(s, e))
<1>1. /\ Append(s, e) \in Seq(S) /\ Len(s) \in Nat /\ Len(Append(s, e)) = Len(s) + 1
      /\ \A k \in 1..Len(s) : Append(s, e)[k] = s[k]
      /\ Append(s, e)[Len(s) + 1] = e
  OBVIOUS
<1> DEFINE t == Append(s, e)
<1> HIDE DEF t
<1>2. /\ Len(s) \in Nat /\ Len(t) = Len(s) + 1 /\ \A k \in 1..Len(s) : t[k] = s[k]
      /\ t[Len(s) + 1] = e
  BY <1>1 DEF t
<1>3. Tip(t) = e
  BY <1>2 DEF Tip
<1>4. Members(t) = Members(s) \union {e}
  BY <1>2 DEF Members
<1>5. ASSUME NoRepeat(s), e \notin Members(s) PROVE NoRepeat(t)
  BY <1>2, <1>5 DEF NoRepeat, Members
<1>6. QED  BY <1>1, <1>3, <1>4, <1>5 DEF t

LEMMA LinkDirectoryKeeps == ASSUME OInv, IInv', Link, r.obj # RootOffset PROVE OInv' /\ SameLists /\ Writes(r.clu)
<1>0. /\ pc = "link" /\ pc' = "mark" /\ pc \in Growing /\ pc' \in Growing
      /\ UNCHANGED <<stream, bitmap, alloc_table, head, child, r>>
  BY DEF Link, Growing, memory, Goto
<1>2. EntryIsNew' /\ Trims' /\ Removes' /\ r.op # "remove"
  BY <1>0, StillGrowing DEF OInv, IInv, Ready
<1>3. Target' = Target /\ Dentry' = Dentry
  BY <1>0, SameTarget
<1>4. PICK P \in Seq(Cluster) : Growth(P)
  BY <1>0 DEF OInv, DirectoryGrowth
<1>5. /\ Len(P) \in Nat /\ Len(P) \in 1..Len(P) /\ Dentry.len \in Nat /\ Dentry.len > 0 /\ Linked \in Nat
      /\ Len(P) = Dentry.len + Linked
      /\ \A k \in 1..Len(P) : P[k] \in Cluster /\ P[k] \in Word /\ P[k] \notin System /\ P[k] \in bitmap
      /\ \A k \in 1..Len(P) : \A o \in Owner \ {Target} : P[k] \notin Holds(o)
  BY <1>0, <1>4, GrowthFacts
<1>6. r.clu = P[Len(P)] /\ r.clu \in Cluster /\ NoRepeat(P)
  BY <1>0, <1>4, <1>5 DEF Growth, Tip
<1>7. /\ r.next \in Cluster /\ r.next \in Word /\ r.next \notin bitmap /\ r.next \notin System
      /\ \A o \in Owner : r.next \notin Holds(o)
      /\ fat[r.next] = EXFAT_LASTCLUSTER
      /\ fat' = [fat EXCEPT ![r.clu] = r.next]
      /\ fat'[r.clu] = r.next /\ \A w \in Word : w # r.clu => fat'[w] = fat[w]
  BY <1>6, LinkWrites
<1>8. /\ Target \in Slot /\ Target \in Owner /\ Target # Root /\ Dentry = stream[Target] /\ Dentry.live
      /\ Dentry.clu = r.obj /\ r.obj \in Cluster /\ r.obj \in Nat
  BY <1>0, GrowingDirectory
<1>9. /\ Len(Owned(Target)) = Dentry.len /\ \A k \in 1..Dentry.len : Owned(Target)[k] = P[k]
  <2>1. Owned(Target) = SubSeq(P, 1, Dentry.len)
    BY <1>4 DEF Growth
  <2>2. QED  BY <1>5, <2>1
<1>10. SameLists
  <2>1. ASSUME NEW o \in Owner, r.clu \in Holds(o)
        PROVE  /\ o # Root /\ stream[o].live /\ stream[o].clu \in Cluster
               /\ stream[o].nofat \/ (Len(Owned(o)) = stream[o].len /\ r.clu = Tip(Owned(o)))
    <3>1. o = Target
      BY <1>5, <1>6, <2>1
    <3>2. PICK j \in 1..Len(Owned(Target)) : r.clu = Owned(Target)[j]
      BY <2>1, <3>1 DEF Holds
    <3>3. j \in 1..Len(P) /\ j \in 1..Dentry.len
      BY <1>5, <1>9, <3>2
    <3>4. P[j] = P[Len(P)]
      BY <1>6, <1>9, <3>2, <3>3
    <3>5. j = Len(P)
      BY <1>5, <1>6, <3>3, <3>4 DEF NoRepeat
    <3>6. Len(Owned(Target)) = Dentry.len /\ r.clu = Tip(Owned(Target))
      BY <1>5, <1>9, <3>2, <3>5 DEF Tip
    <3>7. QED  BY <1>8, <3>1, <3>6
  <2>2. QED  BY <1>0, <1>7, <2>1, ListsWrite DEF OInv, DiskInv
<1>11. Root \in Owner /\ Owned(Root)' = Owned(Root)
  BY <1>10, SlotNotRoot, SameHolds
<1>12. DiskInv'
  <2>1. Tip(Owned(Root)) \in Holds(Root) /\ Tip(Owned(Root)) \in Cluster
    BY <1>11, RootTrace, ListType DEF Trace, Tip, OInv, DiskInv
  <2>2. Tip(Owned(Root)) # r.clu /\ Tip(Owned(Root)) \in Word
    BY <1>5, <1>6, <1>8, <1>11, <2>1, ClusterWord
  <2>3. UNCHANGED fat[Tip(Owned(Root))]
    BY <1>7, <1>11, <2>2 DEF Tip
  <2>4. QED  BY <1>0, <1>10, <2>3, DiskKept DEF OInv
<1>13. RootHeaded'
  BY <1>0 DEF OInv, RootHeaded
<1>14. Marked'
  <2>1. System \subseteq bitmap' /\ \A o \in Owner : Holds(o) \subseteq bitmap'
    BY <1>0, <1>2, AllMarked DEF OInv
  <2>2. QED  BY <1>10, <2>1, MarkedAgain
<1>15. Room'
  BY <1>0 DEF OInv, Room, Free, Ahead
<1>16. RootGrows'
  BY <1>0 DEF RootGrows
<1>17. DirectoryGrows'
  BY <1>0, <1>3 DEF OInv, DirectoryGrows
<1>18. DirectoryGrowth'
  <2> DEFINE Q == Append(P, r.next)
  <2>1. PICK R : R = Append(P, r.next)
    OBVIOUS
  <2>2. /\ R \in Seq(Cluster) /\ Len(R) = Len(P) + 1 /\ \A k \in 1..Len(P) : R[k] = P[k]
        /\ R[Len(P) + 1] = r.next /\ Tip(R) = r.next
        /\ Members(R) = Members(P) \union {r.next}
    BY <1>7, <2>1, AppendIs
  <2>3. NoRepeat(R)
    <3>1. r.next \notin Members(P)
      BY <1>5, <1>7 DEF Members
    <3>2. QED  BY <1>6, <1>7, <2>1, <3>1, AppendIs
  <2>4. Linked' = Linked + 1 /\ Linked' \in Nat
    <3>1. r.left \in Nat /\ r.num \in Nat
      BY Types DEF OInv, Registers
    <3>2. QED  BY <1>0, <1>5, <3>1 DEF Linked
  <2>5. Owned(Target)' = Owned(Target) /\ \A o \in Owner : Holds(o)' = Holds(o)
    BY <1>3, <1>8, <1>10, SameHolds DEF SameLists, Owned
  <2>6. Owned(Target) = SubSeq(R, 1, Dentry.len)
    <3>1. Owned(Target) \in Seq(Cluster)
      BY <1>8, ListType DEF OInv, DiskInv
    <3>2. SubSeq(R, 1, Dentry.len) \in Seq(Cluster) /\ Len(SubSeq(R, 1, Dentry.len)) = Dentry.len
          /\ \A k \in 1..Dentry.len : SubSeq(R, 1, Dentry.len)[k] = R[k]
      BY <1>5, <2>2
    <3>3. \A k \in 1..Dentry.len : SubSeq(R, 1, Dentry.len)[k] = Owned(Target)[k]
      BY <1>5, <1>9, <2>2, <3>2
    <3>4. QED  BY <1>9, <3>1, <3>2, <3>3, SeqEqual
  <2>7. \A k \in (IF Dentry.nofat THEN Dentry.len ELSE 1)..(Len(R) - 1) : fat'[R[k]] = R[k + 1]
    <3>1. ASSUME NEW k \in (IF Dentry.nofat THEN Dentry.len ELSE 1)..(Len(R) - 1) PROVE fat'[R[k]] = R[k + 1]
      <4>1. k \in 1..Len(P)
        BY <1>5, <2>2
      <4>2. CASE k = Len(P)
        BY <1>6, <1>7, <2>2, <4>1, <4>2
      <4>3. CASE k # Len(P)
        <5>1. k \in (IF Dentry.nofat THEN Dentry.len ELSE 1)..(Len(P) - 1) /\ k + 1 \in 1..Len(P)
          BY <1>5, <4>1, <4>3
        <5>2. fat[P[k]] = P[k + 1]
          BY <1>4, <5>1 DEF Growth
        <5>3. P[k] # r.clu /\ P[k] \in Word
          BY <1>5, <1>6, <4>1, <4>3 DEF NoRepeat
        <5>4. QED  BY <1>7, <2>2, <4>1, <5>1, <5>2, <5>3
      <4>4. QED  BY <4>2, <4>3
    <3>2. QED  BY <3>1
  <2>8. fat'[Tip(R)] = EXFAT_LASTCLUSTER
    <3>1. r.next # r.clu
      BY <1>5, <1>6, <1>7
    <3>2. QED  BY <1>7, <2>2, <3>1
  <2>9. Dentry.nofat /\ r.contig => \A k \in 1..Len(R) : R[k] = r.obj + k - 1
    <3>1. SUFFICES ASSUME Dentry.nofat, r.contig PROVE \A k \in 1..Len(R) : R[k] = r.obj + k - 1
      OBVIOUS
    <3>2. r.next = r.clu + 1 /\ \A k \in 1..Len(P) : P[k] = r.obj + k - 1
      BY <1>0, <1>4, <3>1 DEF Growth
    <3>3. r.next = r.obj + Len(P)
      <4>1. P[Len(P)] = r.obj + Len(P) - 1
        BY <1>5, <3>2
      <4>2. r.next = P[Len(P)] + 1
        BY <1>6, <3>2
      <4>3. Len(P) \in Nat /\ r.obj \in Nat
        BY <1>5, <1>8
      <4>4. QED  BY ONLY <4>1, <4>2, <4>3
    <3>4. Len(P) \in Nat /\ r.obj \in Nat
      BY <1>5, <1>8
    <3>5. \A k \in 1..Len(R) : k \in 1..Len(P) \/ k = Len(P) + 1
      BY <2>2, <3>4
    <3>6. QED  BY ONLY <2>2, <3>2, <3>3, <3>4, <3>5
  <2>10. Members(R) \intersect System = {} /\ \A o \in Owner \ {Target} : Members(R) \intersect Holds(o) = {}
    BY <1>4, <1>7, <2>2 DEF Growth
  <2>11. Members(R) \ {r.next} \subseteq bitmap
    BY <1>0, <1>4, <2>2 DEF Growth
  <2>12. Len(R) = Dentry.len + Linked'
    <3>1. Len(P) = Dentry.len + Linked /\ Linked \in Nat /\ Dentry.len \in Nat /\ Len(R) = Len(P) + 1
      BY <1>5, <2>2
    <3>2. QED  BY ONLY <2>4, <3>1
  <2>13. Growth(R)'
    BY <1>0, <1>3, <2>2, <2>3, <2>4, <2>5, <2>6, <2>7, <2>8, <2>9, <2>10, <2>11, <2>12 DEF Growth
  <2>14. QED  BY <2>2, <2>13 DEF DirectoryGrowth
<1>19. Writes(r.clu)
  <2>1. Operand = Target
    BY <1>0, <1>2 DEF Operand, Target
  <2>2. r.clu \notin System /\ \A o \in Owner \ {Target} : r.clu \notin Holds(o)
    BY <1>5, <1>6
  <2>3. QED  BY <1>6, <1>7, <2>1, <2>2 DEF Writes
<1>20. QED  BY <1>2, <1>10, <1>12, <1>13, <1>14, <1>15, <1>16, <1>17, <1>18, <1>19 DEF OInv

\* There are no more clusters than there are.
LEMMA ListBound ==
  ASSUME NEW s \in Seq(Cluster), NoRepeat(s)
  PROVE  Len(s) <= ClusterCount
<1> SUFFICES ASSUME Len(s) > ClusterCount PROVE FALSE
  BY VolumeAssumption
<1>0. Len(s) \in Nat /\ ClusterCount \in Nat /\ ClusterCount > 2
  BY VolumeAssumption
<1>1. IsFiniteSet(1..Len(s)) /\ Cardinality(1..Len(s)) = Len(s)
  <2>1. IsFiniteSet(1..Len(s)) /\ Cardinality(1..Len(s)) = IF 1 > Len(s) THEN 0 ELSE Len(s) - 1 + 1
    BY <1>0, FS_Interval
  <2>2. QED  BY <1>0, <2>1
<1>2. IsFiniteSet(Cluster) /\ Cardinality(Cluster) = ClusterCount
  <2>1. IsFiniteSet(2..(ClusterCount + 1))
        /\ Cardinality(2..(ClusterCount + 1)) = IF 2 > ClusterCount + 1 THEN 0 ELSE (ClusterCount + 1) - 2 + 1
    BY <1>0, FS_Interval
  <2>2. QED  BY <1>0, <2>1 DEF Cluster, EXFAT_FIRST_CLUSTER
<1>3. s \in [1..Len(s) -> Cluster]
  OBVIOUS
<1>4. \E j, k \in 1..Len(s) : j # k /\ s[j] = s[k]
  BY <1>0, <1>1, <1>2, <1>3, FS_PigeonHole
<1>5. QED  BY <1>4 DEF NoRepeat

LEMMA LinkRootKeeps ==
  ASSUME OInv, IInv', Link, r.obj = RootOffset
  PROVE  /\ OInv' /\ Writes(r.clu)
         /\ Owned(Root)' = Append(Owned(Root), r.next)
         /\ \A o \in Owner \ {Root} : Owned(o)' = Owned(o)
         /\ r.next \in Cluster \ System /\ \A o \in Owner : r.next \notin Holds(o)
<1>0. /\ pc = "link" /\ pc' = "mark" /\ pc \in Growing /\ pc' \in Growing
      /\ UNCHANGED <<stream, bitmap, alloc_table, head, child, r>>
  BY DEF Link, Growing, memory, Goto
<1>2. EntryIsNew' /\ Trims' /\ Removes' /\ r.op # "remove"
  BY <1>0, StillGrowing DEF OInv, IInv, Ready
<1>3. PICK s \in Seq(Cluster) : s = Owned(Root)
  BY SlotNotRoot, ListType DEF OInv, DiskInv
<1>4. /\ Root \in Owner /\ Len(s) \in Nat /\ Len(s) \in 1..Len(s) /\ NoRepeat(s) /\ Trace(fat, RootOffset, ClusterCount, s)
      /\ \A k \in 1..Len(s) : s[k] \in Cluster /\ s[k] \in Word /\ s[k] \in Holds(Root)
      /\ Members(s) = Holds(Root)
  <2>1. Root \in Owner
    BY SlotNotRoot
  <2>2. Len(s) \in Nat /\ NoRepeat(s) /\ \A k \in 1..Len(s) : s[k] \in Cluster /\ s[k] \in Word /\ s[k] \in Holds(Root)
    BY <1>3, <2>1, ListType, ClusterWord DEF OInv, DiskInv, ListsSound
  <2>3. Trace(fat, RootOffset, ClusterCount, s)
    BY <1>3, RootTrace DEF OInv
  <2>4. Len(s) \in 1..Len(s)
    BY <2>2, <2>3 DEF Trace
  <2>5. Members(s) = Holds(Root)
    BY <1>3 DEF Members, Holds
  <2>6. QED  BY <2>1, <2>2, <2>3, <2>4, <2>5
<1>5. r.clu = s[Len(s)] /\ r.clu \in Cluster
  BY <1>0, <1>3, <1>4 DEF OInv, RootGrows, Tip
<1>6. /\ r.next \in Cluster /\ r.next \in Word /\ r.next \notin bitmap /\ r.next \notin System
      /\ \A o \in Owner : r.next \notin Holds(o)
      /\ fat[r.next] = EXFAT_LASTCLUSTER
      /\ fat' = [fat EXCEPT ![r.clu] = r.next]
      /\ fat'[r.clu] = r.next /\ \A w \in Word : w # r.clu => fat'[w] = fat[w]
  BY <1>5, LinkWrites
<1>7. PICK R : R = Append(s, r.next)
  OBVIOUS
<1>8. /\ R \in Seq(Cluster) /\ Len(R) = Len(s) + 1 /\ \A k \in 1..Len(s) : R[k] = s[k]
      /\ R[Len(s) + 1] = r.next /\ Tip(R) = r.next
      /\ Members(R) = Members(s) \union {r.next} /\ NoRepeat(R)
  BY <1>4, <1>6, <1>7, AppendIs
<1>9. fat'[r.next] = EXFAT_LASTCLUSTER
  <2>1. r.next # r.clu
    BY <1>4, <1>5, <1>6
  <2>2. QED  BY <1>6, <2>1
<1>10. OwnedIn(fat', stream', Root) = R
  <2>1. \A k \in 1..(Len(R) - 1) : R[k + 1] = fat'[R[k]]
    <3>1. ASSUME NEW k \in 1..(Len(R) - 1) PROVE R[k + 1] = fat'[R[k]]
      <4>1. k \in 1..Len(s)
        BY <1>4, <1>8
      <4>2. CASE k = Len(s)
        BY <1>5, <1>6, <1>8, <4>1, <4>2
      <4>3. CASE k # Len(s)
        <5>1. k \in 1..(Len(s) - 1) /\ k + 1 \in 1..Len(s)
          BY <1>4, <4>1, <4>3
        <5>2. s[k + 1] = fat[s[k]]
          BY <1>4, <5>1 DEF Trace
        <5>3. s[k] # r.clu /\ s[k] \in Word
          BY <1>4, <1>5, <4>1, <4>3 DEF NoRepeat
        <5>4. QED  BY <1>6, <1>8, <4>1, <5>1, <5>2, <5>3
      <4>4. QED  BY <4>2, <4>3
    <3>2. QED  BY <3>1
  <2>2. Len(R) <= ClusterCount /\ Len(R) \in Nat /\ Len(R) >= 1 /\ ClusterCount \in Nat /\ ClusterCount > 2
    BY <1>4, <1>8, ListBound, VolumeAssumption
  <2>3. R[1] = RootOffset /\ fat'[R[Len(R)]] \notin Cluster
    BY <1>4, <1>8, <1>9, ClipLast DEF Trace
  <2>4. Trace(fat', RootOffset, ClusterCount, R)
    BY <1>8, <2>1, <2>2, <2>3 DEF Trace
  <2>5. fat' \in [Word -> Word] /\ RootOffset \in Cluster
    BY Types, ClusterWord DEF IInv, TypeOK, VolumeTypeOK
  <2>6. LinkedFrom(fat', RootOffset, ClusterCount) = R
    BY ONLY <2>2, <2>4, <2>5, TraceIs
  <2>7. QED  BY <2>6, RootList
<1>11. \A o \in Owner \ {Root} : OwnedIn(fat', stream', o) = OwnedIn(fat, stream, o)
  <2>1. ASSUME NEW o \in Owner \ {Root} PROVE OwnedIn(fat', stream', o) = OwnedIn(fat, stream, o)
    <3>1. r.clu \notin Holds(o)
      BY <1>4, <1>5 DEF OInv, DiskInv, ListsSound
    <3>2. QED  BY <1>0, <1>6, <3>1, ListWrite DEF OInv, DiskInv
  <2>2. QED  BY <2>1
<1>12. ListsSound' /\ Holds(Root)' = Members(R) /\ \A o \in Owner \ {Root} : Owned(o)' = Owned(o) /\ Holds(o)' = Holds(o)
  <2>1. Members(R) \intersect System = {} /\ \A o \in Owner \ {Root} : Members(R) \intersect Holds(o) = {}
    BY <1>4, <1>6, <1>8 DEF OInv, DiskInv, ListsSound
  <2>2. QED  BY <1>4, <1>8, <1>10, <1>11, <2>1, OneListChanges DEF OInv, DiskInv
<1>13. Owned(Root)' = R
  BY <1>10 DEF Owned
<1>14. DiskInv'
  <2>1. RootEnds'
    BY <1>8, <1>9, <1>13 DEF RootEnds, Tip
  <2>2. DentriesSound'
    BY <1>0 DEF OInv, DiskInv, DentriesSound
  <2>3. QED  BY <1>12, <2>1, <2>2 DEF DiskInv
<1>15. RootHeaded'
  BY <1>0 DEF OInv, RootHeaded
<1>16. Marked'
  <2>1. System \subseteq bitmap /\ \A o \in Owner : Holds(o) \subseteq bitmap
    BY <1>0, <1>2, AllMarked DEF OInv
  <2>2. \A o \in Owner : Holds(o)' \ {r.next} \subseteq bitmap
    BY <1>4, <1>8, <1>12, <2>1
  <2>3. QED  BY <1>0, <2>1, <2>2 DEF Marked
<1>17. Room'
  BY <1>0 DEF OInv, Room, Free, Ahead
<1>18. RootGrows'
  BY <1>0, <1>8, <1>13 DEF OInv, RootGrows
<1>19. DirectoryGrows' /\ DirectoryGrowth'
  BY <1>0 DEF DirectoryGrows, DirectoryGrowth
<1>20. Writes(r.clu)
  <2>1. Operand = Root
    BY <1>0, <1>2 DEF Operand
  <2>2. r.clu \notin System /\ \A o \in Owner \ {Root} : r.clu \notin Holds(o)
    BY <1>4, <1>5 DEF OInv, DiskInv, ListsSound
  <2>3. QED  BY <1>5, <1>6, <2>1, <2>2 DEF Writes
<1>21. Owned(Root)' = Append(Owned(Root), r.next)
  BY <1>3, <1>7, <1>13
<1>22. OInv'
  BY <1>2, <1>14, <1>15, <1>16, <1>17, <1>18, <1>19 DEF OInv
<1>23. QED  BY <1>6, <1>12, <1>20, <1>21, <1>22

LEMMA MarkKeeps == ASSUME OInv, IInv', Mark PROVE OInv'
<1>0. /\ pc = "mark" /\ pc \in Growing /\ pc' \in Growing /\ pc' = (IF r.left = 1 THEN "convert" ELSE "scan")
      /\ UNCHANGED <<fat, stream, head, child>> /\ SaveBitmap(r.next, 1)
  BY DEF Mark, Growing, memory, Goto
<1>1. /\ r'.op = r.op /\ r'.slot = r.slot /\ r'.obj = r.obj /\ r'.num = r.num /\ r'.clu = r.next
      /\ r'.last = r.last /\ r'.next = (IF r.left = 1 THEN r.next ELSE r.next + 1) /\ r'.left = r.left - 1
      /\ r'.contig = r.contig
  BY Types DEF Mark, OInv, Registers
<1>2. EntryIsNew' /\ Trims' /\ Removes' /\ r.op # "remove"
  BY <1>0, <1>1, StillGrowing DEF OInv, IInv, Ready
<1>3. Target' = Target /\ Dentry' = Dentry
  BY <1>0, <1>1, SameTarget
<1>4. r.next \in Scanned /\ r.next \in Cluster /\ r.next \notin bitmap /\ r.next \in Free
      /\ r.left \in Nat /\ r.num \in Nat /\ r.left > 0 /\ r.last \in Int
  <2>1. r.next \in Scanned \ bitmap /\ r.left > 0 /\ alloc_table = bitmap
    BY <1>0, Types DEF OInv, IInv, ChosenIsFree, Ready
  <2>2. r.next \in Cluster
    BY <2>1, VolumeAssumption DEF Scanned, Cluster, EXFAT_FIRST_CLUSTER
  <2>3. r.left \in Nat /\ r.num \in Nat /\ r.last \in Number
    BY Types DEF OInv, Registers
  <2>4. QED  BY <2>1, <2>2, <2>3, WordNumber DEF Free
<1>5. bitmap' = bitmap \union {r.next} /\ alloc_table' = alloc_table \union {r.next}
  BY <1>0, <1>4 DEF SaveBitmap
<1>6. SameLists
  BY <1>0, ListsQuiet
<1>7. Root \in Owner /\ Owned(Root)' = Owned(Root)
  BY <1>6, SlotNotRoot, SameHolds
<1>8. DiskInv'
  BY <1>0, <1>6, <1>7, DiskKept DEF OInv, Tip
<1>9. RootHeaded'
  BY <1>0 DEF OInv, RootHeaded
<1>10. Marked'
  <2>1. System \subseteq bitmap' /\ \A o \in Owner : Holds(o) \subseteq bitmap'
    BY <1>2, <1>5 DEF OInv, Marked
  <2>2. QED  BY <1>6, <2>1, MarkedAgain
<1>11. Room'
  <2>1. SUFFICES ASSUME r.left > 1 PROVE Room'
    BY <1>0, <1>4 DEF Room
  <2>2. pc' = "scan" /\ r'.next = r.next + 1 /\ r'.left = r.left - 1 /\ r'.last = r.last
    BY <1>0, <1>1, <2>1
  <2>3. Free \subseteq Ahead /\ Cardinality(Free) >= r.left
    BY <1>0 DEF OInv, Room
  <2>4. Free' = Free \ {r.next}
    BY <1>5 DEF Free
  <2>5. Cardinality(Free') = Cardinality(Free) - 1
    BY <1>4, <2>4, FreeFinite, FS_RemoveElement
  <2>6. Free' \subseteq Ahead'
    <3>1. ASSUME NEW c \in Free' PROVE c \in Ahead'
      <4>1. c \in Ahead /\ c # r.next /\ c \in Scanned /\ c \in Int /\ r.next \in Int
        BY <1>4, <2>3, <2>4 DEF Scanned, EXFAT_FIRST_CLUSTER, Free
      <4>2. QED  BY <1>4, <2>2, <4>1 DEF Ahead
    <3>2. QED  BY <3>1
  <2>7. r'.next >= EXFAT_FIRST_CLUSTER
    BY <1>4, <2>2 DEF Scanned, EXFAT_FIRST_CLUSTER
  <2>8. QED  BY <1>4, <2>2, <2>3, <2>5, <2>6, <2>7, FreeFinite DEF Room
<1>12. RootGrows'
  BY <1>0, <1>1, <1>7 DEF OInv, RootGrows, Tip
<1>13. DirectoryGrows'
  BY <1>0, <1>1, <1>3 DEF OInv, DirectoryGrows
<1>14. DirectoryGrowth'
  <2>1. SUFFICES ASSUME r.obj # RootOffset PROVE \E P \in Seq(Cluster) : Growth(P)'
    BY <1>1 DEF DirectoryGrowth
  <2>2. PICK P \in Seq(Cluster) : Growth(P)
    BY <1>0, <2>1 DEF OInv, DirectoryGrowth
  <2>3. Linked' = Linked
    BY <1>0, <1>1, <1>4 DEF Linked
  <2>4. Target \in Owner
    BY <1>0, <2>1, GrowingDirectory
  <2>5. Owned(Target)' = Owned(Target) /\ \A o \in Owner : Holds(o)' = Holds(o)
    BY <1>3, <1>6, <2>4, SameHolds DEF SameLists, Owned
  <2>6. Growth(P)'
    BY <1>0, <1>1, <1>3, <1>5, <2>2, <2>3, <2>5 DEF Growth
  <2>7. QED  BY <2>6
<1>15. QED  BY <1>2, <1>8, <1>9, <1>10, <1>11, <1>12, <1>13, <1>14 DEF OInv

-----------------------------------------------------------------------------
(* exfat_alloc_clusters: a directory that is contiguous no more.           *)

\* What the dentry of a contiguous directory covers is a run of clusters.
LEMMA GrowthRun ==
  ASSUME OInv, pc \in Growing, r.obj # RootOffset, NEW P \in Seq(Cluster), Growth(P), Dentry.nofat
  PROVE  /\ Len(Owned(Target)) = Dentry.len
         /\ \A k \in 1..Dentry.len : k \in 1..Len(P) /\ P[k] = r.obj + k - 1 /\ P[k] \in Holds(Target) /\ P[k] \in Cluster
<1>1. /\ Len(P) \in Nat /\ Dentry.len \in Nat /\ Dentry.len > 0 /\ Len(P) = Dentry.len + Linked /\ Linked \in Nat
  BY GrowthFacts
<1>2. Owned(Target) = SubSeq(P, 1, Dentry.len)
  BY DEF Growth
<1>3. Len(Owned(Target)) = Dentry.len /\ \A k \in 1..Dentry.len : Owned(Target)[k] = P[k]
  BY <1>1, <1>2
<1>4. /\ Target \in Slot /\ Target \in Owner /\ Dentry = stream[Target] /\ Dentry.live /\ Dentry.clu = r.obj /\ r.obj \in Cluster
  BY GrowingDirectory
<1>5. \A k \in 1..Len(Owned(Target)) : Owned(Target)[k] = r.obj + k - 1
  BY <1>4, RunOwned DEF OInv
<1>6. \A k \in 1..Dentry.len : Owned(Target)[k] \in Holds(Target) /\ Owned(Target)[k] \in Cluster
  BY <1>3, <1>4, ListType DEF OInv, DiskInv
<1>7. QED  BY <1>1, <1>3, <1>5, <1>6

LEMMA KeepFlagsKeeps == ASSUME OInv, IInv', KeepFlags \/ ChainDone PROVE OInv'
<1>0. /\ pc \in {"convert", "chain"} /\ pc \in Growing /\ pc' = "size" /\ pc' \in Growing
      /\ r' = r /\ UNCHANGED <<volume, memory>> /\ UNCHANGED <<fat, stream, bitmap, alloc_table, head, child>>
  BY DEF KeepFlags, ChainDone, Growing, volume, memory, Goto
<1>2. /\ SameLists /\ Target' = Target /\ Dentry' = Dentry
      /\ DiskInv' /\ RootHeaded' /\ Marked' /\ EntryIsNew' /\ Trims' /\ Removes'
  BY <1>0, GrowQuiet
<1>3. Room'
  BY <1>0 DEF Room
<1>4. RootGrows'
  BY <1>0 DEF OInv, RootGrows
<1>5. DirectoryGrows'
  <2>1. SUFFICES ASSUME r.obj # RootOffset PROVE DirectoryGrows'
    BY <1>0 DEF DirectoryGrows
  <2>2. /\ Target # Root /\ Dentry.len > 0 /\ Dentry.len \in Nat /\ head[r.obj].len = Dentry.len /\ r.obj \in Nat
        /\ F = head[r.obj]
    BY <1>0, <2>1, GrowingDirectory
  <2>3. CASE KeepFlags
    <3>1. pc = "convert" /\ ~(head[r.obj].nofat /\ ~r.contig)
      BY <2>2, <2>3 DEF KeepFlags
    <3>2. head[r.obj].nofat = Dentry.nofat
      BY <1>0, <2>1, <3>1 DEF OInv, DirectoryGrows
    <3>3. QED  BY <1>0, <1>2, <2>2, <3>1, <3>2 DEF DirectoryGrows
  <2>4. CASE ChainDone
    <3>1. /\ pc = "chain" /\ r.left = 1 /\ Dentry.nofat /\ ~head[r.obj].nofat
          /\ r.clu = r.obj + (Dentry.len - r.left) /\ \A c \in r.obj..(r.clu - 1) : fat[c] = c + 1
      BY <1>0, <2>1, <2>4 DEF ChainDone, OInv, DirectoryGrows
    <3>2. \A c \in r.obj..(r.obj + Dentry.len - 2) : fat[c] = c + 1
      BY <2>2, <3>1
    <3>3. QED  BY <1>0, <1>2, <2>2, <3>1, <3>2 DEF DirectoryGrows
  <2>5. QED  BY <2>3, <2>4
<1>6. DirectoryGrowth'
  <2>1. SUFFICES ASSUME r.obj # RootOffset PROVE \E P \in Seq(Cluster) : Growth(P)'
    BY <1>0 DEF DirectoryGrowth
  <2>2. PICK P \in Seq(Cluster) : Growth(P)
    BY <1>0, <2>1 DEF OInv, DirectoryGrowth
  <2>3. Linked' = Linked
    BY <1>0 DEF Linked
  <2>4. Target \in Owner
    BY <1>0, <2>1, GrowingDirectory
  <2>5. Owned(Target)' = Owned(Target) /\ \A o \in Owner : Holds(o)' = Holds(o)
    BY <1>2, <2>4, SameHolds DEF SameLists, Owned
  <2>6. Growth(P)'
    BY <1>0, <1>2, <2>2, <2>3, <2>5 DEF Growth
  <2>7. QED  BY <2>6
<1>7. QED  BY <1>2, <1>3, <1>4, <1>5, <1>6 DEF OInv

LEMMA ConvertKeeps == ASSUME OInv, IInv', Convert PROVE OInv'
<1>0. /\ pc = "convert" /\ pc \in Growing /\ pc' = "chain" /\ pc' \in Growing /\ F.nofat /\ ~r.contig
      /\ UNCHANGED <<fat, stream, bitmap, alloc_table>> /\ SetF(F.len, FALSE)
  BY DEF Convert, Growing, volume, Goto
<1>1. /\ r'.op = r.op /\ r'.slot = r.slot /\ r'.obj = r.obj /\ r'.num = r.num /\ r'.clu = r.obj
      /\ r'.next = r.next /\ r'.left = F.len /\ r'.contig = r.contig
  BY Types DEF Convert, OInv, Registers
<1>2. EntryIsNew' /\ Trims' /\ Removes' /\ r.op # "remove"
  BY <1>0, <1>1, StillGrowing DEF OInv, IInv, Ready
<1>3. r.obj # RootOffset
  BY <1>0, GrowingRoot
<1>4. /\ Target \in Owner /\ Target # Root /\ Dentry.len \in Nat /\ Dentry.len > 0
      /\ F = head[r.obj] /\ F.len = Dentry.len /\ r.obj \in Nat /\ head[r.obj] \in Entry
  BY <1>0, <1>3, GrowingDirectory
<1>5. Target' = Target /\ Dentry' = Dentry
  BY <1>0, <1>1, SameTarget
<1>6. SameLists
  BY <1>0, ListsQuiet
<1>7. Root \in Owner /\ Owned(Root)' = Owned(Root)
  BY <1>6, SlotNotRoot, SameHolds
<1>8. DiskInv'
  BY <1>0, <1>6, <1>7, DiskKept DEF OInv, Tip
<1>9. head' = [head EXCEPT ![r.obj].len = F.len, ![r.obj].nofat = FALSE]
  BY <1>0, <1>2 DEF SetF
<1>10. head \in [FirstCluster -> Entry] /\ r.obj \in FirstCluster /\ RootOffset \in FirstCluster
  BY Types, ClusterWord DEF OInv, Registers, FirstCluster
<1>11. head'[r.obj].len = F.len /\ ~head'[r.obj].nofat /\ head'[RootOffset] = head[RootOffset]
  BY <1>3, <1>9, <1>10 DEF Entry
<1>12. RootHeaded'
  BY <1>11 DEF OInv, RootHeaded
<1>13. Marked'
  <2>1. System \subseteq bitmap' /\ \A o \in Owner : Holds(o) \subseteq bitmap'
    BY <1>0, <1>2, AllMarked DEF OInv
  <2>2. QED  BY <1>6, <2>1, MarkedAgain
<1>14. Room' /\ RootGrows'
  BY <1>0, <1>1, <1>3 DEF Room, RootGrows
<1>15. DirectoryGrows'
  <2>1. Dentry.nofat
    BY <1>0, <1>3, <1>4 DEF OInv, DirectoryGrows
  <2>2. r'.left \in 1..Dentry.len /\ r'.clu = r.obj + (Dentry.len - r'.left) /\ r.obj..(r'.clu - 1) = {}
    BY <1>1, <1>4
  <2>3. QED  BY <1>0, <1>1, <1>4, <1>5, <1>11, <2>1, <2>2 DEF DirectoryGrows
<1>16. DirectoryGrowth'
  <2>2. PICK P \in Seq(Cluster) : Growth(P)
    BY <1>0, <1>3 DEF OInv, DirectoryGrowth
  <2>3. Linked' = Linked
    BY <1>0, <1>1 DEF Linked
  <2>5. Owned(Target)' = Owned(Target) /\ \A o \in Owner : Holds(o)' = Holds(o)
    BY <1>4, <1>5, <1>6, SameHolds DEF SameLists, Owned
  <2>6. Growth(P)'
    BY <1>0, <1>1, <1>5, <2>2, <2>3, <2>5 DEF Growth
  <2>7. QED  BY <2>6 DEF DirectoryGrowth
<1>17. QED  BY <1>2, <1>8, <1>12, <1>13, <1>14, <1>15, <1>16 DEF OInv

\* The chain is made for a directory that has clusters: neither loop runs past its end.
LEMMA NoRunaway == ASSUME OInv PROVE ~ChainUnderflow /\ ~Runaway
<1>1. ASSUME pc = "runaway" PROVE FALSE
  BY <1>1 DEF OInv, RootGrows, DirectoryGrows, Growing
<1>2. ASSUME pc = "chain" PROVE r.left > 0
  <2>1. r.obj # RootOffset /\ pc \in Growing
    BY <1>2 DEF OInv, RootGrows, Growing
  <2>2. r.left \in 1..Dentry.len /\ Dentry.len \in Nat
    BY <1>2, <2>1, GrowingDirectory DEF OInv, DirectoryGrows
  <2>3. QED  BY <2>2
<1>3. QED  BY <1>1, <1>2 DEF ChainUnderflow, Runaway

LEMMA ChainLinkKeeps == ASSUME OInv, IInv', ChainLink PROVE OInv' /\ SameLists /\ Writes(r.clu)
<1>0. /\ pc = "chain" /\ pc \in Growing /\ pc' = "chain" /\ pc' \in Growing /\ r.left > 1
      /\ UNCHANGED <<stream, bitmap, alloc_table, head, child>> /\ SetFat(r.clu, r.clu + 1)
  BY DEF ChainLink, Growing, memory
<1>1. /\ r'.op = r.op /\ r'.slot = r.slot /\ r'.obj = r.obj /\ r'.num = r.num /\ r'.clu = r.clu + 1
      /\ r'.next = r.next /\ r'.left = r.left - 1 /\ r'.contig = r.contig
  BY Types DEF ChainLink, OInv, Registers
<1>2. EntryIsNew' /\ Trims' /\ Removes' /\ r.op # "remove"
  BY <1>0, <1>1, StillGrowing DEF OInv, IInv, Ready
<1>3. r.obj # RootOffset
  BY <1>0 DEF OInv, RootGrows
<1>4. /\ Target \in Owner /\ Target # Root /\ Dentry.len \in Nat /\ Dentry.len > 0 /\ r.obj \in Nat
      /\ Dentry = stream[Target] /\ Dentry.live /\ Dentry.clu = r.obj /\ r.obj \in Cluster
  BY <1>0, <1>3, GrowingDirectory
<1>5. Target' = Target /\ Dentry' = Dentry
  BY <1>0, <1>1, SameTarget
<1>6. /\ Dentry.nofat /\ ~head[r.obj].nofat /\ head[r.obj].len = Dentry.len
      /\ r.left \in 1..Dentry.len /\ r.clu = r.obj + (Dentry.len - r.left)
      /\ \A c \in r.obj..(r.clu - 1) : fat[c] = c + 1
  BY <1>0, <1>3 DEF OInv, DirectoryGrows
<1>7. PICK P \in Seq(Cluster) : Growth(P)
  BY <1>0, <1>3 DEF OInv, DirectoryGrowth
<1>8. \A k \in 1..Dentry.len : k \in 1..Len(P) /\ P[k] = r.obj + k - 1 /\ P[k] \in Holds(Target) /\ P[k] \in Cluster
  BY <1>0, <1>3, <1>6, <1>7, GrowthRun
<1>9. PICK j \in Nat : j = Dentry.len - r.left + 1
  BY <1>4, <1>6
<1>10. /\ j \in 1..Dentry.len /\ j + 1 \in 1..Dentry.len /\ j < Dentry.len /\ r.clu = P[j] /\ r.clu + 1 = P[j + 1]
       /\ r.clu \in Nat
  <2>1. j \in 1..Dentry.len /\ j + 1 \in 1..Dentry.len /\ j < Dentry.len
    <3>1. r.left \in 1..Dentry.len /\ Dentry.len \in Nat /\ r.left > 1
      BY <1>0, <1>4, <1>6
    <3>2. QED  BY ONLY <1>9, <3>1
  <2>2. P[j] = r.obj + j - 1 /\ P[j + 1] = r.obj + (j + 1) - 1
    BY <1>8, <2>1
  <2>3. Dentry.len \in Nat /\ r.left \in 1..Dentry.len /\ r.obj \in Nat /\ r.clu = r.obj + (Dentry.len - r.left)
    BY <1>4, <1>6
  <2>4. j \in Int /\ j - 1 = Dentry.len - r.left
    BY ONLY <1>9, <2>3
  <2>5. r.clu = r.obj + (j - 1) /\ r.obj + j - 1 = r.obj + (j - 1) /\ r.obj + (j + 1) - 1 = r.obj + (j - 1) + 1
        /\ r.obj + (j - 1) \in Nat
    BY ONLY <2>1, <2>3, <2>4
  <2>6. QED  BY ONLY <2>1, <2>2, <2>5
<1>11. r.clu \in Cluster /\ r.clu + 1 \in Cluster /\ r.clu \in Holds(Target)
  BY <1>8, <1>10
<1>12. fat' = [fat EXCEPT ![r.clu] = r.clu + 1]
  BY <1>0, <1>11, ClipCluster DEF SetFat
<1>13. /\ fat'[r.clu] = r.clu + 1 /\ \A w \in Word : w # r.clu => fat'[w] = fat[w]
  BY <1>11, <1>12, Types, ClusterWord DEF OInv
<1>14. SameLists
  <2>1. ASSUME NEW o \in Owner, r.clu \in Holds(o)
        PROVE  o # Root /\ stream[o].live /\ stream[o].clu \in Cluster /\ stream[o].nofat
    <3>1. o = Target
      BY <1>4, <1>11, <2>1 DEF OInv, DiskInv, ListsSound
    <3>2. QED  BY <1>4, <1>6, <3>1
  <2>2. QED  BY <1>0, <1>12, <2>1, ListsWrite DEF OInv, DiskInv
<1>15. Root \in Owner /\ Owned(Root)' = Owned(Root)
  BY <1>14, SlotNotRoot, SameHolds
<1>16. DiskInv'
  <2>1. Tip(Owned(Root)) \in Holds(Root) /\ Tip(Owned(Root)) \in Cluster
    BY <1>15, RootTrace, ListType DEF Trace, Tip, OInv, DiskInv
  <2>2. Tip(Owned(Root)) # r.clu /\ Tip(Owned(Root)) \in Word
    BY <1>4, <1>11, <1>15, <2>1, ClusterWord DEF OInv, DiskInv, ListsSound
  <2>3. UNCHANGED fat[Tip(Owned(Root))]
    BY <1>13, <1>15, <2>2 DEF Tip
  <2>4. QED  BY <1>0, <1>14, <2>3, DiskKept DEF OInv
<1>17. RootHeaded'
  BY <1>0 DEF OInv, RootHeaded
<1>18. Marked'
  <2>1. System \subseteq bitmap' /\ \A o \in Owner : Holds(o) \subseteq bitmap'
    BY <1>0, <1>2, AllMarked DEF OInv
  <2>2. QED  BY <1>14, <2>1, MarkedAgain
<1>19. Room' /\ RootGrows'
  BY <1>0, <1>1, <1>3 DEF Room, RootGrows
<1>20. DirectoryGrows'
  <2>1. r'.left \in 1..Dentry.len /\ r'.clu = r.obj + (Dentry.len - r'.left)
    <3>1. r.left \in 1..Dentry.len /\ Dentry.len \in Nat /\ r.obj \in Nat /\ r.left > 1
          /\ r.clu = r.obj + (Dentry.len - r.left) /\ r'.clu = r.clu + 1 /\ r'.left = r.left - 1
      BY <1>0, <1>1, <1>4, <1>6
    <3>2. QED  BY ONLY <3>1
  <2>2. ASSUME NEW c \in r.obj..(r'.clu - 1) PROVE fat'[c] = c + 1
    <3>1. CASE c = r.clu
      BY <1>13, <3>1
    <3>2. CASE c # r.clu
      <4>1. c \in r.obj..(r.clu - 1)
        BY <1>1, <1>4, <1>10, <3>2
      <4>2. c \in Cluster
        BY <1>4, <1>11, <4>1, VolumeAssumption DEF Cluster, EXFAT_FIRST_CLUSTER
      <4>3. QED  BY <1>6, <1>13, <3>2, <4>1, <4>2, ClusterWord
    <3>3. QED  BY <3>1, <3>2
  <2>3. QED  BY <1>0, <1>1, <1>4, <1>5, <1>6, <2>1, <2>2 DEF DirectoryGrows
<1>21. DirectoryGrowth'
  <2>1. Linked' = Linked
    BY <1>0, <1>1 DEF Linked
  <2>2. Owned(Target)' = Owned(Target) /\ \A o \in Owner : Holds(o)' = Holds(o)
    BY <1>4, <1>5, <1>14, SameHolds DEF SameLists, Owned
  <2>3. /\ Len(P) \in Nat /\ Len(P) \in 1..Len(P) /\ Len(P) = Dentry.len + Linked /\ Linked \in Nat
        /\ \A k \in 1..Len(P) : P[k] \in Word
    BY <1>0, <1>3, <1>7, GrowthFacts
  <2>4. ASSUME NEW k \in Dentry.len..Len(P) PROVE fat'[P[k]] = fat[P[k]]
    <3>1. k \in 1..Len(P) /\ k # j /\ j \in 1..Len(P)
      <4>1. Dentry.len \in Nat /\ Dentry.len > 0 /\ j \in 1..Dentry.len /\ j < Dentry.len
        BY <1>4, <1>10
      <4>2. QED  BY ONLY <1>8, <2>3, <4>1, k \in Dentry.len..Len(P)
    <3>2. P[k] # r.clu
      BY <1>7, <1>10, <3>1 DEF Growth, NoRepeat
    <3>3. QED  BY <1>13, <2>3, <3>1, <3>2
  <2>5. \A k \in (IF Dentry.nofat THEN Dentry.len ELSE 1)..(Len(P) - 1) : fat'[P[k]] = P[k + 1]
    <3>1. ASSUME NEW k \in Dentry.len..(Len(P) - 1) PROVE fat'[P[k]] = P[k + 1]
      <4>1. k \in Dentry.len..Len(P)
        BY <1>4, <2>3
      <4>2. fat[P[k]] = P[k + 1]
        BY <1>6, <1>7 DEF Growth
      <4>3. QED  BY <2>4, <4>1, <4>2
    <3>2. QED  BY <1>6, <3>1
  <2>6. ~(Dentry.nofat /\ Linked = 0) => fat'[Tip(P)] = EXFAT_LASTCLUSTER
    <3>1. Len(P) \in Dentry.len..Len(P)
      BY <1>4, <2>3
    <3>2. fat'[Tip(P)] = fat[Tip(P)]
      BY <2>4, <3>1 DEF Tip
    <3>3. QED  BY <1>7, <3>2 DEF Growth
  <2>7. Growth(P)'
    BY <1>0, <1>1, <1>5, <1>7, <2>1, <2>2, <2>5, <2>6 DEF Growth
  <2>8. QED  BY <2>7 DEF DirectoryGrowth
<1>22. Writes(r.clu)
  <2>1. Operand = Target
    BY <1>0, <1>2 DEF Operand, Target
  <2>2. r.clu \notin System /\ \A o \in Owner \ {Target} : r.clu \notin Holds(o)
    BY <1>4, <1>11 DEF OInv, DiskInv, ListsSound
  <2>3. QED  BY <1>11, <1>13, <2>1, <2>2 DEF Writes
<1>23. QED  BY <1>2, <1>14, <1>16, <1>17, <1>18, <1>19, <1>20, <1>21, <1>22 DEF OInv

-----------------------------------------------------------------------------
(* exfat_alloc_clusters: the new size.                                     *)

\* At the prompt there is nothing to be said of a command.
LEMMA AtPrompt ==
  ASSUME Return
  PROVE  Room' /\ RootGrows' /\ DirectoryGrows' /\ DirectoryGrowth' /\ EntryIsNew' /\ Trims' /\ Removes'
BY DEF Return, NoCall, Room, RootGrows, DirectoryGrows, DirectoryGrowth, EntryIsNew, Trims, Removes, Growing

LEMMA MarkedAtPrompt ==
  ASSUME pc' # "mark", System \subseteq bitmap', \A o \in Owner : Holds(o)' \subseteq bitmap'
  PROVE  Marked'
BY DEF Marked

\* The directory is read again: the root's fileinfo is as it was.
LEMMA ReloadRoot ==
  ASSUME RootHeaded, Reload
  PROVE  RootHeaded'
<1>1. RootOffset \in FirstCluster
  BY ClusterWord DEF FirstCluster
<1>2. head'[RootOffset] = head[RootOffset]
  BY <1>1 DEF RootHeaded, Reload, Heads
<1>3. QED  BY <1>2 DEF RootHeaded

LEMMA QuietLists ==
  ASSUME OInv, UNCHANGED <<fat, stream>>
  PROVE  SameLists /\ DiskInv' /\ \A o \in Owner : Holds(o)' = Holds(o)
<1>1. SameLists
  BY ListsQuiet
<1>2. Root \in Owner /\ Owned(Root)' = Owned(Root)
  BY <1>1, SlotNotRoot, SameHolds
<1>3. DiskInv'
  BY <1>1, <1>2, DiskKept DEF OInv, Tip
<1>4. QED  BY <1>1, <1>3, SameHolds

LEMMA FillReloadKeeps == ASSUME OInv, IInv', FillReload PROVE OInv'
<1>0. pc = "reload" /\ UNCHANGED <<fat, stream, bitmap, alloc_table>> /\ Reload /\ Return
  BY DEF FillReload, volume
<1>1. r.op # "remove"
  BY <1>0 DEF OInv, Removes
<1>2. SameLists /\ DiskInv' /\ \A o \in Owner : Holds(o)' = Holds(o)
  BY <1>0, QuietLists
<1>3. RootHeaded'
  BY <1>0, ReloadRoot DEF OInv
<1>4. Marked'
  <2>1. System \subseteq bitmap /\ \A o \in Owner : Holds(o) \subseteq bitmap
    BY <1>0, <1>1, AllMarked DEF OInv
  <2>2. QED  BY <1>0, <1>2, <2>1, MarkedAtPrompt DEF Return
<1>5. QED  BY <1>0, <1>2, <1>3, <1>4, AtPrompt DEF OInv

\* What the size is written for goes on, or is over.
LEMMA GrowReturns ==
  ASSUME OInv, pc = "size", GrowReturn, \A s \in Slot : stream'[s].live = stream[s].live
  PROVE  /\ pc' \in {"new", "reload", "idle"}
         /\ Room' /\ RootGrows' /\ DirectoryGrows' /\ DirectoryGrowth' /\ EntryIsNew' /\ Trims' /\ Removes'
<1>1. r.op \in {"fill", "create"} /\ pc \in Growing
  BY DEF OInv, IInv, Ready, Growing
<1>2. CASE Return
  BY <1>2, AtPrompt DEF Return
<1>3. CASE r.op = "create" /\ pc' = "new" /\ r'.op = r.op /\ r'.slot = r.slot
  BY <1>3 DEF OInv, Room, RootGrows, DirectoryGrows, DirectoryGrowth, EntryIsNew, Trims, Removes, Growing
<1>4. CASE r.op = "fill" /\ pc' = "reload" /\ r' = r
  BY <1>4 DEF OInv, Room, RootGrows, DirectoryGrows, DirectoryGrowth, EntryIsNew, Trims, Removes, Growing
<1>5. Return \/ (r.op = "create" /\ pc' = "new" /\ r'.op = r.op /\ r'.slot = r.slot)
             \/ (r.op = "fill" /\ pc' = "reload" /\ r' = r)
  BY <1>1, Types DEF GrowReturn, Goto, OInv, Registers
<1>6. QED  BY <1>2, <1>3, <1>4, <1>5

LEMMA GrowRootKeeps == ASSUME OInv, IInv', Grow, r.obj = RootOffset PROVE OInv'
<1>0. /\ pc = "size" /\ pc \in Growing /\ SetF(F.len + r.num, F.nofat) /\ GrowReturn
      /\ UNCHANGED <<fat, bitmap, alloc_table, stream>>
  BY DEF Grow, Growing, UpdateFilesize
<1>1. r.op # "remove" /\ r.num \in Nat
  BY <1>0, Types DEF OInv, IInv, Ready, Registers
<1>2. F = head[RootOffset] /\ F.len \in Nat /\ F.len >= ClusterCount
  BY <1>0, GrowingRoot
<1>3. SameLists /\ DiskInv' /\ \A o \in Owner : Holds(o)' = Holds(o)
  BY <1>0, QuietLists
<1>4. /\ pc' \in {"new", "reload", "idle"}
      /\ Room' /\ RootGrows' /\ DirectoryGrows' /\ DirectoryGrowth' /\ EntryIsNew' /\ Trims' /\ Removes'
  BY <1>0, GrowReturns
<1>5. RootHeaded'
  <2>1. head \in [FirstCluster -> Entry] /\ RootOffset \in FirstCluster
    BY Types, ClusterWord DEF OInv, FirstCluster
  <2>2. head'[RootOffset].live = head[RootOffset].live /\ head'[RootOffset].len = F.len + r.num
    BY <1>0, <1>1, <2>1 DEF SetF, Entry
  <2>3. F.len + r.num >= ClusterCount
    BY ONLY <1>1, <1>2, VolumeAssumption
  <2>4. QED  BY <2>2, <2>3 DEF OInv, RootHeaded
<1>6. Marked'
  <2>1. System \subseteq bitmap /\ \A o \in Owner : Holds(o) \subseteq bitmap
    BY <1>0, <1>1, AllMarked DEF OInv
  <2>2. QED  BY <1>0, <1>3, <1>4, <2>1, MarkedAtPrompt
<1>7. QED  BY <1>3, <1>4, <1>5, <1>6 DEF OInv

LEMMA GrowDirectoryWrites ==
  ASSUME OInv, IInv', Grow, r.obj # RootOffset, NEW P \in Seq(Cluster), Growth(P)
  PROVE  /\ \A s \in Slot : s # Target => stream'[s] = stream[s]
         /\ stream'[Target].live /\ stream'[Target].clu = r.obj
         /\ OwnedIn(fat', stream', Target) = P
<1>0. /\ pc = "size" /\ pc \in Growing /\ UNCHANGED <<fat, bitmap, alloc_table>>
      /\ UpdateFilesize(r.obj, [F EXCEPT !.len = F.len + r.num])
  BY DEF Grow, Growing
<1>1. /\ Target \in Slot /\ Target \in Owner /\ Target # Root /\ Target = StreamOf(r.obj)
      /\ Dentry = stream[Target] /\ Dentry \in Entry /\ Dentry.live
      /\ Dentry.clu = r.obj /\ r.obj \in Cluster /\ r.obj \in Nat
      /\ Dentry.len \in Nat /\ Dentry.len > 0
      /\ F = head[r.obj] /\ head[r.obj].len = Dentry.len /\ head[r.obj] \in Entry
  BY <1>0, GrowingDirectory
<1>2. /\ Len(P) \in Nat /\ Len(P) \in 1..Len(P) /\ Len(P) = Dentry.len + r.num /\ r.num \in Nat /\ r.num > 0
      /\ Linked # 0
  <2>1. Linked = r.num
    BY <1>0 DEF Linked
  <2>2. r.num > 0 /\ r.num \in Nat
    BY <1>0, Types DEF OInv, IInv, Ready, Registers
  <2>3. Len(P) \in Nat /\ Len(P) \in 1..Len(P) /\ Len(P) = Dentry.len + Linked
    BY <1>0, GrowthFacts
  <2>4. QED  BY <2>1, <2>2, <2>3
<1>3. stream' = [stream EXCEPT ![Target].len = Dentry.len + r.num, ![Target].nofat = F.nofat]
  <2>1. r.obj # RootOffset /\ StreamOf(r.obj) # 0
    BY <1>1 DEF Root
  <2>2. [F EXCEPT !.len = F.len + r.num].len = F.len + r.num /\ [F EXCEPT !.len = F.len + r.num].nofat = F.nofat
    BY <1>1 DEF Entry
  <2>3. QED  BY <1>0, <1>1, <2>1, <2>2 DEF UpdateFilesize
<1>4. /\ \A s \in Slot : s # Target => stream'[s] = stream[s]
      /\ stream'[Target].live /\ stream'[Target].clu = r.obj
      /\ stream'[Target].len = Len(P) /\ stream'[Target].nofat = F.nofat
  BY <1>1, <1>2, <1>3, Types DEF OInv, Entry
<1>5. F.nofat \in BOOLEAN
  BY <1>1 DEF Entry
<1>6. \/ F.nofat = Dentry.nofat /\ (Dentry.nofat => r.contig)
      \/ Dentry.nofat /\ ~F.nofat /\ \A c \in r.obj..(r.obj + Dentry.len - 2) : fat[c] = c + 1
  BY <1>0, <1>1 DEF OInv, DirectoryGrows
<1>7. fat' \in [Word -> Word]
  BY <1>0, Types DEF OInv
<1>8. CASE F.nofat
  <2>1. \A k \in 1..Len(P) : P[k] = r.obj + k - 1
    BY <1>6, <1>8 DEF Growth
  <2>2. OwnedIn(fat', stream', Target) = Run(r.obj, Len(P))
    <3>1. stream'[Target].nofat /\ stream'[Target].clu \in Cluster
      BY <1>1, <1>4, <1>8
    <3>2. OwnedIn(fat', stream', Target) = Run(stream'[Target].clu, stream'[Target].len)
      BY <1>1, <1>4, <3>1, RunList, Zenon
    <3>3. QED  BY <1>4, <3>2
  <2>3. Run(r.obj, Len(P)) = [k \in 1..Len(P) |-> r.obj + k - 1]
    <3>1. Len(P) # 0
      BY <1>1, <1>2
    <3>2. (IF Len(P) = 0 THEN 1 ELSE Len(P)) = Len(P)
      BY <3>1
    <3>3. QED  BY <3>2, Zenon DEF Run
  <2>4. P \in [1..Len(P) -> Cluster]
    OBVIOUS
  <2>5. Run(r.obj, Len(P)) = P
    BY <2>1, <2>3, <2>4
  <2>6. QED  BY <1>4, <2>2, <2>5
<1>9. CASE ~F.nofat
  <2>1. \A k \in 1..(Len(P) - 1) : fat[P[k]] = P[k + 1]
    <3>1. CASE ~Dentry.nofat
      BY <3>1 DEF Growth
    <3>2. CASE Dentry.nofat
      <4>1. \A c \in r.obj..(r.obj + Dentry.len - 2) : fat[c] = c + 1
        BY <1>6, <1>9, <3>2
      <4>2. \A k \in 1..Dentry.len : P[k] = r.obj + k - 1
        BY <1>0, <3>2, GrowthRun
      <4>3. \A k \in Dentry.len..(Len(P) - 1) : fat[P[k]] = P[k + 1]
        BY <3>2 DEF Growth
      <4>4. ASSUME NEW k \in 1..(Len(P) - 1), k < Dentry.len PROVE fat[P[k]] = P[k + 1]
        <5>1. k \in 1..Dentry.len /\ k + 1 \in 1..Dentry.len /\ r.obj + k - 1 \in r.obj..(r.obj + Dentry.len - 2)
              /\ r.obj + (k + 1) - 1 = (r.obj + k - 1) + 1
          <6>1. PICK d \in Nat : d = Dentry.len
            BY <1>1
          <6>2. PICK b \in Nat : b = r.obj
            BY <1>1
          <6>3. k \in Int /\ k >= 1 /\ k < d
            BY <1>2, <4>4, <6>1
          <6>4. k \in 1..d /\ k + 1 \in 1..d /\ b + k - 1 \in b..(b + d - 2) /\ b + (k + 1) - 1 = (b + k - 1) + 1
            BY ONLY <6>3, d \in Nat, b \in Nat
          <6>5. QED  BY <6>1, <6>2, <6>4
        <5>2. P[k] = r.obj + k - 1 /\ P[k + 1] = r.obj + (k + 1) - 1
          BY <4>2, <5>1
        <5>3. QED  BY <4>1, <5>1, <5>2
      <4>5. \A k \in 1..(Len(P) - 1) : k < Dentry.len \/ k \in Dentry.len..(Len(P) - 1)
        BY <1>1, <1>2
      <4>6. QED  BY <4>3, <4>4, <4>5
    <3>3. QED  BY <3>1, <3>2
  <2>2. P[1] = r.obj
    <3>1. Owned(Target)[1] = r.obj
      BY <1>1, OneBegins DEF OInv, DiskInv
    <3>2. SubSeq(P, 1, Dentry.len)[1] = P[1]
      BY <1>1, <1>2
    <3>3. QED  BY <3>1, <3>2 DEF Growth
  <2>3. Trace(fat', r.obj, Len(P), P)
    BY <1>0, <1>2, <2>1, <2>2 DEF Trace
  <2>4. LinkedFrom(fat', r.obj, Len(P)) = P
    BY <1>1, <1>2, <1>7, <2>3, TraceIs
  <2>5. OwnedIn(fat', stream', Target) = LinkedFrom(fat', stream'[Target].clu, stream'[Target].len)
    <3>1. Target \in Slot /\ stream'[Target].live /\ stream'[Target].clu \in Cluster /\ stream'[Target].nofat = FALSE
      BY <1>1, <1>4, <1>5, <1>9
    <3>2. QED  BY ONLY <3>1, LinkedList, Zenon
  <2>6. QED  BY <1>4, <2>4, <2>5
<1>10. QED  BY <1>8, <1>9

LEMMA OthersKept ==
  ASSUME IInv, IInv', UNCHANGED fat, NEW t \in Owner, \A s \in Slot : s # t => stream'[s] = stream[s]
  PROVE  \A o \in Owner \ {t} : OwnedIn(fat', stream', o) = OwnedIn(fat, stream, o)
<1>1. ASSUME NEW o \in Owner, o # t PROVE OwnedIn(fat', stream', o) = OwnedIn(fat, stream, o)
  <2>1. o \in Owner
    OBVIOUS
  <2>2. o # Root => stream'[o] = stream[o]
    BY <1>1, SlotNotRoot
  <2>3. fat \in [Word -> Word]
    BY Types
  <2>4. stream \in [Slot -> Entry]
    BY Types
  <2>5. fat' \in [Word -> Word]
    BY DEF IInv, TypeOK, VolumeTypeOK
  <2>6. stream' \in [Slot -> Entry]
    BY DEF IInv, TypeOK, VolumeTypeOK
  <2>7. \A k \in 1..Len(OwnedIn(fat, stream, o)) : fat'[OwnedIn(fat, stream, o)[k]] = fat[OwnedIn(fat, stream, o)[k]]
    OBVIOUS
  <2>8. QED  BY ONLY <2>1, <2>2, <2>3, <2>4, <2>5, <2>6, <2>7, OwnedKept, Zenon
<1>2. QED  BY <1>1

LEMMA GrowDirectoryKeeps == ASSUME OInv, IInv', Grow, r.obj # RootOffset PROVE OInv'
<1>0. /\ pc = "size" /\ pc \in Growing /\ SetF(F.len + r.num, F.nofat) /\ GrowReturn /\ UNCHANGED <<fat, bitmap, alloc_table>>
  BY DEF Grow, Growing
<1>1. PICK P \in Seq(Cluster) : Growth(P)
  BY <1>0 DEF OInv, DirectoryGrowth
<1>2. PICK t : t = Target
  OBVIOUS
<1>3. /\ \A s \in Slot : s # t => stream'[s] = stream[s]
      /\ stream'[t].live /\ stream'[t].clu = r.obj
      /\ OwnedIn(fat', stream', t) = P
  BY <1>1, <1>2, GrowDirectoryWrites
<1>4. t \in Slot /\ t \in Owner /\ t # Root /\ stream[t].live /\ r.obj \in Cluster
  BY <1>0, <1>2, GrowingDirectory
<1>5. \A o \in Owner \ {t} : OwnedIn(fat', stream', o) = OwnedIn(fat, stream, o)
  BY <1>0, <1>3, <1>4, OthersKept DEF OInv
<1>6. ListsSound' /\ Holds(t)' = Members(P) /\ \A o \in Owner \ {t} : Owned(o)' = Owned(o) /\ Holds(o)' = Holds(o)
  <2>1. NoRepeat(P) /\ Members(P) \intersect System = {} /\ \A o \in Owner \ {t} : Members(P) \intersect Holds(o) = {}
    BY <1>1, <1>2 DEF Growth
  <2>2. QED  BY <1>3, <1>4, <1>5, <2>1, OneListChanges DEF OInv, DiskInv
<1>7. Root \in Owner /\ Owned(Root)' = Owned(Root)
  BY <1>4, <1>6, SlotNotRoot
<1>8. DiskInv'
  <2>1. RootEnds'
    BY <1>0, <1>7 DEF RootEnds, Tip, OInv, DiskInv
  <2>2. DentriesSound'
    <3>1. r.obj # 0
      BY <1>4, ClusterWord
    <3>2. QED  BY <1>3, <3>1 DEF DentriesSound, OInv, DiskInv
  <2>3. QED  BY <1>6, <2>1, <2>2 DEF DiskInv
<1>9. /\ pc' \in {"new", "reload", "idle"}
      /\ Room' /\ RootGrows' /\ DirectoryGrows' /\ DirectoryGrowth' /\ EntryIsNew' /\ Trims' /\ Removes'
  <2>1. \A s \in Slot : stream'[s].live = stream[s].live
    <3>1. stream'[t].live = stream[t].live
      <4>1. stream'[t].live \in BOOLEAN /\ stream[t].live \in BOOLEAN
        BY <1>4, Types DEF OInv, IInv, TypeOK, VolumeTypeOK, Entry
      <4>2. QED  BY <1>3, <1>4, <4>1
    <3>2. QED  BY <1>3, <3>1
  <2>2. QED  BY <1>0, <2>1, GrowReturns
<1>10. RootHeaded'
  <2>1. r.op # "remove"
    BY <1>0 DEF OInv, IInv, Ready
  <2>2. head' = [head EXCEPT ![r.obj].len = F.len + r.num, ![r.obj].nofat = F.nofat]
    BY <1>0, <2>1 DEF SetF
  <2>3. head \in [FirstCluster -> Entry] /\ RootOffset \in FirstCluster
    BY Types, ClusterWord DEF OInv, FirstCluster
  <2>4. head'[RootOffset] = head[RootOffset]
    BY <2>2, <2>3
  <2>5. QED  BY <2>4 DEF OInv, RootHeaded
<1>11. Marked'
  <2>1. System \subseteq bitmap /\ \A o \in Owner : Holds(o) \subseteq bitmap
    BY <1>0, AllMarked DEF OInv, IInv, Ready
  <2>2. Members(P) \subseteq bitmap
    BY <1>0, <1>1 DEF Growth
  <2>3. \A o \in Owner : Holds(o)' \subseteq bitmap
    BY <1>6, <2>1, <2>2
  <2>4. QED  BY <1>0, <1>9, <2>1, <2>3, MarkedAtPrompt
<1>12. QED  BY <1>8, <1>9, <1>10, <1>11 DEF OInv

-----------------------------------------------------------------------------
(* exfat_new_clusters, and the new entry.                                  *)

\* While the new entry's clusters are looked for, no other phase is entered.
LEMMA StillNew ==
  ASSUME OInv, pc \in {"new", "newmark"}, pc' \in {"new", "newmark", "enter"},
         r'.op = r.op, r'.slot = r.slot, stream' = stream
  PROVE  /\ r.op = "create"
         /\ Room' /\ RootGrows' /\ DirectoryGrows' /\ DirectoryGrowth' /\ Trims' /\ Removes'
         /\ r'.op = "create" /\ r'.slot \in Slot /\ ~stream'[r'.slot].live
<1>1. r.op = "create" /\ r.slot \in Slot /\ ~stream[r.slot].live
  BY DEF OInv, EntryIsNew
<1>2. QED  BY <1>1 DEF Room, RootGrows, DirectoryGrows, DirectoryGrowth, Trims, Removes, Growing

LEMMA NewSkipKeeps == ASSUME OInv, IInv', NewSkip \/ NewExhausted PROVE OInv'
<1>0. /\ pc = "new" /\ pc' \in {"new", "enter"} /\ (pc' = "enter" => r'.clu = 0)
      /\ UNCHANGED <<fat, stream, bitmap, alloc_table, head, child>>
      /\ r'.op = r.op /\ r'.slot = r.slot
  <2>1. CASE NewSkip
    BY <2>1, Types DEF NewSkip, volume, memory, OInv, Registers
  <2>2. CASE NewExhausted
    BY <2>2, Types DEF NewExhausted, NewReturn, Goto, volume, memory, OInv, Registers
  <2>3. QED  BY <2>1, <2>2
<1>1. /\ r.op = "create"
      /\ Room' /\ RootGrows' /\ DirectoryGrows' /\ DirectoryGrowth' /\ Trims' /\ Removes'
      /\ r'.op = "create" /\ r'.slot \in Slot /\ ~stream'[r'.slot].live
  BY <1>0, StillNew
<1>2. EntryIsNew'
  BY <1>0, <1>1 DEF EntryIsNew
<1>3. SameLists /\ DiskInv' /\ \A o \in Owner : Holds(o)' = Holds(o)
  BY <1>0, QuietLists
<1>4. RootHeaded'
  BY <1>0 DEF OInv, RootHeaded
<1>5. Marked'
  <2>1. System \subseteq bitmap /\ \A o \in Owner : Holds(o) \subseteq bitmap
    BY <1>0, <1>1, AllMarked DEF OInv
  <2>2. QED  BY <1>0, <1>3, <2>1, MarkedAtPrompt
<1>6. QED  BY <1>1, <1>2, <1>3, <1>4, <1>5 DEF OInv

LEMMA NewTakeKeeps == ASSUME OInv, IInv', NewTake PROVE OInv' /\ SameLists /\ Writes(r.next)
<1>0. /\ pc = "new" /\ pc' = "newmark" /\ r' = r /\ r.next < ClusterCount /\ ~InUse(r.next)
      /\ UNCHANGED <<stream, bitmap, alloc_table, head, child>> /\ SetFat(r.next, EXFAT_LASTCLUSTER)
  BY DEF NewTake, memory, Goto
<1>1. /\ r.op = "create"
      /\ Room' /\ RootGrows' /\ DirectoryGrows' /\ DirectoryGrowth' /\ Trims' /\ Removes'
      /\ r'.op = "create" /\ r'.slot \in Slot /\ ~stream'[r'.slot].live
  BY <1>0, StillNew
<1>2. EntryIsNew'
  BY <1>0, <1>1 DEF EntryIsNew
<1>3. r.next \in Free
  <2>1. r.next \in Int /\ r.next >= EXFAT_FIRST_CLUSTER
    BY <1>0, Types DEF OInv, IInv, Ready, Registers
  <2>2. QED  BY <1>0, <2>1, VolumeAssumption DEF Free, Scanned, InUse
<1>4. /\ r.next \in Cluster /\ r.next \in Word /\ Clip(r.next) = r.next /\ r.next \notin System
      /\ \A o \in Owner : r.next \notin Holds(o)
  BY <1>0, <1>1, <1>3, FreeIsFree
<1>5. fat' = [fat EXCEPT ![r.next] = EXFAT_LASTCLUSTER]
  BY <1>0, <1>4, ClipLast DEF SetFat
<1>6. SameLists
  BY <1>0, <1>4, <1>5, ListsWrite DEF OInv, DiskInv
<1>7. DiskInv'
  <2>0. Root \in Owner
    BY SlotNotRoot
  <2>1. Tip(Owned(Root)) \in Holds(Root) /\ Tip(Owned(Root)) \in Cluster
    BY <2>0, RootTrace, ListType DEF Trace, Tip, OInv, DiskInv
  <2>2. Tip(Owned(Root)) # r.next /\ Tip(Owned(Root)) \in Word
    BY <1>4, <2>0, <2>1, ClusterWord
  <2>3. \A w \in Word : w # r.next => fat'[w] = fat[w]
    BY <1>5, Types DEF OInv
  <2>4. UNCHANGED Tip(Owned(Root))
    BY <1>6, <2>0, SameHolds DEF Tip
  <2>5. UNCHANGED fat[Tip(Owned(Root))]
    BY <2>2, <2>3, <2>4
  <2>6. QED  BY <1>0, <1>6, <2>5, DiskKept DEF OInv
<1>8. RootHeaded'
  BY <1>0 DEF OInv, RootHeaded
<1>9. Marked'
  <2>1. System \subseteq bitmap' /\ \A o \in Owner : Holds(o) \subseteq bitmap'
    BY <1>0, <1>1, AllMarked DEF OInv
  <2>2. QED  BY <1>6, <2>1, MarkedAgain
<1>10. Writes(r.next)
  <2>1. \A w \in Word : w # r.next => fat'[w] = fat[w]
    BY <1>5, Types DEF OInv
  <2>2. QED  BY <1>4, <2>1 DEF Writes
<1>11. QED  BY <1>1, <1>2, <1>6, <1>7, <1>8, <1>9, <1>10 DEF OInv

LEMMA NewMarkKeeps == ASSUME OInv, IInv', NewMark PROVE OInv'
<1>0. /\ pc = "newmark" /\ pc' \in {"new", "enter"} /\ SaveBitmap(r.next, 1)
      /\ UNCHANGED <<fat, stream, head, child>>
      /\ r'.op = r.op /\ r'.slot = r.slot /\ r'.clu = r.next
  BY Types DEF NewMark, NewReturn, Goto, memory, OInv, Registers
<1>1. /\ r.op = "create"
      /\ Room' /\ RootGrows' /\ DirectoryGrows' /\ DirectoryGrowth' /\ Trims' /\ Removes'
      /\ r'.op = "create" /\ r'.slot \in Slot /\ ~stream'[r'.slot].live
  BY <1>0, StillNew
<1>2. System \subseteq bitmap /\ \A o \in Owner : Holds(o) \subseteq bitmap
  BY <1>0, <1>1, AllMarked DEF OInv
<1>3. r.next \notin bitmap /\ r.next \in Cluster
  <2>1. r.next \in Scanned \ bitmap
    BY <1>0 DEF OInv, IInv, ChosenIsFree
  <2>2. QED  BY <2>1, VolumeAssumption DEF Scanned, Cluster, EXFAT_FIRST_CLUSTER
<1>4. bitmap' = bitmap \union {r.next}
  BY <1>0, <1>3 DEF SaveBitmap
<1>5. SameLists /\ DiskInv' /\ \A o \in Owner : Holds(o)' = Holds(o)
  BY <1>0, QuietLists
<1>6. EntryIsNew'
  <2>1. r.next \in bitmap' \ System /\ \A o \in Owner : r.next \notin Holds(o)'
    BY <1>2, <1>3, <1>4, <1>5
  <2>2. QED  BY <1>0, <1>1, <2>1 DEF EntryIsNew
<1>7. RootHeaded'
  BY <1>0 DEF OInv, RootHeaded
<1>8. Marked'
  <2>1. System \subseteq bitmap' /\ \A o \in Owner : Holds(o) \subseteq bitmap'
    BY <1>2, <1>4
  <2>2. QED  BY <1>5, <2>1, MarkedAgain
<1>9. QED  BY <1>1, <1>5, <1>6, <1>7, <1>8 DEF OInv

\* The new directory has the one cluster of its own, or none.
LEMMA EnterWrites ==
  ASSUME OInv, Enter
  PROVE  \E Q \in Seq(Cluster) :
           /\ OwnedIn(fat', stream', r.slot) = Q
           /\ (r.clu = 0 /\ Q = << >>) \/ (r.clu \in bitmap \ System /\ Q = <<r.clu>>)
<1>1. /\ pc = "enter" /\ r.slot \in Slot /\ r.clu \in FirstCluster
      /\ stream' = [stream EXCEPT ![r.slot] = [live |-> TRUE, clu |-> r.clu, len |-> 0, nofat |-> TRUE]]
  BY DEF Enter, OInv, IInv, Ready
<1>2. stream'[r.slot] = [live |-> TRUE, clu |-> r.clu, len |-> 0, nofat |-> TRUE]
  BY <1>1, Types DEF OInv
<1>3. /\ stream'[r.slot].live /\ stream'[r.slot].clu = r.clu /\ stream'[r.slot].len = 0 /\ stream'[r.slot].nofat
  BY <1>2
<1>4. CASE r.clu = 0
  <2>1. OwnedIn(fat', stream', r.slot) = << >>
    BY <1>1, <1>3, <1>4, NoList, ClusterWord
  <2>2. << >> \in Seq(Cluster)
    OBVIOUS
  <2>3. QED  BY <1>4, <2>1, <2>2, Zenon
<1>5. CASE r.clu # 0
  <2>1. r.clu \in Cluster /\ r.clu \in Nat
    BY <1>1, <1>5, ClusterWord DEF FirstCluster
  <2>2. OwnedIn(fat', stream', r.slot) = Run(r.clu, 0)
    <3>1. r.slot \in Slot /\ stream'[r.slot].live /\ stream'[r.slot].clu \in Cluster /\ stream'[r.slot].nofat
      BY <1>1, <1>3, <2>1
    <3>2. OwnedIn(fat', stream', r.slot) = Run(stream'[r.slot].clu, stream'[r.slot].len)
      BY ONLY <3>1, RunList, Zenon
    <3>3. QED  BY <1>3, <3>2
  <2>3. Run(r.clu, 0) = <<r.clu>>
    <3>1. Run(r.clu, 0) = [k \in 1..1 |-> r.clu + k - 1]
      BY DEF Run
    <3>2. QED  BY <2>1, <3>1
  <2>4. <<r.clu>> \in Seq(Cluster)
    BY <2>1
  <2>5. r.clu \in bitmap \ System
    BY <1>1, <1>5 DEF OInv, EntryIsNew
  <2>6. QED  BY <2>2, <2>3, <2>4, <2>5
<1>6. QED  BY <1>4, <1>5

LEMMA EnterKeeps == ASSUME OInv, IInv', Enter PROVE OInv'
<1>0. /\ pc = "enter" /\ UNCHANGED <<fat, bitmap, alloc_table>> /\ Reload /\ Return
      /\ stream' = [stream EXCEPT ![r.slot] = [live |-> TRUE, clu |-> r.clu, len |-> 0, nofat |-> TRUE]]
  BY DEF Enter
<1>1. r.op = "create" /\ r.slot \in Slot /\ ~stream[r.slot].live
  BY <1>0 DEF OInv, EntryIsNew
<1>2. PICK t \in Slot : t = r.slot
  BY <1>1
<1>3. PICK Q \in Seq(Cluster) :
           /\ OwnedIn(fat', stream', t) = Q
           /\ (r.clu = 0 /\ Q = << >>) \/ (r.clu \in bitmap \ System /\ Q = <<r.clu>>)
  BY <1>2, EnterWrites
<1>4. t \in Owner /\ Root \in Owner /\ t # Root
  BY SlotNotRoot
<1>5. Members(Q) \subseteq {r.clu} /\ NoRepeat(Q) /\ (Members(Q) # {} => r.clu \in bitmap \ System /\ \A o \in Owner : r.clu \notin Holds(o))
  <2>1. CASE r.clu = 0 /\ Q = << >>
    BY <2>1 DEF Members, NoRepeat
  <2>2. CASE r.clu \in bitmap \ System /\ Q = <<r.clu>>
    <3>1. r.clu # 0
      BY <2>2, Types, ClusterWord DEF OInv
    <3>2. \A o \in Owner : r.clu \notin Holds(o)
      BY <1>0, <3>1 DEF OInv, EntryIsNew
    <3>3. QED  BY <2>2, <3>2 DEF Members, NoRepeat
  <2>3. QED  BY <1>3, <2>1, <2>2
<1>6. \A s \in Slot : s # t => stream'[s] = stream[s]
  BY <1>0, <1>2, Types DEF OInv
<1>7. \A o \in Owner \ {t} : OwnedIn(fat', stream', o) = OwnedIn(fat, stream, o)
  BY <1>0, <1>4, <1>6, OthersKept DEF OInv
<1>8. ListsSound' /\ Holds(t)' = Members(Q) /\ \A o \in Owner \ {t} : Owned(o)' = Owned(o) /\ Holds(o)' = Holds(o)
  <2>1. Members(Q) \intersect System = {} /\ \A o \in Owner \ {t} : Members(Q) \intersect Holds(o) = {}
    BY <1>5
  <2>2. QED  BY <1>3, <1>4, <1>5, <1>7, <2>1, OneListChanges DEF OInv, DiskInv
<1>9. DiskInv'
  <2>1. RootEnds'
    BY <1>0, <1>4, <1>8 DEF RootEnds, Tip, OInv, DiskInv
  <2>2. DentriesSound'
    <3>1. stream'[t] = [live |-> TRUE, clu |-> r.clu, len |-> 0, nofat |-> TRUE]
      BY <1>0, <1>2, Types DEF OInv
    <3>2. stream'[t].len = 0 /\ stream'[t].nofat
      BY <3>1
    <3>3. QED  BY <1>6, <3>2 DEF DentriesSound, OInv, DiskInv
  <2>3. QED  BY <1>8, <2>1, <2>2 DEF DiskInv
<1>10. RootHeaded'
  BY <1>0, ReloadRoot DEF OInv
<1>11. Marked'
  <2>1. System \subseteq bitmap /\ \A o \in Owner : Holds(o) \subseteq bitmap
    BY <1>0, <1>1, AllMarked DEF OInv
  <2>2. \A o \in Owner : Holds(o)' \subseteq bitmap
    BY <1>5, <1>8, <2>1
  <2>3. QED  BY <1>0, <2>1, <2>2, MarkedAtPrompt DEF Return
<1>12. QED  BY <1>0, <1>9, <1>10, <1>11, AtPrompt DEF OInv

-----------------------------------------------------------------------------
(* exfat_free_clusters: what holds of what is freed.                       *)

Freed == {"clear", "walk", "cut", "unmark", "shrink", "erase"}

LEMMA TrimFacts ==
  ASSUME OInv, r.op = "trim"
  PROVE  /\ Target \in Slot /\ Target \in Owner /\ Target # Root /\ Target = StreamOf(r.obj)
         /\ Dentry = stream[Target] /\ Dentry.live /\ Dentry.clu = r.obj /\ Dentry.nofat = FALSE
         /\ r.obj \in Cluster /\ r.obj # RootOffset
         /\ Dentry.len \in Nat /\ Dentry.len <= MaxLen /\ r.num \in Nat /\ r.num < Dentry.len /\ r.i \in Nat
         /\ F = Dentry /\ head[r.obj] = Dentry
         /\ Owned(Target) \in Seq(Cluster) /\ Len(Owned(Target)) \in Nat /\ Trace(fat, r.obj, Dentry.len, Owned(Target))
<1>1. r.obj # RootOffset /\ Target # Root /\ head[r.obj] = Dentry /\ ~Dentry.nofat /\ r.num < Dentry.len
  BY DEF OInv, Trims
<1>2. Target = StreamOf(r.obj) /\ StreamOf(r.obj) # 0
  BY <1>1 DEF Target, Root
<1>3. Target \in Slot /\ stream[Target].live /\ stream[Target].clu = r.obj
  BY <1>2, StreamOfIs
<1>4. Target \in Owner
  BY <1>3, SlotNotRoot
<1>5. Dentry = stream[Target] /\ Dentry \in Entry
  BY <1>3, Types DEF Dentry, OInv
<1>6. Dentry.len \in Nat /\ Dentry.len <= MaxLen /\ Dentry.nofat = FALSE
  BY <1>1, <1>5, VolumeAssumption DEF Entry
<1>7. r.obj \in FirstCluster /\ r.num \in Nat /\ r.i \in Nat
  BY Types DEF OInv, Registers
<1>8. r.obj \in Cluster
  <2>1. r.obj # 0
    BY <1>1, <1>3, <1>5 DEF OInv, DiskInv, DentriesSound
  <2>2. QED  BY <1>7, <2>1 DEF FirstCluster
<1>9. F = Dentry
  BY <1>1 DEF F
<1>10. Owned(Target) \in Seq(Cluster) /\ Len(Owned(Target)) \in Nat
  BY <1>4, ListType DEF OInv, DiskInv
<1>11. Trace(fat, r.obj, Dentry.len, Owned(Target))
  BY <1>1, <1>3, <1>5, <1>8, LinkedTrace DEF OInv
<1>12. QED  BY <1>1, <1>2, <1>3, <1>4, <1>5, <1>6, <1>7, <1>8, <1>9, <1>10, <1>11

LEMMA RemoveFacts ==
  ASSUME OInv, r.op = "remove"
  PROVE  /\ r.slot \in Slot /\ r.slot \in Owner /\ r.slot # Root /\ stream[r.slot].live
         /\ stream[r.slot] \in Entry /\ stream[r.slot].len \in Nat /\ stream[r.slot].len <= MaxLen
         /\ F = child[r.slot] /\ r.i \in Nat
<1>1. r.slot \in Slot /\ stream[r.slot].live
  BY DEF OInv, Removes
<1>2. r.slot \in Owner /\ r.slot # Root
  BY <1>1, SlotNotRoot
<1>3. stream[r.slot] \in Entry
  BY <1>1, Types DEF OInv
<1>4. stream[r.slot].len \in Nat /\ stream[r.slot].len <= MaxLen
  BY <1>3, VolumeAssumption DEF Entry
<1>5. F = child[r.slot] /\ r.i \in Nat
  BY Types DEF F, OInv, Registers
<1>6. QED  BY <1>1, <1>2, <1>3, <1>4, <1>5

\* A linked directory that is removed has a first cluster, and as many as it says.
LEMMA RemoveLinked ==
  ASSUME OInv, r.op = "remove", pc \in {"walk", "cut", "shrink"}
  PROVE  /\ stream[r.slot].clu \in Cluster /\ stream[r.slot].nofat = FALSE /\ stream[r.slot].len > 0
         /\ F = stream[r.slot] /\ F.len = stream[r.slot].len
         /\ Len(Owned(r.slot)) = stream[r.slot].len /\ fat[Tip(Owned(r.slot))] = EXFAT_LASTCLUSTER
         /\ Trace(fat, stream[r.slot].clu, stream[r.slot].len, Owned(r.slot))
         /\ r.obj = stream[r.slot].clu /\ r.num = stream[r.slot].len
<1>1. /\ r.slot \in Slot /\ r.slot \in Owner /\ r.slot # Root /\ stream[r.slot].live
      /\ stream[r.slot] \in Entry /\ stream[r.slot].len \in Nat /\ F = child[r.slot]
  BY RemoveFacts
<1>2. /\ ~stream[r.slot].nofat /\ Exact(r.slot) /\ child[r.slot] = stream[r.slot]
      /\ r.obj = stream[r.slot].clu /\ r.num = stream[r.slot].len
  BY DEF OInv, Removes
<1>3. stream[r.slot].nofat = FALSE /\ stream[r.slot].clu \in FirstCluster
  BY <1>1, <1>2 DEF Entry
<1>4. stream[r.slot].clu \in Cluster
  <2>1. stream[r.slot].clu # 0
    BY <1>1, <1>2 DEF OInv, DiskInv, DentriesSound
  <2>2. QED  BY <1>3, <2>1 DEF FirstCluster
<1>5. Trace(fat, stream[r.slot].clu, stream[r.slot].len, Owned(r.slot))
  BY <1>1, <1>2, <1>4, LinkedTrace DEF OInv
<1>6. Len(Owned(r.slot)) = stream[r.slot].len /\ fat[Tip(Owned(r.slot))] = EXFAT_LASTCLUSTER
  BY <1>2 DEF Exact, Tip
<1>7. stream[r.slot].len > 0
  BY <1>1, <1>5, <1>6 DEF Trace
<1>8. QED  BY <1>1, <1>2, <1>3, <1>4, <1>5, <1>6, <1>7

LEMMA StillFreed ==
  ASSUME pc' \in Freed, r'.op \in {"trim", "remove"}
  PROVE  Room' /\ RootGrows' /\ DirectoryGrows' /\ DirectoryGrowth' /\ EntryIsNew'
BY DEF Freed, Room, RootGrows, DirectoryGrows, DirectoryGrowth, EntryIsNew, Growing

LEMMA FreedQuiet ==
  ASSUME OInv, UNCHANGED <<volume, memory>>, pc \in Freed, pc' \in Freed,
         r'.op = r.op, r'.slot = r.slot
  PROVE  /\ SameLists /\ DiskInv' /\ RootHeaded' /\ Marked'
         /\ Room' /\ RootGrows' /\ DirectoryGrows' /\ DirectoryGrowth' /\ EntryIsNew'
<1> UNCHANGED <<fat, stream, bitmap, alloc_table, head, child>>
  BY DEF volume, memory
<1>1. SameLists /\ DiskInv' /\ \A o \in Owner : Holds(o)' = Holds(o)
  BY QuietLists
<1>2. RootHeaded'
  BY DEF OInv, RootHeaded
<1>3. Marked'
  BY <1>1 DEF OInv, Marked, Freed
<1>4. r.op \in {"trim", "remove"}
  BY DEF OInv, Removes, Freed
<1>5. QED  BY <1>1, <1>2, <1>3, <1>4, StillFreed

-----------------------------------------------------------------------------
(* exfat_free_clusters of a contiguous directory.                          *)

LEMMA ClearTailKeeps == ASSUME OInv, IInv', ClearTail PROVE OInv'
<1>0. /\ pc = "clear" /\ pc' = "clear" /\ pc \in Freed /\ r.i < F.len /\ SaveBitmap(r.obj + r.i, 0)
      /\ UNCHANGED <<fat, stream, head, child>>
  BY DEF ClearTail, Freed, memory
<1>1. /\ r'.op = r.op /\ r'.slot = r.slot /\ r'.obj = r.obj /\ r'.num = r.num /\ r'.data = r.data
  BY Types DEF ClearTail, OInv, Registers
<1>2. r.op = "remove"
  BY <1>0 DEF OInv, Removes, Trims
<1>3. /\ r.slot \in Slot /\ r.slot \in Owner /\ r.slot # Root /\ stream[r.slot].live
      /\ stream[r.slot] \in Entry /\ stream[r.slot].len \in Nat
      /\ F = child[r.slot] /\ r.i \in Nat
  BY <1>2, RemoveFacts
<1>4. child[r.slot] = stream[r.slot] /\ r.obj = stream[r.slot].clu /\ stream[r.slot].nofat
  BY <1>0, <1>2 DEF OInv, Removes
<1>5. r.obj \in Cluster /\ r.obj \in Nat
  <2>1. stream[r.slot].len # 0
    BY <1>0, <1>3, <1>4
  <2>2. r.obj # 0
    BY <1>3, <1>4, <2>1 DEF OInv, DiskInv, DentriesSound
  <2>3. r.obj \in FirstCluster
    BY <1>3, <1>4 DEF Entry
  <2>4. QED  BY <2>2, <2>3, ClusterWord DEF FirstCluster
<1>6. r.obj + r.i \in Holds(r.slot) /\ r.obj + r.i \in Cluster
  <2>1. /\ Len(Owned(r.slot)) = IF stream[r.slot].len = 0 THEN 1 ELSE stream[r.slot].len
        /\ \A k \in 1..Len(Owned(r.slot)) : Owned(r.slot)[k] = stream[r.slot].clu + k - 1
    BY <1>3, <1>4, <1>5, RunOwned DEF OInv
  <2>2. r.i < stream[r.slot].len
    BY <1>0, <1>3, <1>4
  <2>3. Len(Owned(r.slot)) = stream[r.slot].len /\ r.i + 1 \in 1..Len(Owned(r.slot))
    BY ONLY <1>3, <2>1, <2>2
  <2>4. Owned(r.slot)[r.i + 1] = r.obj + (r.i + 1) - 1
    BY <1>4, <2>1, <2>3
  <2>5. Owned(r.slot)[r.i + 1] = r.obj + r.i
    BY ONLY <1>3, <1>5, <2>4
  <2>6. QED  BY <1>3, <2>3, <2>5, ListType DEF OInv, DiskInv
<1>7. bitmap' = bitmap \ {r.obj + r.i}
  BY <1>0, <1>6 DEF SaveBitmap
<1>8. SameLists /\ DiskInv' /\ \A o \in Owner : Holds(o)' = Holds(o)
  BY <1>0, QuietLists
<1>9. RootHeaded'
  BY <1>0 DEF OInv, RootHeaded
<1>10. Marked'
  <2>1. System \subseteq bitmap'
    BY <1>3, <1>6, <1>7 DEF OInv, Marked, DiskInv, ListsSound
  <2>2. ASSUME NEW o \in Owner, o # r.slot PROVE Holds(o)' \subseteq bitmap'
    <3>1. Holds(o) \subseteq bitmap
      BY <1>0, <2>2 DEF OInv, Marked
    <3>2. r.obj + r.i \notin Holds(o)
      BY <1>3, <1>6, <2>2 DEF OInv, DiskInv, ListsSound
    <3>3. QED  BY <1>7, <1>8, <3>1, <3>2
  <2>3. QED  BY <1>1, <1>2, <2>1, <2>2 DEF Marked
<1>11. Room' /\ RootGrows' /\ DirectoryGrows' /\ DirectoryGrowth' /\ EntryIsNew'
  BY <1>0, <1>1, <1>2, StillFreed DEF Freed
<1>12. Trims' /\ Removes'
  BY <1>0, <1>1, <1>2, <1>3, <1>4 DEF OInv, Trims, Removes
<1>13. QED  BY <1>8, <1>9, <1>10, <1>11, <1>12 DEF OInv

LEMMA ClearDoneKeeps == ASSUME OInv, IInv', ClearDone PROVE OInv'
<1>0. /\ pc = "clear" /\ UNCHANGED <<volume, memory>> /\ Finish
      /\ UNCHANGED <<fat, stream, head, child>>
  BY DEF ClearDone, memory, volume
<1>1. r.op = "remove"
  BY <1>0 DEF OInv, Removes, Trims
<1>2. pc' = "erase" /\ r' = r
  BY <1>0, <1>1 DEF Finish, Goto
<1>3. /\ SameLists /\ DiskInv' /\ RootHeaded' /\ Marked'
      /\ Room' /\ RootGrows' /\ DirectoryGrows' /\ DirectoryGrowth' /\ EntryIsNew'
  BY <1>0, <1>2, FreedQuiet DEF Freed
<1>4. Trims' /\ Removes'
  BY <1>0, <1>1, <1>2 DEF OInv, Trims, Removes
<1>5. QED  BY <1>3, <1>4 DEF OInv

-----------------------------------------------------------------------------
(* exfat_free_clusters of a linked directory: the walk.                    *)

\* What is linked from a cluster of a directory that is as long as it says.
LEMMA ExactLinks ==
  ASSUME NEW f, NEW c, NEW n \in Nat, NEW s, Trace(f, c, n, s), Len(s) = n,
         f[Tip(s)] = EXFAT_LASTCLUSTER
  PROVE  \A k \in 1..n : /\ ValidEntry(f[s[k]]) /\ s[k] \in Cluster
                         /\ k < n => k + 1 \in 1..n /\ f[s[k]] = s[k + 1]
<1> SUFFICES ASSUME NEW k \in 1..n
             PROVE  /\ ValidEntry(f[s[k]]) /\ s[k] \in Cluster
                    /\ k < n => k + 1 \in 1..n /\ f[s[k]] = s[k + 1]
  OBVIOUS
<1>0. s \in Seq(Cluster)
  BY DEF Trace
<1>1. s[k] \in Cluster
  BY <1>0
<1>2. CASE k < n
  <2>1. k \in 1..(Len(s) - 1) /\ k + 1 \in 1..n
    BY <1>2
  <2>2. s[k + 1] = f[s[k]] /\ s[k + 1] \in Cluster
    BY <1>0, <2>1 DEF Trace
  <2>3. QED  BY <1>1, <2>1, <2>2 DEF ValidEntry
<1>3. CASE k = n
  BY <1>1, <1>3 DEF ValidEntry, Tip
<1>4. QED  BY <1>2, <1>3

LEMMA TrimExact ==
  ASSUME OInv, r.op = "trim", Exact(Target)
  PROVE  Len(Owned(Target)) = Dentry.len /\ fat[Tip(Owned(Target))] = EXFAT_LASTCLUSTER
<1>1. Dentry = stream[Target] /\ Dentry.nofat = FALSE
  BY TrimFacts
<1>2. QED  BY <1>1 DEF Exact, Tip

LEMMA TrimLinks ==
  ASSUME OInv, r.op = "trim", Exact(Target)
  PROVE  \A k \in 1..Dentry.len :
            /\ ValidEntry(fat[Owned(Target)[k]]) /\ Owned(Target)[k] \in Cluster
            /\ k < Dentry.len => k + 1 \in 1..Dentry.len /\ fat[Owned(Target)[k]] = Owned(Target)[k + 1]
<1>1. Dentry.len \in Nat
  BY TrimFacts
<1>2. Trace(fat, r.obj, Dentry.len, Owned(Target))
  BY TrimFacts
<1>3. Len(Owned(Target)) = Dentry.len
  BY TrimExact
<1>4. fat[Tip(Owned(Target))] = EXFAT_LASTCLUSTER
  BY TrimExact
<1>5. QED  BY ONLY <1>1, <1>2, <1>3, <1>4, ExactLinks

LEMMA RemoveLinks ==
  ASSUME OInv, r.op = "remove", pc \in {"walk", "cut", "shrink"}
  PROVE  \A k \in 1..stream[r.slot].len :
            /\ ValidEntry(fat[Owned(r.slot)[k]]) /\ Owned(r.slot)[k] \in Cluster
            /\ k < stream[r.slot].len => k + 1 \in 1..stream[r.slot].len /\ fat[Owned(r.slot)[k]] = Owned(r.slot)[k + 1]
<1>1. stream[r.slot].len \in Nat
  BY RemoveFacts
<1>2. Trace(fat, stream[r.slot].clu, stream[r.slot].len, Owned(r.slot))
  BY RemoveLinked
<1>3. Len(Owned(r.slot)) = stream[r.slot].len
  BY RemoveLinked
<1>4. fat[Tip(Owned(r.slot))] = EXFAT_LASTCLUSTER
  BY RemoveLinked
<1>5. QED  BY ONLY <1>1, <1>2, <1>3, <1>4, ExactLinks

LEMMA WalkKeeps == ASSUME OInv, IInv', Walk PROVE OInv'
<1>0. /\ pc = "walk" /\ pc' = "walk" /\ pc \in Freed /\ UNCHANGED <<volume, memory>>
      /\ Below(r.i, F.len, r.num + 1)
      /\ UNCHANGED <<fat, stream, head, child>>
  BY DEF Walk, Freed, volume, memory
<1>1. /\ r'.op = r.op /\ r'.slot = r.slot /\ r'.obj = r.obj /\ r'.num = r.num /\ r'.data = r.data
      /\ r'.clu = fat[Clip(r.clu)] /\ r'.i = Up(r.i)
  BY Types DEF Walk, OInv, Registers
<1>2. /\ SameLists /\ DiskInv' /\ RootHeaded' /\ Marked'
      /\ Room' /\ RootGrows' /\ DirectoryGrows' /\ DirectoryGrowth' /\ EntryIsNew'
  BY <1>0, <1>1, FreedQuiet
<1>3. r.op \in {"trim", "remove"}
  BY <1>0 DEF OInv, Removes
<1>4. CASE r.op = "trim"
  <2>1. /\ Target \in Slot /\ Target \in Owner /\ Target # Root /\ Dentry = stream[Target]
        /\ r.obj \in Cluster /\ r.obj # RootOffset
        /\ Dentry.len \in Nat /\ Dentry.len <= MaxLen /\ r.num \in Nat /\ r.num < Dentry.len /\ r.i \in Nat
        /\ F = Dentry /\ Trace(fat, r.obj, Dentry.len, Owned(Target))
    BY <1>4, TrimFacts
  <2>2. r.i < Dentry.len - r.num /\ Exact(Target) /\ r.clu = Owned(Target)[r.i + 1]
    BY <1>0, <1>4 DEF OInv, Trims, Whole
  <2>3. r.i < Dentry.len - (r.num + 1)
    BY <1>0, <2>1 DEF Below
  <2>5. r.i + 1 \in 1..Dentry.len /\ r.i + 1 < Dentry.len /\ Dentry.len > 0
    BY ONLY <2>1, <2>3
  <2>6. r.clu \in Cluster /\ fat[r.clu] = Owned(Target)[(r.i + 1) + 1]
    BY <1>4, <2>2, <2>5, TrimLinks
  <2>7. r'.clu = Owned(Target)[r'.i + 1] /\ r'.i = r.i + 1
    <3>1. Up(r.i) = r.i + 1
      BY <2>1, <2>5, VolumeAssumption DEF Up
    <3>2. QED  BY <1>1, <2>6, <3>1, ClipCluster
  <2>8. Target' = Target /\ Dentry' = Dentry
    BY <1>0, <1>1, SameTarget
  <2>9. Owned(Target)' = Owned(Target)
    BY <1>2, <2>1, <2>8, SameHolds DEF SameLists, Owned
  <2>10. Exact(Target)'
    BY <1>0, <2>2, <2>8, <2>9 DEF Exact
  <2>11. r'.i < Dentry.len - r.num
    BY ONLY <2>1, <2>3, <2>7
  <2>12. Whole'
    BY <1>0, <1>1, <2>7, <2>8, <2>9, <2>10, <2>11 DEF Whole
  <2>13. Trims'
    BY <1>0, <1>1, <1>4, <2>8, <2>12 DEF OInv, Trims
  <2>14. Removes'
    BY <1>0, <1>1, <1>4 DEF Removes
  <2>15. QED  BY <1>2, <2>13, <2>14 DEF OInv
<1>5. CASE r.op = "remove"
  <2>1. /\ r.slot \in Slot /\ r.slot \in Owner /\ r.slot # Root /\ stream[r.slot].live
        /\ stream[r.slot].len \in Nat /\ stream[r.slot].len <= MaxLen /\ r.i \in Nat
    BY <1>5, RemoveFacts
  <2>2. /\ stream[r.slot].clu \in Cluster /\ stream[r.slot].len > 0
        /\ Len(Owned(r.slot)) = stream[r.slot].len /\ fat[Tip(Owned(r.slot))] = EXFAT_LASTCLUSTER
        /\ Trace(fat, stream[r.slot].clu, stream[r.slot].len, Owned(r.slot))
    BY <1>0, <1>5, RemoveLinked
  <2>3. Owned(r.slot)' = Owned(r.slot)
    BY <1>1, <1>2, <2>1, SameHolds DEF SameLists, Owned
  <2>4. Exact(r.slot)'
    BY <1>0, <1>1, <1>5, <2>3 DEF OInv, Removes, Exact
  <2>5. r'.i < stream[r.slot].len => r'.clu = Owned(r.slot)[r'.i + 1]
    <3>1. SUFFICES ASSUME r'.i < stream[r.slot].len PROVE r'.clu = Owned(r.slot)[r'.i + 1]
      OBVIOUS
    <3>2. r'.i = r.i + 1 /\ r.i + 1 < stream[r.slot].len /\ r.i + 1 \in 1..stream[r.slot].len
      BY <1>1, <2>1, <3>1, VolumeAssumption DEF Up
    <3>3. r.clu = Owned(r.slot)[r.i + 1]
      BY <1>0, <1>5, <2>1, <3>2 DEF OInv, Removes
    <3>5. r.clu \in Cluster /\ fat[r.clu] = Owned(r.slot)[(r.i + 1) + 1]
      BY <1>0, <1>5, <3>2, <3>3, RemoveLinks
    <3>6. QED  BY <1>1, <3>2, <3>5, ClipCluster
  <2>6. Trims'
    BY <1>1, <1>5 DEF Trims
  <2>7. Removes'
    BY <1>0, <1>1, <1>5, <2>1, <2>3, <2>4, <2>5 DEF OInv, Removes
  <2>8. QED  BY <1>2, <2>6, <2>7 DEF OInv
<1>6. QED  BY <1>3, <1>4, <1>5

LEMMA WalkDoneKeeps == ASSUME OInv, IInv', WalkDone PROVE OInv'
<1>0. /\ pc = "walk" /\ pc' = "cut" /\ pc \in Freed /\ pc' \in Freed /\ UNCHANGED <<volume, memory, r>>
      /\ ~Below(r.i, F.len, r.num + 1) \/ ~ValidEntry(fat[Clip(r.clu)])
      /\ UNCHANGED <<fat, stream, head, child, r>>
  BY DEF WalkDone, Freed, volume, memory, Goto
<1>2. /\ SameLists /\ DiskInv' /\ RootHeaded' /\ Marked'
      /\ Room' /\ RootGrows' /\ DirectoryGrows' /\ DirectoryGrowth' /\ EntryIsNew'
  BY <1>0, FreedQuiet
<1>3. r.op \in {"trim", "remove"}
  BY <1>0 DEF OInv, Removes
<1>4. CASE r.op = "trim"
  <2>1. /\ Target \in Slot /\ Target \in Owner /\ Target # Root /\ Dentry = stream[Target]
        /\ r.obj \in Cluster /\ r.obj # RootOffset
        /\ Dentry.len \in Nat /\ Dentry.len <= MaxLen /\ r.num \in Nat /\ r.num < Dentry.len /\ r.i \in Nat
        /\ F = Dentry /\ Trace(fat, r.obj, Dentry.len, Owned(Target))
    BY <1>4, TrimFacts
  <2>2. r.i < Dentry.len - r.num /\ Exact(Target) /\ r.clu = Owned(Target)[r.i + 1]
    BY <1>0, <1>4 DEF OInv, Trims, Whole
  <2>5. r.i + 1 \in 1..Dentry.len /\ Dentry.len > 0
    BY ONLY <2>1, <2>2
  <2>6. r.clu \in Cluster /\ ValidEntry(fat[r.clu])
    BY <1>4, <2>2, <2>5, TrimLinks
  <2>7. ~(r.i < Dentry.len - (r.num + 1))
    BY <1>0, <2>1, <2>6, ClipCluster DEF Below
  <2>8. r.i = Dentry.len - r.num - 1
    BY ONLY <2>1, <2>2, <2>7
  <2>9. Target' = Target /\ Dentry' = Dentry
    BY <1>0, SameTarget
  <2>10. Owned(Target)' = Owned(Target)
    BY <1>2, <2>1, <2>9, SameHolds DEF SameLists, Owned
  <2>11. Exact(Target)'
    BY <1>0, <2>2, <2>9, <2>10 DEF Exact
  <2>12. Whole'
    BY <1>0, <2>2, <2>9, <2>10, <2>11 DEF Whole
  <2>13. Trims'
    BY <1>0, <1>4, <2>8, <2>9, <2>12 DEF OInv, Trims
  <2>14. Removes'
    BY <1>0, <1>4 DEF Removes
  <2>15. QED  BY <1>2, <2>13, <2>14 DEF OInv
<1>5. CASE r.op = "remove"
  <2>1. /\ r.slot \in Slot /\ r.slot \in Owner /\ r.slot # Root /\ stream[r.slot].live
        /\ stream[r.slot].len \in Nat /\ stream[r.slot].len <= MaxLen /\ r.i \in Nat
    BY <1>5, RemoveFacts
  <2>2. /\ stream[r.slot].clu \in Cluster /\ stream[r.slot].len > 0
        /\ Len(Owned(r.slot)) = stream[r.slot].len /\ fat[Tip(Owned(r.slot))] = EXFAT_LASTCLUSTER
        /\ Trace(fat, stream[r.slot].clu, stream[r.slot].len, Owned(r.slot))
        /\ F.len = stream[r.slot].len /\ r.num = stream[r.slot].len
    BY <1>0, <1>5, RemoveLinked
  <2>3. Owned(r.slot)' = Owned(r.slot)
    BY <1>0, <1>2, <2>1, SameHolds DEF SameLists, Owned
  <2>4. Exact(r.slot)'
    BY <1>0, <1>5, <2>3 DEF OInv, Removes, Exact
  <2>5. r.i >= stream[r.slot].len
    <3>1. SUFFICES ASSUME r.i < stream[r.slot].len PROVE FALSE
      BY <2>1
    <3>2. r.i + 1 \in 1..stream[r.slot].len
      BY ONLY <2>1, <3>1
    <3>3. r.clu = Owned(r.slot)[r.i + 1]
      BY <1>0, <1>5, <3>1 DEF OInv, Removes
    <3>5. r.clu \in Cluster /\ ValidEntry(fat[r.clu])
      BY <1>0, <1>5, <3>2, <3>3, RemoveLinks
    <3>6. Below(r.i, F.len, r.num + 1)
      <4>1. r.num + 1 > F.len
        BY ONLY <2>1, <2>2
      <4>2. QED  BY <4>1 DEF Below
    <3>7. QED  BY <1>0, <3>5, <3>6, ClipCluster
  <2>6. Trims'
    BY <1>0, <1>5 DEF Trims
  <2>7. Removes'
    BY <1>0, <1>5, <2>1, <2>3, <2>4, <2>5 DEF OInv, Removes
  <2>8. QED  BY <1>2, <2>6, <2>7 DEF OInv
<1>6. QED  BY <1>3, <1>4, <1>5

-----------------------------------------------------------------------------
(* exfat_free_clusters of a linked directory: its tail is cut off.         *)

\* A list is cut in two.
LEMMA Split ==
  ASSUME NEW S, NEW s \in Seq(S), NEW n \in 0..Len(s)
  PROVE  /\ SubSeq(s, 1, n) \in Seq(S) /\ Len(SubSeq(s, 1, n)) = n
         /\ \A k \in 1..n : SubSeq(s, 1, n)[k] = s[k] /\ k \in 1..Len(s)
         /\ SubSeq(s, n + 1, Len(s)) \in Seq(S) /\ Len(SubSeq(s, n + 1, Len(s))) = Len(s) - n
         /\ \A k \in 1..(Len(s) - n) : SubSeq(s, n + 1, Len(s))[k] = s[n + k] /\ n + k \in 1..Len(s)
         /\ Members(SubSeq(s, 1, n)) \subseteq Members(s)
         /\ Members(SubSeq(s, n + 1, Len(s))) \subseteq Members(s)
         /\ NoRepeat(s) => /\ NoRepeat(SubSeq(s, 1, n)) /\ NoRepeat(SubSeq(s, n + 1, Len(s)))
                           /\ Members(SubSeq(s, 1, n)) \intersect Members(SubSeq(s, n + 1, Len(s))) = {}
<1>0. PICK p : p = SubSeq(s, 1, n)
  OBVIOUS
<1>1. PICK q : q = SubSeq(s, n + 1, Len(s))
  OBVIOUS
<1>2. Len(s) \in Nat /\ n \in Nat /\ n <= Len(s)
  OBVIOUS
<1>3. p \in Seq(S) /\ Len(p) = n /\ \A k \in 1..n : p[k] = s[k] /\ k \in 1..Len(s)
  BY <1>0, <1>2
<1>4. q \in Seq(S) /\ Len(q) = Len(s) - n /\ \A k \in 1..(Len(s) - n) : q[k] = s[n + k] /\ n + k \in 1..Len(s)
  <2>1. q \in Seq(S) /\ Len(q) = Len(s) - n
    BY <1>1, <1>2
  <2>2. ASSUME NEW k \in 1..(Len(s) - n) PROVE q[k] = s[n + k] /\ n + k \in 1..Len(s)
    BY <1>1, <1>2
  <2>3. QED  BY <2>1, <2>2
<1>5. Members(p) \subseteq Members(s)
  BY <1>3 DEF Members
<1>6. Members(q) \subseteq Members(s)
  BY <1>4 DEF Members
<1>7. ASSUME NoRepeat(s) PROVE NoRepeat(p)
  BY <1>3, <1>7 DEF NoRepeat
<1>8. ASSUME NoRepeat(s) PROVE NoRepeat(q)
  <2>1. ASSUME NEW j \in 1..Len(q), NEW k \in 1..Len(q), q[j] = q[k] PROVE j = k
    <3>1. q[j] = s[n + j] /\ q[k] = s[n + k] /\ n + j \in 1..Len(s) /\ n + k \in 1..Len(s)
      BY <1>4
    <3>2. n + j = n + k
      BY <1>8, <2>1, <3>1 DEF NoRepeat
    <3>3. QED  BY <1>2, <1>4, <3>2
  <2>2. QED  BY <2>1 DEF NoRepeat
<1>9. ASSUME NoRepeat(s) PROVE Members(p) \intersect Members(q) = {}
  <2>1. ASSUME NEW j \in 1..Len(p), NEW k \in 1..Len(q), p[j] = q[k] PROVE FALSE
    <3>1. p[j] = s[j] /\ q[k] = s[n + k] /\ j \in 1..Len(s) /\ n + k \in 1..Len(s)
      BY <1>3, <1>4
    <3>2. j = n + k
      BY <1>9, <2>1, <3>1 DEF NoRepeat
    <3>3. QED  BY <1>2, <1>3, <1>4, <3>2
  <2>2. QED  BY <2>1 DEF Members
<1>10. QED  BY <1>0, <1>1, <1>3, <1>4, <1>5, <1>6, <1>7, <1>8, <1>9

\* The clusters that remain when the last n of a linked list is made its end.
LEMMA CutTrace ==
  ASSUME NEW f \in [Word -> Word], NEW g \in [Word -> Word], NEW c \in Cluster, NEW len \in Nat, NEW s \in Seq(Cluster),
         Trace(f, c, len, s), NoRepeat(s), NEW n \in 1..Len(s), g[s[n]] = EXFAT_LASTCLUSTER,
         \A w \in Word : w # s[n] => g[w] = f[w]
  PROVE  Trace(g, c, len, SubSeq(s, 1, n))
<1>0. PICK p : p = SubSeq(s, 1, n)
  OBVIOUS
<1>1. n \in 0..Len(s) /\ Len(s) \in Nat
  OBVIOUS
<1>2. p \in Seq(Cluster) /\ Len(p) = n /\ \A k \in 1..n : p[k] = s[k] /\ k \in 1..Len(s)
  BY <1>0, <1>1, Split
<1>3. ASSUME NEW k \in 1..(n - 1) PROVE p[k + 1] = g[p[k]]
  <2>1. k \in 1..n /\ k + 1 \in 1..n /\ k \in 1..(Len(s) - 1) /\ k # n /\ k \in 1..Len(s) /\ n \in 1..Len(s)
    BY <1>1
  <2>2. s[k] # s[n] /\ s[k] \in Word
    <3>1. s[k] # s[n]
      BY <2>1 DEF NoRepeat
    <3>2. s[k] \in Cluster
      BY <2>1
    <3>3. QED  BY <3>1, <3>2, ClusterWord
  <2>3. s[k + 1] = f[s[k]]
    BY <2>1 DEF Trace
  <2>4. QED  BY <1>2, <2>1, <2>2, <2>3
<1>4. g[p[Len(p)]] \notin Cluster
  BY <1>1, <1>2, ClipLast
<1>5. p[1] = c /\ Len(p) \in 1..(IF len <= 1 THEN 1 ELSE len)
  BY <1>1, <1>2 DEF Trace
<1>6. Trace(g, c, len, p)
  BY <1>2, <1>3, <1>4, <1>5 DEF Trace
<1>7. QED  BY <1>0, <1>6

\* The first cut: the walk stopped at the cluster that is to be the last.
LEMMA FirstCut ==
  ASSUME OInv, IInv', Cut, r.op = "trim", Whole, r.i = Dentry.len - r.num - 1
  PROVE  /\ ListsSound' /\ Owned(Root)' = Owned(Root) /\ UNCHANGED fat[Tip(Owned(Root))]
         /\ \A o \in Owner : Holds(o)' \subseteq Holds(o)
         /\ OwnedIn(fat', stream', Target) = SubSeq(Owned(Target), 1, Dentry.len - r.num)
         /\ \A o \in Owner \ {Target} : OwnedIn(fat', stream', o) = OwnedIn(fat, stream, o)
         /\ Len(Owned(Target)) = Dentry.len
         /\ Trims' /\ Writes(r.clu)
<1>0. /\ pc = "cut" /\ pc' = "unmark" /\ SetFat(r.clu, EXFAT_LASTCLUSTER) /\ UNCHANGED <<stream, head>>
      /\ Below(r.i, F.len, 1)
  BY DEF Cut, Goto, memory
<1>1. /\ r'.op = r.op /\ r'.slot = r.slot /\ r'.obj = r.obj /\ r'.num = r.num
      /\ r'.clu = r.clu /\ r'.next = fat[Clip(r.clu)] /\ r'.i = Up(r.i)
  BY Types DEF Cut, OInv, Registers
<1>2. PICK t : t = Target
  OBVIOUS
<1>3. PICK d : d = Dentry
  OBVIOUS
<1>4. /\ t \in Slot /\ t \in Owner /\ t # Root /\ d = stream[t] /\ d.live /\ d.clu = r.obj /\ d.nofat = FALSE
      /\ r.obj \in Cluster /\ r.obj # RootOffset
      /\ d.len \in Nat /\ d.len <= MaxLen /\ r.num \in Nat /\ r.num < d.len /\ r.i \in Nat
      /\ F = d /\ head[r.obj] = d
  BY <1>2, <1>3, TrimFacts
<1>5. PICK s \in Seq(Cluster) : s = Owned(t)
  BY <1>2, TrimFacts
<1>6. Trace(fat, r.obj, d.len, s) /\ NoRepeat(s) /\ Members(s) = Holds(t)
  BY <1>2, <1>3, <1>4, <1>5, TrimFacts DEF OInv, DiskInv, ListsSound, Members, Holds
<1>7. /\ r.i = d.len - r.num - 1 /\ r.clu = s[r.i + 1] /\ Exact(t)
  <2>1. r.i = d.len - r.num - 1
    BY <1>3
  <2>2. QED  BY <1>2, <1>5, <2>1 DEF Whole
<1>8. Len(s) = d.len /\ fat[Tip(s)] = EXFAT_LASTCLUSTER
  BY <1>2, <1>3, <1>5, <1>7, TrimExact
<1>9. \A k \in 1..d.len : s[k] \in Cluster /\ (k < d.len => k + 1 \in 1..d.len /\ fat[s[k]] = s[k + 1])
  BY <1>2, <1>3, <1>5, <1>7, TrimLinks
<1>10. PICK n \in Nat : n = d.len - r.num
  BY <1>4
<1>11. n = r.i + 1 /\ n \in 1..Len(s) /\ n < d.len /\ n \in 0..Len(s) /\ r.num >= 1 /\ Len(s) - n = r.num /\ d.len - n = r.num
  <2>1. r.i < d.len - 1
    BY <1>0, <1>4 DEF Below
  <2>2. QED  BY ONLY <1>4, <1>7, <1>8, <1>10, <2>1
<1>12. r.clu = s[n] /\ r.clu \in Cluster /\ r.clu \in Holds(t)
  BY <1>6, <1>7, <1>8, <1>9, <1>11 DEF Members
<1>13. fat' = [fat EXCEPT ![r.clu] = EXFAT_LASTCLUSTER]
  BY <1>0, <1>12, ClipCluster, ClipLast DEF SetFat
<1>14. fat'[r.clu] = EXFAT_LASTCLUSTER /\ \A w \in Word : w # r.clu => fat'[w] = fat[w]
  BY <1>12, <1>13, ClusterWord, Types DEF OInv
<1>15. r'.next = s[n + 1] /\ r'.i = n /\ n + 1 \in 1..Len(s)
  <2>1. Up(r.i) = r.i + 1
    BY <1>4, <1>7, VolumeAssumption DEF Up
  <2>2. fat[s[n]] = s[n + 1] /\ n + 1 \in 1..Len(s)
    BY <1>8, <1>9, <1>11
  <2>3. QED  BY <1>1, <1>11, <1>12, <2>1, <2>2, ClipCluster
<1>16. PICK p : p = SubSeq(s, 1, n)
  OBVIOUS
<1>17. PICK q : q = SubSeq(s, n + 1, Len(s))
  OBVIOUS
<1>18. /\ p \in Seq(Cluster) /\ Len(p) = n /\ \A k \in 1..n : p[k] = s[k]
       /\ Members(p) \subseteq Members(s) /\ NoRepeat(p)
       /\ q \in Seq(Cluster) /\ Len(q) = r.num /\ \A k \in 1..r.num : q[k] = s[n + k] /\ n + k \in 1..Len(s)
       /\ Members(q) \subseteq Members(s) /\ NoRepeat(q) /\ Members(p) \intersect Members(q) = {}
  <2>1. n \in 0..Len(s) /\ Len(s) - n = r.num
    BY <1>11
  <2>2. /\ p \in Seq(Cluster) /\ Len(p) = n /\ \A k \in 1..n : p[k] = s[k]
        /\ Members(p) \subseteq Members(s)
    BY <1>16, <2>1, Split
  <2>3. /\ q \in Seq(Cluster) /\ Len(q) = Len(s) - n /\ \A k \in 1..(Len(s) - n) : q[k] = s[n + k] /\ n + k \in 1..Len(s)
        /\ Members(q) \subseteq Members(s)
    BY <1>17, <2>1, Split
  <2>4. NoRepeat(p) /\ NoRepeat(q) /\ Members(p) \intersect Members(q) = {}
    BY <1>6, <1>16, <1>17, <2>1, Split
  <2>5. QED  BY <2>1, <2>2, <2>3, <2>4
<1>19. OwnedIn(fat', stream', t) = p
  <2>1. fat \in [Word -> Word] /\ fat' \in [Word -> Word]
    BY Types DEF OInv, IInv, TypeOK, VolumeTypeOK
  <2>2. fat'[s[n]] = EXFAT_LASTCLUSTER /\ \A w \in Word : w # s[n] => fat'[w] = fat[w]
    BY <1>12, <1>14
  <2>3. r.obj \in Cluster /\ d.len \in Nat /\ n \in 1..Len(s)
    BY <1>4, <1>11
  <2>4. Trace(fat', r.obj, d.len, p)
    BY ONLY <1>6, <1>16, <2>1, <2>2, <2>3, s \in Seq(Cluster), CutTrace
  <2>5. LinkedFrom(fat', r.obj, d.len) = p
    BY ONLY <2>1, <2>3, <2>4, TraceIs
  <2>6. t \in Slot /\ stream'[t].live /\ stream'[t].clu \in Cluster /\ stream'[t].nofat = FALSE
    BY <1>0, <1>4
  <2>7. OwnedIn(fat', stream', t) = LinkedFrom(fat', stream'[t].clu, stream'[t].len)
    BY ONLY <2>6, LinkedList, Zenon
  <2>8. QED  BY <1>0, <1>4, <2>5, <2>7
<1>20. \A o \in Owner \ {t} : OwnedIn(fat', stream', o) = OwnedIn(fat, stream, o)
  <2>1. ASSUME NEW o \in Owner \ {t} PROVE OwnedIn(fat', stream', o) = OwnedIn(fat, stream, o)
    <3>1. r.clu \notin Holds(o)
      BY <1>4, <1>12 DEF OInv, DiskInv, ListsSound
    <3>2. QED  BY <1>0, <1>13, <3>1, ListWrite DEF OInv, DiskInv
  <2>2. QED  BY <2>1
<1>21. ListsSound' /\ Holds(t)' = Members(p) /\ \A o \in Owner \ {t} : Owned(o)' = Owned(o) /\ Holds(o)' = Holds(o)
  <2>1. Members(p) \intersect System = {} /\ \A o \in Owner \ {t} : Members(p) \intersect Holds(o) = {}
    BY <1>4, <1>6, <1>18 DEF OInv, DiskInv, ListsSound
  <2>2. QED  BY <1>4, <1>18, <1>19, <1>20, <2>1, OneListChanges DEF OInv, DiskInv
<1>22. Root \in Owner /\ Owned(Root)' = Owned(Root)
  BY <1>4, <1>21, SlotNotRoot
<1>23. UNCHANGED fat[Tip(Owned(Root))]
  <2>1. Tip(Owned(Root)) \in Holds(Root) /\ Tip(Owned(Root)) \in Cluster
    BY <1>22, RootTrace, ListType DEF Trace, Tip, OInv, DiskInv
  <2>2. Tip(Owned(Root)) # r.clu /\ Tip(Owned(Root)) \in Word
    BY <1>4, <1>12, <1>22, <2>1, ClusterWord DEF OInv, DiskInv, ListsSound
  <2>3. QED  BY <1>14, <1>22, <2>2 DEF Tip
<1>24. \A o \in Owner : Holds(o)' \subseteq Holds(o)
  BY <1>6, <1>18, <1>21
<1>25. Trims'
  <2>1. Target' = t /\ Dentry' = d
    BY <1>0, <1>1, <1>2, <1>3, SameTarget
  <2>2. Owned(t)' = p
    BY <1>19 DEF Owned
  <2>3. Len(p) = d.len - r.num /\ fat'[Tip(p)] = EXFAT_LASTCLUSTER
    <3>1. Tip(p) = r.clu
      <4>1. n \in 1..n
        BY <1>11
      <4>2. QED  BY <1>12, <1>18, <4>1 DEF Tip
    <3>2. QED  BY <1>10, <1>14, <1>18, <3>1
  <2>4. \A k \in 1..(Len(q) - 1) : fat'[q[k]] = q[k + 1]
    <3>1. ASSUME NEW k \in 1..(Len(q) - 1) PROVE fat'[q[k]] = q[k + 1]
      <4>1. k \in 1..r.num /\ k + 1 \in 1..r.num /\ n + (k + 1) = (n + k) + 1 /\ n + k < d.len /\ n + k \in 1..d.len
            /\ n + k # n
        <5>1. n \in Nat /\ k \in 1..(r.num - 1) /\ r.num \in Nat /\ d.len \in Nat /\ n = d.len - r.num /\ n >= 1
          BY <1>4, <1>10, <1>11, <1>18
        <5>2. PICK m \in Nat : m = r.num
          BY ONLY <5>1
        <5>3. PICK l \in Nat : l = d.len
          BY ONLY <5>1
        <5>4. n \in Nat /\ k \in 1..(m - 1) /\ m \in Nat /\ l \in Nat /\ n = l - m /\ n >= 1
          BY ONLY <5>1, <5>2, <5>3
        <5>5. k \in 1..m /\ k + 1 \in 1..m /\ n + (k + 1) = (n + k) + 1
          BY ONLY <5>4
        <5>6. n + k < l /\ n + k \in 1..l /\ n + k # n
          BY ONLY <5>4
        <5>7. QED  BY ONLY <5>2, <5>3, <5>5, <5>6
      <4>2. q[k] = s[n + k] /\ q[k + 1] = s[(n + k) + 1]
        BY <1>18, <4>1
      <4>3. fat[s[n + k]] = s[(n + k) + 1] /\ s[n + k] \in Word
        BY <1>9, <4>1, ClusterWord
      <4>4. s[n + k] # r.clu
        BY <1>6, <1>8, <1>11, <1>12, <4>1 DEF NoRepeat
      <4>5. QED  BY <1>14, <4>2, <4>3, <4>4
    <3>2. QED  BY <3>1
  <2>5. Members(q) \intersect System = {} /\ \A o \in Owner : Members(q) \intersect Holds(o)' = {}
    <3>1. Holds(t) \intersect System = {} /\ \A o \in Owner \ {t} : Holds(t) \intersect Holds(o) = {}
      BY <1>4 DEF OInv, DiskInv, ListsSound
    <3>2. Members(q) \subseteq Holds(t)
      BY <1>6, <1>18
    <3>3. Members(q) \intersect System = {}
      BY <3>1, <3>2
    <3>4. ASSUME NEW o \in Owner PROVE Members(q) \intersect Holds(o)' = {}
      BY <1>18, <1>21, <3>1, <3>2
    <3>5. QED  BY <3>3, <3>4
  <2>6. q[1] = r'.next /\ Len(q) = d.len - r'.i /\ r'.i < d.len
    <3>1. 1 \in 1..r.num
      BY <1>4, <1>11
    <3>2. q[1] = s[n + 1]
      BY <1>18, <3>1
    <3>3. QED  BY <1>11, <1>15, <1>18, <3>2
  <2>7. Rest(q)'
    BY <1>0, <1>18, <2>1, <2>4, <2>5, <2>6 DEF Rest
  <2>8. Owned(Target)' = p
    BY <1>19, <2>1 DEF Owned
  <2>9. QED  BY <1>0, <1>1, <1>4, <1>18, <2>1, <2>3, <2>7, <2>8 DEF Trims
<1>26. Writes(r.clu)
  <2>1. Operand = t
    BY <1>0, <1>2, <1>4 DEF Operand, Target
  <2>2. r.clu \notin System /\ \A o \in Owner \ {t} : r.clu \notin Holds(o)
    BY <1>4, <1>12 DEF OInv, DiskInv, ListsSound
  <2>3. QED  BY <1>12, <1>14, <2>1, <2>2 DEF Writes
<1>27. QED  BY <1>2, <1>3, <1>5, <1>8, <1>10, <1>16, <1>19, <1>20, <1>21, <1>22, <1>23, <1>24, <1>25, <1>26

\* A further cut: the clusters cut off are nobody's already.
LEMMA SecondCut ==
  ASSUME OInv, IInv', Cut, r.op = "trim", Len(Owned(Target)) = Dentry.len - r.num,
         fat[Tip(Owned(Target))] = EXFAT_LASTCLUSTER, NEW T \in Seq(Cluster), Rest(T)
  PROVE  /\ ListsSound' /\ Owned(Root)' = Owned(Root) /\ UNCHANGED fat[Tip(Owned(Root))]
         /\ \A o \in Owner : Holds(o)' \subseteq Holds(o)
         /\ SameLists
         /\ Trims' /\ Writes(r.clu)
<1>0. /\ pc = "cut" /\ pc' = "unmark" /\ SetFat(r.clu, EXFAT_LASTCLUSTER) /\ UNCHANGED <<stream, head>>
      /\ Below(r.i, F.len, 1)
  BY DEF Cut, Goto, memory
<1>1. /\ r'.op = r.op /\ r'.slot = r.slot /\ r'.obj = r.obj /\ r'.num = r.num
      /\ r'.clu = r.clu /\ r'.next = fat[Clip(r.clu)] /\ r'.i = Up(r.i)
  BY Types DEF Cut, OInv, Registers
<1>2. PICK t : t = Target
  OBVIOUS
<1>3. PICK d : d = Dentry
  OBVIOUS
<1>4. /\ t \in Slot /\ t \in Owner /\ t # Root /\ d = stream[t] /\ d.live /\ d.clu = r.obj /\ d.nofat = FALSE
      /\ r.obj \in Cluster /\ r.obj # RootOffset
      /\ d.len \in Nat /\ d.len <= MaxLen /\ r.num \in Nat /\ r.num < d.len /\ r.i \in Nat
      /\ F = d /\ head[r.obj] = d
  BY <1>2, <1>3, TrimFacts
<1>5. PICK s \in Seq(Cluster) : s = Owned(t)
  BY <1>2, TrimFacts
<1>6. /\ r.i < d.len /\ Len(T) = d.len - r.i /\ T[1] = r.clu /\ NoRepeat(T)
      /\ Members(T) \intersect System = {}
      /\ \A o \in Owner : Members(T) \intersect Holds(o) = {}
      /\ \A k \in 1..(Len(T) - 1) : fat[T[k]] = T[k + 1]
  BY <1>0, <1>3 DEF Rest
<1>7. Len(T) \in Nat /\ Len(T) >= 2 /\ 1 \in 0..Len(T) /\ 1 \in 1..Len(T) /\ 1 \in 1..(Len(T) - 1) /\ 2 \in 1..Len(T)
  <2>1. r.i < d.len - 1
    BY <1>0, <1>4 DEF Below
  <2>2. PICK m \in Nat : m = Len(T)
    OBVIOUS
  <2>3. m >= 2
    BY ONLY <1>4, <1>6, <2>1, <2>2, m \in Nat
  <2>4. QED  BY ONLY <2>2, <2>3, m \in Nat
<1>8. r.clu \in Members(T) /\ r.clu \in Cluster
  BY <1>6, <1>7 DEF Members
<1>9. fat' = [fat EXCEPT ![r.clu] = EXFAT_LASTCLUSTER]
  BY <1>0, <1>8, ClipCluster, ClipLast DEF SetFat
<1>10. fat'[r.clu] = EXFAT_LASTCLUSTER /\ \A w \in Word : w # r.clu => fat'[w] = fat[w]
  BY <1>8, <1>9, ClusterWord, Types DEF OInv
<1>11. \A o \in Owner : r.clu \notin Holds(o)
  BY <1>6, <1>8
<1>12. SameLists
  BY <1>0, <1>9, <1>11, ListsWrite DEF OInv, DiskInv
<1>13. \A o \in Owner : Owned(o)' = Owned(o) /\ Holds(o)' = Holds(o)
  BY <1>12, SameHolds
<1>14. UNCHANGED fat[Tip(Owned(Root))]
  <2>1. Root \in Owner
    BY SlotNotRoot
  <2>2. Tip(Owned(Root)) \in Holds(Root) /\ Tip(Owned(Root)) \in Cluster
    BY <2>1, RootTrace, ListType DEF Trace, Tip, OInv, DiskInv
  <2>3. Tip(Owned(Root)) # r.clu /\ Tip(Owned(Root)) \in Word
    BY <1>11, <2>1, <2>2, ClusterWord
  <2>4. Owned(Root)' = Owned(Root)
    BY <1>13, <2>1
  <2>5. QED  BY <1>10, <2>3, <2>4 DEF Tip
<1>15. ListsSound'
  BY <1>0, <1>12, <1>14, DiskKept DEF OInv, DiskInv
<1>16. Trims'
  <2>1. Target' = t /\ Dentry' = d
    BY <1>0, <1>1, <1>2, <1>3, SameTarget
  <2>2. Owned(Target)' = s
    BY <1>4, <1>5, <1>12, <2>1 DEF SameLists, Owned
  <2>3. Len(s) = d.len - r.num /\ fat[Tip(s)] = EXFAT_LASTCLUSTER
    BY <1>2, <1>3, <1>5
  <2>4. fat'[Tip(s)] = EXFAT_LASTCLUSTER
    <3>1. Tip(s) \in Holds(t)
      <4>1. Len(s) \in 1..Len(s)
        <5>1. PICK m \in Nat : m = Len(s)
          OBVIOUS
        <5>2. m > 0
          BY ONLY <1>4, <2>3, <5>1, m \in Nat
        <5>3. QED  BY ONLY <5>1, <5>2, m \in Nat
      <4>2. QED  BY <1>5, <4>1 DEF Tip, Holds
    <3>2. Tip(s) # r.clu /\ Tip(s) \in Word
      BY <1>4, <1>11, <3>1, ListType, ClusterWord DEF OInv, DiskInv
    <3>3. QED  BY <1>10, <2>3, <3>2
  <2>5. PICK q : q = SubSeq(T, 1 + 1, Len(T))
    OBVIOUS
  <2>6. /\ q \in Seq(Cluster) /\ Len(q) = Len(T) - 1 /\ Members(q) \subseteq Members(T)
        /\ \A k \in 1..(Len(T) - 1) : q[k] = T[1 + k]
        /\ NoRepeat(q)
    <3>1. /\ q \in Seq(Cluster) /\ Len(q) = Len(T) - 1 /\ Members(q) \subseteq Members(T)
          /\ \A k \in 1..(Len(T) - 1) : q[k] = T[1 + k]
      BY <1>7, <2>5, Split
    <3>2. NoRepeat(q)
      BY <1>6, <1>7, <2>5, Split
    <3>3. QED  BY <3>1, <3>2
  <2>7. \A k \in 1..(Len(q) - 1) : fat'[q[k]] = q[k + 1]
    <3>1. ASSUME NEW k \in 1..(Len(q) - 1) PROVE fat'[q[k]] = q[k + 1]
      <4>1. PICK m \in Nat : m = Len(T)
        OBVIOUS
      <4>2. k \in 1..((m - 1) - 1) /\ m >= 2
        BY <1>7, <2>6, <4>1
      <4>3. /\ k \in 1..(m - 1) /\ k + 1 \in 1..(m - 1) /\ 1 + (k + 1) = (1 + k) + 1
            /\ 1 + k \in 1..(m - 1) /\ 1 + k \in 1..m /\ 1 + k # 1
        BY ONLY <4>2, m \in Nat
      <4>4. q[k] = T[1 + k] /\ q[k + 1] = T[(1 + k) + 1]
        BY <2>6, <4>1, <4>3
      <4>5. fat[T[1 + k]] = T[(1 + k) + 1] /\ T[1 + k] \in Word
        <5>1. PICK j : j = 1 + k
          OBVIOUS
        <5>2. j \in 1..(Len(T) - 1) /\ j \in 1..Len(T)
          BY <4>1, <4>3, <5>1
        <5>3. fat[T[j]] = T[j + 1]
          BY <1>6, <5>2
        <5>4. T[j] \in Word
          <6>1. T[j] \in Cluster
            BY ONLY <5>2, T \in Seq(Cluster)
          <6>2. QED  BY <6>1, ClusterWord
        <5>5. QED  BY ONLY <5>1, <5>3, <5>4
      <4>6. T[1 + k] # r.clu
        BY <1>6, <1>7, <4>1, <4>3 DEF NoRepeat
      <4>7. QED  BY <1>10, <4>4, <4>5, <4>6
    <3>2. QED  BY <3>1
  <2>8. Members(q) \intersect System = {} /\ \A o \in Owner : Members(q) \intersect Holds(o)' = {}
    BY <1>6, <1>13, <2>6
  <2>9. r'.next = q[1]
    <3>1. fat[T[1]] = T[1 + 1] /\ q[1] = T[1 + 1]
      BY <1>6, <1>7, <2>6
    <3>2. QED  BY <1>1, <1>6, <1>8, <3>1, ClipCluster
  <2>10. r'.i < d.len /\ Len(q) = d.len - r'.i
    <3>1. r'.i = r.i + 1
      BY <1>1, <1>4, <1>6, VolumeAssumption DEF Up
    <3>2. PICK m \in Nat : m = Len(T)
      OBVIOUS
    <3>3. m >= 2 /\ m = d.len - r.i /\ Len(q) = m - 1
      BY <1>6, <1>7, <2>6, <3>2
    <3>4. QED  BY ONLY <1>4, <3>1, <3>3, m \in Nat
  <2>11. Rest(q)'
    BY <1>0, <2>1, <2>6, <2>7, <2>8, <2>9, <2>10 DEF Rest
  <2>12. Len(Owned(Target)') = Dentry'.len - r'.num /\ fat'[Tip(Owned(Target)')] = EXFAT_LASTCLUSTER
    BY <1>1, <2>1, <2>2, <2>3, <2>4
  <2>13. \E U \in Seq(Cluster) : Rest(U)'
    BY <2>6, <2>11
  <2>14. Tip(Owned(Target))' = Tip(Owned(Target)')
    BY DEF Tip
  <2>15. QED  BY <1>0, <1>1, <1>4, <2>1, <2>12, <2>13, <2>14 DEF Trims
<1>17. Writes(r.clu)
  BY <1>6, <1>8, <1>10, <1>11 DEF Writes
<1>18. QED  BY <1>12, <1>13, <1>14, <1>15, <1>16, <1>17, SlotNotRoot

\* Remove cuts nothing: all its clusters are to be freed, and the walk left none to cut off.
LEMMA CutTrims == ASSUME OInv, Cut PROVE r.op = "trim"
<1>0. pc = "cut" /\ Below(r.i, F.len, 1)
  BY DEF Cut
<1>1. r.op \in {"trim", "remove"}
  BY <1>0 DEF OInv, Removes
<1>2. CASE r.op = "remove"
  <2>1. stream[r.slot].len \in Nat /\ r.i \in Nat
    BY <1>2, RemoveFacts
  <2>2. stream[r.slot].len > 0 /\ F.len = stream[r.slot].len
    BY <1>0, <1>2, RemoveLinked
  <2>3. r.i >= stream[r.slot].len
    BY <1>0, <1>2 DEF OInv, Removes
  <2>4. QED  BY <1>0, <2>1, <2>2, <2>3 DEF Below
<1>3. QED  BY <1>1, <1>2

\* Of a trim that cuts, the directory is whole, or shorter already.
LEMMA TrimPhase ==
  ASSUME OInv, r.op = "trim", pc \in {"cut", "unmark"}
  PROVE  \/ pc = "cut" /\ Whole /\ r.i = Dentry.len - r.num - 1
         \/ /\ Len(Owned(Target)) = Dentry.len - r.num
            /\ fat[Tip(Owned(Target))] = EXFAT_LASTCLUSTER
            /\ \E T \in Seq(Cluster) : Rest(T)
BY DEF OInv, Trims, Whole

LEMMA CutKeeps == ASSUME OInv, IInv', Cut PROVE OInv'
<1>0. pc = "cut" /\ pc' = "unmark" /\ UNCHANGED <<bitmap, stream, head>>
  BY DEF Cut, Goto, memory
<1>1. r.op = "trim" /\ r'.op = r.op /\ r'.slot = r.slot
  BY CutTrims, Types DEF Cut, OInv, Registers
<1>2. /\ ListsSound' /\ Owned(Root)' = Owned(Root) /\ UNCHANGED fat[Tip(Owned(Root))]
      /\ \A o \in Owner : Holds(o)' \subseteq Holds(o)
      /\ Trims'
  <2>1. CASE Whole /\ r.i = Dentry.len - r.num - 1
    BY <1>1, <2>1, FirstCut
  <2>2. ASSUME Len(Owned(Target)) = Dentry.len - r.num, fat[Tip(Owned(Target))] = EXFAT_LASTCLUSTER,
               NEW T \in Seq(Cluster), Rest(T)
        PROVE  /\ ListsSound' /\ Owned(Root)' = Owned(Root) /\ UNCHANGED fat[Tip(Owned(Root))]
               /\ \A o \in Owner : Holds(o)' \subseteq Holds(o)
               /\ Trims'
    BY <1>1, <2>2, SecondCut
  <2>3. QED  BY <1>0, <1>1, <2>1, <2>2, TrimPhase
<1>3. DiskInv'
  <2>1. RootEnds'
    BY <1>2 DEF OInv, DiskInv, RootEnds, Tip
  <2>2. DentriesSound'
    BY <1>0 DEF OInv, DiskInv, DentriesSound
  <2>3. QED  BY <1>2, <2>1, <2>2 DEF DiskInv
<1>4. RootHeaded'
  BY <1>0 DEF OInv, RootHeaded
<1>5. Marked'
  <2>1. System \subseteq bitmap /\ \A o \in Owner : Holds(o) \subseteq bitmap
    BY <1>0, <1>1, AllMarked DEF OInv
  <2>2. QED  BY <1>0, <1>2, <2>1, MarkedAtPrompt
<1>6. Room' /\ RootGrows' /\ DirectoryGrows' /\ DirectoryGrowth' /\ EntryIsNew'
  BY <1>0, <1>1, StillFreed DEF Freed
<1>7. Removes'
  BY <1>0, <1>1 DEF Removes
<1>8. QED  BY <1>2, <1>3, <1>4, <1>5, <1>6, <1>7 DEF OInv

LEMMA UnmarkKeeps == ASSUME OInv, IInv', Unmark PROVE OInv'
<1>0. /\ pc = "unmark" /\ pc' = "cut" /\ SaveBitmap(r.next, 0) /\ UNCHANGED <<fat, stream, head>>
  BY DEF Unmark, Goto, memory
<1>1. /\ r'.op = r.op /\ r'.slot = r.slot /\ r'.obj = r.obj /\ r'.num = r.num
      /\ r'.clu = r.next /\ r'.i = r.i
  BY Types DEF Unmark, OInv, Registers
<1>2. r.op = "trim"
  BY <1>0 DEF OInv, Removes
<1>3. Len(Owned(Target)) = Dentry.len - r.num /\ fat[Tip(Owned(Target))] = EXFAT_LASTCLUSTER
  BY <1>0, <1>2, TrimPhase
<1>4. PICK T \in Seq(Cluster) : Rest(T)
  BY <1>0, <1>2, TrimPhase
<1>5. /\ r.i < Dentry.len /\ Len(T) = Dentry.len - r.i /\ T[1] = r.next /\ NoRepeat(T)
      /\ Members(T) \intersect System = {}
      /\ \A o \in Owner : Members(T) \intersect Holds(o) = {}
      /\ \A k \in 1..(Len(T) - 1) : fat[T[k]] = T[k + 1]
  BY <1>0, <1>4 DEF Rest
<1>6. r.next \in Members(T) /\ r.next \in Cluster
  <2>1. Dentry.len \in Nat /\ r.i \in Nat
    BY <1>2, TrimFacts
  <2>2. 1 \in 1..Len(T)
    BY ONLY <1>5, <2>1, T \in Seq(Cluster)
  <2>3. QED  BY <1>5, <2>2 DEF Members
<1>7. bitmap' = bitmap \ {r.next}
  BY <1>0, <1>6 DEF SaveBitmap
<1>8. SameLists /\ DiskInv' /\ \A o \in Owner : Holds(o)' = Holds(o)
  BY <1>0, QuietLists
<1>9. RootHeaded'
  BY <1>0 DEF OInv, RootHeaded
<1>10. Marked'
  <2>1. System \subseteq bitmap /\ \A o \in Owner : Holds(o) \subseteq bitmap
    BY <1>0, <1>2, AllMarked DEF OInv
  <2>2. System \subseteq bitmap'
    BY <1>5, <1>6, <1>7, <2>1
  <2>3. ASSUME NEW o \in Owner PROVE Holds(o)' \subseteq bitmap'
    BY <1>5, <1>6, <1>7, <1>8, <2>1
  <2>4. QED  BY <1>0, <2>2, <2>3, MarkedAtPrompt
<1>11. Room' /\ RootGrows' /\ DirectoryGrows' /\ DirectoryGrowth' /\ EntryIsNew'
  BY <1>0, <1>1, <1>2, StillFreed DEF Freed
<1>12. Trims'
  <2>1. Target' = Target /\ Dentry' = Dentry
    BY <1>0, <1>1, SameTarget
  <2>2. Target \in Owner
    BY <1>2, TrimFacts
  <2>3. Owned(Target)' = Owned(Target)
    BY <1>8, <2>1, <2>2 DEF SameLists, Owned
  <2>4. Rest(T)'
    BY <1>0, <1>1, <1>5, <1>8, <2>1 DEF Rest
  <2>5. \E U \in Seq(Cluster) : Rest(U)'
    BY <2>4
  <2>6. Len(Owned(Target)') = Dentry'.len - r'.num /\ fat'[Tip(Owned(Target)')] = EXFAT_LASTCLUSTER
    BY <1>0, <1>1, <1>3, <2>1, <2>3
  <2>7. Tip(Owned(Target))' = Tip(Owned(Target)')
    BY DEF Tip
  <2>8. /\ r.obj # RootOffset /\ Target # Root
        /\ head[r.obj] = Dentry /\ ~Dentry.nofat /\ r.num < Dentry.len
    BY <1>2 DEF OInv, Trims
  <2>9. QED  BY <1>0, <1>1, <1>2, <2>1, <2>5, <2>6, <2>7, <2>8 DEF Trims
<1>13. Removes'
  BY <1>0, <1>1, <1>2 DEF Removes
<1>14. QED  BY <1>8, <1>9, <1>10, <1>11, <1>12, <1>13 DEF OInv

LEMMA CutDoneKeeps == ASSUME OInv, IInv', CutDone PROVE OInv'
<1>0. /\ pc = "cut" /\ pc' = "shrink" /\ UNCHANGED <<volume, memory>> /\ r' = r
      /\ ~Below(r.i, F.len, 1) /\ UNCHANGED <<fat, stream, head, child>>
  BY DEF CutDone, Goto, volume, memory
<1>1. r.op \in {"trim", "remove"}
  BY <1>0 DEF OInv, Removes
<1>2. /\ SameLists /\ DiskInv' /\ RootHeaded' /\ Marked'
      /\ Room' /\ RootGrows' /\ DirectoryGrows' /\ DirectoryGrowth' /\ EntryIsNew'
  BY <1>0, FreedQuiet DEF Freed
<1>3. CASE r.op = "trim"
  <2>1. /\ Target \in Owner /\ Dentry.len \in Nat /\ r.num \in Nat /\ r.num < Dentry.len /\ r.i \in Nat /\ F = Dentry
    BY <1>3, TrimFacts
  <2>2. r.i >= Dentry.len - 1
    BY <1>0, <2>1 DEF Below
  <2>3. Len(Owned(Target)) = Dentry.len - r.num /\ fat[Tip(Owned(Target))] = EXFAT_LASTCLUSTER
    <3>1. CASE Whole /\ r.i = Dentry.len - r.num - 1
      <4>1. r.num = 0
        BY ONLY <2>1, <2>2, <3>1
      <4>2. Exact(Target)
        BY <3>1 DEF Whole
      <4>3. Len(Owned(Target)) = Dentry.len /\ fat[Tip(Owned(Target))] = EXFAT_LASTCLUSTER
        BY <1>3, <4>2, TrimExact
      <4>4. Dentry.len - r.num = Dentry.len
        BY <2>1, <4>1
      <4>5. QED  BY <4>3, <4>4
    <3>2. QED  BY <1>0, <1>3, <3>1, TrimPhase
  <2>4. Target' = Target /\ Dentry' = Dentry
    BY <1>0, SameTarget
  <2>5. Owned(Target)' = Owned(Target)
    BY <1>2, <2>1, <2>4 DEF SameLists, Owned
  <2>6. Len(Owned(Target)') = Dentry'.len - r'.num /\ fat'[Tip(Owned(Target)')] = EXFAT_LASTCLUSTER
    BY <1>0, <2>3, <2>4, <2>5
  <2>7. Tip(Owned(Target))' = Tip(Owned(Target)')
    BY DEF Tip
  <2>8. /\ r.obj # RootOffset /\ Target # Root
        /\ head[r.obj] = Dentry /\ ~Dentry.nofat /\ r.num < Dentry.len
    BY <1>3 DEF OInv, Trims
  <2>9. Trims'
    BY <1>0, <1>3, <2>4, <2>6, <2>7, <2>8 DEF Trims
  <2>10. Removes'
    BY <1>0, <1>3 DEF Removes
  <2>11. QED  BY <1>2, <2>9, <2>10 DEF OInv
<1>4. CASE r.op = "remove"
  <2>1. r.slot \in Owner
    BY <1>4, RemoveFacts
  <2>2. Owned(r.slot)' = Owned(r.slot)
    BY <1>0, <1>2, <2>1 DEF SameLists, Owned
  <2>3. Exact(r.slot)'
    BY <1>0, <1>4, <2>2 DEF OInv, Removes, Exact
  <2>4. Trims'
    BY <1>0, <1>4 DEF Trims
  <2>5. Removes'
    BY <1>0, <1>4, <2>3 DEF OInv, Removes
  <2>6. QED  BY <1>2, <2>4, <2>5 DEF OInv
<1>5. QED  BY <1>1, <1>3, <1>4

-----------------------------------------------------------------------------
(* exfat_free_clusters: the new size, and the end of exfat_remove_entry.   *)

\* The size is written that the trimmed directory has.
LEMMA ShrinkTrimWrites ==
  ASSUME OInv, IInv', Shrink, r.op = "trim"
  PROVE  /\ UNCHANGED <<fat, bitmap>> /\ Return
         /\ \A c \in FirstCluster \ {r.obj} : head'[c] = head[c]
         /\ \A s \in Slot : s # Target => stream'[s] = stream[s]
         /\ stream'[Target].clu = r.obj /\ r.obj # 0
         /\ OwnedIn(fat', stream', Target) = Owned(Target)
<1>1. PICK t : t = Target
  OBVIOUS
<1>2. PICK d : d = Dentry
  OBVIOUS
<1>3. /\ t \in Slot /\ t # Root /\ t = StreamOf(r.obj) /\ d = stream[t] /\ d.live /\ d.clu = r.obj /\ d.nofat = FALSE
      /\ r.obj \in Cluster /\ r.obj # RootOffset
      /\ d.len \in Nat /\ r.num \in Nat /\ r.num < d.len /\ F = d
      /\ Owned(t) \in Seq(Cluster) /\ Trace(fat, r.obj, d.len, Owned(t))
  BY <1>1, <1>2, TrimFacts
<1>4. pc = "shrink"
  BY DEF Shrink
<1>5. Len(Owned(t)) = d.len - r.num /\ fat[Tip(Owned(t))] = EXFAT_LASTCLUSTER
  BY <1>1, <1>2, <1>4 DEF OInv, Trims, Whole
<1>6. PICK n \in Nat : n = d.len - r.num
  BY <1>3
<1>7. n > 0 /\ d.len > r.num
  BY ONLY <1>3, <1>6, n \in Nat
<1>8. /\ SetF(n, F.nofat) /\ UpdateFilesize(r.obj, [F EXCEPT !.len = n]) /\ Finish /\ UNCHANGED <<fat, bitmap>>
  BY <1>3, <1>6, <1>7 DEF Shrink
<1>9. Return
  BY <1>8 DEF Finish
<1>10. \A c \in FirstCluster \ {r.obj} : head'[c] = head[c]
  BY <1>8, Types DEF SetF, OInv
<1>11. [F EXCEPT !.len = n].len = n /\ [F EXCEPT !.len = n].nofat = FALSE
  <2>1. d \in Entry
    BY <1>3, Types DEF OInv
  <2>2. QED  BY <1>3, <2>1 DEF Entry
<1>12. stream' = [stream EXCEPT ![t].len = n, ![t].nofat = FALSE]
  <2>1. StreamOf(r.obj) # 0
    BY <1>3 DEF Root
  <2>2. stream' = [stream EXCEPT ![t].len = [F EXCEPT !.len = n].len, ![t].nofat = [F EXCEPT !.len = n].nofat]
    BY <1>3, <1>8, <2>1 DEF UpdateFilesize
  <2>3. QED  BY <1>11, <2>2
<1>13. /\ \A s \in Slot : s # t => stream'[s] = stream[s]
       /\ stream'[t].live /\ stream'[t].clu = r.obj /\ stream'[t].nofat = FALSE /\ stream'[t].len = n
  <2>1. stream \in [Slot -> Entry]
    BY Types DEF OInv
  <2>2. QED  BY <1>3, <1>12, <2>1 DEF Entry
<1>14. OwnedIn(fat', stream', t) = Owned(t)
  <2>1. PICK s \in Seq(Cluster) : s = Owned(t)
    BY <1>3
  <2>2. Trace(fat, r.obj, d.len, s) /\ Len(s) = n
    BY <1>3, <1>5, <1>6, <2>1
  <2>3. Trace(fat, r.obj, n, s)
    <3>1. Len(s) \in 1..(IF n <= 1 THEN 1 ELSE n) /\ Len(s) = (IF n <= 1 THEN 1 ELSE n)
      BY ONLY <1>7, <2>2, n \in Nat
    <3>2. QED  BY <2>2, <3>1 DEF Trace
  <2>4. LinkedFrom(fat, r.obj, n) = s
    <3>1. fat \in [Word -> Word]
      BY Types DEF OInv
    <3>2. QED  BY <1>3, <2>3, <3>1, TraceIs
  <2>5. OwnedIn(fat', stream', t) = LinkedFrom(fat', stream'[t].clu, stream'[t].len)
    <3>1. t \in Slot /\ stream'[t].live /\ stream'[t].clu \in Cluster /\ stream'[t].nofat = FALSE
      BY <1>3, <1>13
    <3>2. QED  BY ONLY <3>1, LinkedList, Zenon
  <2>6. QED  BY <1>8, <1>13, <2>1, <2>4, <2>5
<1>15. r.obj # 0
  BY <1>3, ClusterWord
<1>16. QED  BY <1>1, <1>8, <1>9, <1>10, <1>13, <1>14, <1>15

\* The size is written that a removed directory has: none, which leaves it its first cluster.
LEMMA ShrinkRemoveWrites ==
  ASSUME OInv, IInv', Shrink, r.op = "remove"
  PROVE  /\ UNCHANGED <<fat, bitmap, head>> /\ pc' = "erase" /\ r' = r
         /\ \A s \in Slot : s # r.slot => stream'[s] = stream[s]
         /\ stream'[r.slot].live /\ stream'[r.slot].clu # 0
         /\ \E Q \in Seq(Cluster) :
              /\ OwnedIn(fat', stream', r.slot) = Q /\ Owned(r.slot) # << >> /\ Q = SubSeq(Owned(r.slot), 1, 1)
              /\ Members(Q) \subseteq Holds(r.slot) /\ NoRepeat(Q)
<1>1. PICK t : t = r.slot
  OBVIOUS
<1>2. pc = "shrink"
  BY DEF Shrink
<1>3. t \in Slot /\ t \in Owner /\ t # Root /\ stream[t].live /\ stream[t] \in Entry /\ stream[t].len \in Nat
  BY <1>1, RemoveFacts
<1>4. /\ stream[t].clu \in Cluster /\ stream[t].nofat = FALSE /\ F = stream[t]
      /\ r.obj = stream[t].clu /\ r.num = stream[t].len
  BY <1>1, <1>2, RemoveLinked
<1>5. r.obj # RootOffset /\ StreamOf(r.obj) = t /\ Len(Owned(t)) >= 1 /\ Owned(t)[1] = r.obj /\ t # 0
  BY <1>3, <1>4, OneBegins DEF OInv, DiskInv, Root
<1>6. /\ SetF(0, F.nofat) /\ UpdateFilesize(r.obj, [F EXCEPT !.len = 0]) /\ Finish /\ UNCHANGED <<fat, bitmap>>
  <2>1. ~(F.len > r.num)
    BY <1>3, <1>4
  <2>2. QED  BY <2>1 DEF Shrink
<1>7. pc' = "erase" /\ r' = r /\ UNCHANGED head
  BY <1>6 DEF Finish, Goto, SetF
<1>8. stream' = [stream EXCEPT ![t].len = 0, ![t].nofat = FALSE]
  <2>1. [F EXCEPT !.len = 0].len = 0 /\ [F EXCEPT !.len = 0].nofat = FALSE
    BY <1>3, <1>4 DEF Entry
  <2>2. stream' = [stream EXCEPT ![t].len = [F EXCEPT !.len = 0].len, ![t].nofat = [F EXCEPT !.len = 0].nofat]
    BY <1>5, <1>6 DEF UpdateFilesize
  <2>3. QED  BY <2>1, <2>2
<1>9. /\ \A s \in Slot : s # t => stream'[s] = stream[s]
      /\ stream'[t].live /\ stream'[t].clu = r.obj /\ stream'[t].nofat = FALSE /\ stream'[t].len = 0
  <2>1. stream \in [Slot -> Entry]
    BY Types DEF OInv
  <2>2. QED  BY <1>3, <1>4, <1>8, <2>1 DEF Entry
<1>10. PICK s \in Seq(Cluster) : s = Owned(t)
  BY <1>3, ListType DEF OInv, DiskInv
<1>11. PICK q : q = SubSeq(s, 1, 1)
  OBVIOUS
<1>12. 1 \in 0..Len(s) /\ 1 \in 1..1 /\ 1 \in 1..Len(s)
  BY <1>5, <1>10
<1>13. q \in Seq(Cluster) /\ Len(q) = 1 /\ q[1] = r.obj /\ Members(q) \subseteq Members(s)
  BY <1>5, <1>10, <1>11, <1>12, Split
<1>14. NoRepeat(q)
  BY <1>13 DEF NoRepeat
<1>15. Trace(fat, r.obj, 0, q)
  BY <1>13 DEF Trace
<1>16. OwnedIn(fat', stream', t) = q
  <2>1. t \in Slot /\ stream'[t].live /\ stream'[t].clu \in Cluster /\ stream'[t].nofat = FALSE
    BY <1>3, <1>4, <1>9
  <2>2. OwnedIn(fat', stream', t) = LinkedFrom(fat', stream'[t].clu, stream'[t].len)
    BY ONLY <2>1, LinkedList, Zenon
  <2>3. fat \in [Word -> Word] /\ 0 \in Nat /\ r.obj \in Cluster
    BY <1>4, Types DEF OInv
  <2>4. LinkedFrom(fat, r.obj, 0) = q
    BY ONLY <1>15, <2>3, TraceIs
  <2>5. QED  BY <1>6, <1>9, <2>2, <2>4
<1>17. Members(s) = Holds(t) /\ s # << >>
  BY <1>5, <1>10 DEF Members, Holds
<1>18. stream'[t].clu # 0
  BY <1>4, <1>9, ClusterWord
<1>19. QED  BY <1>1, <1>6, <1>7, <1>9, <1>10, <1>11, <1>13, <1>14, <1>16, <1>17, <1>18

LEMMA ShrinkKeeps == ASSUME OInv, IInv', Shrink PROVE OInv'
<1>0. pc = "shrink"
  BY DEF Shrink
<1>1. r.op \in {"trim", "remove"}
  BY <1>0 DEF OInv, Removes
<1>2. CASE r.op = "trim"
  <2>1. PICK t : t = Target
    OBVIOUS
  <2>2. /\ UNCHANGED <<fat, bitmap>> /\ Return
        /\ \A c \in FirstCluster \ {r.obj} : head'[c] = head[c]
        /\ \A s \in Slot : s # t => stream'[s] = stream[s]
        /\ stream'[t].clu = r.obj /\ r.obj # 0
        /\ OwnedIn(fat', stream', t) = Owned(t)
    BY <1>2, <2>1, ShrinkTrimWrites
  <2>3. t \in Slot /\ t \in Owner /\ r.obj # RootOffset
    BY <1>2, <2>1, TrimFacts
  <2>4. SameLists
    BY <2>2, <2>3, OthersKept DEF SameLists, OInv, Owned
  <2>5. \A o \in Owner : Owned(o)' = Owned(o) /\ Holds(o)' = Holds(o)
    BY <2>4, SameHolds
  <2>6. DiskInv'
    <3>1. ListsSound'
      BY <2>5 DEF ListsSound, OInv, DiskInv
    <3>2. RootEnds'
      BY <2>2, <2>5, SlotNotRoot DEF RootEnds, Tip, OInv, DiskInv
    <3>3. DentriesSound'
      BY <2>2 DEF DentriesSound, OInv, DiskInv
    <3>4. QED  BY <3>1, <3>2, <3>3 DEF DiskInv
  <2>7. RootHeaded'
    <3>1. RootOffset \in FirstCluster
      BY ClusterWord DEF FirstCluster
    <3>2. QED  BY <2>2, <2>3, <3>1 DEF RootHeaded, OInv
  <2>8. Marked'
    <3>1. System \subseteq bitmap /\ \A o \in Owner : Holds(o) \subseteq bitmap
      BY <1>0, <1>2, AllMarked DEF OInv
    <3>2. pc' # "mark"
      BY <2>2 DEF Return
    <3>3. QED  BY <2>2, <2>5, <3>1, <3>2, MarkedAtPrompt
  <2>9. QED  BY <2>2, <2>6, <2>7, <2>8, AtPrompt DEF OInv
<1>3. CASE r.op = "remove"
  <2>1. PICK t : t = r.slot
    OBVIOUS
  <2>2. /\ UNCHANGED <<fat, bitmap, head>> /\ pc' = "erase" /\ r' = r
        /\ \A s \in Slot : s # t => stream'[s] = stream[s]
        /\ stream'[t].live /\ stream'[t].clu # 0
    BY <1>3, <2>1, ShrinkRemoveWrites
  <2>3. PICK Q \in Seq(Cluster) : OwnedIn(fat', stream', t) = Q /\ Members(Q) \subseteq Holds(t) /\ NoRepeat(Q)
    BY <1>3, <2>1, ShrinkRemoveWrites
  <2>4. t \in Slot /\ t \in Owner /\ t # Root
    BY <1>3, <2>1, RemoveFacts
  <2>5. \A o \in Owner \ {t} : OwnedIn(fat', stream', o) = OwnedIn(fat, stream, o)
    BY <2>2, <2>4, OthersKept DEF OInv
  <2>6. ListsSound' /\ \A o \in Owner \ {t} : Owned(o)' = Owned(o) /\ Holds(o)' = Holds(o)
    <3>1. Members(Q) \intersect System = {} /\ \A o \in Owner \ {t} : Members(Q) \intersect Holds(o) = {}
      BY <2>3, <2>4 DEF OInv, DiskInv, ListsSound
    <3>2. QED  BY <2>3, <2>4, <2>5, <3>1, OneListChanges DEF OInv, DiskInv
  <2>7. DiskInv'
    <3>1. RootEnds'
      BY <2>2, <2>4, <2>6, SlotNotRoot DEF RootEnds, Tip, OInv, DiskInv
    <3>2. DentriesSound'
      BY <2>2 DEF DentriesSound, OInv, DiskInv
    <3>3. QED  BY <2>6, <3>1, <3>2 DEF DiskInv
  <2>8. RootHeaded'
    BY <2>2 DEF RootHeaded, OInv
  <2>9. Marked'
    <3>1. System \subseteq bitmap'
      BY <2>2 DEF OInv, Marked
    <3>2. ASSUME NEW o \in Owner, o # t PROVE Holds(o)' \subseteq bitmap'
      BY <1>0, <2>1, <2>2, <2>6, <3>2 DEF OInv, Marked
    <3>3. QED  BY <1>3, <2>1, <2>2, <3>1, <3>2 DEF Marked
  <2>10. Room' /\ RootGrows' /\ DirectoryGrows' /\ DirectoryGrowth' /\ EntryIsNew'
    BY <1>3, <2>2, StillFreed DEF Freed
  <2>11. Trims'
    BY <1>3, <2>2 DEF Trims
  <2>12. Removes'
    <3>1. \A s \in Slot \ {t} : r.data[s] = stream'[s]
      BY <1>3, <2>1, <2>2 DEF OInv, Removes
    <3>2. QED  BY <1>3, <2>1, <2>2, <2>4, <3>1 DEF Removes
  <2>13. QED  BY <2>7, <2>8, <2>9, <2>10, <2>11, <2>12 DEF OInv
<1>4. QED  BY <1>1, <1>2, <1>3

LEMMA EraseWrites ==
  ASSUME OInv, Erase
  PROVE  /\ r.op = "remove" /\ r.slot \in Slot /\ r.slot \in Owner /\ r.slot # Root
         /\ \A s \in Slot : s # r.slot => stream'[s] = stream[s]
         /\ stream'[r.slot].live = FALSE
         /\ OwnedIn(fat', stream', r.slot) = << >>
<1>0. pc = "erase" /\ stream' = [r.data EXCEPT ![r.slot] = NoEntry]
  BY DEF Erase
<1>1. r.op = "remove"
  BY <1>0 DEF OInv, Removes, Trims
<1>2. r.slot \in Slot /\ r.slot \in Owner /\ r.slot # Root
  BY <1>1, RemoveFacts
<1>3. r.data \in [Slot -> Entry]
  BY Types DEF OInv, Registers
<1>4. \A s \in Slot \ {r.slot} : r.data[s] = stream[s]
  BY <1>1 DEF OInv, Removes
<1>5. \A s \in Slot : s # r.slot => stream'[s] = stream[s]
  BY <1>0, <1>2, <1>3, <1>4
<1>6. stream'[r.slot].live = FALSE
  <2>1. stream'[r.slot] = NoEntry
    BY <1>0, <1>2, <1>3
  <2>2. NoEntry.live = FALSE
    BY DEF NoEntry
  <2>3. QED  BY <2>1, <2>2
<1>7. OwnedIn(fat', stream', r.slot) = << >>
  <2>1. ~stream'[r.slot].live
    BY <1>6
  <2>2. QED  BY <1>2, <2>1, SlotNotRoot DEF OwnedIn, Root
<1>8. QED  BY <1>1, <1>2, <1>5, <1>6, <1>7

LEMMA EraseKeeps == ASSUME OInv, IInv', Erase PROVE OInv'
<1>0. pc = "erase" /\ Reload /\ Return /\ UNCHANGED <<fat, bitmap>>
  BY DEF Erase
<1>1. PICK t : t = r.slot
  OBVIOUS
<1>2. /\ t \in Slot /\ t \in Owner /\ t # Root
      /\ \A s \in Slot : s # t => stream'[s] = stream[s]
      /\ stream'[t].live = FALSE
      /\ OwnedIn(fat', stream', t) = << >>
  BY <1>1, EraseWrites
<1>3. \A o \in Owner \ {t} : OwnedIn(fat', stream', o) = OwnedIn(fat, stream, o)
  BY <1>0, <1>2, OthersKept DEF OInv
<1>4. << >> \in Seq(Cluster) /\ NoRepeat(<< >>) /\ Members(<< >>) = {}
  BY DEF NoRepeat, Members
<1>5. ListsSound' /\ Holds(t)' = {} /\ \A o \in Owner \ {t} : Owned(o)' = Owned(o) /\ Holds(o)' = Holds(o)
  <2>1. Members(<< >>) \intersect System = {} /\ \A o \in Owner \ {t} : Members(<< >>) \intersect Holds(o) = {}
    BY <1>4
  <2>2. QED  BY <1>2, <1>3, <1>4, <2>1, OneListChanges DEF OInv, DiskInv
<1>6. DiskInv'
  <2>1. RootEnds'
    BY <1>0, <1>2, <1>5, SlotNotRoot DEF RootEnds, Tip, OInv, DiskInv
  <2>2. DentriesSound'
    BY <1>2 DEF DentriesSound, OInv, DiskInv
  <2>3. QED  BY <1>5, <2>1, <2>2 DEF DiskInv
<1>7. RootHeaded'
  BY <1>0, ReloadRoot DEF OInv
<1>8. Marked'
  <2>1. System \subseteq bitmap'
    BY <1>0 DEF OInv, Marked
  <2>2. ASSUME NEW o \in Owner PROVE Holds(o)' \subseteq bitmap'
    BY <1>0, <1>1, <1>2, <1>5 DEF OInv, Marked
  <2>3. pc' # "mark"
    BY <1>0 DEF Return
  <2>4. QED  BY <2>1, <2>2, <2>3, MarkedAtPrompt
<1>9. QED  BY <1>0, <1>6, <1>7, <1>8, AtPrompt DEF OInv

-----------------------------------------------------------------------------
(* A command is typed with care.                                           *)
LEMMA InStepDirectory ==
  ASSUME OInv, NEW c \in FirstCluster, InStep(c), c # RootOffset
  PROVE  /\ StreamOf(c) \in Slot /\ StreamOf(c) \in Owner /\ StreamOf(c) # Root
         /\ stream[StreamOf(c)].live /\ stream[StreamOf(c)].clu = c /\ c \in Cluster
         /\ head[c] = stream[StreamOf(c)] /\ stream[StreamOf(c)].len \in Nat /\ stream[StreamOf(c)].len > 0
         /\ Exact(StreamOf(c))
         /\ Len(Owned(StreamOf(c))) >= 1 /\ Owned(StreamOf(c))[1] = c
<1>1. /\ StreamOf(c) # 0 /\ head[c] = stream[StreamOf(c)] /\ stream[StreamOf(c)].len > 0 /\ Exact(StreamOf(c))
  BY DEF InStep
<1>2. StreamOf(c) \in Slot /\ stream[StreamOf(c)].live /\ stream[StreamOf(c)].clu = c
  BY <1>1, StreamOfIs
<1>3. StreamOf(c) \in Owner /\ StreamOf(c) # Root
  BY <1>2, SlotNotRoot
<1>4. stream[StreamOf(c)].len \in Nat
  BY <1>2, Types, VolumeAssumption DEF OInv, Entry
<1>5. c \in Cluster
  <2>1. c # 0
    BY <1>1, <1>2 DEF OInv, DiskInv, DentriesSound
  <2>2. QED  BY <2>1 DEF FirstCluster
<1>6. Len(Owned(StreamOf(c))) >= 1 /\ Owned(StreamOf(c))[1] = c
  BY <1>2, <1>5, OneBegins DEF OInv, DiskInv
<1>7. QED  BY <1>1, <1>2, <1>3, <1>4, <1>5, <1>6

LEMMA InStepRoot ==
  ASSUME OInv, InStep(RootOffset)
  PROVE  /\ ~head[RootOffset].nofat
         /\ Len(Owned(Root)) \in Nat /\ Len(Owned(Root)) >= 1 /\ Owned(Root)[1] = RootOffset
<1>1. ~head[RootOffset].nofat
  <2>1. SUFFICES ASSUME LET s == StreamOf(RootOffset) IN s # 0 /\ head[RootOffset] = stream[s] /\ stream[s].len > 0 /\ Exact(s)
                 PROVE  FALSE
    BY DEF InStep
  <2>2. StreamOf(RootOffset) # 0
    BY <2>1
  <2>3. StreamOf(RootOffset) \in Slot /\ stream[StreamOf(RootOffset)].live /\ stream[StreamOf(RootOffset)].clu = RootOffset
    BY <2>2, StreamOfIs
  <2>4. QED  BY <2>3, ClusterWord, OneBegins DEF OInv, DiskInv
<1>2. Root \in Owner
  BY SlotNotRoot
<1>3. Trace(fat, RootOffset, ClusterCount, Owned(Root)) /\ Len(Owned(Root)) \in Nat
  BY <1>2, RootTrace, ListType DEF OInv, DiskInv
<1>4. Owned(Root)[1] = RootOffset /\ Len(Owned(Root)) >= 1
  BY <1>3 DEF Trace
<1>5. QED  BY <1>1, <1>3, <1>4

\* Nothing but the registers changes when a command is typed.
LEMMA CallQuiet ==
  ASSUME OInv, UNCHANGED <<volume, memory>>, pc = "idle", pc' # "mark"
  PROVE  /\ UNCHANGED <<fat, stream, bitmap, alloc_table, head, child>>
         /\ SameLists /\ DiskInv' /\ RootHeaded' /\ \A o \in Owner : Holds(o)' = Holds(o) /\ Owned(o)' = Owned(o)
         /\ Marked'
<1>0. UNCHANGED <<fat, stream, bitmap, alloc_table, head, child>>
  BY DEF volume, memory
<1>1. SameLists /\ DiskInv' /\ \A o \in Owner : Holds(o)' = Holds(o)
  BY <1>0, QuietLists
<1>2. RootHeaded'
  BY <1>0 DEF OInv, RootHeaded
<1>3. r.op # "remove"
  BY DEF OInv, Removes
<1>4. Marked'
  <2>1. System \subseteq bitmap /\ \A o \in Owner : Holds(o) \subseteq bitmap
    BY <1>3, AllMarked DEF OInv
  <2>2. QED  BY <1>0, <1>1, <2>1, MarkedAtPrompt
<1>5. \A o \in Owner : Owned(o)' = Owned(o)
  BY <1>1 DEF SameLists, Owned
<1>6. QED  BY <1>0, <1>1, <1>2, <1>4, <1>5

LEMMA CallFillKeeps ==
  ASSUME OInv, IInv', NEW c \in FirstCluster, NEW n \in 1..MaxFill, CallFill(c, n), CarefulCall
  PROVE  OInv'
<1>0. /\ pc = "idle" /\ pc' = "last" /\ UNCHANGED <<volume, memory>>
      /\ r' = [NoCall EXCEPT !.op = "fill", !.obj = c, !.num = n, !.clu = c]
  BY DEF CallFill, Goto
<1>1. r'.op = "fill" /\ r'.obj = c /\ r'.num = n /\ r'.clu = c /\ r'.i = 0
  BY <1>0 DEF NoCall
<1>2. /\ UNCHANGED <<fat, stream, bitmap, alloc_table, head, child>>
      /\ SameLists /\ DiskInv' /\ RootHeaded' /\ \A o \in Owner : Holds(o)' = Holds(o) /\ Owned(o)' = Owned(o)
      /\ Marked'
  BY <1>0, CallQuiet
<1>3. Cardinality(Scanned \ alloc_table) >= n /\ InStep(c)
  BY <1>0, <1>1 DEF CarefulCall, CarefulGrowth
<1>4. Room'
  BY <1>0, <1>1, <1>2, <1>3 DEF Room, Free
<1>5. DirectoryGrowth' /\ Trims' /\ Removes'
  BY <1>0, <1>1 DEF DirectoryGrowth, Trims, Removes
<1>6. EntryIsNew'
  BY <1>0, <1>1 DEF EntryIsNew
<1>7. RootGrows'
  <2>1. SUFFICES ASSUME c = RootOffset PROVE RootGrows'
    BY <1>1 DEF RootGrows
  <2>2. /\ ~head[RootOffset].nofat
        /\ Len(Owned(Root)) \in Nat /\ Len(Owned(Root)) >= 1 /\ Owned(Root)[1] = RootOffset
    BY <1>3, <2>1, InStepRoot
  <2>3. Owned(Root)' = Owned(Root)
    BY <1>2, SlotNotRoot
  <2>4. 0 < Len(Owned(Root)) /\ 0 + 1 = 1
    BY <2>2
  <2>5. QED  BY <1>0, <1>1, <1>2, <2>1, <2>2, <2>3, <2>4 DEF RootGrows
<1>8. DirectoryGrows'
  <2>1. SUFFICES ASSUME c # RootOffset PROVE DirectoryGrows'
    BY <1>1 DEF DirectoryGrows
  <2>2. PICK t : t = StreamOf(c)
    OBVIOUS
  <2>3. /\ t \in Owner /\ t # Root /\ head[c] = stream[t] /\ stream[t].len \in Nat /\ stream[t].len > 0
        /\ Exact(t) /\ Owned(t)[1] = c
    BY <1>3, <2>1, <2>2, InStepDirectory
  <2>4. Target' = t /\ Dentry' = stream[t]
    BY <1>1, <1>2, <2>1, <2>2 DEF Target, Dentry, StreamOf
  <2>5. Owned(t)' = Owned(t)
    BY <1>2, <2>3
  <2>6. Exact(t)'
    BY <1>2, <2>3, <2>5 DEF Exact
  <2>7. Owned(Target)' = Owned(t)
    BY <2>4, <2>5 DEF Owned
  <2>8. Exact(Target)'
    BY <2>4, <2>6 DEF Exact, Owned
  <2>9. 0 < stream[t].len /\ 0 + 1 = 1
    BY <2>3
  <2>10. QED  BY <1>0, <1>1, <1>2, <2>1, <2>3, <2>4, <2>7, <2>8, <2>9 DEF DirectoryGrows
<1>9. QED  BY <1>2, <1>4, <1>5, <1>6, <1>7, <1>8 DEF OInv

LEMMA CallCreateKeeps ==
  ASSUME OInv, IInv', NEW s \in Slot, NEW passes \in 1..2, NEW full \in BOOLEAN,
         CallCreate(s, passes, full), CarefulCall
  PROVE  OInv'
<1>0. /\ pc = "idle" /\ pc' \in {"last", "new"} /\ UNCHANGED <<volume, memory>> /\ ~stream[s].live
      /\ r' = [NoCall EXCEPT !.op = "create", !.slot = s, !.obj = RootOffset, !.num = 1,
                         !.clu = RootOffset, !.next = EXFAT_FIRST_CLUSTER, !.passes = passes]
  BY DEF CallCreate, Goto
<1>1. r'.op = "create" /\ r'.slot = s /\ r'.obj = RootOffset /\ r'.num = 1 /\ r'.clu = RootOffset /\ r'.i = 0
  BY <1>0 DEF NoCall
<1>2. /\ UNCHANGED <<fat, stream, bitmap, alloc_table, head, child>>
      /\ SameLists /\ DiskInv' /\ RootHeaded' /\ \A o \in Owner : Holds(o)' = Holds(o) /\ Owned(o)' = Owned(o)
      /\ Marked'
  BY <1>0, CallQuiet
<1>3. EntryIsNew'
  BY <1>0, <1>1, <1>2 DEF EntryIsNew
<1>4. DirectoryGrowth' /\ Trims' /\ Removes' /\ DirectoryGrows'
  BY <1>0, <1>1 DEF DirectoryGrowth, DirectoryGrows, Trims, Removes
<1>5. CASE pc' = "new"
  <2>1. Room' /\ RootGrows'
    BY <1>5 DEF Room, RootGrows, Growing
  <2>2. QED  BY <1>2, <1>3, <1>4, <2>1 DEF OInv
<1>6. CASE pc' = "last"
  <2>1. Cardinality(Scanned \ alloc_table) >= 1 /\ InStep(RootOffset)
    BY <1>1, <1>6 DEF CarefulCall, CarefulGrowth
  <2>2. Room'
    BY <1>1, <1>2, <1>6, <2>1 DEF Room, Free
  <2>3. /\ ~head[RootOffset].nofat
        /\ Len(Owned(Root)) \in Nat /\ Len(Owned(Root)) >= 1 /\ Owned(Root)[1] = RootOffset
    BY <2>1, InStepRoot
  <2>4. Owned(Root)' = Owned(Root)
    BY <1>2, SlotNotRoot
  <2>5. 0 < Len(Owned(Root)) /\ 0 + 1 = 1
    BY <2>3
  <2>6. RootGrows'
    BY <1>1, <1>2, <1>6, <2>3, <2>4, <2>5 DEF RootGrows
  <2>7. QED  BY <1>2, <1>3, <1>4, <2>2, <2>6 DEF OInv
<1>7. QED  BY <1>0, <1>5, <1>6

\* Nothing is under way at the prompt.
LEMMA StillIdle ==
  ASSUME OInv, pc = "idle", UNCHANGED <<volume, pc, r>>
  PROVE  Room' /\ RootGrows' /\ DirectoryGrows' /\ DirectoryGrowth' /\ EntryIsNew' /\ Trims' /\ Removes'
<1> UNCHANGED <<stream, pc, r>>
  BY DEF volume
<1>1. r.op # "trim" /\ r.op # "remove"
  BY DEF OInv, Trims, Removes
<1>2. Room' /\ RootGrows' /\ DirectoryGrows' /\ DirectoryGrowth'
  BY DEF Room, RootGrows, DirectoryGrows, DirectoryGrowth, Growing
<1>3. EntryIsNew'
  BY DEF OInv, EntryIsNew
<1>4. Trims' /\ Removes'
  BY <1>1 DEF Trims, Removes
<1>5. QED  BY <1>2, <1>3, <1>4

LEMMA CallReloadKeeps == ASSUME OInv, IInv', CallReload PROVE OInv'
<1>0. pc = "idle" /\ UNCHANGED <<volume, pc, r>> /\ Reload /\ UNCHANGED <<fat, stream, bitmap>>
  BY DEF CallReload, volume
<1>1. SameLists /\ DiskInv' /\ \A o \in Owner : Holds(o)' = Holds(o)
  BY <1>0, QuietLists
<1>2. RootHeaded'
  BY <1>0, ReloadRoot DEF OInv
<1>3. Marked'
  BY <1>0, <1>1 DEF OInv, Marked
<1>4. QED  BY <1>0, <1>1, <1>2, <1>3, StillIdle DEF OInv

LEMMA CallTrimKeeps ==
  ASSUME OInv, IInv', NEW c \in FirstCluster, NEW n \in 0..MaxLen, CallTrim(c, n), CarefulCall
  PROVE  OInv'
<1>0. /\ pc = "idle" /\ UNCHANGED <<volume, memory>>
      /\ FreeFrom([NoCall EXCEPT !.op = "trim", !.obj = c, !.num = n, !.clu = c], head[c])
  BY DEF CallTrim
<1>1. /\ r' = [[NoCall EXCEPT !.op = "trim", !.obj = c, !.num = n, !.clu = c]
                  EXCEPT !.i = IF head[c].nofat THEN head[c].len - n ELSE 0]
      /\ pc' = IF head[c].nofat THEN "clear" ELSE "walk"
  BY <1>0 DEF FreeFrom, Goto, NoCall
<1>2. r'.op = "trim" /\ r'.obj = c /\ r'.num = n /\ r'.clu = c
  BY <1>1 DEF NoCall
<1>3. c # RootOffset /\ InStep(c) /\ ~head[c].nofat /\ n < head[c].len
  BY <1>2 DEF CarefulCall, CarefulTrim
<1>4. pc' = "walk" /\ r'.i = 0
  BY <1>1, <1>3 DEF NoCall
<1>5. /\ UNCHANGED <<fat, stream, bitmap, alloc_table, head, child>>
      /\ SameLists /\ DiskInv' /\ RootHeaded' /\ \A o \in Owner : Holds(o)' = Holds(o) /\ Owned(o)' = Owned(o)
      /\ Marked'
  BY <1>0, <1>4, CallQuiet
<1>6. Room' /\ RootGrows' /\ DirectoryGrows' /\ DirectoryGrowth' /\ EntryIsNew'
  BY <1>2, <1>4, StillFreed DEF Freed
<1>7. Removes'
  BY <1>2, <1>4 DEF Removes
<1>8. Trims'
  <2>1. PICK t : t = StreamOf(c)
    OBVIOUS
  <2>2. /\ t \in Owner /\ t # Root /\ head[c] = stream[t] /\ stream[t].len \in Nat /\ stream[t].len > 0
        /\ Exact(t) /\ Owned(t)[1] = c
    BY <1>3, <2>1, InStepDirectory
  <2>3. Target' = t /\ Dentry' = stream[t]
    BY <1>2, <1>3, <1>5, <2>1 DEF Target, Dentry, StreamOf
  <2>4. Owned(t)' = Owned(t)
    BY <1>5, <2>2
  <2>5. Exact(t)'
    BY <1>5, <2>2, <2>4 DEF Exact
  <2>6. Owned(Target)' = Owned(t)
    BY <2>3, <2>4 DEF Owned
  <2>7. Exact(Target)'
    BY <2>3, <2>5 DEF Exact, Owned
  <2>8. 0 < stream[t].len - n /\ 0 + 1 = 1 /\ n < stream[t].len
    BY <1>3, <2>2
  <2>9. Whole'
    BY <1>2, <1>4, <2>2, <2>3, <2>6, <2>7, <2>8 DEF Whole
  <2>10. QED  BY <1>2, <1>3, <1>4, <1>5, <2>2, <2>3, <2>8, <2>9 DEF Trims
<1>9. QED  BY <1>5, <1>6, <1>7, <1>8 DEF OInv

LEMMA CallRemoveKeeps ==
  ASSUME OInv, IInv', NEW s \in Slot, CallRemove(s), CarefulCall
  PROVE  OInv'
<1>0. /\ pc = "idle" /\ UNCHANGED <<volume, memory>> /\ child[s].live
      /\ FreeFrom([NoCall EXCEPT !.op = "remove", !.slot = s, !.obj = child[s].clu,
                             !.num = child[s].len, !.clu = child[s].clu, !.data = stream],
              child[s])
  BY DEF CallRemove
<1>1. /\ r' = [[NoCall EXCEPT !.op = "remove", !.slot = s, !.obj = child[s].clu,
                             !.num = child[s].len, !.clu = child[s].clu, !.data = stream]
                  EXCEPT !.i = IF child[s].nofat THEN child[s].len - child[s].len ELSE 0]
      /\ pc' = IF child[s].nofat THEN "clear" ELSE "walk"
  BY <1>0 DEF FreeFrom, Goto, NoCall
<1>2. r'.op = "remove" /\ r'.slot = s /\ r'.obj = child[s].clu /\ r'.num = child[s].len /\ r'.clu = child[s].clu /\ r'.data = stream
  BY <1>1 DEF NoCall
<1>3. child[s] = stream[s] /\ Exact(s)
  BY <1>2 DEF CarefulCall
<1>4. pc' \in {"clear", "walk"} /\ (pc' = "clear" => stream[s].nofat) /\ (pc' = "walk" => ~stream[s].nofat)
  BY <1>1, <1>3
<1>5. /\ UNCHANGED <<fat, stream, bitmap, alloc_table, head, child>>
      /\ SameLists /\ DiskInv' /\ RootHeaded' /\ \A o \in Owner : Holds(o)' = Holds(o) /\ Owned(o)' = Owned(o)
      /\ Marked'
  BY <1>0, <1>4, CallQuiet
<1>6. Room' /\ RootGrows' /\ DirectoryGrows' /\ DirectoryGrowth' /\ EntryIsNew'
  BY <1>2, <1>4, StillFreed DEF Freed
<1>7. Trims'
  BY <1>2 DEF Trims
<1>8. Removes'
  <2>1. s \in Owner
    BY SlotNotRoot
  <2>2. Exact(s)'
    BY <1>3, <1>5, <2>1 DEF Exact
  <2>3. pc' = "walk" /\ r'.i < stream[s].len => r'.clu = Owned(s)[r'.i + 1]
    <3>1. SUFFICES ASSUME pc' = "walk", r'.i < stream[s].len PROVE r'.clu = Owned(s)[r'.i + 1]
      OBVIOUS
    <3>2. ~child[s].nofat
      BY <1>3, <1>4, <3>1
    <3>3. r'.i = 0
      BY <1>1, <3>2 DEF NoCall
    <3>4. stream[s].clu \in Cluster
      <4>1. stream[s].len # 0
        BY <3>1, <3>3
      <4>2. stream[s].clu # 0
        BY <1>0, <1>3, <4>1 DEF OInv, DiskInv, DentriesSound
      <4>3. stream[s].clu \in FirstCluster
        BY Types DEF OInv, Entry
      <4>4. QED  BY <4>2, <4>3 DEF FirstCluster
    <3>5. Owned(s)[1] = stream[s].clu
      BY <1>0, <1>3, <3>4, OneBegins DEF OInv, DiskInv
    <3>6. QED  BY <1>2, <1>3, <3>3, <3>5
  <2>4. Exact(r.slot)'
    BY <1>2, <2>2 DEF Exact, Owned
  <2>5. Owned(r.slot)' = Owned(s)
    BY <1>2, <1>5, <2>1 DEF Owned
  <2>6. \A q \in Slot \ {s} : r'.data[q] = stream'[q]
    BY <1>2, <1>5
  <2>7. /\ pc' \in {"clear", "walk", "cut", "unmark", "shrink", "erase"} => r'.op \in {"trim", "remove"}
        /\ pc' \in {"clear", "walk", "cut", "shrink", "erase"}
        /\ pc' # "cut"
    BY <1>2, <1>4
  <2>8. stream'[s].live /\ child'[s] = stream'[s]
    BY <1>0, <1>3, <1>5
  <2>9. QED  BY <1>2, <1>3, <1>4, <1>5, <2>3, <2>4, <2>5, <2>6, <2>7, <2>8 DEF Removes
<1>9. QED  BY <1>5, <1>6, <1>7, <1>8 DEF OInv

LEMMA RestartKeeps ==
  ASSUME OInv, IInv', NEW flag \in RootFlags, Restart(flag), CarefulKill
  PROVE  OInv'
<1>0. Return /\ UNCHANGED <<fat, bitmap, stream>> /\ head' = Heads(stream, Opened(flag))
  BY DEF Restart
<1>1. SameLists /\ DiskInv' /\ \A o \in Owner : Holds(o)' = Holds(o)
  BY <1>0, QuietLists
<1>2. RootHeaded'
  <2>1. RootOffset \in FirstCluster
    BY ClusterWord DEF FirstCluster
  <2>2. Opened(flag)[RootOffset] = RootHead(flag)
    BY <2>1 DEF Opened
  <2>3. RootHead(flag).live /\ RootHead(flag).len = ClusterCount
    BY DEF RootHead
  <2>4. head'[RootOffset] = Opened(flag)[RootOffset]
    BY <1>0, <2>1, <2>2, <2>3 DEF Heads
  <2>5. ClusterCount >= ClusterCount
    BY VolumeAssumption
  <2>6. QED  BY <2>2, <2>3, <2>4, <2>5 DEF RootHeaded
<1>3. Marked'
  <2>1. System \subseteq bitmap /\ \A o \in Owner : Holds(o) \subseteq bitmap
    BY AllMarked DEF OInv, CarefulKill
  <2>2. pc' # "mark"
    BY <1>0 DEF Return
  <2>3. QED  BY <1>0, <1>1, <2>1, <2>2, MarkedAtPrompt
<1>4. QED  BY <1>0, <1>1, <1>2, <1>3, AtPrompt DEF OInv

\* A sound image is one to start on.
LEMMA InitOInv == Init => OInv
<1> SUFFICES ASSUME Init PROVE OInv
  OBVIOUS
<1>1. IInv
  BY InitInv
<1>2. PICK img \in Images, flag \in RootFlags :
        /\ fat = img.fat /\ bitmap = img.bitmap /\ stream = img.stream
        /\ head = Heads(img.stream, Opened(flag))
        /\ pc = "idle" /\ r = NoCall
  BY DEF Init
<1>3. /\ System \subseteq bitmap
      /\ \A o \in Owner : /\ Holds(o) \subseteq bitmap \ System
                          /\ \A j, k \in 1..Len(Owned(o)) : Owned(o)[j] = Owned(o)[k] => j = k
                          /\ \A p \in Owner \ {o} : Holds(o) \intersect Holds(p) = {}
      /\ fat[Owned(Root)[Len(Owned(Root))]] = EXFAT_LASTCLUSTER
      /\ \A s \in Slot : stream[s].live /\ stream[s].clu = 0 => stream[s].len = 0 /\ stream[s].nofat
  <2>1. /\ System \subseteq img.bitmap
        /\ \A o \in Owner :
             /\ {OwnedIn(img.fat, img.stream, o)[k] : k \in 1..Len(OwnedIn(img.fat, img.stream, o))} \subseteq img.bitmap \ System
             /\ \A j, k \in 1..Len(OwnedIn(img.fat, img.stream, o)) :
                  OwnedIn(img.fat, img.stream, o)[j] = OwnedIn(img.fat, img.stream, o)[k] => j = k
             /\ \A p \in Owner \ {o} :
                  {OwnedIn(img.fat, img.stream, o)[k] : k \in 1..Len(OwnedIn(img.fat, img.stream, o))}
                    \intersect {OwnedIn(img.fat, img.stream, p)[k] : k \in 1..Len(OwnedIn(img.fat, img.stream, p))} = {}
        /\ img.fat[OwnedIn(img.fat, img.stream, Root)[Len(OwnedIn(img.fat, img.stream, Root))]] = EXFAT_LASTCLUSTER
        /\ \A s \in Slot : img.stream[s].live /\ img.stream[s].clu = 0 => img.stream[s].len = 0 /\ img.stream[s].nofat
    BY ONLY img \in Images, SoundImages, Zenon
  <2>2. \A o : OwnedIn(img.fat, img.stream, o) = Owned(o)
    BY <1>2 DEF Owned
  <2>3. ASSUME NEW o PROVE Holds(o) = {OwnedIn(img.fat, img.stream, o)[k] : k \in 1..Len(OwnedIn(img.fat, img.stream, o))}
    <3>1. PICK w : w = Owned(o)
      OBVIOUS
    <3>2. w = OwnedIn(img.fat, img.stream, o)
      BY <2>2, <3>1
    <3>3. Holds(o) = {w[k] : k \in 1..Len(w)}
      BY ONLY <3>1 DEF Holds
    <3>4. {OwnedIn(img.fat, img.stream, o)[k] : k \in 1..Len(OwnedIn(img.fat, img.stream, o))} = {w[k] : k \in 1..Len(w)}
      BY ONLY <3>2
    <3>5. QED  BY <3>3, <3>4
  <2>4. \A o \in Owner : /\ Holds(o) \subseteq bitmap \ System
                          /\ \A p \in Owner \ {o} : Holds(o) \intersect Holds(p) = {}
    BY ONLY <1>2, <2>1, <2>3, Zenon
  <2>5. \A o \in Owner : \A j, k \in 1..Len(Owned(o)) : Owned(o)[j] = Owned(o)[k] => j = k
    BY ONLY <2>1, <2>2
  <2>6. fat[Owned(Root)[Len(Owned(Root))]] = EXFAT_LASTCLUSTER
    BY ONLY <1>2, <2>1, <2>2
  <2>7. \A s \in Slot : stream[s].live /\ stream[s].clu = 0 => stream[s].len = 0 /\ stream[s].nofat
    BY ONLY <1>2, <2>1
  <2>8. QED  BY <1>2, <2>1, <2>4, <2>5, <2>6, <2>7
<1>4. ListsSound
  <2>1. ASSUME NEW o \in Owner PROVE Owned(o) \in Seq(Cluster)
    <3>1. CASE o = Root
      <4>1. Owned(Root) \in Seq(Cluster)
        BY <1>1, RootTrace DEF Trace
      <4>2. QED  BY <3>1, <4>1
    <3>2. CASE o # Root /\ ~(stream[o].live /\ stream[o].clu \in Cluster)
      <4>1. o \in Slot
        BY <2>1, <3>2, SlotNotRoot
      <4>2. Owned(o) = << >>
        BY ONLY <3>2, <4>1, NoList DEF Owned
      <4>3. QED  BY <4>2
    <3>3. CASE o # Root /\ stream[o].live /\ stream[o].clu \in Cluster /\ ~stream[o].nofat
      BY <1>1, <2>1, <3>3, SlotNotRoot, LinkedTrace DEF Trace
    <3>4. CASE o # Root /\ stream[o].live /\ stream[o].clu \in Cluster /\ stream[o].nofat
      <4>1. PICK c \in Nat : c = stream[o].clu
        BY <3>4, ClusterWord
      <4>2. PICK n \in Nat : n = stream[o].len
        BY <1>1, <2>1, <3>4, SlotNotRoot, Types, VolumeAssumption DEF Entry
      <4>3. Owned(o) = Run(c, n)
        BY <2>1, <3>4, <4>1, <4>2, SlotNotRoot, RunList DEF Owned
      <4>4. PICK w : w = Run(c, n)
        OBVIOUS
      <4>5. w \in Seq(Nat)
        BY <4>4, RunIs
      <4>6. \A k \in 1..Len(w) : w[k] \in Cluster
        BY <1>1, <1>3, <2>1, <4>3, <4>4, Types DEF Holds
      <4>7. w \in Seq(Cluster)
        BY ONLY <4>5, <4>6, SMT
      <4>8. QED  BY <4>3, <4>4, <4>7
    <3>5. QED  BY <3>1, <3>2, <3>3, <3>4
  <2>2. \A o \in Owner : NoRepeat(Owned(o)) /\ Holds(o) \intersect System = {}
    BY <1>3 DEF NoRepeat
  <2>3. QED  BY <1>3, <2>1, <2>2 DEF ListsSound
<1>5. DiskInv
  BY <1>3, <1>4 DEF DiskInv, RootEnds, DentriesSound, Tip
<1>6. RootHeaded
  <2>1. RootOffset \in FirstCluster
    BY ClusterWord DEF FirstCluster
  <2>2. Opened(flag)[RootOffset] = RootHead(flag)
    BY <2>1 DEF Opened
  <2>3. RootHead(flag).live /\ RootHead(flag).len = ClusterCount
    BY DEF RootHead
  <2>4. head[RootOffset] = Opened(flag)[RootOffset]
    BY <1>2, <2>1, <2>2, <2>3 DEF Heads
  <2>5. ClusterCount >= ClusterCount
    BY VolumeAssumption
  <2>6. QED  BY <2>2, <2>3, <2>4, <2>5 DEF RootHeaded
<1>7. r.op = "none" /\ pc = "idle"
  BY <1>2 DEF NoCall
<1>8. Marked
  BY <1>3, <1>7 DEF Marked
<1>9. Room /\ RootGrows /\ DirectoryGrows /\ DirectoryGrowth /\ EntryIsNew /\ Trims /\ Removes
  BY <1>7 DEF Room, RootGrows, DirectoryGrows, DirectoryGrowth, EntryIsNew, Trims, Removes, Growing
<1>10. QED  BY <1>1, <1>5, <1>6, <1>8, <1>9 DEF OInv

-----------------------------------------------------------------------------
(* Every step keeps what holds.                                            *)
LEMMA StutterKeeps == ASSUME OInv, IInv', UNCHANGED vars PROVE OInv'
<1>0. UNCHANGED <<fat, stream, bitmap, alloc_table, head, child, pc, r>>
  BY DEF vars
<1>1. SameLists /\ DiskInv' /\ \A o \in Owner : Holds(o)' = Holds(o)
  BY <1>0, QuietLists
<1>2. Target' = Target /\ Dentry' = Dentry
  BY <1>0, SameTarget
<1>3. \A o : Owned(o)' = Owned(o)
  BY <1>0 DEF Owned
<1>4. Owned(Target)' = Owned(Target) /\ Owned(Root)' = Owned(Root) /\ Owned(r.slot)' = Owned(r.slot)
  BY <1>0, <1>2 DEF Owned
<1>5. Exact(Target)' = Exact(Target) /\ Exact(r.slot)' = Exact(r.slot)
  BY <1>0, <1>2, <1>4 DEF Exact
<1>6. RootHeaded' /\ Marked' /\ EntryIsNew'
  BY <1>0, <1>1 DEF OInv, RootHeaded, Marked, EntryIsNew
<1>7. Room'
  BY <1>0 DEF OInv, Room, Free, Ahead
<1>8. RootGrows'
  BY <1>0, <1>4 DEF OInv, RootGrows, Tip
<1>9. DirectoryGrows'
  BY <1>0, <1>2, <1>4, <1>5 DEF OInv, DirectoryGrows
<1>10. DirectoryGrowth'
  <2>1. ASSUME NEW P \in Seq(Cluster), Growth(P) PROVE Growth(P)'
    <3>1. Linked' = Linked
      BY <1>0 DEF Linked
    <3>2. QED  BY <1>0, <1>1, <1>2, <1>4, <2>1, <3>1 DEF Growth, Tip
  <2>2. QED  BY <1>0, <2>1 DEF OInv, DirectoryGrowth
<1>11. Trims'
  <2>1. ASSUME NEW T \in Seq(Cluster), Rest(T) PROVE Rest(T)'
    BY <1>0, <1>1, <1>2, <2>1 DEF Rest
  <2>2. (\E T \in Seq(Cluster) : Rest(T)) => (\E T \in Seq(Cluster) : Rest(T)')
    BY <2>1
  <2>3. Whole => Whole'
    BY <1>0, <1>2, <1>4, <1>5 DEF Whole
  <2>4. Tip(Owned(Target))' = Tip(Owned(Target)) /\ Len(Owned(Target))' = Len(Owned(Target))
    BY <1>4 DEF Tip
  <2>5. QED  BY <1>0, <1>2, <2>2, <2>3, <2>4 DEF OInv, Trims
<1>12. Removes'
  BY <1>0, <1>4, <1>5 DEF OInv, Removes
<1>13. QED  BY <1>1, <1>6, <1>7, <1>8, <1>9, <1>10, <1>11, <1>12 DEF OInv

LEMMA StepKeeps == ASSUME OInv, IInv', Step PROVE OInv'
<1>1. CASE AllocStep
  BY <1>1, LastKeeps, ScanSkipKeeps, ScanTakeKeeps, NotExhausted, LinkDirectoryKeeps, LinkRootKeeps, MarkKeeps,
     ConvertKeeps, KeepFlagsKeeps, ChainLinkKeeps, NoRunaway, GrowRootKeeps, GrowDirectoryKeeps, FillReloadKeeps
     DEF AllocStep
<1>2. CASE CreateStep
  BY <1>2, NewSkipKeeps, NewTakeKeeps, NewMarkKeeps, EnterKeeps DEF CreateStep
<1>3. CASE FreeStep
  BY <1>3, ClearTailKeeps, ClearDoneKeeps, WalkKeeps, WalkDoneKeeps, CutKeeps, UnmarkKeeps, CutDoneKeeps,
     ShrinkKeeps, EraseKeeps DEF FreeStep
<1>4. QED  BY <1>1, <1>2, <1>3 DEF Step

LEMMA CommandKeeps == ASSUME OInv, IInv', FileCommand, CarefulCall PROVE OInv'
BY CallFillKeeps, CallCreateKeeps, CallReloadKeeps, CallTrimKeeps, CallRemoveKeeps DEF FileCommand

LEMMA CarefulIsNext == [CarefulNext]_vars => [Next]_vars
BY DEF CarefulNext, Next

LEMMA CarefulKeeps == OInv /\ [CarefulNext]_vars => OInv'
<1> SUFFICES ASSUME OInv, [CarefulNext]_vars PROVE OInv'
  OBVIOUS
<1>1. IInv'
  BY CarefulIsNext, NextInv DEF OInv
<1>2. CASE Step
  BY <1>1, <1>2, StepKeeps
<1>3. CASE FileCommand /\ CarefulCall
  BY <1>1, <1>3, CommandKeeps
<1>4. CASE CarefulKill /\ \E flag \in RootFlags : Restart(flag)
  BY <1>1, <1>4, RestartKeeps
<1>5. CASE UNCHANGED vars
  BY <1>1, <1>5, StutterKeeps
<1>6. QED  BY <1>2, <1>3, <1>4, <1>5 DEF CarefulNext

(* What the disk, the memory and the running command say of each other, at *)
(* every step of careful use; all that follows is read off it.             *)
THEOREM CarefulInvariance == CarefulSpec => []OInv
<1>1. QED  BY InitOInv, CarefulKeeps, PTL DEF CarefulSpec

-----------------------------------------------------------------------------
(* What the invariant says to a program that is killed.                    *)
LEMMA InvMarked == OInv => OwnedIsMarked
<1> SUFFICES ASSUME OInv PROVE OwnedIsMarked
  OBVIOUS
<1>1. System \subseteq bitmap
  BY DEF OInv, Marked
<1>2. ASSUME NEW o \in Owner, ~(r.op = "remove" /\ o = r.slot)
      PROVE  Holds(o) \ (IF o = Root /\ pc = "mark" THEN {r.next} ELSE {}) \subseteq bitmap
  <2>1. Holds(o) \ (IF pc = "mark" /\ r.obj = RootOffset THEN {r.next} ELSE {}) \subseteq bitmap
    BY <1>2 DEF OInv, Marked
  <2>2. CASE pc = "mark" /\ r.obj = RootOffset /\ o # Root
    <3>1. r.next = Tip(Owned(Root)) /\ Root \in Owner
      BY <2>2, SlotNotRoot DEF OInv, RootGrows, Growing
    <3>2. Tip(Owned(Root)) \in Holds(Root)
      BY <3>1, RootTrace, ListType DEF Trace, Tip, OInv, DiskInv
    <3>3. r.next \notin Holds(o)
      BY <1>2, <2>2, <3>1, <3>2 DEF OInv, DiskInv, ListsSound
    <3>4. QED  BY <2>1, <3>3
  <2>3. CASE ~(pc = "mark" /\ r.obj = RootOffset /\ o # Root)
    BY <2>1, <2>3
  <2>4. QED  BY <2>2, <2>3
<1>3. QED  BY <1>1, <1>2 DEF OwnedIsMarked

(* A program killed between any two writes, and started again, does not    *)
(* give away a cluster that a directory has: whatever the disk says a      *)
(* directory has is marked as in use, but for the root's new cluster       *)
(* before its bit is set and the clusters of an entry being removed.       *)
THEOREM OwnedStaysMarked == CarefulSpec => []OwnedIsMarked
<1>1. QED  BY CarefulInvariance, InvMarked, PTL

-----------------------------------------------------------------------------
(* Which FAT entries a command writes.                                     *)
LEMMA CutWrites == ASSUME OInv, IInv', Cut PROVE Writes(r.clu)
<1>0. pc = "cut" /\ r.op = "trim"
  BY CutTrims DEF Cut
<1>1. CASE Whole /\ r.i = Dentry.len - r.num - 1
  BY <1>0, <1>1, FirstCut
<1>2. ASSUME Len(Owned(Target)) = Dentry.len - r.num, fat[Tip(Owned(Target))] = EXFAT_LASTCLUSTER,
             NEW T \in Seq(Cluster), Rest(T)
      PROVE  Writes(r.clu)
  BY <1>0, <1>2, SecondCut
<1>3. QED  BY <1>0, <1>1, <1>2, TrimPhase

\* The steps that may write the FAT.
LEMMA FatWriters ==
  ASSUME [CarefulNext]_vars
  PROVE  ScanTake \/ Link \/ ChainLink \/ Runaway \/ NewTake \/ Cut \/ UNCHANGED fat
<1>1. CASE AllocStep
  BY <1>1 DEF AllocStep, LastContiguous, LastFollow, LastFound, LastMissing, ScanSkip, ScanExhausted, Mark,
              Convert, KeepFlags, ChainDone, ChainUnderflow, Grow, FillReload, volume
<1>2. CASE CreateStep
  BY <1>2 DEF CreateStep, NewSkip, NewMark, NewExhausted, Enter, volume
<1>3. CASE FreeStep
  BY <1>3 DEF FreeStep, ClearTail, ClearDone, Walk, WalkDone, Unmark, CutDone, Shrink, Erase, volume
<1>4. CASE FileCommand
  BY <1>4 DEF FileCommand, CallFill, CallCreate, CallReload, CallTrim, CallRemove, volume
<1>5. CASE \E flag \in RootFlags : Restart(flag)
  BY <1>5 DEF Restart
<1>6. CASE UNCHANGED vars
  BY <1>6 DEF vars
<1>7. QED  BY <1>1, <1>2, <1>3, <1>4, <1>5, <1>6 DEF CarefulNext, Step

LEMMA OneEntryWritten ==
  ASSUME OInv, IInv', [CarefulNext]_vars, fat' # fat
  PROVE  \E w : Writes(w)
BY FatWriters, ScanTakeKeeps, LinkDirectoryKeeps, LinkRootKeeps, ChainLinkKeeps, NoRunaway, NewTakeKeeps, CutWrites

LEMMA StepKeepsForeign ==
  ASSUME OInv, IInv', [CarefulNext]_vars, fat' # fat
  PROVE  LET changed == {w \in Word : fat'[w] # fat[w]}
         IN  /\ changed \subseteq Cluster \ System
             /\ \A o \in Owner \ {Operand} : changed \intersect Holds(o) = {}
<1>1. PICK u : Writes(u)
  BY OneEntryWritten
<1>2. {w \in Word : fat'[w] # fat[w]} \subseteq {u}
  BY <1>1 DEF Writes
<1>3. QED  BY <1>1, <1>2 DEF Writes

(* A command on one directory never rewrites the FAT entry of a cluster of *)
(* another one, of the volume's own, or of none: every write of it goes to *)
(* one cluster, which is the directory's or was free.                      *)
THEOREM ForeignEntriesKept == CarefulSpec => ForeignFatKept
<1>1. ASSUME OInv, OInv', [CarefulNext]_vars
      PROVE  [fat' # fat =>
                LET changed == {w \in Word : fat'[w] # fat[w]}
                IN  /\ changed \subseteq Cluster \ System
                    /\ \A o \in Owner \ {Operand} : changed \intersect Holds(o) = {}]_vars
  BY <1>1, StepKeepsForeign DEF OInv
<1>2. QED  BY <1>1, CarefulInvariance, PTL DEF CarefulSpec, ForeignFatKept

-----------------------------------------------------------------------------
(* Each step as ClusterOwnership sees it.                                  *)
Lists == [o \in Owner |-> Owned(o)]

LEMMA ListsAre ==
  ASSUME ListsSound
  PROVE  /\ Lists \in [Owner -> Seq(Cluster)]
         /\ \A o \in Owner : Lists[o] = Owned(o) /\ Promise!Holds(o) = Holds(o) /\ Lists'[o] = Owned(o)'
<1>1. \A o \in Owner : Lists[o] = Owned(o) /\ Lists'[o] = Owned(o)'
  BY DEF Lists
<1>2. Lists \in [Owner -> Seq(Cluster)]
  BY DEF Lists, ListsSound
<1>3. \A o \in Owner : Promise!Holds(o) = Holds(o)
  BY DEF Promise!Holds, Holds, Lists
<1>4. QED  BY <1>1, <1>2, <1>3

LEMMA SoundMaps == ASSUME ListsSound PROVE Promise!Init
<1>1. Promise!TypeOK
  BY ListsAre DEF Promise!TypeOK, Lists
<1>2. ASSUME NEW o \in Owner PROVE Promise!Distinct(Lists[o]) /\ Promise!Holds(o) \intersect System = {}
  BY ListsAre DEF Promise!Distinct, ListsSound, NoRepeat
<1>3. ASSUME NEW o \in Owner, NEW p \in Owner, o # p PROVE Promise!Holds(o) \intersect Promise!Holds(p) = {}
  BY <1>3, ListsAre DEF ListsSound
<1>4. Promise!Exclusive
  BY <1>2, <1>3 DEF Promise!Exclusive, Lists
<1>5. QED  BY <1>1, <1>4 DEF Promise!Init

LEMMA SameMaps == ASSUME SameLists PROVE Lists' = Lists
BY DEF SameLists, Lists, Owned

\* A list is the two parts it is cut in.
LEMMA Joined ==
  ASSUME NEW S, NEW s \in Seq(S), NEW n \in 0..Len(s)
  PROVE  SubSeq(s, 1, n) \o SubSeq(s, n + 1, Len(s)) = s
<1>1. PICK p : p = SubSeq(s, 1, n)
  OBVIOUS
<1>2. PICK q : q = SubSeq(s, n + 1, Len(s))
  OBVIOUS
<1>3. p \in Seq(S) /\ Len(p) = n /\ \A k \in 1..n : p[k] = s[k]
  BY <1>1, Split
<1>4. q \in Seq(S) /\ Len(q) = Len(s) - n /\ \A k \in 1..(Len(s) - n) : q[k] = s[n + k]
  BY <1>2, Split
<1>5. PICK w : w = p \o q
  OBVIOUS
<1>6. PICK m \in Nat : m = Len(s)
  OBVIOUS
<1>7. w \in Seq(S) /\ Len(w) = m
  <2>1. p \in Seq(S) /\ q \in Seq(S)
    BY <1>3, <1>4
  <2>2. w \in Seq(S) /\ Len(w) = Len(p) + Len(q)
    BY ONLY <1>5, <2>1
  <2>3. Len(p) = n /\ Len(q) = m - n
    BY <1>3, <1>4, <1>6
  <2>4. n \in Nat
    OBVIOUS
  <2>5. QED  BY ONLY <2>2, <2>3, <2>4, m \in Nat
<1>8. ASSUME NEW k \in 1..m PROVE w[k] = s[k]
  <2>1. CASE k <= n
    BY <1>3, <1>4, <1>5, <1>6, <2>1
  <2>2. CASE k > n
    <3>1. k - n \in 1..(m - n) /\ n + (k - n) = k
      BY ONLY <2>2, k \in 1..m, n \in 0..Len(s), <1>6, m \in Nat
    <3>2. w[k] = q[k - n]
      BY <1>3, <1>4, <1>5, <1>6, <2>2
    <3>3. q[k - n] = s[n + (k - n)]
      BY <1>4, <1>6, <3>1
    <3>4. QED  BY <3>1, <3>2, <3>3
  <2>3. QED  BY <2>1, <2>2
<1>9. w = s
  BY <1>6, <1>7, <1>8, SeqEqual
<1>10. QED  BY <1>1, <1>2, <1>5, <1>9

LEMMA ExtendMaps ==
  ASSUME ListsSound, NEW t \in Owner, NEW P \in Seq(Cluster), NoRepeat(P), Owned(t)' = P,
         NEW n \in 0..Len(P), Owned(t) = SubSeq(P, 1, n),
         \A o \in Owner \ {t} : Owned(o)' = Owned(o),
         Members(SubSeq(P, n + 1, Len(P))) \intersect System = {},
         \A o \in Owner : Members(SubSeq(P, n + 1, Len(P))) \intersect Holds(o) = {}
  PROVE  Promise!Extend(t)
<1>1. PICK p : p = SubSeq(P, 1, n)
  OBVIOUS
<1>2. PICK q : q = SubSeq(P, n + 1, Len(P))
  OBVIOUS
<1>3. p \in Seq(Cluster) /\ Len(p) = n /\ q \in Seq(Cluster) /\ NoRepeat(q) /\ p \o q = P
  BY <1>1, <1>2, Split, Joined
<1>4. Lists[t] = p /\ Lists'[t] = P /\ Lists \in [Owner -> Seq(Cluster)]
  BY <1>1, ListsAre
<1>5. Promise!Added(t) = q
  BY <1>2, <1>3, <1>4 DEF Promise!Added, Lists
<1>6. Lists' = [Lists EXCEPT ![t] = Lists[t] \o Promise!Added(t)]
  <2>1. \A o \in Owner : o # t => Lists'[o] = Lists[o]
    BY ListsAre
  <2>2. Lists'[t] = Lists[t] \o q
    BY <1>3, <1>4
  <2>3. Lists' = [o \in Owner |-> Lists'[o]]
    BY DEF Lists
  <2>4. Lists' = [Lists EXCEPT ![t] = Lists[t] \o q]
    BY <1>4, <2>1, <2>2, <2>3
  <2>5. QED  BY <1>5, <2>4
<1>7. q \in Seq(Cluster \ Promise!Taken)
  <2>1. ASSUME NEW k \in 1..Len(q) PROVE q[k] \in Cluster \ Promise!Taken
    <3>1. q[k] \in Members(q) /\ q[k] \in Cluster
      BY <1>3 DEF Members
    <3>2. q[k] \notin System /\ \A o \in Owner : q[k] \notin Promise!Holds(o)
      BY <1>2, <3>1, ListsAre
    <3>3. QED  BY <3>1, <3>2 DEF Promise!Taken
  <2>2. QED  BY ONLY <1>3, <2>1, SMT
<1>8. Promise!Distinct(q)
  BY <1>3 DEF Promise!Distinct, NoRepeat
<1>9. QED  BY <1>5, <1>6, <1>7, <1>8 DEF Promise!Extend, Lists

LEMMA TruncateMaps ==
  ASSUME ListsSound, NEW t \in Owner, NEW n \in 0..Len(Owned(t)), Owned(t)' = SubSeq(Owned(t), 1, n),
         \A o \in Owner \ {t} : Owned(o)' = Owned(o)
  PROVE  Promise!Truncate(t) \/ Lists' = Lists
<1>1. PICK s \in Seq(Cluster) : s = Owned(t)
  BY ListType
<1>2. Lists[t] = s /\ Lists'[t] = SubSeq(s, 1, n) /\ Lists \in [Owner -> Seq(Cluster)]
  BY <1>1, ListsAre
<1>3. Lists' = [Lists EXCEPT ![t] = SubSeq(s, 1, n)]
  <2>1. \A o \in Owner : o # t => Lists'[o] = Lists[o]
    BY ListsAre
  <2>2. Lists' = [o \in Owner |-> Lists'[o]]
    BY DEF Lists
  <2>3. QED  BY <1>2, <2>1, <2>2
<1>4. CASE n = Len(s)
  <2>1. SubSeq(s, 1, n) = s
    BY <1>4
  <2>2. QED  BY <1>2, <1>3, <2>1
<1>5. CASE n # Len(s)
  <2>1. n \in 0..(Len(s) - 1)
    BY <1>1, <1>5
  <2>2. \E k \in 0..(Len(Lists[t]) - 1) : Lists' = [Lists EXCEPT ![t] = SubSeq(Lists[t], 1, k)]
    BY <1>2, <1>3, <2>1
  <2>3. QED  BY <2>2 DEF Promise!Truncate, Lists
<1>6. QED  BY <1>4, <1>5

\* The lists, of an owner whose list becomes Q.
LEMMA OthersSame ==
  ASSUME NEW t \in Owner, \A o \in Owner \ {t} : OwnedIn(fat', stream', o) = OwnedIn(fat, stream, o)
  PROVE  \A o \in Owner \ {t} : Owned(o)' = Owned(o)
BY DEF Owned

LEMMA LinkMaps == ASSUME OInv, IInv', Link PROVE Promise!Next \/ Lists' = Lists
<1>1. CASE r.obj # RootOffset
  BY <1>1, LinkDirectoryKeeps, SameMaps
<1>2. CASE r.obj = RootOffset
  <2>1. PICK s \in Seq(Cluster) : s = Owned(Root)
    BY ListType, SlotNotRoot DEF OInv, DiskInv
  <2>2. PICK e \in Cluster : e = r.next
    BY <1>2, LinkRootKeeps
  <2>3. /\ Owned(Root)' = Append(s, e) /\ \A o \in Owner \ {Root} : Owned(o)' = Owned(o)
        /\ e \notin System /\ \A o \in Owner : e \notin Holds(o)
    BY <1>2, <2>1, <2>2, LinkRootKeeps
  <2>4. PICK P : P = Append(s, e)
    OBVIOUS
  <2>5. PICK n \in Nat : n = Len(s)
    OBVIOUS
  <2>6. P \in Seq(Cluster) /\ Len(P) = n + 1 /\ P[n + 1] = e /\ \A k \in 1..n : P[k] = s[k]
    BY <2>4, <2>5, AppendIs
  <2>7. NoRepeat(P)
    <3>1. Root \in Owner /\ NoRepeat(s)
      BY <2>1, SlotNotRoot DEF OInv, DiskInv, ListsSound
    <3>2. e \notin Members(s)
      BY <2>1, <2>3, <3>1 DEF Members, Holds
    <3>3. QED  BY <2>4, <3>1, <3>2, AppendIs
  <2>8. n \in 0..Len(P)
    BY <2>6
  <2>9. SubSeq(P, 1, n) = s
    <3>1. SubSeq(P, 1, n) \in Seq(Cluster) /\ Len(SubSeq(P, 1, n)) = n /\ \A k \in 1..n : SubSeq(P, 1, n)[k] = P[k]
      BY <2>6, <2>8, Split
    <3>2. \A k \in 1..n : SubSeq(P, 1, n)[k] = s[k]
      BY <2>6, <3>1
    <3>3. QED  BY <2>5, <3>1, <3>2, SeqEqual
  <2>10. Members(SubSeq(P, n + 1, Len(P))) \subseteq {e}
    <3>1. PICK q : q = SubSeq(P, n + 1, Len(P))
      OBVIOUS
    <3>2. Len(q) = Len(P) - n /\ \A k \in 1..(Len(P) - n) : q[k] = P[n + k]
      BY <2>6, <2>8, <3>1, Split
    <3>3. \A k \in 1..Len(q) : q[k] = e
      BY <2>6, <3>2
    <3>4. QED  BY <3>1, <3>3 DEF Members
  <2>11. Members(SubSeq(P, n + 1, Len(P))) \intersect System = {}
    BY <2>3, <2>10
  <2>12. \A o \in Owner : Members(SubSeq(P, n + 1, Len(P))) \intersect Holds(o) = {}
    BY <2>3, <2>10
  <2>13. Root \in Owner /\ ListsSound /\ Owned(Root)' = P /\ Owned(Root) = SubSeq(P, 1, n)
    BY <2>1, <2>3, <2>4, <2>9, SlotNotRoot DEF OInv, DiskInv
  <2>14. Promise!Extend(Root)
    BY ONLY <2>3, <2>6, <2>7, <2>8, <2>11, <2>12, <2>13, ExtendMaps
  <2>15. QED  BY <2>13, <2>14 DEF Promise!Next
<1>3. QED  BY <1>1, <1>2

LEMMA GrowMaps == ASSUME OInv, IInv', Grow PROVE Promise!Next \/ Lists' = Lists
<1>0. pc = "size" /\ pc \in Growing /\ UNCHANGED fat
  BY DEF Grow, Growing
<1>1. CASE r.obj = RootOffset
  <2>1. UNCHANGED stream
    BY <1>1 DEF Grow, UpdateFilesize
  <2>2. QED  BY <1>0, <2>1, ListsQuiet, SameMaps
<1>2. CASE r.obj # RootOffset
  <2>1. PICK P \in Seq(Cluster) : Growth(P)
    BY <1>0, <1>2 DEF OInv, DirectoryGrowth
  <2>2. PICK t : t = Target
    OBVIOUS
  <2>3. (\A s \in Slot : s # t => stream'[s] = stream[s]) /\ OwnedIn(fat', stream', t) = P
    BY <1>2, <2>1, <2>2, GrowDirectoryWrites
  <2>4. t \in Owner
    BY <1>0, <1>2, <2>2, GrowingDirectory
  <2>5. \A o \in Owner \ {t} : OwnedIn(fat', stream', o) = OwnedIn(fat, stream, o)
    BY <1>0, <2>3, <2>4, OthersKept DEF OInv
  <2>6. PICK n \in Nat : n = Dentry.len
    BY <1>0, <1>2, GrowingDirectory
  <2>7. n \in 0..Len(P)
    <3>1. Len(P) \in Nat /\ Linked \in Nat /\ Len(P) = n + Linked
      BY <1>0, <1>2, <2>1, <2>6, GrowthFacts
    <3>2. QED  BY ONLY <3>1, n \in Nat
  <2>8. Owned(t) = SubSeq(P, 1, n) /\ NoRepeat(P)
    BY <2>1, <2>2, <2>6 DEF Growth
  <2>9. PICK q : q = SubSeq(P, n + 1, Len(P))
    OBVIOUS
  <2>10. Members(q) \subseteq Members(P) /\ Members(SubSeq(P, 1, n)) \intersect Members(q) = {}
    BY <2>7, <2>8, <2>9, Split
  <2>11. Members(q) \intersect System = {}
    BY <2>1, <2>10 DEF Growth
  <2>12. \A o \in Owner : Members(q) \intersect Holds(o) = {}
    <3>1. Holds(t) = Members(SubSeq(P, 1, n))
      BY <2>8 DEF Holds, Members
    <3>2. \A o \in Owner \ {t} : Members(P) \intersect Holds(o) = {}
      BY <2>1, <2>2 DEF Growth
    <3>3. QED  BY <2>10, <3>1, <3>2
  <2>13. ListsSound /\ Owned(t)' = P /\ \A o \in Owner \ {t} : Owned(o)' = Owned(o)
    BY <2>3, <2>4, <2>5, OthersSame DEF OInv, DiskInv, Owned
  <2>14. /\ Members(SubSeq(P, n + 1, Len(P))) \intersect System = {}
         /\ \A o \in Owner : Members(SubSeq(P, n + 1, Len(P))) \intersect Holds(o) = {}
    BY <2>9, <2>11, <2>12
  <2>15. Promise!Extend(t)
    BY ONLY <2>1, <2>4, <2>7, <2>8, <2>13, <2>14, ExtendMaps
  <2>16. QED  BY <2>4, <2>15 DEF Promise!Next
<1>3. QED  BY <1>1, <1>2

LEMMA EnterMaps == ASSUME OInv, IInv', Enter PROVE Promise!Next \/ Lists' = Lists
<1>0. /\ pc = "enter" /\ UNCHANGED fat
      /\ stream' = [stream EXCEPT ![r.slot] = [live |-> TRUE, clu |-> r.clu, len |-> 0, nofat |-> TRUE]]
  BY DEF Enter
<1>1. PICK t \in Slot : t = r.slot
  BY <1>0 DEF OInv, EntryIsNew
<1>2. ~stream[t].live
  BY <1>0, <1>1 DEF OInv, EntryIsNew
<1>3. PICK Q \in Seq(Cluster) :
           /\ OwnedIn(fat', stream', t) = Q
           /\ (r.clu = 0 /\ Q = << >>) \/ (r.clu \in bitmap \ System /\ Q = <<r.clu>>)
  BY <1>1, EnterWrites
<1>4. t \in Owner /\ t # Root
  BY SlotNotRoot
<1>5. Owned(t) = << >>
  BY <1>1, <1>2, NoList DEF Owned
<1>6. Members(Q) \intersect System = {} /\ NoRepeat(Q) /\ \A o \in Owner : Members(Q) \intersect Holds(o) = {}
  <2>1. CASE r.clu = 0 /\ Q = << >>
    BY <2>1 DEF Members, NoRepeat
  <2>2. CASE r.clu \in bitmap \ System /\ Q = <<r.clu>>
    <3>1. r.clu # 0
      BY <2>2, Types, ClusterWord DEF OInv
    <3>2. \A o \in Owner : r.clu \notin Holds(o)
      BY <1>0, <3>1 DEF OInv, EntryIsNew
    <3>3. Members(Q) \subseteq {r.clu} /\ NoRepeat(Q)
      BY <2>2 DEF Members, NoRepeat
    <3>4. QED  BY <2>2, <3>2, <3>3
  <2>3. QED  BY <1>3, <2>1, <2>2
<1>7. \A s \in Slot : s # t => stream'[s] = stream[s]
  BY <1>0, <1>1, Types DEF OInv
<1>8. \A o \in Owner \ {t} : OwnedIn(fat', stream', o) = OwnedIn(fat, stream, o)
  BY <1>0, <1>4, <1>7, OthersKept DEF OInv
<1>9. ListsSound /\ Owned(t)' = Q /\ \A o \in Owner \ {t} : Owned(o)' = Owned(o)
  BY <1>3, <1>4, <1>8, OthersSame DEF OInv, DiskInv, Owned
<1>10. PICK n \in Nat : n = 0
  OBVIOUS
<1>11. n \in 0..Len(Q) /\ SubSeq(Q, 1, n) = << >> /\ SubSeq(Q, n + 1, Len(Q)) = Q
  <2>1. SubSeq(Q, 1, 0) = << >> /\ SubSeq(Q, 1, Len(Q)) = Q
    OBVIOUS
  <2>2. n + 1 = 1 /\ n \in 0..Len(Q)
    BY <1>10
  <2>3. QED  BY <1>10, <2>1, <2>2
<1>12. /\ Members(SubSeq(Q, n + 1, Len(Q))) \intersect System = {}
       /\ \A o \in Owner : Members(SubSeq(Q, n + 1, Len(Q))) \intersect Holds(o) = {}
       /\ Owned(t) = SubSeq(Q, 1, n)
  BY <1>5, <1>6, <1>11
<1>13. Promise!Extend(t)
  BY ONLY <1>4, <1>6, <1>9, <1>11, <1>12, Q \in Seq(Cluster), ExtendMaps
<1>14. QED  BY <1>4, <1>13 DEF Promise!Next

LEMMA CutMaps == ASSUME OInv, IInv', Cut PROVE Promise!Next \/ Lists' = Lists
<1>0. pc = "cut" /\ r.op = "trim"
  BY CutTrims DEF Cut
<1>1. CASE Whole /\ r.i = Dentry.len - r.num - 1
  <2>1. PICK t : t = Target
    OBVIOUS
  <2>2. PICK n : n = Dentry.len - r.num
    OBVIOUS
  <2>3. /\ OwnedIn(fat', stream', t) = SubSeq(Owned(t), 1, n)
        /\ \A o \in Owner \ {t} : OwnedIn(fat', stream', o) = OwnedIn(fat, stream, o)
        /\ Len(Owned(t)) = Dentry.len
    BY <1>0, <1>1, <2>1, <2>2, FirstCut
  <2>4. t \in Owner /\ Dentry.len \in Nat /\ r.num \in Nat /\ r.num < Dentry.len
    BY <1>0, <2>1, TrimFacts
  <2>5. n \in 0..Len(Owned(t))
    BY <2>2, <2>3, <2>4
  <2>6. ListsSound /\ Owned(t)' = SubSeq(Owned(t), 1, n) /\ \A o \in Owner \ {t} : Owned(o)' = Owned(o)
    BY <2>3, <2>4, OthersSame DEF OInv, DiskInv, Owned
  <2>7. Promise!Truncate(t) \/ Lists' = Lists
    BY ONLY <2>4, <2>5, <2>6, TruncateMaps
  <2>8. QED  BY <2>4, <2>7 DEF Promise!Next
<1>2. ASSUME Len(Owned(Target)) = Dentry.len - r.num, fat[Tip(Owned(Target))] = EXFAT_LASTCLUSTER,
             NEW T \in Seq(Cluster), Rest(T)
      PROVE  Lists' = Lists
  BY <1>0, <1>2, SecondCut, SameMaps
<1>3. QED  BY <1>0, <1>1, <1>2, TrimPhase

LEMMA ShrinkMaps == ASSUME OInv, IInv', Shrink PROVE Promise!Next \/ Lists' = Lists
<1>0. pc = "shrink"
  BY DEF Shrink
<1>1. r.op \in {"trim", "remove"}
  BY <1>0 DEF OInv, Removes
<1>2. CASE r.op = "trim"
  <2>1. PICK t : t = Target
    OBVIOUS
  <2>2. /\ UNCHANGED fat /\ \A s \in Slot : s # t => stream'[s] = stream[s]
        /\ OwnedIn(fat', stream', t) = Owned(t)
    BY <1>2, <2>1, ShrinkTrimWrites
  <2>3. t \in Owner
    BY <1>2, <2>1, TrimFacts
  <2>4. SameLists
    BY <2>2, <2>3, OthersKept DEF SameLists, OInv, Owned
  <2>5. QED  BY <2>4, SameMaps
<1>3. CASE r.op = "remove"
  <2>1. PICK t : t = r.slot
    OBVIOUS
  <2>2. UNCHANGED fat /\ \A s \in Slot : s # t => stream'[s] = stream[s]
    BY <1>3, <2>1, ShrinkRemoveWrites
  <2>3. Owned(t) # << >> /\ OwnedIn(fat', stream', t) = SubSeq(Owned(t), 1, 1)
    BY <1>3, <2>1, ShrinkRemoveWrites
  <2>4. t \in Owner
    BY <1>3, <2>1, RemoveFacts
  <2>5. \A o \in Owner \ {t} : OwnedIn(fat', stream', o) = OwnedIn(fat, stream, o)
    BY <2>2, <2>4, OthersKept DEF OInv
  <2>6. PICK n \in Nat : n = 1
    OBVIOUS
  <2>7. n \in 0..Len(Owned(t))
    <3>1. PICK s \in Seq(Cluster) : s = Owned(t)
      BY <2>4, ListType DEF OInv, DiskInv
    <3>2. s # << >>
      BY <2>3, <3>1
    <3>3. Len(s) \in Nat /\ Len(s) >= 1
      BY ONLY <3>2, s \in Seq(Cluster)
    <3>4. QED  BY <2>6, <3>1, <3>3
  <2>8. ListsSound /\ Owned(t)' = SubSeq(Owned(t), 1, n) /\ \A o \in Owner \ {t} : Owned(o)' = Owned(o)
    BY <2>3, <2>4, <2>5, <2>6, OthersSame DEF OInv, DiskInv, Owned
  <2>9. Promise!Truncate(t) \/ Lists' = Lists
    BY ONLY <2>4, <2>7, <2>8, TruncateMaps
  <2>10. QED  BY <2>4, <2>9 DEF Promise!Next
<1>4. QED  BY <1>1, <1>2, <1>3

LEMMA EraseMaps == ASSUME OInv, IInv', Erase PROVE Promise!Next \/ Lists' = Lists
<1>1. PICK t : t = r.slot
  OBVIOUS
<1>2. /\ t \in Owner /\ \A s \in Slot : s # t => stream'[s] = stream[s]
      /\ OwnedIn(fat', stream', t) = << >> /\ UNCHANGED fat
  BY <1>1, EraseWrites DEF Erase
<1>3. \A o \in Owner \ {t} : OwnedIn(fat', stream', o) = OwnedIn(fat, stream, o)
  BY <1>2, OthersKept DEF OInv
<1>4. PICK s \in Seq(Cluster) : s = Owned(t)
  BY <1>2, ListType DEF OInv, DiskInv
<1>5. PICK n \in Nat : n = 0
  OBVIOUS
<1>6. n \in 0..Len(s) /\ SubSeq(s, 1, n) = << >>
  BY <1>5
<1>7. n \in 0..Len(Owned(t)) /\ Owned(t)' = SubSeq(Owned(t), 1, n)
  BY <1>2, <1>4, <1>6 DEF Owned
<1>8. ListsSound /\ \A o \in Owner \ {t} : Owned(o)' = Owned(o)
  BY <1>2, <1>3, OthersSame DEF OInv, DiskInv
<1>9. Promise!Truncate(t) \/ Lists' = Lists
  BY ONLY <1>2, <1>7, <1>8, TruncateMaps
<1>10. QED  BY <1>2, <1>9 DEF Promise!Next

\* The steps that may change a list.
LEMMA ListWriters ==
  ASSUME [CarefulNext]_vars
  PROVE  \/ ScanTake \/ Link \/ ChainLink \/ Runaway \/ NewTake \/ Cut
         \/ Grow \/ Enter \/ Shrink \/ Erase \/ UNCHANGED <<fat, stream>>
<1>1. CASE AllocStep
  BY <1>1 DEF AllocStep, LastContiguous, LastFollow, LastFound, LastMissing, ScanSkip, ScanExhausted, Mark,
              Convert, KeepFlags, ChainDone, ChainUnderflow, FillReload, volume
<1>2. CASE CreateStep
  BY <1>2 DEF CreateStep, NewSkip, NewMark, NewExhausted, volume
<1>3. CASE FreeStep
  BY <1>3 DEF FreeStep, ClearTail, ClearDone, Walk, WalkDone, Unmark, CutDone, volume
<1>4. CASE FileCommand
  BY <1>4 DEF FileCommand, CallFill, CallCreate, CallReload, CallTrim, CallRemove, volume
<1>5. CASE \E flag \in RootFlags : Restart(flag)
  BY <1>5 DEF Restart
<1>6. CASE UNCHANGED vars
  BY <1>6 DEF vars
<1>7. QED  BY <1>1, <1>2, <1>3, <1>4, <1>5, <1>6 DEF CarefulNext, Step

LEMMA StepMaps ==
  ASSUME OInv, IInv', [CarefulNext]_vars
  PROVE  Promise!Next \/ Lists' = Lists
<1>1. CASE ScanTake \/ ChainLink \/ NewTake \/ UNCHANGED <<fat, stream>>
  BY <1>1, ScanTakeKeeps, ChainLinkKeeps, NewTakeKeeps, ListsQuiet, SameMaps
<1>2. QED  BY <1>1, LinkMaps, GrowMaps, EnterMaps, CutMaps, ShrinkMaps, EraseMaps, NoRunaway, ListWriters

(* The allocator keeps its promise: whatever is filled, made, trimmed and  *)
(* removed with care, and wherever the program is killed, the lists of     *)
(* clusters that the disk alone gives change one at a time, by clusters    *)
(* nobody has or by the loss of a tail.                                    *)
THEOREM KeepsOwnership == CarefulSpec => ImplementsOwnership
<1>1. OInv => Promise!Init
  BY SoundMaps DEF OInv, DiskInv
<1>2. OInv /\ OInv' /\ [CarefulNext]_vars => [Promise!Next]_Lists
  BY StepMaps DEF OInv
<1>3. Init => Promise!Init
  BY <1>1, InitOInv
<1>4. QED  BY <1>2, <1>3, CarefulInvariance, PTL DEF CarefulSpec, ImplementsOwnership, Promise!Spec, Lists

(* So no cluster is ever a directory's twice, two directories', or one of  *)
(* the volume's own and a directory's.                                     *)
THEOREM OneOwnerOnVolume == CarefulSpec => []Promise!Exclusive
<1>1. OInv => Promise!Exclusive
  BY SoundMaps DEF OInv, DiskInv, Promise!Init
<1>2. QED  BY <1>1, CarefulInvariance, PTL

-----------------------------------------------------------------------------
\* Clusters that are marked, and neither the volume's nor a directory's.
Lost == bitmap \ (System \union UNION {Holds(o) : o \in Owner})

\* The commands are fill and trim.
Plain ==
  /\ r.op \in {"none", "fill", "trim"}
  /\ pc = "idle" <=> r.op = "none"
  /\ pc = "reload" => r.obj = RootOffset

(* Every directory has a fileinfo, and, but for the one that the running   *)
(* command changes, that and the dentry say what is so.                    *)
Sizes ==
  \A s \in Slot : stream[s].live =>
    /\ stream[s].clu \in Cluster /\ stream[s].len > 0
    /\ head[stream[s].clu].live /\ head[stream[s].clu].clu = stream[s].clu
    /\ r.op = "none" \/ s # Target => head[stream[s].clu] = stream[s] /\ Exact(s)

(* In the middle of a command the clusters a directory is about to get are *)
(* marked, and so are those it has just lost; no other is.                 *)
NothingLost ==
  /\ pc \in {"idle", "last", "walk", "reload", "shrink"} \/ r.obj = RootOffset \/ Whole => Lost = {}
  /\ pc \in Growing \ {"last"} /\ r.obj # RootOffset =>
       \A P \in Seq(Cluster) : Growth(P) => Lost \subseteq Members(P)
  /\ pc \in {"cut", "unmark"} =>
       \A T \in Seq(Cluster) : Rest(T) => Lost \subseteq Members(T) \ (IF pc = "cut" THEN {r.clu} ELSE {})

AccountInv == OInv /\ Plain /\ Sizes /\ NothingLost

-----------------------------------------------------------------------------
(* Two lists that are linked alike are alike.                              *)
Same(P, Q, n) == \A k \in 1..n : Q[k] = P[k]
Follows(f, P, n) == \A k \in n..(Len(P) - 1) : f[P[k]] = P[k + 1]

LEMMA Agree ==
  ASSUME NEW P \in Seq(Cluster), NEW Q \in Seq(Cluster), NEW n \in 1..Len(P), Len(P) <= Len(Q),
         Same(P, Q, n), NEW g, Follows(g, P, n), Follows(g, Q, n)
  PROVE  Same(P, Q, Len(P))
<1>1. PICK m \in Nat : m = Len(P)
  OBVIOUS
<1>2. PICK l \in Nat : l = Len(Q)
  OBVIOUS
<1>0. /\ n \in Nat /\ n >= 1 /\ \A k \in 1..n : Q[k] = P[k]
      /\ \A k \in n..(Len(P) - 1) : g[P[k]] = P[k + 1]
      /\ \A k \in n..(Len(Q) - 1) : g[Q[k]] = Q[k + 1]
  BY DEF Same, Follows
<1> DEFINE T == {j \in 0..m : \A k \in 1..j : Q[k] = P[k]}
<1>3. 0 \in T
  OBVIOUS
<1>4. ASSUME NEW j \in 0..(m - 1), j \in T PROVE j + 1 \in T
  <2>1. \A k \in 1..j : Q[k] = P[k]
    BY <1>4
  <2>2. Q[j + 1] = P[j + 1]
    <3>1. CASE j + 1 <= n
      <4>1. j + 1 \in 1..n
        BY <3>1
      <4>2. QED  BY <1>0, <4>1
    <3>2. CASE j + 1 > n
      <4>1. j \in n..(m - 1) /\ j \in n..(l - 1) /\ j \in 1..j
        BY ONLY <3>2, <1>0, <1>1, <1>2, Len(P) <= Len(Q), m \in Nat, l \in Nat, j \in 0..(m - 1)
      <4>2. g[P[j]] = P[j + 1] /\ g[Q[j]] = Q[j + 1]
        BY <1>0, <1>1, <1>2, <4>1
      <4>3. Q[j] = P[j]
        BY <2>1, <4>1
      <4>4. QED  BY <4>2, <4>3
    <3>3. QED  BY <3>1, <3>2
  <2>3. \A k \in 1..(j + 1) : k \in 1..j \/ k = j + 1
    OBVIOUS
  <2>4. j + 1 \in 0..m /\ \A k \in 1..(j + 1) : Q[k] = P[k]
    <3>1. j + 1 \in 0..m
      OBVIOUS
    <3>2. ASSUME NEW k \in 1..(j + 1) PROVE Q[k] = P[k]
      BY <2>1, <2>2, <2>3
    <3>3. QED  BY <3>1, <3>2
  <2>5. QED  BY <2>4
<1> HIDE DEF T
<1>5. 0..m \subseteq T
  BY ONLY <1>3, <1>4, m \in Nat, InductionUpTo
<1>6. m \in T
  BY <1>5
<1>7. QED  BY <1>1, <1>6 DEF T, Same

\* Of the list of what a directory has and is about to get there is only one, and it only grows.
LEMMA GrowthGrows ==
  ASSUME OInv, OInv', pc \in Growing, pc' \in Growing, r.obj # RootOffset, r'.obj = r.obj,
         stream' = stream, SameLists, Linked' >= Linked,
         NEW P \in Seq(Cluster), Growth(P), NEW Q \in Seq(Cluster), Growth(Q)',
         \A k \in Dentry.len..(Len(P) - 1) : fat'[P[k]] = fat[P[k]]
  PROVE  Members(P) \subseteq Members(Q)
<1>1. PICK t : t = Target
  OBVIOUS
<1>2. PICK n \in Nat : n = Dentry.len
  BY GrowingDirectory
<1>3. Target' = t /\ Dentry' = Dentry
  BY <1>1, SameTarget
<1>4. Len(P) \in Nat /\ Linked \in Nat /\ Len(P) = n + Linked /\ n > 0
  BY <1>2, GrowthFacts
<1>5. Linked' \in Nat /\ Len(Q) = n + Linked' /\ Owned(Target)' = SubSeq(Q, 1, n)
  BY <1>2, <1>3 DEF Growth
<1>6. t \in Owner
  BY <1>1, GrowingDirectory
<1>7. Owned(Target)' = Owned(t)
  BY <1>3, <1>6 DEF SameLists, Owned
<1>8. Owned(t) = SubSeq(P, 1, n) /\ SubSeq(Q, 1, n) = SubSeq(P, 1, n)
  BY <1>1, <1>2, <1>5, <1>7 DEF Growth
<1>9. n >= 1 /\ n <= Len(P) /\ Len(P) <= Len(Q) /\ n \in 0..Len(P) /\ n \in 0..Len(Q)
  <2>1. PICK a \in Nat : a = Linked
    BY <1>4
  <2>2. PICK b \in Nat : b = Linked'
    BY <1>5
  <2>3. b >= a /\ Len(P) = n + a /\ Len(Q) = n + b /\ n > 0
    BY <1>4, <1>5, <2>1, <2>2
  <2>4. QED  BY ONLY <2>3, a \in Nat, b \in Nat, n \in Nat
<1>10. \A k \in 1..n : Q[k] = P[k]
  <2>1. \A k \in 1..n : SubSeq(P, 1, n)[k] = P[k]
    BY <1>9, Split
  <2>2. \A k \in 1..n : SubSeq(Q, 1, n)[k] = Q[k]
    BY <1>9, Split
  <2>3. QED  BY <1>8, <2>1, <2>2
<1>11. PICK d : d = IF Dentry.nofat THEN n ELSE 1
  OBVIOUS
<1>12. \A k \in n..(Len(P) - 1) : fat[P[k]] = P[k + 1] /\ fat'[P[k]] = fat[P[k]]
  <2>1. \A k \in d..(Len(P) - 1) : fat[P[k]] = P[k + 1]
    BY <1>2, <1>11 DEF Growth
  <2>2. \A k \in n..(Len(P) - 1) : k \in d..(Len(P) - 1)
    BY <1>4, <1>9, <1>11
  <2>3. QED  BY <1>2, <2>1, <2>2
<1>13. \A k \in n..(Len(Q) - 1) : fat'[Q[k]] = Q[k + 1]
  <2>1. \A k \in d..(Len(Q) - 1) : fat'[Q[k]] = Q[k + 1]
    BY <1>2, <1>3, <1>11 DEF Growth
  <2>2. \A k \in n..(Len(Q) - 1) : k \in d..(Len(Q) - 1)
    BY <1>5, <1>9, <1>11
  <2>3. QED  BY <2>1, <2>2
<1>14. \A k \in 1..Len(P) : Q[k] = P[k]
  <2>1. n \in 1..Len(P) /\ Len(P) <= Len(Q)
    BY <1>4, <1>9
  <2>2. PICK g : g = fat'
    OBVIOUS
  <2>3. Same(P, Q, n) /\ Follows(g, P, n) /\ Follows(g, Q, n)
    BY <1>10, <1>12, <1>13, <2>2 DEF Same, Follows
  <2>4. Same(P, Q, Len(P))
    BY ONLY <2>1, <2>3, P \in Seq(Cluster), Q \in Seq(Cluster), Agree
  <2>5. QED  BY <2>4 DEF Same
<1>15. \A k \in 1..Len(P) : k \in 1..Len(Q)
  <2>1. PICK a \in Nat : a = Len(P)
    BY <1>4
  <2>2. PICK b \in Nat : b = Len(Q)
    OBVIOUS
  <2>3. a <= b
    BY <1>9, <2>1, <2>2
  <2>4. \A k \in 1..a : k \in 1..b
    BY ONLY <2>3, a \in Nat, b \in Nat
  <2>5. QED  BY <2>1, <2>2, <2>4
<1>16. QED  BY <1>14, <1>15 DEF Members
-----------------------------------------------------------------------------
(* What a step leaves as it was.                                           *)
LEMMA LostKept ==
  ASSUME SameLists, NEW X, bitmap' \subseteq bitmap \union X
  PROVE  Lost' \subseteq Lost \union X
<1>1. \A o \in Owner : Holds(o)' = Holds(o)
  BY SameHolds
<1>2. QED  BY <1>1 DEF Lost

LEMMA NoneLost == ASSUME Lost' = {} PROVE NothingLost'
BY DEF NothingLost

LEMMA SizesKept ==
  ASSUME AccountInv, stream' = stream, r.op # "none", r'.op # "none", Target' = Target,
         \A c \in FirstCluster : c # r.obj => head'[c] = head[c],
         head'[r.obj].live = head[r.obj].live, head'[r.obj].clu = head[r.obj].clu,
         \A s \in Slot : s # Target => Owned(s)' = Owned(s),
         \A s \in Slot : s # Target /\ stream[s].live /\ ~stream[s].nofat /\ Exact(s) =>
           fat'[Owned(s)[stream[s].len]] = fat[Owned(s)[stream[s].len]]
  PROVE  Sizes'
<1>1. PICK t : t = Target
  OBVIOUS
<1>2. ASSUME NEW s \in Slot, stream[s].live
      PROVE  /\ stream[s].clu \in Cluster /\ stream[s].len > 0
             /\ head'[stream[s].clu].live /\ head'[stream[s].clu].clu = stream[s].clu
             /\ s # t => head'[stream[s].clu] = stream[s] /\ Exact(s)'
  <2>1. PICK c \in Cluster : c = stream[s].clu
    BY <1>2 DEF AccountInv, Sizes
  <2>2. /\ stream[s].len > 0 /\ head[c].live /\ head[c].clu = c
        /\ s # t => head[c] = stream[s] /\ Exact(s)
    BY <1>1, <1>2, <2>1 DEF AccountInv, Sizes
  <2>3. c \in FirstCluster
    BY DEF FirstCluster
  <2>4. head'[c].live /\ head'[c].clu = c
    BY <2>2, <2>3
  <2>5. ASSUME s # t PROVE head'[c] = stream[s] /\ Exact(s)'
    <3>1. c # r.obj
      <4>1. c # RootOffset /\ StreamOf(c) = s
        BY <1>2, <2>1, OneBegins DEF AccountInv, OInv, DiskInv
      <4>2. QED  BY <1>1, <2>5, <4>1 DEF Target
    <3>2. head'[c] = stream[s]
      BY <2>2, <2>3, <2>5, <3>1
    <3>3. Exact(s)'
      <4>1. Exact(s) /\ Owned(s)' = Owned(s)
        BY <1>1, <2>2, <2>5
      <4>2. CASE stream[s].nofat
        BY <4>2 DEF Exact
      <4>3. CASE ~stream[s].nofat
        <5>1. fat'[Owned(s)[stream[s].len]] = fat[Owned(s)[stream[s].len]]
          BY <1>1, <1>2, <2>5, <4>1, <4>3
        <5>2. Len(Owned(s)) = stream[s].len /\ fat[Owned(s)[stream[s].len]] = EXFAT_LASTCLUSTER
          BY <4>1, <4>3 DEF Exact
        <5>3. QED  BY <4>1, <5>1, <5>2 DEF Exact
      <4>4. QED  BY <4>2, <4>3
    <3>4. QED  BY <3>2, <3>3
  <2>6. QED  BY <2>1, <2>2, <2>4, <2>5
<1>3. Target' = t
  BY <1>1
<1>4. QED  BY <1>2, <1>3 DEF Sizes

\* The commands are not those that use child.
LEMMA PlainFacts ==
  ASSUME AccountInv, pc # "idle"
  PROVE  /\ r.op \in {"fill", "trim"} /\ r.op # "none" /\ r.op # "remove" /\ r.op # "create"
         /\ pc \notin {"new", "newmark", "enter"} /\ Operand = Target /\ F = head[r.obj]
         /\ pc \in Growing => r.op = "fill"
         /\ pc \in Freed => r.op = "trim"
         /\ head \in [FirstCluster -> Entry] /\ r.obj \in FirstCluster
<1>1. r.op \in {"fill", "trim"} /\ r.op # "none" /\ r.op # "remove" /\ r.op # "create"
  BY DEF AccountInv, Plain
<1>2. pc \notin {"new", "newmark", "enter"}
  BY <1>1 DEF AccountInv, OInv, EntryIsNew
<1>3. Operand = Target /\ F = head[r.obj]
  BY <1>1, <1>2 DEF Operand, Target, F
<1>4. pc \in Growing => r.op = "fill"
  BY <1>1 DEF AccountInv, OInv, IInv, Ready
<1>5. pc \in Freed => r.op = "trim"
  BY <1>1 DEF AccountInv, OInv, Removes, Freed
<1>6. head \in [FirstCluster -> Entry] /\ r.obj \in FirstCluster
  BY Types DEF AccountInv, OInv, Registers
<1>7. QED  BY <1>1, <1>2, <1>3, <1>4, <1>5, <1>6

\* A write to the FAT of a running command changes no end mark but its own.
LEMMA WriteSpares ==
  ASSUME AccountInv, pc # "idle", NEW w, Writes(w)
  PROVE  \A s \in Slot : s # Target /\ stream[s].live /\ ~stream[s].nofat /\ Exact(s) =>
           fat'[Owned(s)[stream[s].len]] = fat[Owned(s)[stream[s].len]]
<1>1. PICK t : t = Target
  OBVIOUS
<1>2. ASSUME NEW s \in Slot, s # t, stream[s].live, ~stream[s].nofat, Exact(s)
      PROVE  fat'[Owned(s)[stream[s].len]] = fat[Owned(s)[stream[s].len]]
  <2>1. s \in Owner \ {Operand}
    BY <1>1, <1>2, PlainFacts, SlotNotRoot
  <2>2. Len(Owned(s)) = stream[s].len /\ Len(Owned(s)) \in Nat /\ stream[s].len > 0
    BY <1>2, <2>1, ListType DEF Exact, AccountInv, OInv, DiskInv, Sizes
  <2>3. Len(Owned(s)) \in 1..Len(Owned(s))
    BY <2>2
  <2>4. Owned(s)[Len(Owned(s))] \in Holds(s) /\ Owned(s)[Len(Owned(s))] \in Cluster
    BY <2>1, <2>3, ListType DEF AccountInv, OInv, DiskInv
  <2>5. Owned(s)[Len(Owned(s))] # w /\ Owned(s)[Len(Owned(s))] \in Word
    BY <2>1, <2>4, ClusterWord DEF Writes
  <2>6. QED  BY <2>2, <2>5 DEF Writes
<1>3. QED  BY <1>1, <1>2

LEMMA HeadsKept ==
  ASSUME AccountInv, pc # "idle", UNCHANGED <<stream, head>>, r'.op = r.op, r'.obj = r.obj, SameLists,
         UNCHANGED fat \/ \E w : Writes(w)
  PROVE  Sizes'
<1>1. r.op # "none" /\ Target' = Target
  BY PlainFacts, SameTarget
<1>2. \A s \in Slot : Owned(s)' = Owned(s)
  BY SlotNotRoot, SameHolds
<1>3. \A s \in Slot : s # Target /\ stream[s].live /\ ~stream[s].nofat /\ Exact(s) =>
           fat'[Owned(s)[stream[s].len]] = fat[Owned(s)[stream[s].len]]
  BY WriteSpares
<1>4. QED  BY <1>1, <1>2, <1>3, SizesKept

\* A growing directory: its list grows, and is all that a step may add to.
LEMMA GrowLost ==
  ASSUME AccountInv, OInv', pc \in Growing, pc' \in Growing \ {"last"}, r.obj # RootOffset, r'.obj = r.obj,
         stream' = stream, SameLists, NEW X, bitmap' \subseteq bitmap \union X,
         pc = "last" => X = {},
         pc # "last" => Linked' >= Linked,
         \A P \in Seq(Cluster) : Growth(P) =>
           /\ pc # "last" => X \subseteq Members(P)
           /\ \A k \in Dentry.len..(Len(P) - 1) : fat'[P[k]] = fat[P[k]]
  PROVE  NothingLost'
<1>1. Lost' \subseteq Lost \union X
  BY LostKept
<1>2. CASE pc = "last"
  <2>1. Lost = {}
    BY <1>2 DEF AccountInv, NothingLost
  <2>2. QED  BY <1>1, <1>2, <2>1, NoneLost
<1>3. CASE pc # "last"
  <2>1. ~Whole' /\ pc' \notin {"idle", "last", "walk", "reload", "shrink", "cut", "unmark"}
    BY DEF Whole, Growing
  <2>2. ASSUME NEW Q \in Seq(Cluster), Growth(Q)' PROVE Lost' \subseteq Members(Q)
    <3>1. PICK P \in Seq(Cluster) : Growth(P)
      BY <1>3 DEF AccountInv, OInv, DirectoryGrowth
    <3>2. Members(P) \subseteq Members(Q)
      BY <1>3, <2>2, <3>1, GrowthGrows DEF AccountInv
    <3>3. Lost \subseteq Members(P) /\ X \subseteq Members(P)
      BY <1>3, <3>1 DEF AccountInv, NothingLost
    <3>4. QED  BY <1>1, <3>2, <3>3
  <2>3. QED  BY <2>1, <2>2 DEF NothingLost
<1>4. QED  BY <1>2, <1>3


-----------------------------------------------------------------------------
(* The steps of fill.                                                      *)
LEMMA PlainKept ==
  ASSUME AccountInv, pc # "idle", r'.op = r.op, pc' \notin {"idle", "reload"}
  PROVE  Plain'
BY PlainFacts DEF Plain

LEMMA QuietLost ==
  ASSUME UNCHANGED <<fat, bitmap, stream>>, Lost = {}
  PROVE  Lost' = {}
<1>1. SameLists
  BY ListsQuiet
<1>2. Lost' \subseteq Lost \union {}
  BY ONLY <1>1, LostKept, UNCHANGED <<fat, bitmap, stream>>
<1>3. QED  BY <1>2

LEMMA LastAccount ==
  ASSUME AccountInv, OInv', LastContiguous \/ LastFollow \/ LastFound \/ LastMissing
  PROVE  AccountInv'
<1>1. /\ pc = "last" /\ pc' \in {"last", "scan"}
      /\ UNCHANGED <<fat, bitmap, stream, head>> /\ r'.op = r.op /\ r'.obj = r.obj
  BY Types DEF AccountInv, OInv, Registers, LastContiguous, LastFollow, LastFound, LastMissing, ScanFrom, Goto,
               volume, memory
<1>2. Lost' = {}
  BY <1>1, QuietLost DEF AccountInv, NothingLost
<1>3. Plain'
  BY <1>1, PlainKept
<1>4. Sizes'
  BY <1>1, HeadsKept, ListsQuiet
<1>5. QED  BY <1>2, <1>3, <1>4, NoneLost DEF AccountInv

\* A statement that only changes locals, once the last cluster is found.
LEMMA QuietAccount ==
  ASSUME AccountInv, OInv', UNCHANGED <<volume, memory>>, pc \in Growing \ {"last"}, pc' \in Growing \ {"last"},
         r'.op = r.op, r'.obj = r.obj, Linked' = Linked
  PROVE  AccountInv'
<1>1. UNCHANGED <<fat, bitmap, stream, head>>
  BY DEF volume, memory
<1>2. SameLists
  BY <1>1, ListsQuiet
<1>3. pc # "idle" /\ pc' \notin {"idle", "reload"}
  BY DEF Growing
<1>4. NothingLost'
  <2>1. CASE r.obj = RootOffset
    <3>1. Lost' = {}
      BY <1>1, <2>1, QuietLost DEF AccountInv, NothingLost
    <3>2. QED  BY <3>1, NoneLost
  <2>2. CASE r.obj # RootOffset
    <3>1. Linked' >= Linked
      <4>1. PICK P \in Seq(Cluster) : Growth(P)
        BY <2>2 DEF AccountInv, OInv, DirectoryGrowth
      <4>2. Linked \in Nat
        BY <4>1 DEF Growth
      <4>3. QED  BY <4>2
    <3>2. PICK X : X = {}
      OBVIOUS
    <3>3. bitmap' \subseteq bitmap \union X /\ (pc = "last" => X = {})
      BY <1>1, <3>2
    <3>4. \A P \in Seq(Cluster) : Growth(P) =>
            /\ pc # "last" => X \subseteq Members(P)
            /\ \A k \in Dentry.len..(Len(P) - 1) : fat'[P[k]] = fat[P[k]]
      BY <1>1, <3>2
    <3>5. QED  BY <1>1, <1>2, <2>2, <3>1, <3>3, <3>4, GrowLost
  <2>3. QED  BY <2>1, <2>2
<1>5. QED  BY <1>1, <1>2, <1>3, <1>4, PlainKept, HeadsKept DEF AccountInv

LEMMA ScanAccount ==
  ASSUME AccountInv, OInv', ScanSkip \/ KeepFlags \/ ChainDone
  PROVE  AccountInv'
<1>1. /\ UNCHANGED <<volume, memory>> /\ pc \in Growing \ {"last"} /\ pc' \in Growing \ {"last"}
      /\ r'.op = r.op /\ r'.obj = r.obj /\ Linked' = Linked
  BY Types DEF AccountInv, OInv, Registers, ScanSkip, KeepFlags, ChainDone, Goto, Growing, Linked
<1>2. QED  BY <1>1, QuietAccount

\* A write that links what is there, or what will be, is no loss.
LEMMA WriteLost ==
  ASSUME AccountInv, OInv', pc \in Growing \ {"last"}, pc' \in Growing \ {"last"},
         r'.op = r.op, r'.obj = r.obj, UNCHANGED <<bitmap, stream, head>>, SameLists,
         Linked' >= Linked, NEW w, Writes(w),
         r.obj # RootOffset => \A P \in Seq(Cluster) : Growth(P) => \A k \in Dentry.len..(Len(P) - 1) : P[k] # w
  PROVE  AccountInv'
<1>1. pc # "idle" /\ pc' \notin {"idle", "reload"}
  BY DEF Growing
<1>2. PICK X : X = {}
  OBVIOUS
<1>3. bitmap' \subseteq bitmap \union X /\ (pc = "last" => X = {})
  BY <1>2
<1>4. NothingLost'
  <2>1. CASE r.obj = RootOffset
    <3>1. Lost' \subseteq Lost \union X
      BY ONLY <1>3, SameLists, LostKept
    <3>2. Lost = {}
      BY <2>1 DEF AccountInv, NothingLost
    <3>3. QED  BY <1>2, <3>1, <3>2, NoneLost
  <2>2. CASE r.obj # RootOffset
    <3>1. ASSUME NEW P \in Seq(Cluster), Growth(P)
          PROVE  /\ pc # "last" => X \subseteq Members(P)
                 /\ \A k \in Dentry.len..(Len(P) - 1) : fat'[P[k]] = fat[P[k]]
      <4>1. X \subseteq Members(P)
        BY <1>2
      <4>2. ASSUME NEW k \in Dentry.len..(Len(P) - 1) PROVE fat'[P[k]] = fat[P[k]]
        <5>1. P[k] # w
          BY <2>2, <3>1
        <5>2. Len(P) \in Nat /\ Dentry.len \in Nat /\ Dentry.len > 0
          BY <2>2, <3>1, GrowthFacts DEF AccountInv
        <5>3. k \in 1..Len(P)
          BY <5>2
        <5>4. P[k] \in Word
          BY <2>2, <3>1, <5>3, GrowthFacts DEF AccountInv
        <5>5. QED  BY <5>1, <5>4 DEF Writes
      <4>3. QED  BY <4>1, <4>2
    <3>2. QED  BY <1>3, <2>2, <3>1, GrowLost
  <2>3. QED  BY <2>1, <2>2
<1>5. Sizes'
  BY <1>1, HeadsKept
<1>6. QED  BY <1>1, <1>4, <1>5, PlainKept DEF AccountInv

LEMMA ScanTakeAccount == ASSUME AccountInv, OInv', ScanTake PROVE AccountInv'
<1>1. /\ pc = "scan" /\ pc' = "link" /\ r'.op = r.op /\ r'.obj = r.obj /\ r'.num = r.num /\ r'.left = r.left
      /\ UNCHANGED <<bitmap, stream, head>> /\ ~InUse(Candidate)
  BY Types DEF AccountInv, OInv, Registers, ScanTake, Goto, memory
<1>2. SameLists /\ Writes(Candidate)
  BY ScanTakeKeeps DEF AccountInv, OInv
<1>3. Candidate \notin bitmap
  BY <1>1, Types DEF InUse, AccountInv, OInv
<1>4. Linked' >= Linked
  <2>1. r.num \in Nat /\ r.left \in Nat
    BY Types DEF AccountInv, OInv, Registers
  <2>2. Linked = r.num - r.left /\ Linked' = r.num - r.left
    BY <1>1 DEF Linked
  <2>3. QED  BY <2>1, <2>2
<1>5. ASSUME r.obj # RootOffset, NEW P \in Seq(Cluster), Growth(P), NEW k \in Dentry.len..(Len(P) - 1)
      PROVE  P[k] # Candidate
  <2>1. pc \in Growing
    BY <1>1 DEF Growing
  <2>2. Len(P) \in Nat /\ Dentry.len \in Nat /\ Dentry.len > 0
    BY <1>5, <2>1, GrowthFacts DEF AccountInv
  <2>3. k \in 1..Len(P)
    BY <2>2
  <2>4. P[k] \in bitmap
    BY <1>1, <1>5, <2>1, <2>3, GrowthFacts DEF AccountInv
  <2>5. QED  BY <1>3, <2>4
<1>6. pc \in Growing \ {"last"} /\ pc' \in Growing \ {"last"}
  BY <1>1 DEF Growing
<1>7. PICK w : w = Candidate
  OBVIOUS
<1>8. QED  BY <1>1, <1>2, <1>4, <1>5, <1>6, <1>7, WriteLost

LEMMA LinkAccount == ASSUME AccountInv, OInv', Link PROVE AccountInv'
<1>1. /\ pc = "link" /\ pc' = "mark" /\ r' = r /\ UNCHANGED <<bitmap, stream, head>>
  BY DEF Link, Goto, memory
<1>2. pc \in Growing \ {"last"} /\ pc' \in Growing \ {"last"} /\ pc # "idle"
  BY <1>1 DEF Growing
<1>3. CASE r.obj = RootOffset
  <2>1. /\ Writes(r.clu) /\ Owned(Root)' = Append(Owned(Root), r.next)
        /\ \A o \in Owner \ {Root} : Owned(o)' = Owned(o)
        /\ Owned(Root) \in Seq(Cluster) /\ r.next \in Cluster
    BY <1>3, LinkRootKeeps, SlotNotRoot DEF AccountInv, OInv, DiskInv, ListsSound
  <2>2. Members(Append(Owned(Root), r.next)) = Members(Owned(Root)) \union {r.next}
    BY <2>1, AppendIs
  <2>3. \A o \in Owner : Holds(o) \subseteq Holds(o)'
    BY <2>1, <2>2 DEF Holds, Members
  <2>4. Lost' \subseteq Lost
    BY <1>1, <2>3 DEF Lost
  <2>5. Lost' = {}
    BY <1>3, <2>4 DEF AccountInv, NothingLost
  <2>6. \A s \in Slot : Owned(s)' = Owned(s)
    BY <2>1, SlotNotRoot
  <2>7. \A s \in Slot : s # Target /\ stream[s].live /\ ~stream[s].nofat /\ Exact(s) =>
           fat'[Owned(s)[stream[s].len]] = fat[Owned(s)[stream[s].len]]
    BY <1>2, <2>1, WriteSpares
  <2>8. Target' = Target /\ r.op # "none" /\ r'.op # "none"
    BY <1>1, <1>2, SameTarget, PlainFacts
  <2>9. Sizes'
    BY <1>1, <2>6, <2>7, <2>8, SizesKept
  <2>10. Plain'
    BY <1>1, <1>2, PlainKept
  <2>11. QED  BY <2>5, <2>9, <2>10, NoneLost DEF AccountInv
<1>4. CASE r.obj # RootOffset
  <2>1. SameLists /\ Writes(r.clu)
    BY <1>4, LinkDirectoryKeeps DEF AccountInv, OInv
  <2>2. Linked' >= Linked
    <3>1. r.num \in Nat /\ r.left \in Nat
      BY Types DEF AccountInv, OInv, Registers
    <3>2. Linked = r.num - r.left /\ Linked' = r.num - r.left + 1
      BY <1>1 DEF Linked
    <3>3. QED  BY <3>1, <3>2
  <2>3. ASSUME NEW P \in Seq(Cluster), Growth(P), NEW k \in Dentry.len..(Len(P) - 1)
        PROVE  P[k] # r.clu
    <3>1. Len(P) \in Nat /\ Dentry.len \in Nat /\ Dentry.len > 0
      BY <1>2, <1>4, <2>3, GrowthFacts DEF AccountInv
    <3>2. k \in 1..Len(P) /\ Len(P) \in 1..Len(P) /\ k # Len(P)
      BY <3>1
    <3>3. r.clu = P[Len(P)] /\ NoRepeat(P)
      BY <1>1, <2>3 DEF Growth, Tip
    <3>4. QED  BY <3>2, <3>3 DEF NoRepeat
  <2>4. PICK w : w = r.clu
    OBVIOUS
  <2>5. QED  BY <1>1, <1>2, <2>1, <2>2, <2>3, <2>4, WriteLost
<1>5. QED  BY <1>3, <1>4

LEMMA MarkAccount == ASSUME AccountInv, OInv', Mark PROVE AccountInv'
<1>1. /\ pc = "mark" /\ pc' = (IF r.left = 1 THEN "convert" ELSE "scan")
      /\ r'.op = r.op /\ r'.obj = r.obj /\ r'.num = r.num /\ r'.left = r.left - 1
      /\ UNCHANGED <<fat, stream, head>> /\ bitmap' \subseteq bitmap \union {r.next}
  BY Types DEF AccountInv, OInv, Registers, Mark, Goto, memory, SaveBitmap
<1>2. pc \in Growing \ {"last"} /\ pc' \in Growing \ {"last"} /\ pc # "idle" /\ pc' \notin {"idle", "reload"}
  BY <1>1 DEF Growing
<1>3. SameLists
  BY <1>1, ListsQuiet
<1>4. Plain' /\ Sizes'
  BY <1>1, <1>2, <1>3, PlainKept, HeadsKept
<1>5. CASE r.obj = RootOffset
  <2>1. r.next = Tip(Owned(Root)) /\ Lost = {}
    BY <1>1, <1>2, <1>5 DEF AccountInv, OInv, RootGrows, NothingLost
  <2>2. Len(Owned(Root)) \in 1..Len(Owned(Root)) /\ Root \in Owner
    <3>1. Trace(fat, RootOffset, ClusterCount, Owned(Root))
      BY RootTrace DEF AccountInv, OInv
    <3>2. QED  BY <3>1, TraceType, SlotNotRoot DEF Trace
  <2>3. r.next \in Holds(Root)
    BY <2>1, <2>2 DEF Holds, Tip
  <2>4. Lost' \subseteq Lost \union {r.next}
    BY <1>1, <1>3, LostKept
  <2>5. r.next \notin Lost'
    <3>1. r.next \in Holds(Root)'
      BY <1>3, <2>2, <2>3, SameHolds
    <3>2. QED  BY <2>2, <3>1 DEF Lost
  <2>6. Lost' = {}
    BY <2>1, <2>4, <2>5
  <2>7. QED  BY <1>4, <2>6, NoneLost DEF AccountInv
<1>6. CASE r.obj # RootOffset
  <2>1. PICK X : X = {r.next}
    OBVIOUS
  <2>2. Linked' >= Linked
    <3>1. r.num \in Nat /\ r.left \in Nat
      BY Types DEF AccountInv, OInv, Registers
    <3>2. Linked = r.num - r.left + 1
      BY <1>1 DEF Linked
    <3>3. CASE r.left = 1
      BY <1>1, <3>1, <3>2, <3>3 DEF Linked
    <3>4. CASE r.left # 1
      BY <1>1, <3>1, <3>2, <3>4 DEF Linked
    <3>5. QED  BY <3>3, <3>4
  <2>3. ASSUME NEW P \in Seq(Cluster), Growth(P)
        PROVE  /\ pc # "last" => X \subseteq Members(P)
               /\ \A k \in Dentry.len..(Len(P) - 1) : fat'[P[k]] = fat[P[k]]
    <3>1. Len(P) \in 1..Len(P)
      BY <1>2, <1>6, <2>3, GrowthFacts DEF AccountInv
    <3>2. r.next = P[Len(P)]
      BY <1>1, <2>3 DEF Growth, Tip
    <3>3. X \subseteq Members(P)
      BY <2>1, <3>1, <3>2 DEF Members
    <3>4. QED  BY <1>1, <3>3
  <2>4. bitmap' \subseteq bitmap \union X /\ (pc = "last" => X = {}) /\ (pc # "last" => Linked' >= Linked)
    BY <1>1, <2>1, <2>2
  <2>5. NothingLost'
    BY <1>1, <1>2, <1>3, <1>6, <2>3, <2>4, GrowLost
  <2>6. QED  BY <1>4, <2>5 DEF AccountInv
<1>7. QED  BY <1>5, <1>6

LEMMA ConvertAccount == ASSUME AccountInv, OInv', Convert PROVE AccountInv'
<1>1. /\ pc = "convert" /\ pc' = "chain" /\ r'.op = r.op /\ r'.obj = r.obj /\ r'.num = r.num
      /\ UNCHANGED <<fat, bitmap, stream>> /\ F.nofat
  BY Types DEF AccountInv, OInv, Registers, Convert, Goto, volume
<1>2. /\ pc \in Growing \ {"last"} /\ pc' \in Growing \ {"last"} /\ pc # "idle" /\ pc' \notin {"idle", "reload"}
      /\ pc \in Growing
  BY <1>1 DEF Growing
<1>3. SameLists
  BY <1>1, ListsQuiet
<1>4. r.obj # RootOffset
  <2>1. F = head[r.obj]
    BY <1>2, PlainFacts
  <2>2. QED  BY <1>1, <1>2, <2>1 DEF AccountInv, OInv, RootGrows
<1>5. /\ r.op # "none" /\ r'.op # "none" /\ Target' = Target
      /\ head' = [head EXCEPT ![r.obj].len = F.len, ![r.obj].nofat = FALSE]
      /\ head \in [FirstCluster -> Entry] /\ r.obj \in FirstCluster
  BY <1>1, <1>2, PlainFacts, SameTarget DEF Convert, SetF
<1>6. /\ \A c \in FirstCluster : c # r.obj => head'[c] = head[c]
      /\ head'[r.obj].live = head[r.obj].live /\ head'[r.obj].clu = head[r.obj].clu
  BY <1>5 DEF Entry
<1>7. \A s \in Slot : Owned(s)' = Owned(s)
  BY <1>3, SlotNotRoot, SameHolds
<1>8. Sizes'
  BY <1>1, <1>5, <1>6, <1>7, SizesKept
<1>9. NothingLost'
  <2>1. PICK X : X = {}
    OBVIOUS
  <2>2. Linked' >= Linked
    <3>1. r.num \in Nat
      BY Types DEF AccountInv, OInv, Registers
    <3>2. Linked = r.num /\ Linked' = r.num
      BY <1>1 DEF Linked
    <3>3. QED  BY <3>1, <3>2
  <2>3. ASSUME NEW P \in Seq(Cluster), Growth(P)
        PROVE  /\ pc # "last" => X \subseteq Members(P)
               /\ \A k \in Dentry.len..(Len(P) - 1) : fat'[P[k]] = fat[P[k]]
    BY <1>1, <2>1
  <2>4. bitmap' \subseteq bitmap \union X /\ (pc = "last" => X = {}) /\ (pc # "last" => Linked' >= Linked)
    BY <1>1, <2>1, <2>2
  <2>5. QED  BY <1>1, <1>2, <1>3, <1>4, <2>3, <2>4, GrowLost
<1>10. QED  BY <1>1, <1>2, <1>8, <1>9, PlainKept DEF AccountInv

LEMMA ChainLinkAccount == ASSUME AccountInv, OInv', ChainLink PROVE AccountInv'
<1>1. /\ pc = "chain" /\ pc' = pc /\ r'.op = r.op /\ r'.obj = r.obj /\ r'.num = r.num
      /\ UNCHANGED <<bitmap, stream, head>> /\ r.left > 1
  BY Types DEF AccountInv, OInv, Registers, ChainLink, memory
<1>2. pc \in Growing \ {"last"} /\ pc' \in Growing \ {"last"} /\ pc \in Growing
  BY <1>1 DEF Growing
<1>3. SameLists /\ Writes(r.clu)
  BY ChainLinkKeeps DEF AccountInv, OInv
<1>4. Linked' >= Linked
  <2>1. r.num \in Nat
    BY Types DEF AccountInv, OInv, Registers
  <2>2. Linked = r.num /\ Linked' = r.num
    BY <1>1 DEF Linked
  <2>3. QED  BY <2>1, <2>2
<1>5. ASSUME r.obj # RootOffset, NEW P \in Seq(Cluster), Growth(P), NEW k \in Dentry.len..(Len(P) - 1)
      PROVE  P[k] # r.clu
  <2>1. /\ Dentry.nofat /\ r.left \in 1..Dentry.len /\ r.clu = r.obj + (Dentry.len - r.left)
    BY <1>1, <1>2, <1>5 DEF AccountInv, OInv, DirectoryGrows
  <2>2. Len(P) \in Nat /\ Dentry.len \in Nat /\ Dentry.len > 0 /\ r.obj \in Nat
    BY <1>2, <1>5, GrowthFacts, GrowingDirectory DEF AccountInv
  <2>3. PICK j \in Int : j = Dentry.len - r.left + 1
    BY <2>1, <2>2
  <2>4. j \in 1..Dentry.len /\ r.clu = r.obj + j - 1 /\ j < Dentry.len
    BY <1>1, <2>1, <2>2, <2>3
  <2>5. j \in 1..Len(P) /\ P[j] = r.clu
    BY <1>2, <1>5, <2>1, <2>4, GrowthRun DEF AccountInv
  <2>6. k \in 1..Len(P) /\ k # j
    BY <2>2, <2>4
  <2>7. QED  BY <1>5, <2>5, <2>6 DEF Growth, NoRepeat
<1>6. PICK w : w = r.clu
  OBVIOUS
<1>7. QED  BY <1>1, <1>2, <1>3, <1>4, <1>5, <1>6, WriteLost

LEMMA Alike ==
  ASSUME NEW a \in Entry, NEW b \in Entry, a.live = b.live, a.clu = b.clu, a.len = b.len, a.nofat = b.nofat
  PROVE  a = b
BY DEF Entry

\* A command is over, and its directory's fileinfo and dentry are alike and true.
LEMMA Settle ==
  ASSUME AccountInv, pc # "idle", r'.op = "none", UNCHANGED fat, NEW t \in Slot, t = Target, r.obj \in Cluster,
         \A c \in FirstCluster : c # r.obj => head'[c] = head[c],
         \A s \in Slot : s # t => stream'[s] = stream[s],
         \A o \in Owner \ {t} : Owned(o)' = Owned(o),
         stream'[t].live, stream'[t].clu = r.obj, stream'[t].len > 0, head'[r.obj] = stream'[t], Exact(t)'
  PROVE  Sizes'
<1>1. ASSUME NEW s \in Slot, stream'[s].live
      PROVE  /\ stream'[s].clu \in Cluster /\ stream'[s].len > 0
             /\ head'[stream'[s].clu].live /\ head'[stream'[s].clu].clu = stream'[s].clu
             /\ head'[stream'[s].clu] = stream'[s] /\ Exact(s)'
  <2>1. CASE s = t
    BY <1>1, <2>1
  <2>2. CASE s # t
    <3>1. stream'[s] = stream[s] /\ Owned(s)' = Owned(s) /\ stream[s].live
      BY <1>1, <2>2, SlotNotRoot
    <3>2. PICK c \in Cluster : c = stream[s].clu
      BY <3>1 DEF AccountInv, Sizes
    <3>3. /\ stream[s].len > 0 /\ head[c].live /\ head[c].clu = c
          /\ head[c] = stream[s] /\ Exact(s)
      BY <2>2, <3>1, <3>2 DEF AccountInv, Sizes
    <3>4. c # r.obj
      <4>1. c # RootOffset /\ StreamOf(c) = s
        BY <3>1, <3>2, OneBegins DEF AccountInv, OInv, DiskInv
      <4>2. QED  BY <2>2, <4>1 DEF Target
    <3>5. head'[c] = head[c]
      BY <3>4 DEF FirstCluster
    <3>6. Exact(s)'
      BY <3>1, <3>3 DEF Exact
    <3>7. QED  BY <3>1, <3>2, <3>3, <3>5, <3>6
  <2>3. QED  BY <2>1, <2>2
<1>2. QED  BY <1>1 DEF Sizes

LEMMA GrowRootAccount == ASSUME AccountInv, OInv', Grow, r.obj = RootOffset PROVE AccountInv'
<1>1. pc = "size" /\ pc \in Growing /\ pc # "idle" /\ UNCHANGED <<fat, bitmap>>
  BY DEF Grow, Growing
<1>2. /\ r.op = "fill" /\ r.op # "create" /\ r.op # "none" /\ F = head[r.obj]
      /\ head \in [FirstCluster -> Entry] /\ r.obj \in FirstCluster
  BY <1>1, PlainFacts
<1>3. pc' = "reload" /\ r' = r /\ stream' = stream
  BY <1>2 DEF Grow, GrowReturn, Goto, UpdateFilesize
<1>4. head' = [head EXCEPT ![r.obj].len = F.len + r.num, ![r.obj].nofat = F.nofat]
  BY <1>2 DEF Grow, SetF
<1>5. /\ \A c \in FirstCluster : c # r.obj => head'[c] = head[c]
      /\ head'[r.obj].live = head[r.obj].live /\ head'[r.obj].clu = head[r.obj].clu
  BY <1>2, <1>4 DEF Entry
<1>6. \A s \in Slot : Owned(s)' = Owned(s)
  BY <1>1, <1>3, ListsQuiet, SlotNotRoot, SameHolds
<1>7. Target' = Target /\ r'.op # "none"
  BY <1>2, <1>3, SameTarget
<1>8. Sizes'
  BY <1>1, <1>2, <1>3, <1>5, <1>6, <1>7, SizesKept
<1>9. Lost' = {}
  BY <1>1, <1>3, QuietLost DEF AccountInv, NothingLost
<1>10. Plain'
  BY <1>2, <1>3 DEF Plain
<1>11. QED  BY <1>8, <1>9, <1>10, NoneLost DEF AccountInv

LEMMA ReloadKeepsHeads ==
  ASSUME Reload, NEW c \in FirstCluster, head[c].live
  PROVE  head'[c] = head[c]
BY DEF Reload, Heads

LEMMA ReloadSizes ==
  ASSUME AccountInv, Reload, UNCHANGED <<fat, stream>>, r'.op = "none", r.op = "none" \/ r.obj = RootOffset
  PROVE  Sizes'
<1>1. \A s \in Slot : Owned(s)' = Owned(s)
  BY ListsQuiet, SlotNotRoot, SameHolds
<1>2. ASSUME NEW s \in Slot, stream[s].live
      PROVE  /\ stream[s].clu \in Cluster /\ stream[s].len > 0
             /\ head'[stream[s].clu].live /\ head'[stream[s].clu].clu = stream[s].clu
             /\ head'[stream[s].clu] = stream[s] /\ Exact(s)'
  <2>1. PICK c \in Cluster : c = stream[s].clu
    BY <1>2 DEF AccountInv, Sizes
  <2>2. r.op = "none" \/ s # Target
    BY SlotNotRoot DEF Target
  <2>3. /\ stream[s].len > 0 /\ head[c].live /\ head[c].clu = c
        /\ head[c] = stream[s] /\ Exact(s)
    BY <1>2, <2>1, <2>2 DEF AccountInv, Sizes
  <2>4. head'[c] = head[c]
    BY <2>1, <2>3, ReloadKeepsHeads DEF FirstCluster
  <2>5. Exact(s)'
    BY <1>1, <2>3 DEF Exact
  <2>6. QED  BY <2>1, <2>3, <2>4, <2>5
<1>3. QED  BY <1>2 DEF Sizes

LEMMA ReloadAccount == ASSUME AccountInv, OInv', FillReload PROVE AccountInv'
<1>1. /\ pc = "reload" /\ pc' = "idle" /\ r' = NoCall /\ Reload /\ UNCHANGED <<fat, bitmap, stream>>
  BY DEF FillReload, Return, volume
<1>2. r'.op = "none" /\ r.obj = RootOffset
  BY <1>1 DEF NoCall, AccountInv, Plain
<1>3. Lost' = {}
  BY <1>1, QuietLost DEF AccountInv, NothingLost
<1>4. Plain'
  BY <1>1, <1>2 DEF Plain
<1>5. Sizes'
  BY <1>1, <1>2, ReloadSizes
<1>6. QED  BY <1>3, <1>4, <1>5, NoneLost DEF AccountInv

LEMMA GrowDirectoryAccount == ASSUME AccountInv, OInv', Grow, r.obj # RootOffset PROVE AccountInv'
<1>1. pc = "size" /\ pc \in Growing /\ pc # "idle" /\ UNCHANGED <<fat, bitmap>>
  BY DEF Grow, Growing
<1>2. /\ r.op = "fill" /\ r.op # "create" /\ F = head[r.obj]
      /\ head \in [FirstCluster -> Entry] /\ r.obj \in FirstCluster
  BY <1>1, PlainFacts
<1>3. pc' = "idle" /\ r' = NoCall
  BY <1>2 DEF Grow, GrowReturn, Return
<1>4. r'.op = "none"
  BY <1>3 DEF NoCall
<1>5. PICK t \in Slot : t = Target
  BY <1>1, GrowingDirectory DEF AccountInv
<1>6. /\ t \in Owner /\ t = StreamOf(r.obj) /\ t # 0 /\ Dentry = stream[t] /\ stream[t].live /\ stream[t].clu = r.obj
      /\ r.obj \in Cluster /\ stream[t].len \in Nat /\ stream[t].len > 0 /\ head[r.obj].len = stream[t].len
      /\ stream[t] \in Entry
  BY <1>1, <1>5, GrowingDirectory DEF AccountInv, Root
<1>7. /\ head[r.obj].live /\ head[r.obj].clu = r.obj
  BY <1>6 DEF AccountInv, Sizes
<1>8. head' = [head EXCEPT ![r.obj].len = head[r.obj].len + r.num, ![r.obj].nofat = head[r.obj].nofat]
  BY <1>2 DEF Grow, SetF
<1>9. stream' = [stream EXCEPT ![t].len = head[r.obj].len + r.num, ![t].nofat = head[r.obj].nofat]
  <2>1. PICK l : l = head[r.obj].len + r.num
    OBVIOUS
  <2>2. UpdateFilesize(r.obj, [head[r.obj] EXCEPT !.len = l])
    BY <1>2, <2>1 DEF Grow
  <2>3. head[r.obj] \in Entry
    BY <1>2
  <2>4. [head[r.obj] EXCEPT !.len = l].len = l /\ [head[r.obj] EXCEPT !.len = l].nofat = head[r.obj].nofat
    BY <2>3 DEF Entry
  <2>5. QED  BY <1>6, <2>1, <2>2, <2>4 DEF UpdateFilesize
<1>10. stream \in [Slot -> Entry] /\ r.num \in Nat /\ r.num > 0
  BY <1>1, Types DEF AccountInv, OInv, Registers, IInv, Ready
<1>11. /\ \A c \in FirstCluster : c # r.obj => head'[c] = head[c]
       /\ \A s \in Slot : s # t => stream'[s] = stream[s]
       /\ stream'[t].live /\ stream'[t].clu = r.obj /\ stream'[t].len = stream[t].len + r.num
       /\ stream'[t].nofat = head[r.obj].nofat
  BY <1>2, <1>6, <1>8, <1>9, <1>10 DEF Entry
<1>12. head'[r.obj] = stream'[t]
  <2>0. head' \in [FirstCluster -> Entry] /\ stream' \in [Slot -> Entry]
    BY DEF OInv, IInv, TypeOK, VolumeTypeOK
  <2>1. PICK h \in Entry : h = head'[r.obj]
    BY <1>2, <2>0
  <2>2. PICK d \in Entry : d = stream'[t]
    BY <2>0
  <2>3. h.clu = r.obj /\ h.len = stream[t].len + r.num /\ h.nofat = head[r.obj].nofat /\ h.live
    BY <1>2, <1>6, <1>7, <1>8, <2>1 DEF Entry
  <2>4. d.clu = h.clu /\ d.len = h.len /\ d.nofat = h.nofat /\ d.live
    BY <1>11, <2>2, <2>3
  <2>5. h.live = TRUE /\ d.live = TRUE
    BY <2>3, <2>4 DEF Entry
  <2>6. h = d
    BY <2>4, <2>5, Alike
  <2>7. QED  BY <2>1, <2>2, <2>6
<1>13. PICK P \in Seq(Cluster) : Growth(P)
  BY <1>1 DEF AccountInv, OInv, DirectoryGrowth
<1>14. OwnedIn(fat', stream', t) = P
  BY <1>5, <1>13, GrowDirectoryWrites DEF AccountInv, OInv
<1>15. Owned(t)' = P
  BY <1>14 DEF Owned
<1>16. \A o \in Owner \ {t} : Owned(o)' = Owned(o)
  <2>1. \A o \in Owner \ {t} : OwnedIn(fat', stream', o) = OwnedIn(fat, stream, o)
    BY <1>1, <1>6, <1>11, OthersKept DEF AccountInv, OInv
  <2>2. QED  BY <1>6, <2>1, OthersSame
<1>17. stream'[t].len > 0
  BY <1>6, <1>10, <1>11
<1>18. Exact(t)'
  <2>1. Linked = r.num
    BY <1>1 DEF Linked
  <2>2. Len(P) = stream'[t].len
    BY <1>6, <1>11, <1>13, <2>1 DEF Growth
  <2>3. fat[Tip(P)] = EXFAT_LASTCLUSTER
    BY <1>10, <1>13, <2>1 DEF Growth
  <2>4. QED  BY <1>1, <1>15, <2>2, <2>3 DEF Exact, Tip
<1>19. Sizes'
  BY <1>1, <1>4, <1>5, <1>6, <1>11, <1>12, <1>16, <1>17, <1>18, Settle
<1>20. Lost' = {}
  <2>1. ASSUME NEW x \in Lost' PROVE FALSE
    <3>1. x \in bitmap /\ x \notin System /\ (\A o \in Owner \ {t} : x \notin Holds(o)) /\ x \notin Members(P)
      <4>1. \A o \in Owner \ {t} : Holds(o)' = Holds(o)
        BY <1>16 DEF Holds
      <4>2. Holds(t)' = Members(P)
        BY <1>15 DEF Holds, Members
      <4>3. QED  BY <1>1, <1>6, <2>1, <4>1, <4>2 DEF Lost
    <3>2. Holds(t) \subseteq Members(P)
      <4>1. Len(P) \in Nat /\ stream[t].len \in 0..Len(P) /\ Owned(t) = SubSeq(P, 1, stream[t].len)
        <5>1. Len(P) \in Nat /\ Linked \in Nat /\ Len(P) = stream[t].len + Linked
          BY <1>1, <1>6, <1>13, GrowthFacts DEF AccountInv
        <5>2. stream[t].len \in 0..Len(P)
          BY <1>6, <5>1
        <5>3. QED  BY <1>5, <1>6, <1>13, <5>1, <5>2 DEF Growth
      <4>2. Members(Owned(t)) \subseteq Members(P)
        BY <4>1, Split
      <4>3. QED  BY <4>2 DEF Holds, Members
    <3>3. Lost \subseteq Members(P)
      BY <1>1, <1>13 DEF AccountInv, NothingLost
    <3>4. QED  BY <3>1, <3>2, <3>3 DEF Lost
  <2>2. QED  BY <2>1
<1>21. Plain'
  BY <1>3, <1>4 DEF Plain
<1>22. QED  BY <1>19, <1>20, <1>21, NoneLost DEF AccountInv

-----------------------------------------------------------------------------
(* The steps of trim.                                                      *)
LEMMA RestIs ==
  ASSUME NEW T \in Seq(Cluster), NEW Q \in Seq(Cluster), NEW g, Len(T) = Len(Q), Len(T) >= 1, Q[1] = T[1],
         Follows(g, T, 1), Follows(g, Q, 1)
  PROVE  Members(T) \subseteq Members(Q)
<1>1. PICK m \in Nat : m = Len(T)
  OBVIOUS
<1>2. 1 \in 1..Len(T) /\ Len(T) <= Len(Q)
  BY <1>1
<1>3. Same(T, Q, 1)
  BY DEF Same
<1>4. Same(T, Q, Len(T))
  BY ONLY <1>2, <1>3, T \in Seq(Cluster), Q \in Seq(Cluster), Follows(g, T, 1), Follows(g, Q, 1), Agree
<1>5. QED  BY <1>4 DEF Same, Members

LEMMA FreedFacts ==
  ASSUME AccountInv, pc \in Freed
  PROVE  /\ r.op = "trim" /\ pc \in {"walk", "cut", "unmark", "shrink"} /\ pc # "idle" /\ r.obj # RootOffset
         /\ pc = "walk" => Whole
         /\ pc \in {"walk", "shrink"} => Lost = {}
         /\ Whole => Lost = {}
<1>1. r.op = "trim" /\ pc # "idle"
  BY PlainFacts DEF Freed
<1>2. pc \in {"walk", "cut", "unmark", "shrink"} /\ r.obj # RootOffset /\ (pc = "walk" => Whole)
  BY <1>1 DEF AccountInv, OInv, Trims
<1>3. QED  BY <1>1, <1>2 DEF AccountInv, NothingLost

LEMMA WalkAccount ==
  ASSUME AccountInv, OInv', Walk \/ WalkDone \/ CutDone
  PROVE  AccountInv'
<1>1. /\ pc \in {"walk", "cut"} /\ pc' \in {"walk", "cut", "shrink"} /\ r'.op = r.op /\ r'.obj = r.obj
      /\ UNCHANGED <<fat, bitmap, stream, head>>
      /\ pc = "cut" => CutDone
  BY Types DEF AccountInv, OInv, Registers, Walk, WalkDone, CutDone, Goto, volume, memory
<1>2. pc \in Freed /\ pc # "idle"
  BY <1>1 DEF Freed
<1>3. Lost = {}
  <2>1. CASE pc = "walk" \/ Whole
    BY <1>2, <2>1, FreedFacts
  <2>2. CASE pc = "cut" /\ ~Whole
    <3>1. r.op = "trim"
      BY <1>2, FreedFacts
    <3>2. PICK T \in Seq(Cluster) : Rest(T)
      BY <2>2, <3>1, TrimPhase DEF AccountInv
    <3>3. Lost \subseteq Members(T) \ {r.clu}
      BY <2>2, <3>2 DEF AccountInv, NothingLost
    <3>4. r.i < Dentry.len /\ Len(T) = Dentry.len - r.i /\ T[1] = r.clu
      BY <2>2, <3>2 DEF Rest
    <3>5. PICK n \in Nat : n = Dentry.len
      BY <3>1, TrimFacts DEF AccountInv
    <3>6. F = Dentry /\ r.i \in Nat
      BY <3>1, TrimFacts DEF AccountInv
    <3>7. ~Below(r.i, n, 1)
      BY <1>1, <2>2, <3>5, <3>6 DEF CutDone
    <3>8. Len(T) = 1
      BY <3>4, <3>5, <3>6, <3>7 DEF Below
    <3>9. Members(T) \subseteq {r.clu}
      <4>1. \A k \in 1..Len(T) : k = 1
        BY <3>8
      <4>2. QED  BY <3>4, <4>1 DEF Members
    <3>10. QED  BY <3>3, <3>9
  <2>3. QED  BY <1>1, <2>1, <2>2
<1>4. Lost' = {}
  BY <1>1, <1>3, QuietLost
<1>5. Plain'
  BY <1>1, <1>2, PlainKept
<1>6. Sizes'
  BY <1>1, <1>2, HeadsKept, ListsQuiet
<1>7. QED  BY <1>4, <1>5, <1>6, NoneLost DEF AccountInv

LEMMA CutIs ==
  ASSUME AccountInv, Cut
  PROVE  /\ r.op = "trim" /\ pc = "cut" /\ pc \in Freed /\ pc # "idle" /\ pc' = "unmark"
         /\ UNCHANGED <<bitmap, stream, head>>
         /\ r'.op = r.op /\ r'.obj = r.obj /\ r'.num = r.num /\ r'.clu = r.clu
         /\ r'.next = fat[Clip(r.clu)] /\ r'.i = r.i + 1 /\ r.i < Dentry.len - 1
         /\ SetFat(r.clu, EXFAT_LASTCLUSTER)
         /\ Target' = Target /\ Dentry' = Dentry /\ r.obj # RootOffset
<1>1. /\ pc = "cut" /\ pc' = "unmark" /\ UNCHANGED <<bitmap, stream, head>> /\ SetFat(r.clu, EXFAT_LASTCLUSTER)
      /\ Below(r.i, F.len, 1)
  BY DEF Cut, Goto, memory
<1>2. pc \in Freed
  BY <1>1 DEF Freed
<1>3. r.op = "trim" /\ pc # "idle" /\ r.obj # RootOffset
  BY <1>2, FreedFacts
<1>4. /\ r'.op = r.op /\ r'.obj = r.obj /\ r'.num = r.num /\ r'.clu = r.clu
      /\ r'.next = fat[Clip(r.clu)] /\ r'.i = Up(r.i)
  BY Types DEF Cut, AccountInv, OInv, Registers
<1>5. PICK n \in Nat : n = Dentry.len
  BY <1>3, TrimFacts DEF AccountInv
<1>6. F = Dentry /\ r.i \in Nat /\ n <= MaxLen /\ r.num \in Nat /\ r.num < n
  BY <1>3, <1>5, TrimFacts DEF AccountInv
<1>7. r.i < n - 1
  BY <1>1, <1>5, <1>6 DEF Below
<1>8. Up(r.i) = r.i + 1
  BY <1>6, <1>7, VolumeAssumption DEF Up
<1>9. Target' = Target /\ Dentry' = Dentry
  BY <1>1, <1>4, SameTarget
<1>10. QED  BY <1>1, <1>2, <1>3, <1>4, <1>5, <1>7, <1>8, <1>9

\* The clusters cut off are marked still, and are what is left of the tail.
LEMMA FirstCutAccount == ASSUME AccountInv, OInv', Cut, Whole, r.i = Dentry.len - r.num - 1 PROVE AccountInv'
<1>1. /\ r.op = "trim" /\ pc = "cut" /\ pc \in Freed /\ pc # "idle" /\ pc' = "unmark"
      /\ UNCHANGED <<bitmap, stream, head>>
      /\ r'.op = r.op /\ r'.obj = r.obj /\ r'.num = r.num /\ r'.clu = r.clu
      /\ r'.next = fat[Clip(r.clu)] /\ r'.i = r.i + 1 /\ r.i < Dentry.len - 1
      /\ SetFat(r.clu, EXFAT_LASTCLUSTER)
      /\ Target' = Target /\ Dentry' = Dentry /\ r.obj # RootOffset
  BY CutIs
<1>2. r.i = Dentry.len - r.num - 1
  OBVIOUS
<1>3. PICK t \in Slot : t = Target
  BY <1>1, TrimFacts DEF AccountInv
<1>4. PICK d : d = Dentry
  OBVIOUS
<1>5. /\ t \in Owner /\ d.len \in Nat /\ r.num \in Nat /\ r.num < d.len /\ r.i \in Nat
  BY <1>1, <1>3, <1>4, TrimFacts DEF AccountInv
<1>6. PICK s \in Seq(Cluster) : s = Owned(t)
  BY <1>1, <1>3, TrimFacts DEF AccountInv
<1>7. PICK n \in Nat : n = d.len - r.num
  BY <1>5
<1>8. Len(s) = d.len
  BY <1>1, <1>3, <1>4, <1>6, TrimExact DEF AccountInv, Whole
<1>9. \A k \in 1..d.len : s[k] \in Cluster /\ (k < d.len => k + 1 \in 1..d.len /\ fat[s[k]] = s[k + 1])
  BY <1>1, <1>3, <1>4, <1>6, TrimLinks DEF AccountInv, Whole
<1>10. /\ n = r.i + 1 /\ r.i < d.len - 1 /\ n \in 0..Len(s) /\ n < d.len /\ n \in 1..d.len
  BY <1>1, <1>2, <1>4, <1>5, <1>7, <1>8
<1>11. r.clu = s[n] /\ NoRepeat(s)
  <2>1. r.clu = s[r.i + 1]
    BY <1>3, <1>6 DEF Whole
  <2>2. NoRepeat(s)
    BY <1>5, <1>6 DEF AccountInv, OInv, DiskInv, ListsSound
  <2>3. QED  BY <1>10, <2>1, <2>2
<1>12. /\ OwnedIn(fat', stream', t) = SubSeq(s, 1, n)
       /\ \A o \in Owner \ {t} : OwnedIn(fat', stream', o) = OwnedIn(fat, stream, o)
       /\ Writes(r.clu)
  BY <1>1, <1>2, <1>3, <1>4, <1>6, <1>7, FirstCut DEF AccountInv, OInv
<1>13. \A o \in Owner \ {t} : Owned(o)' = Owned(o)
  BY <1>5, <1>12, OthersSame
<1>14. Sizes'
  <2>1. \A v \in Slot : v # Target => Owned(v)' = Owned(v)
    BY <1>3, <1>13, SlotNotRoot
  <2>2. \A v \in Slot : v # Target /\ stream[v].live /\ ~stream[v].nofat /\ Exact(v) =>
           fat'[Owned(v)[stream[v].len]] = fat[Owned(v)[stream[v].len]]
    BY <1>1, <1>12, WriteSpares
  <2>3. r.op # "none" /\ r'.op # "none"
    BY <1>1
  <2>4. QED  BY <1>1, <2>1, <2>2, <2>3, SizesKept
<1>15. PICK T : T = SubSeq(s, n + 1, Len(s))
  OBVIOUS
<1>16. /\ T \in Seq(Cluster) /\ Len(T) = d.len - n
       /\ \A k \in 1..(d.len - n) : T[k] = s[n + k] /\ n + k \in 1..Len(s)
  <2>1. /\ T \in Seq(Cluster) /\ Len(T) = Len(s) - n
        /\ \A k \in 1..(Len(s) - n) : T[k] = s[n + k] /\ n + k \in 1..Len(s)
    <3>1. n \in 0..Len(s)
      BY <1>10
    <3>2. QED  BY ONLY <1>15, <3>1, s \in Seq(Cluster), Split
  <2>2. QED  BY <1>8, <2>1
<1>17. Lost' \subseteq Members(T)
  <2>1. ASSUME NEW x \in Lost' PROVE x \in Members(T)
    <3>1. /\ x \in bitmap /\ x \notin System /\ \A o \in Owner \ {t} : x \notin Holds(o)
          /\ x \notin {SubSeq(s, 1, n)[k] : k \in 1..Len(SubSeq(s, 1, n))}
      <4>1. \A o \in Owner \ {t} : Holds(o)' = Holds(o)
        BY <1>13 DEF Holds
      <4>2. Holds(t)' = {SubSeq(s, 1, n)[k] : k \in 1..Len(SubSeq(s, 1, n))}
        BY <1>12 DEF Holds, Owned
      <4>3. QED  BY <1>1, <1>5, <2>1, <4>1, <4>2 DEF Lost
    <3>2. x \in Holds(t)
      BY <1>1, <1>5, <3>1, FreedFacts DEF Lost
    <3>3. PICK k \in 1..Len(s) : x = s[k]
      BY <1>6, <3>2 DEF Holds
    <3>4. k > n
      <4>1. /\ Len(SubSeq(s, 1, n)) = n /\ \A j \in 1..n : SubSeq(s, 1, n)[j] = s[j]
        BY <1>10, Split
      <4>2. k \notin 1..n
        BY <3>1, <3>3, <4>1
      <4>3. QED  BY <4>2
    <3>5. k - n \in 1..(d.len - n) /\ n + (k - n) = k
      BY <1>5, <1>8, <3>4
    <3>6. T[k - n] = s[k]
      BY <1>16, <3>5
    <3>7. QED  BY <1>16, <3>3, <3>5, <3>6 DEF Members
  <2>2. QED  BY <2>1
<1>18. /\ r.clu \in Cluster /\ r.clu \in Word /\ fat[r.clu] = s[n + 1]
  BY <1>9, <1>10, <1>11, ClusterWord
<1>19. /\ r'.next = T[1] /\ Len(T) >= 1
  <2>1. 1 \in 1..(d.len - n) /\ Len(T) >= 1
    BY <1>5, <1>10, <1>16
  <2>2. r'.next = s[n + 1]
    BY <1>1, <1>18, ClipCluster
  <2>3. QED  BY <1>16, <2>1, <2>2
<1>20. \A k \in 1..(Len(T) - 1) : fat'[T[k]] = T[k + 1]
  <2>1. ASSUME NEW k \in 1..(Len(T) - 1) PROVE fat'[T[k]] = T[k + 1]
    <3>1. k \in 1..(d.len - n) /\ k + 1 \in 1..(d.len - n) /\ n + k \in 1..d.len /\ n + k < d.len
      <4>1. PICK m \in Nat : m = Len(T)
        BY <1>16
      <4>2. m = d.len - n /\ k \in 1..(m - 1)
        BY <1>16, <4>1
      <4>3. PICK l \in Nat : l = d.len
        BY <1>5
      <4>4. m = l - n /\ n \in 1..l
        BY <1>10, <4>2, <4>3
      <4>5. /\ k \in 1..(l - n) /\ k + 1 \in 1..(l - n) /\ n + k \in 1..l /\ n + k < l
        BY ONLY <4>2, <4>4, l \in Nat, m \in Nat, n \in Nat
      <4>6. QED  BY <4>3, <4>5
    <3>2. T[k] = s[n + k] /\ T[k + 1] = s[n + (k + 1)] /\ n + (k + 1) = (n + k) + 1
      BY <1>16, <3>1
    <3>3. fat[s[n + k]] = s[(n + k) + 1] /\ s[n + k] \in Cluster
      BY <1>9, <3>1
    <3>4. s[n + k] # r.clu
      <4>1. n + k # n /\ n + k \in 1..Len(s) /\ n \in 1..Len(s)
        BY <1>8, <1>10, <3>1
      <4>2. QED  BY <1>11, <4>1 DEF NoRepeat
    <3>5. fat'[s[n + k]] = fat[s[n + k]]
      BY <1>12, <3>3, <3>4, ClusterWord DEF Writes
    <3>6. QED  BY <3>2, <3>3, <3>5
  <2>2. QED  BY <2>1
<1>21. ASSUME NEW Q \in Seq(Cluster), Rest(Q)' PROVE Lost' \subseteq Members(Q)
  <2>1. /\ Len(Q) = d.len - n /\ Q[1] = r'.next /\ \A k \in 1..(Len(Q) - 1) : fat'[Q[k]] = Q[k + 1]
    BY <1>1, <1>4, <1>10, <1>21 DEF Rest
  <2>2. PICK g : g = fat'
    OBVIOUS
  <2>3. Follows(g, T, 1) /\ Follows(g, Q, 1)
    BY <1>20, <2>1, <2>2 DEF Follows
  <2>4. Len(T) = Len(Q) /\ Q[1] = T[1] /\ Len(T) >= 1
    BY <1>16, <1>19, <2>1
  <2>5. Members(T) \subseteq Members(Q)
    BY ONLY <1>16, <2>3, <2>4, Q \in Seq(Cluster), RestIs
  <2>6. QED  BY <1>17, <2>5
<1>22. NothingLost'
  BY <1>1, <1>21 DEF NothingLost, Whole, Growing
<1>23. QED  BY <1>1, <1>14, <1>22, PlainKept DEF AccountInv

\* A cluster more is cut off; what was lost so far is behind it.
LEMMA SecondCutAccount ==
  ASSUME AccountInv, OInv', Cut, Len(Owned(Target)) = Dentry.len - r.num,
         fat[Tip(Owned(Target))] = EXFAT_LASTCLUSTER, NEW T \in Seq(Cluster), Rest(T)
  PROVE  AccountInv'
<1>1. /\ r.op = "trim" /\ pc = "cut" /\ pc \in Freed /\ pc # "idle" /\ pc' = "unmark"
      /\ UNCHANGED <<bitmap, stream, head>>
      /\ r'.op = r.op /\ r'.obj = r.obj /\ r'.num = r.num /\ r'.clu = r.clu
      /\ r'.next = fat[Clip(r.clu)] /\ r'.i = r.i + 1 /\ r.i < Dentry.len - 1
      /\ SetFat(r.clu, EXFAT_LASTCLUSTER)
      /\ Target' = Target /\ Dentry' = Dentry /\ r.obj # RootOffset
  BY CutIs
<1>2. SameLists /\ Writes(r.clu)
  BY <1>1, SecondCut DEF AccountInv, OInv
<1>3. PICK l \in Nat : l = Dentry.len
  BY <1>1, TrimFacts DEF AccountInv
<1>4. r.i \in Nat
  BY <1>1, TrimFacts DEF AccountInv
<1>5. PICK i \in Nat : i = r.i
  BY <1>4
<1>6. PICK m \in Nat : m = Len(T)
  OBVIOUS
<1>7. m = l - i /\ i < l - 1 /\ m >= 2 /\ 1 \in 0..m /\ 1 \in 1..m
  BY <1>1, <1>3, <1>5, <1>6 DEF Rest
<1>8. /\ T[1] = r.clu /\ NoRepeat(T) /\ \A k \in 1..(m - 1) : fat[T[k]] = T[k + 1]
  BY <1>1, <1>6 DEF Rest
<1>9. \A k \in 1..m : T[k] \in Cluster
  BY <1>6
<1>0. PICK one \in Nat : one = 1
  OBVIOUS
<1>10. PICK U : U = SubSeq(T, one + 1, Len(T))
  OBVIOUS
<1>11. U \in Seq(Cluster) /\ Len(U) = m - 1 /\ \A k \in 1..(m - 1) : U[k] = T[k + 1] /\ k + 1 \in 1..m
  <2>1. one \in 0..Len(T)
    BY <1>0, <1>6, <1>7
  <2>2. /\ U \in Seq(Cluster) /\ Len(U) = Len(T) - one
        /\ \A k \in 1..(Len(T) - one) : U[k] = T[one + k] /\ one + k \in 1..Len(T)
    BY ONLY <1>10, <2>1, T \in Seq(Cluster), Split
  <2>3. \A k \in 1..(m - 1) : one + k = k + 1
    BY <1>0
  <2>4. QED  BY <1>0, <1>6, <2>2, <2>3
<1>12. Lost' \subseteq Members(U)
  <2>1. Lost' \subseteq Lost \union {}
    BY <1>1, <1>2, LostKept
  <2>2. Lost \subseteq Members(T) \ {r.clu}
    BY <1>1 DEF AccountInv, NothingLost
  <2>3. Members(T) \ {r.clu} \subseteq Members(U)
    <3>1. ASSUME NEW k \in 1..m, k # 1 PROVE T[k] \in Members(U)
      <4>1. k - 1 \in 1..(m - 1) /\ (k - 1) + 1 = k
        BY <3>1
      <4>2. U[k - 1] = T[k]
        BY <1>11, <4>1
      <4>3. QED  BY <1>11, <4>1, <4>2 DEF Members
    <3>2. QED  BY <1>6, <1>8, <3>1 DEF Members
  <2>4. QED  BY <2>1, <2>2, <2>3
<1>13. /\ r.clu \in Cluster /\ fat[r.clu] = T[2] /\ U[1] = T[2] /\ r'.next = U[1]
  <2>1. r.clu \in Cluster
    BY <1>7, <1>8, <1>9
  <2>2. 1 \in 1..(m - 1) /\ 1 + 1 = 2
    BY <1>7
  <2>3. fat[r.clu] = T[2] /\ U[1] = T[2]
    BY <1>8, <1>11, <2>2
  <2>4. QED  BY <1>1, <2>1, <2>3, ClipCluster
<1>14. ASSUME NEW k \in 1..(m - 2) PROVE fat'[U[k]] = U[k + 1]
  <2>1. k \in 1..(m - 1) /\ k + 1 \in 1..(m - 1) /\ k + 1 \in 1..m /\ k + 1 # 1 /\ 1 \in 1..m
    BY <1>7
  <2>2. U[k] = T[k + 1] /\ U[k + 1] = T[(k + 1) + 1] /\ fat[T[k + 1]] = T[(k + 1) + 1]
    BY <1>8, <1>11, <2>1
  <2>3. T[k + 1] # r.clu
    BY <1>6, <1>8, <2>1 DEF NoRepeat
  <2>4. T[k + 1] \in Word
    BY <1>9, <2>1, ClusterWord
  <2>5. fat'[T[k + 1]] = fat[T[k + 1]]
    BY <1>2, <2>3, <2>4 DEF Writes
  <2>6. QED  BY <2>2, <2>5
<1>15. ASSUME NEW Q \in Seq(Cluster), Rest(Q)' PROVE Lost' \subseteq Members(Q)
  <2>1. /\ Len(Q) = l - (i + 1) /\ Q[1] = r'.next /\ \A k \in 1..(Len(Q) - 1) : fat'[Q[k]] = Q[k + 1]
    BY <1>1, <1>3, <1>5, <1>15 DEF Rest
  <2>2. PICK g : g = fat'
    OBVIOUS
  <2>3. Len(Q) = m - 1 /\ Len(U) = Len(Q) /\ Q[1] = U[1] /\ Len(U) >= 1
    BY <1>7, <1>11, <1>13, <2>1
  <2>4. Follows(g, U, 1)
    <3>1. \A k \in 1..(Len(U) - 1) : k \in 1..(m - 2)
      BY <1>7, <1>11
    <3>2. QED  BY <1>14, <2>2, <3>1 DEF Follows
  <2>5. Follows(g, Q, 1)
    BY <2>1, <2>2 DEF Follows
  <2>6. Members(U) \subseteq Members(Q)
    BY ONLY <1>11, <2>3, <2>4, <2>5, Q \in Seq(Cluster), RestIs
  <2>7. QED  BY <1>12, <2>6
<1>16. NothingLost'
  BY <1>1, <1>15 DEF NothingLost, Whole, Growing
<1>17. Sizes'
  BY <1>1, <1>2, HeadsKept
<1>18. QED  BY <1>1, <1>16, <1>17, PlainKept DEF AccountInv

LEMMA CutAccount == ASSUME AccountInv, OInv', Cut PROVE AccountInv'
<1>1. r.op = "trim" /\ pc = "cut"
  BY CutIs
<1>2. CASE Whole /\ r.i = Dentry.len - r.num - 1
  BY <1>2, FirstCutAccount
<1>3. CASE /\ Len(Owned(Target)) = Dentry.len - r.num
           /\ fat[Tip(Owned(Target))] = EXFAT_LASTCLUSTER
           /\ \E T \in Seq(Cluster) : Rest(T)
  <2>1. PICK T \in Seq(Cluster) : Rest(T)
    BY <1>3
  <2>2. QED  BY <1>3, <2>1, SecondCutAccount
<1>4. QED  BY <1>1, <1>2, <1>3, TrimPhase DEF AccountInv

LEMMA UnmarkAccount == ASSUME AccountInv, OInv', Unmark PROVE AccountInv'
<1>1. /\ pc = "unmark" /\ pc' = "cut" /\ SaveBitmap(r.next, 0) /\ UNCHANGED <<fat, stream, head>>
      /\ r'.op = r.op /\ r'.obj = r.obj /\ r'.num = r.num /\ r'.clu = r.next /\ r'.i = r.i
  BY Types DEF Unmark, Goto, memory, AccountInv, OInv, Registers
<1>2. pc \in Freed
  BY <1>1 DEF Freed
<1>3. r.op = "trim" /\ pc # "idle" /\ r.obj # RootOffset
  BY <1>2, FreedFacts
<1>4. PICK T \in Seq(Cluster) : Rest(T)
  BY <1>1, <1>3, TrimPhase DEF AccountInv
<1>5. Len(Owned(Target)) = Dentry.len - r.num
  BY <1>1, <1>3, TrimPhase DEF AccountInv
<1>6. /\ r.i < Dentry.len /\ Len(T) = Dentry.len - r.i /\ T[1] = r.next
      /\ \A o \in Owner : Members(T) \intersect Holds(o) = {}
  BY <1>1, <1>4 DEF Rest
<1>7. r.next \in Members(T) /\ r.next \in Cluster
  <2>1. Dentry.len \in Nat /\ r.i \in Nat
    BY <1>3, TrimFacts DEF AccountInv
  <2>2. 1 \in 1..Len(T)
    BY ONLY <1>6, <2>1, T \in Seq(Cluster)
  <2>3. QED  BY <1>6, <2>2 DEF Members
<1>8. bitmap' = bitmap \ {r.next}
  BY <1>1, <1>7 DEF SaveBitmap
<1>9. SameLists /\ \A o \in Owner : Holds(o)' = Holds(o)
  BY <1>1, ListsQuiet, SameHolds
<1>10. Target' = Target /\ Dentry' = Dentry
  BY <1>1, SameTarget
<1>11. Lost' \subseteq Lost \ {r.next}
  BY <1>8, <1>9 DEF Lost
<1>12. ASSUME NEW Q \in Seq(Cluster), Rest(Q)' PROVE Lost' \subseteq Members(Q) \ {r.next}
  <2>1. Rest(Q)
    BY <1>1, <1>9, <1>10, <1>12 DEF Rest
  <2>2. Lost \subseteq Members(Q)
    BY <1>1, <2>1 DEF AccountInv, NothingLost
  <2>3. QED  BY <1>11, <2>2
<1>13. ~Whole'
  <2>1. PICK t \in Slot : t = Target
    BY <1>3, TrimFacts DEF AccountInv
  <2>2. PICK l \in Nat : l = Dentry.len
    BY <1>3, TrimFacts DEF AccountInv
  <2>3. t \in Owner /\ r.num \in Nat /\ r.i \in Nat
    BY <1>3, <2>1, TrimFacts DEF AccountInv
  <2>4. Owned(t)' = Owned(t)
    BY <1>9, <2>3, SameHolds
  <2>5. ASSUME Whole' PROVE FALSE
    <3>1. r.i < l - r.num /\ r.next = Owned(t)[r.i + 1]
      BY <1>1, <1>10, <2>1, <2>2, <2>4, <2>5 DEF Whole
    <3>2. Len(Owned(t)) = l - r.num
      BY <1>5, <2>1, <2>2
    <3>3. r.i + 1 \in 1..Len(Owned(t))
      BY <2>3, <3>1, <3>2
    <3>4. r.next \in Holds(t)
      BY <3>1, <3>3 DEF Holds
    <3>5. QED  BY <1>6, <1>7, <2>3, <3>4
  <2>6. QED  BY <2>5
<1>14. NothingLost'
  BY <1>1, <1>3, <1>12, <1>13 DEF NothingLost, Growing
<1>15. Sizes'
  BY <1>1, <1>3, <1>9, HeadsKept
<1>16. QED  BY <1>1, <1>3, <1>14, <1>15, PlainKept DEF AccountInv

LEMMA ShrinkAccount == ASSUME AccountInv, OInv', Shrink PROVE AccountInv'
<1>1. pc = "shrink" /\ pc \in Freed
  BY DEF Shrink, Freed
<1>2. r.op = "trim" /\ pc # "idle" /\ r.obj # RootOffset /\ Lost = {}
  BY <1>1, FreedFacts
<1>3. PICK t \in Slot : t = Target
  BY <1>2, TrimFacts DEF AccountInv
<1>4. PICK d : d = Dentry
  OBVIOUS
<1>5. /\ t # Root /\ t \in Owner /\ t = StreamOf(r.obj) /\ d = stream[t] /\ d.live /\ d.clu = r.obj /\ d.nofat = FALSE
      /\ r.obj \in Cluster /\ r.obj \in FirstCluster
      /\ d.len \in Nat /\ r.num \in Nat /\ r.num < d.len /\ F = d /\ head[r.obj] = d /\ d \in Entry
  <2>1. stream \in [Slot -> Entry]
    BY Types DEF AccountInv, OInv
  <2>2. QED  BY <1>2, <1>3, <1>4, <2>1, TrimFacts DEF AccountInv, FirstCluster
<1>6. Len(Owned(t)) = d.len - r.num /\ fat[Tip(Owned(t))] = EXFAT_LASTCLUSTER
  BY <1>1, <1>2, <1>3, <1>4 DEF AccountInv, OInv, Trims, Whole
<1>7. PICK n \in Nat : n = d.len - r.num
  BY <1>5
<1>8. n > 0 /\ d.len > r.num
  BY ONLY <1>5, <1>7, n \in Nat
<1>9. /\ UNCHANGED <<fat, bitmap>> /\ Return
      /\ \A c \in FirstCluster \ {r.obj} : head'[c] = head[c]
      /\ \A s \in Slot : s # t => stream'[s] = stream[s]
      /\ OwnedIn(fat', stream', t) = Owned(t)
  BY <1>2, <1>3, ShrinkTrimWrites DEF AccountInv, OInv
<1>10. pc' = "idle" /\ r'.op = "none"
  BY <1>9 DEF Return, NoCall
<1>11. /\ SetF(n, F.nofat) /\ UpdateFilesize(r.obj, [F EXCEPT !.len = n])
  BY <1>5, <1>7, <1>8 DEF Shrink
<1>12. head' = [head EXCEPT ![r.obj].len = n, ![r.obj].nofat = FALSE]
  BY <1>2, <1>5, <1>11 DEF SetF
<1>13. stream' = [stream EXCEPT ![t].len = n, ![t].nofat = FALSE]
  <2>1. [F EXCEPT !.len = n].len = n /\ [F EXCEPT !.len = n].nofat = FALSE
    BY <1>5 DEF Entry
  <2>2. StreamOf(r.obj) # 0
    BY <1>5 DEF Root
  <2>3. stream' = [stream EXCEPT ![t].len = [F EXCEPT !.len = n].len, ![t].nofat = [F EXCEPT !.len = n].nofat]
    BY <1>2, <1>5, <1>11, <2>2 DEF UpdateFilesize
  <2>4. QED  BY <2>1, <2>3
<1>14. head \in [FirstCluster -> Entry] /\ stream \in [Slot -> Entry]
  BY Types DEF AccountInv, OInv
<1>15. head'[r.obj] = stream'[t]
  <2>1. head'[r.obj] = [d EXCEPT !.len = n, !.nofat = FALSE]
    BY <1>5, <1>12, <1>14
  <2>2. stream'[t] = [d EXCEPT !.len = n, !.nofat = FALSE]
    BY <1>5, <1>13, <1>14
  <2>3. QED  BY <2>1, <2>2
<1>16. stream'[t].live /\ stream'[t].clu = r.obj /\ stream'[t].len = n /\ stream'[t].nofat = FALSE
  BY <1>5, <1>13, <1>14 DEF Entry
<1>17. Owned(t)' = Owned(t)
  BY <1>9 DEF Owned
<1>18. \A o \in Owner \ {t} : Owned(o)' = Owned(o)
  <2>1. \A o \in Owner \ {t} : OwnedIn(fat', stream', o) = OwnedIn(fat, stream, o)
    BY <1>5, <1>9, OthersKept DEF AccountInv, OInv
  <2>2. QED  BY <1>5, <2>1, OthersSame
<1>19. Exact(t)'
  <2>1. Len(Owned(t)) = n
    BY <1>6, <1>7
  <2>2. QED  BY <1>6, <1>9, <1>16, <1>17, <2>1 DEF Exact, Tip
<1>20. Sizes'
  <2>1. \A c \in FirstCluster : c # r.obj => head'[c] = head[c]
    BY <1>9
  <2>2. stream'[t].len > 0
    BY <1>8, <1>16
  <2>3. QED  BY <1>2, <1>3, <1>5, <1>9, <1>10, <1>15, <1>16, <1>18, <1>19, <2>1, <2>2, Settle
<1>21. Lost' = {}
  <2>1. \A o \in Owner : Holds(o)' = Holds(o)
    BY <1>17, <1>18 DEF Holds
  <2>2. QED  BY <1>2, <1>9, <2>1 DEF Lost
<1>22. Plain'
  BY <1>10 DEF Plain
<1>23. QED  BY <1>20, <1>21, <1>22, NoneLost DEF AccountInv

-----------------------------------------------------------------------------
(* The commands.                                                           *)
LEMMA CallAccount ==
  ASSUME AccountInv, OInv', UNCHANGED <<volume, memory>>, pc = "idle",
         r'.op \in {"fill", "trim"}, pc' \notin {"idle", "reload"}
  PROVE  AccountInv'
<1>1. UNCHANGED <<fat, bitmap, stream, head>>
  BY DEF volume, memory
<1>2. r.op = "none" /\ Lost = {}
  BY DEF AccountInv, Plain, NothingLost
<1>3. Lost' = {}
  BY <1>1, <1>2, QuietLost
<1>4. Plain'
  BY DEF Plain
<1>5. Sizes'
  <2>1. \A s \in Slot : Owned(s)' = Owned(s)
    BY <1>1, ListsQuiet, SlotNotRoot, SameHolds
  <2>2. \A s \in Slot : Exact(s) => Exact(s)'
    BY <1>1, <2>1 DEF Exact
  <2>3. \A s \in Slot : stream[s].live =>
          /\ stream[s].clu \in Cluster /\ stream[s].len > 0
          /\ head[stream[s].clu].live /\ head[stream[s].clu].clu = stream[s].clu
          /\ head[stream[s].clu] = stream[s] /\ Exact(s)
    BY <1>2 DEF AccountInv, Sizes
  <2>4. QED  BY <1>1, <2>2, <2>3 DEF Sizes
<1>6. QED  BY <1>3, <1>4, <1>5, NoneLost DEF AccountInv

LEMMA CallReloadAccount == ASSUME AccountInv, OInv', CallReload PROVE AccountInv'
<1>1. /\ pc = "idle" /\ UNCHANGED <<fat, bitmap, stream, pc, r>> /\ Reload
  BY DEF CallReload, volume
<1>2. r.op = "none" /\ r'.op = "none" /\ Lost = {}
  BY <1>1 DEF AccountInv, Plain, NothingLost
<1>3. Lost' = {}
  BY <1>1, <1>2, QuietLost
<1>4. Plain'
  BY <1>1, <1>2 DEF Plain
<1>5. Sizes'
  BY <1>1, <1>2, ReloadSizes
<1>6. QED  BY <1>3, <1>4, <1>5, NoneLost DEF AccountInv

LEMMA CommandAccount ==
  ASSUME AccountInv, OInv', FileCommand, r'.op \in {"none", "fill", "trim"}
  PROVE  AccountInv'
<1>1. CASE \E c \in FirstCluster, n \in 1..MaxFill : CallFill(c, n)
  <2>1. PICK c \in FirstCluster, n \in 1..MaxFill : CallFill(c, n)
    BY <1>1
  <2>2. UNCHANGED <<volume, memory>> /\ pc = "idle" /\ pc' = "last" /\ r'.op = "fill"
    BY <2>1 DEF CallFill, Goto, NoCall
  <2>3. QED  BY <2>2, CallAccount
<1>2. ASSUME NEW s \in Slot, NEW passes \in 1..2, NEW full \in BOOLEAN, CallCreate(s, passes, full) PROVE FALSE
  <2>1. r'.op = "create"
    BY <1>2 DEF CallCreate, NoCall
  <2>2. QED  BY <2>1
<1>3. CASE CallReload
  BY <1>3, CallReloadAccount
<1>4. CASE \E c \in FirstCluster, n \in 0..MaxLen : CallTrim(c, n)
  <2>1. PICK c \in FirstCluster, n \in 0..MaxLen : CallTrim(c, n)
    BY <1>4
  <2>2. UNCHANGED <<volume, memory>> /\ pc = "idle" /\ pc' \in {"clear", "walk"} /\ r'.op = "trim"
    BY <2>1 DEF CallTrim, FreeFrom, Goto, NoCall
  <2>3. QED  BY <2>2, CallAccount
<1>5. ASSUME NEW s \in Slot, CallRemove(s) PROVE FALSE
  <2>1. r'.op = "remove"
    BY <1>5 DEF CallRemove, FreeFrom, NoCall
  <2>2. QED  BY <2>1
<1>6. QED  BY <1>1, <1>2, <1>3, <1>4, <1>5 DEF FileCommand

LEMMA StepAccount == ASSUME AccountInv, OInv', Step PROVE AccountInv'
<1>1. ~ScanExhausted /\ ~ChainUnderflow /\ ~Runaway
  BY NotExhausted, NoRunaway DEF AccountInv
<1>2. ASSUME CreateStep PROVE FALSE
  <2>1. pc \in {"new", "newmark", "enter"}
    BY <1>2 DEF CreateStep, NewSkip, NewTake, NewMark, NewExhausted, Enter
  <2>2. QED  BY <2>1, PlainFacts
<1>3. ASSUME ClearTail \/ ClearDone \/ Erase PROVE FALSE
  <2>1. pc \in {"clear", "erase"} /\ pc \in Freed
    BY <1>3 DEF ClearTail, ClearDone, Erase, Freed
  <2>2. QED  BY <2>1, FreedFacts
<1>4. CASE AllocStep
  <2>1. CASE Grow
    BY <2>1, GrowRootAccount, GrowDirectoryAccount
  <2>2. QED  BY <1>1, <1>4, <2>1, LastAccount, ScanAccount, ScanTakeAccount, LinkAccount, MarkAccount,
                 ConvertAccount, ChainLinkAccount, ReloadAccount DEF AllocStep
<1>5. CASE FreeStep
  BY <1>3, <1>5, WalkAccount, CutAccount, UnmarkAccount, ShrinkAccount DEF FreeStep
<1>6. QED  BY <1>2, <1>4, <1>5 DEF Step

LEMMA FillTrimIsCareful == [FillTrimNext]_vars => [CarefulNext]_vars
BY DEF FillTrimNext, CarefulNext

LEMMA AccountKeeps == AccountInv /\ [FillTrimNext]_vars => AccountInv'
<1> SUFFICES ASSUME AccountInv, [FillTrimNext]_vars PROVE AccountInv'
  OBVIOUS
<1>1. OInv'
  BY FillTrimIsCareful, CarefulKeeps DEF AccountInv
<1>2. CASE Step
  BY <1>1, <1>2, StepAccount
<1>3. CASE FileCommand /\ r'.op \in {"none", "fill", "trim"}
  BY <1>1, <1>3, CommandAccount
<1>4. CASE UNCHANGED vars
  <2>1. UNCHANGED <<fat, bitmap, stream, head, pc, r>>
    BY <1>4 DEF vars
  <2>2. Plain'
    BY <2>1 DEF AccountInv, Plain
  <2>3. \A s \in Slot : Owned(s)' = Owned(s)
    BY <2>1, ListsQuiet, SlotNotRoot, SameHolds
  <2>4. \A s \in Slot : Exact(s) => Exact(s)'
    BY <2>1, <2>3 DEF Exact
  <2>5. Target' = Target /\ Dentry' = Dentry
    BY <2>1, SameTarget
  <2>6. Sizes'
    BY <2>1, <2>4, <2>5 DEF AccountInv, Sizes
  <2>7. NothingLost'
    <3>1. \A o \in Owner : Holds(o)' = Holds(o) /\ Owned(o)' = Owned(o)
      BY <2>1, ListsQuiet, SameHolds
    <3>2. Lost' = Lost
      BY <2>1, <3>1 DEF Lost
    <3>3. Owned(Target)' = Owned(Target)
      BY <2>1 DEF Owned, OwnedIn, Target, StreamOf
    <3>4. Exact(Target)' = Exact(Target)
      BY <2>1, <2>5, <3>3 DEF Exact, Dentry
    <3>5. Whole' = Whole
      BY <2>1, <2>5, <3>3, <3>4 DEF Whole
    <3>6. ASSUME NEW P \in Seq(Cluster), Growth(P)' PROVE Growth(P)
      BY <2>1, <2>5, <3>1, <3>3, <3>6 DEF Growth, Linked
    <3>7. ASSUME NEW T \in Seq(Cluster), Rest(T)' PROVE Rest(T)
      BY <2>1, <2>5, <3>1, <3>7 DEF Rest
    <3>8. QED  BY <2>1, <3>2, <3>5, <3>6, <3>7 DEF AccountInv, NothingLost
  <2>8. QED  BY <1>1, <2>2, <2>6, <2>7 DEF AccountInv
<1>5. QED  BY <1>2, <1>3, <1>4 DEF FillTrimNext

LEMMA InitAccount == Init => AccountInv
<1> SUFFICES ASSUME Init PROVE AccountInv
  OBVIOUS
<1>1. OInv
  BY InitOInv
<1>2. PICK img \in Images, flag \in RootFlags :
        /\ fat = img.fat /\ bitmap = img.bitmap /\ stream = img.stream
        /\ head = Heads(img.stream, Opened(flag))
        /\ pc = "idle" /\ r = NoCall
  BY DEF Init
<1>3. /\ bitmap \subseteq System \union UNION {Holds(o) : o \in Owner}
      /\ \A s \in Slot : stream[s].live => stream[s].clu # 0 /\ stream[s].len > 0 /\ Exact(s)
  <2>1. /\ img.bitmap \subseteq System \union
             UNION {{OwnedIn(img.fat, img.stream, o)[k] : k \in 1..Len(OwnedIn(img.fat, img.stream, o))} : o \in Owner}
        /\ \A s \in Slot : img.stream[s].live =>
             /\ img.stream[s].clu # 0 /\ img.stream[s].len > 0
             /\ \/ img.stream[s].nofat
                \/ /\ Len(OwnedIn(img.fat, img.stream, s)) = img.stream[s].len
                   /\ img.fat[OwnedIn(img.fat, img.stream, s)[img.stream[s].len]] = EXFAT_LASTCLUSTER
    BY ONLY img \in Images, ExactImages, Zenon
  <2>2. \A o : OwnedIn(img.fat, img.stream, o) = Owned(o)
    BY <1>2 DEF Owned
  <2>3. ASSUME NEW o PROVE Holds(o) = {OwnedIn(img.fat, img.stream, o)[k] : k \in 1..Len(OwnedIn(img.fat, img.stream, o))}
    <3>1. PICK w : w = Owned(o)
      OBVIOUS
    <3>2. w = OwnedIn(img.fat, img.stream, o)
      BY <2>2, <3>1
    <3>3. Holds(o) = {w[k] : k \in 1..Len(w)}
      BY ONLY <3>1 DEF Holds
    <3>4. {OwnedIn(img.fat, img.stream, o)[k] : k \in 1..Len(OwnedIn(img.fat, img.stream, o))} = {w[k] : k \in 1..Len(w)}
      BY ONLY <3>2
    <3>5. QED  BY <3>3, <3>4
  <2>4. bitmap \subseteq System \union UNION {Holds(o) : o \in Owner}
    <3>1. ASSUME NEW x \in bitmap, x \notin System PROVE \E o \in Owner : x \in Holds(o)
      <4>1. PICK o \in Owner : x \in {OwnedIn(img.fat, img.stream, o)[k] : k \in 1..Len(OwnedIn(img.fat, img.stream, o))}
        BY ONLY <1>2, <2>1, <3>1, Zenon
      <4>2. x \in Holds(o)
        BY ONLY <2>3, <4>1, Zenon
      <4>3. QED  BY <4>2
    <3>2. QED  BY <3>1
  <2>5. \A s \in Slot : stream[s].live => stream[s].clu # 0 /\ stream[s].len > 0 /\ Exact(s)
    BY ONLY <1>2, <2>1, <2>2 DEF Exact
  <2>6. QED  BY <2>4, <2>5
<1>4. r.op = "none"
  BY <1>2 DEF NoCall
<1>5. Lost = {}
  BY <1>3 DEF Lost
<1>6. Plain
  BY <1>2, <1>4 DEF Plain
<1>7. Sizes
  <2>1. ASSUME NEW s \in Slot, stream[s].live
        PROVE  /\ stream[s].clu \in Cluster /\ stream[s].len > 0
               /\ head[stream[s].clu].live /\ head[stream[s].clu].clu = stream[s].clu
               /\ head[stream[s].clu] = stream[s] /\ Exact(s)
    <3>1. stream[s].clu \in Cluster
      BY <1>1, <1>3, <2>1, Types DEF OInv, Entry, FirstCluster
    <3>2. PICK c \in Cluster : c = stream[s].clu
      BY <3>1
    <3>3. c # RootOffset /\ StreamOf(c) = s /\ c \in FirstCluster
      BY <1>1, <2>1, <3>2, OneBegins DEF OInv, DiskInv, FirstCluster
    <3>4. PICK found : found = {p \in Slot : stream[p].live /\ stream[p].clu = c}
      OBVIOUS
    <3>5. s \in found /\ found # {}
      BY <2>1, <3>2, <3>4
    <3>6. s = CHOOSE p \in found : \A q \in found : p <= q
      BY <3>3, <3>4, <3>5 DEF StreamOf
    <3>7. ~Opened(flag)[c].live
      BY <3>3 DEF Opened, NoEntry
    <3>8. head[c] = stream[CHOOSE p \in found : \A q \in found : p <= q]
      BY <1>2, <3>3, <3>4, <3>5, <3>7 DEF Heads
    <3>9. head[c] = stream[s]
      BY <3>6, <3>8
    <3>10. QED  BY <1>3, <2>1, <3>2, <3>9
  <2>2. QED  BY <2>1 DEF Sizes
<1>8. NothingLost
  BY <1>2, <1>5 DEF NothingLost, Growing
<1>9. QED  BY <1>1, <1>6, <1>7, <1>8 DEF AccountInv

LEMMA InvAccounted == AccountInv => ExactlyAccounted
<1> SUFFICES ASSUME AccountInv, pc = "idle" PROVE bitmap = System \union UNION {Holds(o) : o \in Owner}
  BY DEF ExactlyAccounted
<1>1. Lost = {} /\ r.op # "remove"
  BY DEF AccountInv, NothingLost, Plain
<1>2. System \subseteq bitmap /\ \A o \in Owner : Holds(o) \subseteq bitmap
  BY <1>1, AllMarked DEF AccountInv, OInv
<1>3. QED  BY <1>1, <1>2 DEF Lost

LEMMA InvExact == AccountInv => SizeIsExact
<1> SUFFICES ASSUME AccountInv, pc = "idle", NEW s \in Slot, stream[s].live PROVE InStep(stream[s].clu)
  BY DEF SizeIsExact
<1>1. r.op = "none"
  BY DEF AccountInv, Plain
<1>2. PICK c : c = stream[s].clu
  OBVIOUS
<1>3. c \in Cluster /\ stream[s].len > 0 /\ head[c] = stream[s] /\ Exact(s)
  BY <1>1, <1>2 DEF AccountInv, Sizes
<1>4. StreamOf(c) = s
  BY <1>2, <1>3, OneBegins DEF AccountInv, OInv, DiskInv
<1>5. s # 0
  BY DEF Slot
<1>6. InStep(c)
  BY <1>3, <1>4, <1>5 DEF InStep
<1>7. QED  BY <1>2, <1>6

-----------------------------------------------------------------------------
LEMMA AccountInvariance == FillTrimSpec => []AccountInv
<1>1. QED  BY InitAccount, AccountKeeps, PTL DEF FillTrimSpec

(* With fill and trim alone no cluster is lost or gained, on any volume:   *)
(* whenever the program is at the prompt, the clusters that are marked in  *)
(* the allocation bitmap are the volume's own and those of its             *)
(* directories.  A cluster that exfat_alloc_clusters marks is in the       *)
(* chain it extends by the time it returns, and exfat_free_clusters clears *)
(* the bit of every cluster that it cuts off.                              *)
THEOREM FillTrimAccounted == FillTrimSpec => []ExactlyAccounted
<1>1. QED  BY AccountInvariance, InvAccounted, PTL

(* And every size is true: whenever the program is at the prompt, each     *)
(* directory has as many clusters as its dentry says, its chain ends       *)
(* there, and the fileinfo in memory, on which the next fill or trim       *)
(* relies, says the same.                                                  *)
THEOREM FillTrimExact == FillTrimSpec => []SizeIsExact
<1>1. QED  BY AccountInvariance, InvExact, PTL

===============================================================================
