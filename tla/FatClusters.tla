----------------------------- MODULE FatClusters -----------------------------
(***************************************************************************)
(* The FAT16 and FAT32 cluster allocator of src/src/fat.c, one action for  *)
(* every write of a FAT entry and for every turn of its loops, as the      *)
(* shell's commands run it on directories.  There is no bitmap and no size *)
(* here: a cluster is free when its entry is 0, and a directory has what   *)
(* is linked from its first cluster.  The program may be killed between    *)
(* any two writes.                                                         *)
(*                                                                         *)
(* Of the dentries only the first clusters of directories are kept.  How   *)
(* many clusters a new entry needs, and how many trim leaves over, depends *)
(* on the other dentries and is a free choice here.  The root directory of *)
(* FAT16 has no clusters; that of FAT32 is one of the directories.         *)
(***************************************************************************)
EXTENDS Integers, FiniteSets, Sequences

CONSTANTS
  CountofClusters,  \* the clusters of the volume are 2..CountofClusters + 1
  ClusterCount,     \* info.cluster_count, which keeps the low 16 bits of that
  NumSlots,         \* the dentries of directories there is room for
  MaxGrow,          \* bound on the clusters one new entry needs
  Images,           \* the images the program may be started on
  RawEntries        \* arguments of the shell's fat (and of alloc and release): <<index, entry>>

FAT_FSTCLUSTER == 2

Cluster == FAT_FSTCLUSTER..(CountofClusters + 1)

(* The end-of-chain mark: 0xFFFF or 0x0FFFFFFF.  It stands for all words   *)
(* past the last cluster, and used as an index, for what lies past the FAT *)
(* (or in its slack).                                                      *)
EndMark == CountofClusters + 2

Word == 0..EndMark

Slot == 1..NumSlots

ASSUME FatAssumption ==
  /\ CountofClusters \in Nat
  /\ ClusterCount \in 3..CountofClusters
  /\ NumSlots \in Nat
  /\ MaxGrow \in Nat
  /\ \A img \in Images : img.fat \in [Word -> Word] /\ img.first \in [Slot -> Word]
  /\ RawEntries \subseteq Word \X Word

VARIABLES
  fat,            \* on disk: the FAT
  first,          \* on disk: the first cluster in each directory's dentry, 0 = no dentry
  known,          \* in memory: the first clusters of the directories with a head in info.root
  pc,             \* the next statement of the running command, "idle" at the prompt
  r               \* its arguments and locals

vars == <<fat, first, known, pc, r>>

Label == {"idle", "count", "last", "scan", "link", "new", "enter", "walk", "cut"}

(* base is cluster_num, num is num_alloc, left is total_alloc; new is the  *)
(* slot of the entry that mkdir makes, NoSlot for any other command; ret   *)
(* is the word that fat_free_clusters writes next.                         *)
NoSlot == 0

NoCall == [op |-> "none", new |-> NoSlot, obj |-> 0, base |-> 0, num |-> 0, clu |-> 0,
           next |-> 0, last |-> 0, left |-> 0, i |-> 0, ret |-> 0]

Registers ==
  [op: {"none", "add", "trim"}, new: Slot \union {NoSlot}, obj: Word, base: Nat, num: Nat,
   clu: Word, next: Nat, last: Word, left: Nat, i: Nat, ret: {0, EndMark}]

(* Types, and the ranges of the registers at each label: the free cluster  *)
(* that was found is one of those searched, and more are still wanted.     *)
TypeOK ==
  /\ fat \in [Word -> Word]
  /\ first \in [Slot -> Word]
  /\ known \subseteq Word
  /\ pc \in Label
  /\ r \in Registers
  /\ pc \in {"last", "scan", "link"} => r.num \in 1..MaxGrow
  /\ pc \in {"scan", "link"} => r.left \in 1..r.num /\ r.next > 0
  /\ pc = "link" => r.next < ClusterCount
  /\ pc = "new" => r.next \in FAT_FSTCLUSTER..ClusterCount
  /\ pc \in {"new", "enter"} => r.new \in Slot
  /\ pc \in {"walk", "cut"} => r.base > 0

\* The directories a start of the program finds on the disk.
OnDisk == {first[s] : s \in Slot} \ {0}

Init ==
  \E img \in Images :
    /\ fat = img.fat
    /\ first = img.first
    /\ known = {img.first[s] : s \in Slot} \ {0}
    /\ pc = "idle"
    /\ r = NoCall

Goto(label) == pc' = label
Return == pc' = "idle" /\ r' = NoCall

\* fat_check_last_cluster: what is no link ends a chain, an entry of 0 or 1 too.
IsLast(w) == w < FAT_FSTCLUSTER \/ w = EndMark

\* fat16_set_fat_entry, fat32_set_fat_entry.
SetFat(clu, entry) == fat' = [fat EXCEPT ![clu] = entry]

\* The rest of fat_add_entry: a directory gets a cluster of its own, a file has none.
AddTheEntry ==
  IF r.new \in Slot THEN Goto("new") /\ r' = [r EXCEPT !.next = FAT_FSTCLUSTER] ELSE Return

-----------------------------------------------------------------------------
(* fat_concat_cluster, with which every command on a directory begins: its *)
(* clusters are counted.  What the dentries then ask for is a free choice. *)

CountLink ==
  /\ pc = "count"
  /\ ~IsLast(fat[r.clu])
  /\ r' = [r EXCEPT !.clu = fat[r.clu], !.base = r.base + 1]
  /\ UNCHANGED <<fat, first, known, pc>>

\* fat_add_entry asks for n clusters more,
CountedToGrow(n) ==
  /\ pc = "count"
  /\ IsLast(fat[r.clu])
  /\ r.op = "add"
  /\ r' = [r EXCEPT !.clu = r.obj, !.base = r.base + 1, !.num = n, !.next = fat[r.obj]]
  /\ Goto("last")
  /\ UNCHANGED <<fat, first, known>>

\* or goes on to the new directory's own.
CountedToFit ==
  /\ pc = "count"
  /\ IsLast(fat[r.clu])
  /\ r.op = "add"
  /\ AddTheEntry
  /\ UNCHANGED <<fat, first, known>>

(* fat_trim gives n clusters back.  fat_free_clusters counts the clusters  *)
(* once more before it begins, on the same FAT.                            *)
CountedToTrim(n) ==
  /\ pc = "count"
  /\ IsLast(fat[r.clu])
  /\ r.op = "trim"
  /\ r' = [r EXCEPT !.clu = r.obj, !.base = r.base + 1, !.num = n, !.ret = EndMark]
  /\ Goto("walk")
  /\ UNCHANGED <<fat, first, known>>

-----------------------------------------------------------------------------
(* fat_alloc_clusters, on r.obj with r.num clusters to add.                *)

(* fat_get_last_cluster: the loop moves on to the word it read before it   *)
(* looks at it, so that for a directory of two clusters or more its result *)
(* is the end mark.                                                        *)
LastFollow ==
  /\ pc = "last"
  /\ ~IsLast(r.next)
  /\ r' = [r EXCEPT !.clu = fat[r.clu], !.next = fat[r.clu]]
  /\ UNCHANGED <<fat, first, known, pc>>

LastFound ==
  /\ pc = "last"
  /\ IsLast(r.next)
  /\ r' = [r EXCEPT !.last = r.clu, !.next = r.clu + 1, !.left = r.num]
  /\ Goto("scan")
  /\ UNCHANGED <<fat, first, known>>

\* Seeded fault: the last of the clusters searched is off by one.
CandidateLate == IF r.next > ClusterCount THEN FAT_FSTCLUSTER ELSE r.next

(* The cluster a turn of the loop looks at: past the last one it searches, *)
(* it starts over at the first, after the loop's end was tested.           *)
Candidate == IF r.next > ClusterCount - 1 THEN FAT_FSTCLUSTER ELSE r.next

\* Seeded fault: a cluster in use is looked at again.
ScanSkipStuck ==
  /\ pc = "scan"
  /\ r.next # r.last
  /\ fat[Candidate] # 0
  /\ r' = [r EXCEPT !.next = Candidate]
  /\ UNCHANGED <<fat, first, known, pc>>

ScanSkip ==
  /\ pc = "scan"
  /\ r.next # r.last
  /\ fat[Candidate] # 0
  /\ r' = [r EXCEPT !.next = Candidate + 1]
  /\ UNCHANGED <<fat, first, known, pc>>

\* Seeded fault: an end-of-chain mark passes for a free cluster.
ScanTakeEnd ==
  /\ pc = "scan"
  /\ r.next # r.last
  /\ IsLast(fat[Candidate])
  /\ SetFat(Candidate, EndMark)
  /\ r' = [r EXCEPT !.next = Candidate]
  /\ Goto("link")
  /\ UNCHANGED <<first, known>>

\* A free cluster: its own entry is written first, as the end of a chain,
ScanTake ==
  /\ pc = "scan"
  /\ r.next # r.last
  /\ fat[Candidate] = 0
  /\ SetFat(Candidate, EndMark)
  /\ r' = [r EXCEPT !.next = Candidate]
  /\ Goto("link")
  /\ UNCHANGED <<first, known>>

\* Seeded fault: every cluster is linked to the one the search started from.
LinkToFirst ==
  /\ pc = "link"
  /\ SetFat(r.last, r.next)
  /\ IF r.left = 1
       THEN AddTheEntry
       ELSE Goto("scan") /\ r' = [r EXCEPT !.clu = r.next, !.next = r.next + 1, !.left = r.left - 1]
  /\ UNCHANGED <<first, known>>

\* then the one before is linked to it.
Link ==
  /\ pc = "link"
  /\ SetFat(r.clu, r.next)
  /\ IF r.left = 1
       THEN AddTheEntry
       ELSE Goto("scan") /\ r' = [r EXCEPT !.clu = r.next, !.next = r.next + 1, !.left = r.left - 1]
  /\ UNCHANGED <<first, known>>

\* Back at the last cluster: the volume had too few free ones.
ScanExhausted ==
  /\ pc = "scan"
  /\ r.next = r.last
  /\ AddTheEntry
  /\ UNCHANGED <<fat, first, known>>

-----------------------------------------------------------------------------
(* fat_new_clusters(1), which looks for an entry that ends a chain (0      *)
(* does) and takes that entry, not its index, for the new cluster.         *)

NewSkip ==
  /\ pc = "new"
  /\ r.next < ClusterCount
  /\ ~IsLast(fat[r.next])
  /\ r' = [r EXCEPT !.next = r.next + 1]
  /\ UNCHANGED <<fat, first, known, pc>>

NewTake ==
  /\ pc = "new"
  /\ r.next < ClusterCount
  /\ IsLast(fat[r.next])
  /\ SetFat(fat[r.next], EndMark)
  /\ r' = [r EXCEPT !.clu = fat[r.next]]
  /\ Goto("enter")
  /\ UNCHANGED <<first, known>>

NewExhausted ==
  /\ pc = "new"
  /\ r.next = ClusterCount
  /\ r' = [r EXCEPT !.clu = 0]
  /\ Goto("enter")
  /\ UNCHANGED <<fat, first, known>>

\* The new dentry is written, and the directory read again.
Enter ==
  /\ pc = "enter"
  /\ first' = [first EXCEPT ![r.new] = r.clu]
  /\ known' = known \union {r.clu}
  /\ Return
  /\ UNCHANGED fat

-----------------------------------------------------------------------------
(* fat_free_clusters, on r.obj of r.base clusters with r.num to give back. *)

\* i < cluster_num - k for the size_t cluster_num: when k is the larger the test always holds.
Below(i, len, k) == k > len \/ i < len - k

\* Seeded fault: one cluster more than was asked is kept.
WalkFar ==
  /\ pc = "walk"
  /\ Below(r.i, r.base, r.num)
  /\ r' = [r EXCEPT !.clu = fat[r.clu], !.i = IF r.num < r.base THEN r.i + 1 ELSE r.i]
  /\ UNCHANGED <<fat, first, known, pc>>

\* The walk to the cluster that is to be the last one.  It cannot end when none is to be left.
Walk ==
  /\ pc = "walk"
  /\ Below(r.i, r.base, r.num + 1)
  /\ r' = [r EXCEPT !.clu = fat[r.clu], !.i = IF r.num < r.base THEN r.i + 1 ELSE r.i]
  /\ UNCHANGED <<fat, first, known, pc>>

WalkDone ==
  /\ pc = "walk"
  /\ ~Below(r.i, r.base, r.num + 1)
  /\ Goto("cut")
  /\ UNCHANGED <<fat, first, known, r>>

\* Seeded fault: the cluster that is to be the last one is freed too.
CutAllFreed ==
  /\ pc = "cut"
  /\ r.i < r.base - 1
  /\ SetFat(r.clu, 0)
  /\ r' = [r EXCEPT !.clu = fat[r.clu], !.i = r.i + 1]
  /\ UNCHANGED <<first, known, pc>>

\* It becomes the end of the chain, and those after it are freed, the very last one excepted.
Cut ==
  /\ pc = "cut"
  /\ r.i < r.base - 1
  /\ SetFat(r.clu, r.ret)
  /\ r' = [r EXCEPT !.clu = fat[r.clu], !.i = r.i + 1, !.ret = 0]
  /\ UNCHANGED <<first, known, pc>>

CutDone ==
  /\ pc = "cut"
  /\ r.i >= r.base - 1
  /\ Return
  /\ UNCHANGED <<fat, first, known>>

-----------------------------------------------------------------------------
(* The commands.  The current directory can be any with a head, removed    *)
(* ones included; cluster 0 is the root directory of FAT16, which has a    *)
(* size that cannot change.                                                *)

\* create (s = NoSlot) or mkdir of an entry in the directory at c.
CallAdd(c, s) ==
  /\ pc = "idle"
  /\ s \in Slot => first[s] = 0
  /\ r' = [NoCall EXCEPT !.op = "add", !.new = s, !.obj = c, !.clu = c]
  /\ Goto("count")
  /\ UNCHANGED <<fat, first, known>>

\* mkdir in the root directory of FAT16.
CallAddToRoot(s) ==
  /\ pc = "idle"
  /\ first[s] = 0
  /\ r' = [NoCall EXCEPT !.op = "add", !.new = s, !.next = FAT_FSTCLUSTER]
  /\ Goto("new")
  /\ UNCHANGED <<fat, first, known>>

CallTrim(c) ==
  /\ pc = "idle"
  /\ r' = [NoCall EXCEPT !.op = "trim", !.obj = c, !.clu = c]
  /\ Goto("count")
  /\ UNCHANGED <<fat, first, known>>

(* fat_remove_entry: the dentry is marked as deleted, and that is all.     *)
(* Names are taken to be distinct: of two dentries with one name it would  *)
(* mark both.                                                              *)
Remove(s) ==
  /\ pc = "idle"
  /\ first[s] # 0
  /\ first' = [first EXCEPT ![s] = 0]
  /\ UNCHANGED <<fat, known, pc, r>>

\* fat_set_bogus_entry and fat_release_cluster, on the number the user typed, and setfat.
ShellAlloc(clu) ==
  /\ pc = "idle"
  /\ fat[clu] = 0
  /\ SetFat(clu, EndMark)
  /\ UNCHANGED <<first, known, pc, r>>

ShellRelease(clu) ==
  /\ pc = "idle"
  /\ fat[clu] # 0
  /\ SetFat(clu, 0)
  /\ UNCHANGED <<first, known, pc, r>>

ShellFat(clu, entry) ==
  /\ pc = "idle"
  /\ SetFat(clu, entry)
  /\ UNCHANGED <<first, known, pc, r>>

\* The program is killed, or quits, and is started again on the image.
Restart ==
  /\ known' = OnDisk
  /\ Return
  /\ UNCHANGED <<fat, first>>

-----------------------------------------------------------------------------
AllocStep == LastFollow \/ LastFound \/ ScanSkip \/ ScanTake \/ Link \/ ScanExhausted

NewStep == NewSkip \/ NewTake \/ NewExhausted \/ Enter

FreeStep == Walk \/ WalkDone \/ Cut \/ CutDone

Step ==
  \/ CountLink
  \/ \E n \in 1..MaxGrow : CountedToGrow(n)
  \/ CountedToFit
  \/ \E n \in 0..(r.base + 1) : CountedToTrim(n)
  \/ AllocStep \/ NewStep \/ FreeStep

FileCommand ==
  \/ \E c \in known \ {0}, s \in Slot \union {NoSlot} : CallAdd(c, s)
  \/ \E s \in Slot : CallAddToRoot(s)
  \/ \E c \in known \ {0} : CallTrim(c)
  \/ \E s \in Slot : Remove(s)

RawCommand ==
  \E e \in RawEntries : ShellAlloc(e[1]) \/ ShellRelease(e[1]) \/ ShellFat(e[1], e[2])

Next == Step \/ FileCommand \/ RawCommand \/ Restart

Spec == Init /\ [][Next]_vars

=============================================================================
