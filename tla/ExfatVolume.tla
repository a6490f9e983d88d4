----------------------------- MODULE ExfatVolume -----------------------------
(***************************************************************************)
(* The exFAT structures that decide which cluster belongs to whom, and the *)
(* helpers of src/src/exfat.c that read and write one of them at a time:   *)
(* the FAT, the allocation bitmap (on disk and its copy in memory) and the *)
(* stream dentries of one directory.                                       *)
(*                                                                         *)
(* A cluster number or FAT entry is a 32-bit word.  The words that matter  *)
(* are the cluster numbers and the reserved values at the top of the       *)
(* range, which are written here as the negative numbers they are in two's *)
(* complement, so that word + 1 wraps as the code's uint32_t does.         *)
(***************************************************************************)
EXTENDS Integers, FiniteSets

CONSTANTS
  ClusterCount,   \* info.cluster_count: the heap's clusters are 2..ClusterCount + 1
  RootOffset,     \* info.root_offset: first cluster of the root directory
  NumSlots,       \* how many file entry sets the root directory has room for
  MaxLen          \* bound on a fileinfo's datalen, in clusters

ASSUME VolumeAssumption ==
  /\ ClusterCount \in Nat /\ ClusterCount > 2
  /\ RootOffset \in 2..(ClusterCount + 1)
  /\ NumSlots \in Nat
  /\ MaxLen \in Nat /\ MaxLen >= ClusterCount

EXFAT_FIRST_CLUSTER == 2
EXFAT_LASTCLUSTER == -1         \* 0xFFFFFFFF
EXFAT_BADCLUSTER == -9          \* 0xFFFFFFF7
MediaType == -8                 \* 0xFFFFFFF8, what FAT[0] holds

Cluster == EXFAT_FIRST_CLUSTER..(ClusterCount + 1)

\* One cell for every word past the last FAT entry, and for every number too big for a cluster.
Past == ClusterCount + 2

(* The words a FAT entry can hold.  They also index the FAT: for the words *)
(* next to 2^32 the sector number of exfat_set_fat_entry wraps, and the    *)
(* access lands in the sector before the FAT, so that sector's last words  *)
(* are modelled too.                                                       *)
Word == {EXFAT_BADCLUSTER, MediaType, EXFAT_LASTCLUSTER} \union 0..Past

Clip(w) == IF w > Past THEN Past ELSE w

Slot == 1..NumSlots
FirstCluster == {0} \union Cluster      \* the dentry's FirstCluster, 0 = none

(* What a stream dentry says of its file, and the copies of it in memory:  *)
(* datalen is in clusters (ROUNDUP(f->datalen, info.cluster_size)).        *)
Entry == [live: BOOLEAN, clu: FirstCluster, len: 0..MaxLen, nofat: BOOLEAN]
NoEntry == [live |-> FALSE, clu |-> 0, len |-> 0, nofat |-> FALSE]

VARIABLES
  fat,            \* on disk: the FAT, [Word -> Word]
  bitmap,         \* on disk: the clusters whose bit is set
  stream,         \* on disk: the root directory's stream dentries, by slot
  alloc_table     \* in memory: info.alloc_table, read once when the image is opened

volume == <<fat, bitmap, stream, alloc_table>>

VolumeTypeOK ==
  /\ fat \in [Word -> Word]
  /\ bitmap \subseteq Cluster
  /\ alloc_table \subseteq Cluster
  /\ stream \in [Slot -> Entry]

-----------------------------------------------------------------------------
(* exfat_load_bitmap gives -1 for a number outside the heap, and every     *)
(* caller tests the result for non-zero: out of range counts as in use.    *)
InUse(clu) == clu \notin Cluster \/ clu \in alloc_table

\* The unsigned comparison w > k.
Above(w, k) == w < 0 \/ w > k

(* exfat_validate_fat_entry: its look at the bitmap has no effect, as both *)
(* outcomes are overwritten; the end-of-chain mark passes as valid.        *)
ValidEntry(w) == w \in Cluster \/ w = EXFAT_LASTCLUSTER

\* exfat_set_fat_entry: one sector read, patched and written back.
SetFat(clu, entry) == fat' = [fat EXCEPT ![Clip(clu)] = Clip(entry)]

\* Seeded fault: the bit is flipped in memory and never written back.
SaveBitmapInMemoryOnly(clu, value) ==
  IF clu \in Cluster
    THEN /\ alloc_table' = IF value = 1 THEN alloc_table \union {clu} ELSE alloc_table \ {clu}
         /\ UNCHANGED bitmap
    ELSE UNCHANGED <<alloc_table, bitmap>>

(* exfat_save_bitmap: the bit is changed in memory, then in the bitmap's   *)
(* cluster on disk; a number outside the heap is refused.  The bitmap has  *)
(* one cluster, and the write does not fail: if it did, nobody would look. *)
SaveBitmap(clu, value) ==
  IF clu \in Cluster
    THEN IF value = 1
           THEN /\ alloc_table' = alloc_table \union {clu}
                /\ bitmap' = bitmap \union {clu}
           ELSE /\ alloc_table' = alloc_table \ {clu}
                /\ bitmap' = bitmap \ {clu}
    ELSE UNCHANGED <<alloc_table, bitmap>>

\* The first stream dentry of the directory whose FirstCluster is clu (0 when there is none).
StreamOf(clu) ==
  LET found == {s \in Slot : stream[s].live /\ stream[s].clu = clu}
  IN  IF found = {} THEN 0 ELSE CHOOSE s \in found : \A t \in found : s <= t

\* Seeded fault: a fileinfo's new size is never flushed to its dentry.
UpdateFilesizeDropped(clu, f) == UNCHANGED stream

(* exfat_update_filesize: nothing for the root directory, which has no     *)
(* dentry; else the dentry found by first cluster takes f's size and       *)
(* flags.  When none is found the write goes to cluster 0, which           *)
(* set_cluster refuses.                                                    *)
UpdateFilesize(clu, f) ==
  IF clu = RootOffset \/ StreamOf(clu) = 0
    THEN UNCHANGED stream
    ELSE stream' = [stream EXCEPT ![StreamOf(clu)].len = f.len, ![StreamOf(clu)].nofat = f.nofat]

-----------------------------------------------------------------------------
(* The clusters of a file of len clusters that starts at clu, in order: a  *)
(* contiguous run under NoFatChain, else what the FAT f links, up to len   *)
(* clusters or the first entry that is no cluster.  A directory just made  *)
(* has a size of 0 and one cluster.                                        *)
Chain(f, clu, len, nofat) ==
  LET hop[k \in 0..len] == IF k = 0 THEN clu ELSE f[hop[k - 1]]
      ends == {k \in 1..len : k = len \/ hop[k] \notin Cluster}
      size == IF len <= 1 THEN 1 ELSE CHOOSE k \in ends : \A j \in ends : k <= j
  IN  IF clu \notin Cluster THEN << >>
      ELSE IF nofat THEN [k \in 1..(IF len = 0 THEN 1 ELSE len) |-> clu + k - 1]
      ELSE [k \in 1..size |-> hop[k - 1]]

=============================================================================
