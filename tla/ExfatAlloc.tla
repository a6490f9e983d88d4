----------------------------- MODULE ExfatAlloc ------------------------------
(***************************************************************************)
(* The exFAT cluster allocator of src/src/exfat.c, one action for every    *)
(* write that reaches the disk and for every turn of its loops, as the     *)
(* shell's commands run it on the root directory and the directories in it *)
(* (fill, mkdir, create, trim, rmdir, remove, alloc, release, fat).  The   *)
(* program may be killed between any two writes and started again on the   *)
(* image it left.                                                          *)
(*                                                                         *)
(* Of a directory's contents only the stream dentries of directories are   *)
(* kept, which is all that mkdir and create make; the files that fill puts *)
(* in a directory have no cluster.  Whether a command needs a cluster, and *)
(* how many trim leaves over, depends on the other dentries and is a free  *)
(* choice here.                                                            *)
(***************************************************************************)
EXTENDS ExfatVolume

CONSTANTS
  Images,         \* the images the program may be started on
  RootFlags,      \* what the root's fileinfo, allocated and never cleared, may hold as NoFatChain
  MaxFill,        \* bound on the clusters one fill asks for
  RawClusters,    \* arguments of the shell's alloc and release
  RawEntries      \* arguments of the shell's fat: <<index, entry>>

ASSUME AllocAssumption ==
  /\ \A img \in Images :
       /\ img.fat \in [Word -> Word]
       /\ img.bitmap \subseteq Cluster
       /\ img.stream \in [Slot -> Entry]
  /\ RootFlags \subseteq BOOLEAN
  /\ MaxFill \in Nat
  /\ RawClusters \subseteq Nat
  /\ RawEntries \subseteq Word \X Word

VARIABLES
  head,           \* in memory: the heads of info.root, by first cluster
  child,          \* in memory: the root's list of children, by slot
  pc,             \* the next statement of the running command, "idle" at the prompt
  r               \* the running command's arguments and locals

memory == <<head, child>>
vars == <<fat, bitmap, stream, alloc_table, head, child, pc, r>>

Label == {"idle", "last", "scan", "link", "mark", "convert", "chain", "runaway", "size",
          "new", "newmark", "enter", "reload", "walk", "cut", "unmark", "shrink", "clear", "erase"}

Command == {"none", "fill", "create", "trim", "remove"}

(* clu, next and last are the uint32_t locals of the same names; obj is    *)
(* the first cluster passed in; num is num_alloc; left counts down, i up;  *)
(* data is the directory as exfat_remove_entry read it.                    *)
NoCall == [op |-> "none", slot |-> 0, obj |-> 0, num |-> 0, clu |-> 0, next |-> 0,
           last |-> 0, left |-> 0, i |-> 0, contig |-> TRUE, passes |-> 0,
           data |-> [s \in Slot |-> NoEntry]]

Number == {EXFAT_BADCLUSTER, MediaType, EXFAT_LASTCLUSTER} \union Nat

Registers ==
  [op: Command, slot: 0..NumSlots, obj: FirstCluster, num: Nat, clu: Number, next: Int,
   last: Number, left: Nat, i: Nat, contig: BOOLEAN, passes: 0..2,
   data: [Slot -> Entry]]

TypeOK ==
  /\ VolumeTypeOK
  /\ head \in [FirstCluster -> Entry]
  /\ child \in [Slot -> Entry]
  /\ pc \in Label
  /\ r \in Registers

-----------------------------------------------------------------------------
(* Memory as it is once the root directory has been read.                  *)

(* exfat_check_filesystem: the root's size is set to the whole heap, its   *)
(* flags are not set at all.                                               *)
RootHead(flag) == [live |-> TRUE, clu |-> RootOffset, len |-> ClusterCount, nofat |-> flag]

(* exfat_traverse_directory and exfat_create_fileinfo on the dentries d: a *)
(* child for every live dentry, and a head for its first cluster unless    *)
(* there is one already.                                                   *)
Heads(d, old) ==
  [c \in FirstCluster |->
     LET found == {s \in Slot : d[s].live /\ d[s].clu = c}
     IN  IF old[c].live \/ found = {} THEN old[c]
         ELSE d[CHOOSE s \in found : \A t \in found : s <= t]]

Opened(flag) == [c \in FirstCluster |-> IF c = RootOffset THEN RootHead(flag) ELSE NoEntry]

Init ==
  \E img \in Images, flag \in RootFlags :
    /\ fat = img.fat
    /\ bitmap = img.bitmap
    /\ alloc_table = img.bitmap
    /\ stream = img.stream
    /\ child = img.stream
    /\ head = Heads(img.stream, Opened(flag))
    /\ pc = "idle"
    /\ r = NoCall

\* The fileinfo the running command works on: remove has the child's, the others the head's.
F == IF r.op = "remove" THEN child[r.slot] ELSE head[r.obj]

SetF(len, nofat) ==
  IF r.op = "remove"
    THEN /\ child' = [child EXCEPT ![r.slot].len = len, ![r.slot].nofat = nofat]
         /\ UNCHANGED head
    ELSE /\ head' = [head EXCEPT ![r.obj].len = len, ![r.obj].nofat = nofat]
         /\ UNCHANGED child

Goto(label) == pc' = label
Return == pc' = "idle" /\ r' = NoCall

-----------------------------------------------------------------------------
(* exfat_alloc_clusters, on r.obj with r.num clusters to add.              *)

\* The start of its search: clu = next_clu = last_clu = the last cluster found.
ScanFrom(last) ==
  /\ r' = [r EXCEPT !.clu = last, !.last = last, !.next = last + 1, !.left = r.num, !.contig = TRUE]
  /\ Goto("scan")

\* Seeded fault: off by one, the cluster after the file's last.
LastContiguousPlusOne ==
  /\ pc = "last"
  /\ F.nofat
  /\ ScanFrom(r.obj + F.len)
  /\ UNCHANGED <<volume, memory>>

\* exfat_get_last_cluster of a contiguous file (one that is empty gives the cluster before it).
LastContiguous ==
  /\ pc = "last"
  /\ F.nofat
  /\ ScanFrom(r.obj + F.len - 1)
  /\ UNCHANGED <<volume, memory>>

\* ... of a linked one: a link followed,
LastFollow ==
  /\ pc = "last"
  /\ ~F.nofat
  /\ r.i < F.len
  /\ fat[Clip(r.clu)] # EXFAT_LASTCLUSTER
  /\ r' = [r EXCEPT !.clu = fat[Clip(r.clu)], !.i = r.i + 1]
  /\ UNCHANGED <<volume, memory, pc>>

\* the end-of-chain mark found,
LastFound ==
  /\ pc = "last"
  /\ ~F.nofat
  /\ r.i < F.len
  /\ fat[Clip(r.clu)] = EXFAT_LASTCLUSTER
  /\ ScanFrom(r.clu)
  /\ UNCHANGED <<volume, memory>>

\* or no mark within the file's size: -1, which the caller uses as a cluster number.
LastMissing ==
  /\ pc = "last"
  /\ ~F.nofat
  /\ r.i = F.len
  /\ ScanFrom(-1)
  /\ UNCHANGED <<volume, memory>>

(* The cluster a turn of the loop looks at: past the last one it searches, *)
(* it starts over at the first, after the loop's end was tested.           *)
Candidate == IF Above(r.next, ClusterCount - 1) THEN EXFAT_FIRST_CLUSTER ELSE r.next

\* Seeded fault: a cluster in use is looked at again.
ScanSkipStuck ==
  /\ pc = "scan"
  /\ r.next # r.last
  /\ InUse(Candidate)
  /\ r' = [r EXCEPT !.next = Candidate]
  /\ UNCHANGED <<volume, memory, pc>>

ScanSkip ==
  /\ pc = "scan"
  /\ r.next # r.last
  /\ InUse(Candidate)
  /\ r' = [r EXCEPT !.next = Candidate + 1]
  /\ UNCHANGED <<volume, memory, pc>>

\* Seeded fault: the search takes the next cluster without a look at the bitmap.
ScanTakeUnchecked ==
  /\ pc = "scan"
  /\ r.next # r.last
  /\ SetFat(Candidate, EXFAT_LASTCLUSTER)
  /\ r' = [r EXCEPT !.next = Candidate, !.contig = r.contig /\ Candidate - r.clu = 1]
  /\ Goto("link")
  /\ UNCHANGED <<bitmap, stream, alloc_table, memory>>

\* A free cluster: its own FAT entry is written first, as the end of a chain.
ScanTake ==
  /\ pc = "scan"
  /\ r.next # r.last
  /\ ~InUse(Candidate)
  /\ SetFat(Candidate, EXFAT_LASTCLUSTER)
  /\ r' = [r EXCEPT !.next = Candidate, !.contig = r.contig /\ Candidate - r.clu = 1]
  /\ Goto("link")
  /\ UNCHANGED <<bitmap, stream, alloc_table, memory>>

\* Back at the last cluster: the volume had too few free ones.
ScanExhausted ==
  /\ pc = "scan"
  /\ r.next = r.last
  /\ Goto("convert")
  /\ UNCHANGED <<volume, memory, r>>

\* Then the file's last entry is linked to it,
Link ==
  /\ pc = "link"
  /\ SetFat(r.clu, r.next)
  /\ Goto("mark")
  /\ UNCHANGED <<bitmap, stream, alloc_table, memory, r>>

\* Seeded fault: the bit that is set is the predecessor's.
MarkPrevious ==
  /\ pc = "mark"
  /\ SaveBitmap(r.clu, 1)
  /\ r' = [r EXCEPT !.clu = r.next, !.left = r.left - 1,
                    !.next = IF r.left = 1 THEN r.next ELSE r.next + 1]
  /\ Goto(IF r.left = 1 THEN "convert" ELSE "scan")
  /\ UNCHANGED <<fat, stream, memory>>

\* and then its bit is set.
Mark ==
  /\ pc = "mark"
  /\ SaveBitmap(r.next, 1)
  /\ r' = [r EXCEPT !.clu = r.next, !.left = r.left - 1,
                    !.next = IF r.left = 1 THEN r.next ELSE r.next + 1]
  /\ Goto(IF r.left = 1 THEN "convert" ELSE "scan")
  /\ UNCHANGED <<fat, stream, memory>>

\* A contiguous file that is contiguous no more: the flag is cleared, in memory.
Convert ==
  /\ pc = "convert"
  /\ F.nofat /\ ~r.contig
  /\ SetF(F.len, FALSE)
  /\ r' = [r EXCEPT !.clu = r.obj, !.left = F.len]
  /\ Goto("chain")
  /\ UNCHANGED volume

KeepFlags ==
  /\ pc = "convert"
  /\ ~(F.nofat /\ ~r.contig)
  /\ Goto("size")
  /\ UNCHANGED <<volume, memory, r>>

(* exfat_create_fat_chain: a link for every cluster of the file but its    *)
(* last.  `while (--cluster_num)` with 0 clusters goes round 2^64 times.   *)
ChainLink ==
  /\ pc = "chain"
  /\ r.left > 1
  /\ SetFat(r.clu, r.clu + 1)
  /\ r' = [r EXCEPT !.clu = r.clu + 1, !.left = r.left - 1]
  /\ UNCHANGED <<bitmap, stream, alloc_table, memory, pc>>

ChainDone ==
  /\ pc = "chain"
  /\ r.left = 1
  /\ Goto("size")
  /\ UNCHANGED <<volume, memory, r>>

ChainUnderflow ==
  /\ pc = "chain"
  /\ r.left = 0
  /\ Goto("runaway")
  /\ UNCHANGED <<volume, memory, r>>

\* Every entry from the file's first on is overwritten, and then what lies past the FAT.
Runaway ==
  /\ pc = "runaway"
  /\ SetFat(r.clu, r.clu + 1)
  /\ r' = [r EXCEPT !.clu = Clip(r.clu + 1)]
  /\ UNCHANGED <<bitmap, stream, alloc_table, memory, pc>>

(* exfat_fill is over then, and the shell has the directory read again,    *)
(* which matters here if it is the root; exfat_add_entry goes on to the    *)
(* new entry's own clusters.                                               *)
GrowReturn ==
  IF r.op = "create" THEN Goto("new") /\ r' = [r EXCEPT !.next = EXFAT_FIRST_CLUSTER]
  ELSE IF r.obj = RootOffset THEN Goto("reload") /\ UNCHANGED r
  ELSE Return

\* Seeded fault: the size grows by one cluster more.
GrowPlusOne ==
  /\ pc = "size"
  /\ SetF(F.len + r.num + 1, F.nofat)
  /\ UpdateFilesize(r.obj, [F EXCEPT !.len = F.len + r.num + 1])
  /\ GrowReturn
  /\ UNCHANGED <<fat, bitmap, alloc_table>>

\* The size grows by what was asked for, and is flushed.
Grow ==
  /\ pc = "size"
  /\ SetF(F.len + r.num, F.nofat)
  /\ UpdateFilesize(r.obj, [F EXCEPT !.len = F.len + r.num])
  /\ GrowReturn
  /\ UNCHANGED <<fat, bitmap, alloc_table>>

(* exfat_reload_directory of the root: its children are read again, heads  *)
(* that exist are left alone.                                              *)
Reload ==
  /\ child' = stream'
  /\ head' = Heads(stream', head)

FillReload ==
  /\ pc = "reload"
  /\ UNCHANGED volume
  /\ Reload
  /\ Return

-----------------------------------------------------------------------------
(* exfat_new_clusters(1), which exfat_add_entry calls once for a file and  *)
(* twice for a directory, keeping the second result.  No caller asks for   *)
(* more than one cluster.                                                  *)
NewSkip ==
  /\ pc = "new"
  /\ r.next < ClusterCount
  /\ InUse(r.next)
  /\ r' = [r EXCEPT !.next = r.next + 1]
  /\ UNCHANGED <<volume, memory, pc>>

NewTake ==
  /\ pc = "new"
  /\ r.next < ClusterCount
  /\ ~InUse(r.next)
  /\ SetFat(r.next, EXFAT_LASTCLUSTER)
  /\ Goto("newmark")
  /\ UNCHANGED <<bitmap, stream, alloc_table, memory, r>>

\* The call is over, with clu for its result: the next one, or the dentry.
NewReturn(clu) ==
  /\ r' = [r EXCEPT !.clu = clu, !.passes = r.passes - 1, !.next = EXFAT_FIRST_CLUSTER]
  /\ Goto(IF r.passes > 1 THEN "new" ELSE "enter")

NewMark ==
  /\ pc = "newmark"
  /\ SaveBitmap(r.next, 1)
  /\ NewReturn(r.next)
  /\ UNCHANGED <<fat, stream, memory>>

\* No free cluster: 0, which becomes the FirstCluster of the new dentry.
NewExhausted ==
  /\ pc = "new"
  /\ r.next = ClusterCount
  /\ NewReturn(0)
  /\ UNCHANGED <<volume, memory>>

(* The new entry set reaches the disk: exfat_init_stream gives it          *)
(* NoFatChain and a size of 0.                                             *)
Enter ==
  /\ pc = "enter"
  /\ stream' = [stream EXCEPT ![r.slot] =
                   [live |-> TRUE, clu |-> r.clu, len |-> 0, nofat |-> TRUE]]
  /\ Reload
  /\ Return
  /\ UNCHANGED <<fat, bitmap, alloc_table>>

-----------------------------------------------------------------------------
(* exfat_free_clusters, on r.obj with r.num clusters to give back.         *)

Finish == IF r.op = "remove" THEN Goto("erase") /\ UNCHANGED r ELSE Return

\* Contiguous: the bits of the run's tail are cleared, and its size is left as it was.
ClearTail ==
  /\ pc = "clear"
  /\ r.i < F.len
  /\ SaveBitmap(r.obj + r.i, 0)
  /\ r' = [r EXCEPT !.i = r.i + 1]
  /\ UNCHANGED <<fat, stream, memory, pc>>

ClearDone ==
  /\ pc = "clear"
  /\ r.i >= F.len
  /\ Finish
  /\ UNCHANGED <<volume, memory>>

(* i < cluster_num - k for the size_t cluster_num: when k is the larger    *)
(* one the difference wraps, and the test always holds.                    *)
Below(i, len, k) == k > len \/ i < len - k

\* The loops' counter; past every bound they test it against it need not count on.
Up(i) == IF i > MaxLen THEN i ELSE i + 1

\* Linked: first the walk to the cluster that is to be the last one.
Walk ==
  /\ pc = "walk"
  /\ Below(r.i, F.len, r.num + 1)
  /\ ValidEntry(fat[Clip(r.clu)])
  /\ r' = [r EXCEPT !.clu = fat[Clip(r.clu)], !.i = Up(r.i)]
  /\ UNCHANGED <<volume, memory, pc>>

WalkDone ==
  /\ pc = "walk"
  /\ ~Below(r.i, F.len, r.num + 1) \/ ~ValidEntry(fat[Clip(r.clu)])
  /\ Goto("cut")
  /\ UNCHANGED <<volume, memory, r>>

\* Seeded fault: the chain is cut one cluster after the one the walk stopped at.
CutUnterminated ==
  /\ pc = "cut"
  /\ Below(r.i, F.len, 1)
  /\ r' = [r EXCEPT !.next = fat[Clip(r.clu)], !.i = Up(r.i)]
  /\ Goto("unmark")
  /\ UNCHANGED <<volume, memory>>

\* Then every cluster after it is cut off: its predecessor becomes the end of the chain,
Cut ==
  /\ pc = "cut"
  /\ Below(r.i, F.len, 1)
  /\ SetFat(r.clu, EXFAT_LASTCLUSTER)
  /\ r' = [r EXCEPT !.next = fat[Clip(r.clu)], !.i = Up(r.i)]
  /\ Goto("unmark")
  /\ UNCHANGED <<bitmap, stream, alloc_table, memory>>

\* and its bit is cleared.
Unmark ==
  /\ pc = "unmark"
  /\ SaveBitmap(r.next, 0)
  /\ r' = [r EXCEPT !.clu = r.next]
  /\ Goto("cut")
  /\ UNCHANGED <<fat, stream, memory>>

CutDone ==
  /\ pc = "cut"
  /\ ~Below(r.i, F.len, 1)
  /\ Goto("shrink")
  /\ UNCHANGED <<volume, memory, r>>

\* The size shrinks by what was asked for, and is flushed.
Shrink ==
  LET left == IF F.len > r.num THEN F.len - r.num ELSE 0
  IN  /\ pc = "shrink"
      /\ SetF(left, F.nofat)
      /\ UpdateFilesize(r.obj, [F EXCEPT !.len = left])
      /\ Finish
      /\ UNCHANGED <<fat, bitmap, alloc_table>>

(* The end of exfat_remove_entry: the directory is written back as it was  *)
(* read, less the removed entry, and reloaded.                             *)
Erase ==
  /\ pc = "erase"
  /\ stream' = [r.data EXCEPT ![r.slot] = NoEntry]
  /\ Reload
  /\ Return
  /\ UNCHANGED <<fat, bitmap, alloc_table>>

-----------------------------------------------------------------------------
(* The commands.  The current directory can be any the cache has a head    *)
(* for, removed ones included.                                             *)

\* exfat_fill, and exfat_add_entry in a directory, when the dentries need n more clusters.
CallFill(c, n) ==
  /\ pc = "idle"
  /\ head[c].live
  /\ head[c].len + n <= MaxLen
  /\ r' = [NoCall EXCEPT !.op = "fill", !.obj = c, !.num = n, !.clu = c]
  /\ Goto("last")
  /\ UNCHANGED <<volume, memory>>

(* mkdir (passes = 2) and create (passes = 1) of an entry in the root      *)
(* directory, which grows by a cluster first if it is full.                *)
CallCreate(s, passes, full) ==
  /\ pc = "idle"
  /\ ~stream[s].live
  /\ full => head[RootOffset].len < MaxLen
  /\ r' = [NoCall EXCEPT !.op = "create", !.slot = s, !.obj = RootOffset, !.num = 1,
                         !.clu = RootOffset, !.next = EXFAT_FIRST_CLUSTER, !.passes = passes]
  /\ Goto(IF full THEN "last" ELSE "new")
  /\ UNCHANGED <<volume, memory>>

(* A command that writes nothing, because the entry is there already or    *)
(* the directory large enough, and then has it read again.                 *)
CallReload ==
  /\ pc = "idle"
  /\ UNCHANGED <<volume, pc, r>>
  /\ Reload

\* What exfat_free_clusters begins with.
FreeFrom(call, f) ==
  /\ r' = [call EXCEPT !.i = IF f.nofat THEN f.len - call.num ELSE 0]
  /\ Goto(IF f.nofat THEN "clear" ELSE "walk")

\* The number of clusters exfat_concat_cluster reads for the directory at c.
Loaded(c) ==
  LET f == head[c]
      hop[k \in 0..f.len] == IF k = 0 THEN c ELSE fat[hop[k - 1]]
      ends == {k \in 1..f.len : k = f.len \/ hop[k] \notin Cluster}
  IN  IF f.len <= 1 \/ f.nofat THEN f.len
      ELSE CHOOSE k \in ends : \A j \in ends : k <= j

\* exfat_trim, when the dentries in use leave n of the clusters it read empty.
CallTrim(c, n) ==
  /\ pc = "idle"
  /\ head[c].live
  /\ n <= Loaded(c)
  /\ FreeFrom([NoCall EXCEPT !.op = "trim", !.obj = c, !.num = n, !.clu = c], head[c])
  /\ UNCHANGED <<volume, memory>>

\* exfat_remove_entry of a child that is there and may be removed: all its clusters are freed.
CallRemove(s) ==
  /\ pc = "idle"
  /\ child[s].live
  /\ FreeFrom([NoCall EXCEPT !.op = "remove", !.slot = s, !.obj = child[s].clu,
                             !.num = child[s].len, !.clu = child[s].clu, !.data = stream],
              child[s])
  /\ UNCHANGED <<volume, memory>>

\* exfat_set_bitmap and exfat_clear_bitmap, on the number the user typed.
ShellAlloc(clu) ==
  /\ pc = "idle"
  /\ IF InUse(clu) THEN UNCHANGED <<alloc_table, bitmap>> ELSE SaveBitmap(clu, 1)
  /\ UNCHANGED <<fat, stream, memory, pc, r>>

ShellRelease(clu) ==
  /\ pc = "idle"
  /\ IF InUse(clu) THEN SaveBitmap(clu, 0) ELSE UNCHANGED <<alloc_table, bitmap>>
  /\ UNCHANGED <<fat, stream, memory, pc, r>>

ShellFat(clu, entry) ==
  /\ pc = "idle"
  /\ SetFat(clu, entry)
  /\ UNCHANGED <<bitmap, stream, alloc_table, memory, pc, r>>

(* The program is killed, or quits, and is started again on the image:     *)
(* everything in memory is read anew.                                      *)
Restart(flag) ==
  /\ child' = stream
  /\ head' = Heads(stream, Opened(flag))
  /\ Return
  /\ alloc_table' = bitmap
  /\ UNCHANGED <<fat, bitmap, stream>>

-----------------------------------------------------------------------------
AllocStep ==
  \/ LastContiguous \/ LastFollow \/ LastFound \/ LastMissing
  \/ ScanSkip \/ ScanTake \/ ScanExhausted \/ Link \/ Mark
  \/ Convert \/ KeepFlags \/ ChainLink \/ ChainDone \/ ChainUnderflow \/ Runaway
  \/ Grow \/ FillReload

CreateStep == NewSkip \/ NewTake \/ NewMark \/ NewExhausted \/ Enter

FreeStep ==
  \/ ClearTail \/ ClearDone
  \/ Walk \/ WalkDone \/ Cut \/ Unmark \/ CutDone \/ Shrink
  \/ Erase

\* A step of the command that is running.
Step == AllocStep \/ CreateStep \/ FreeStep

\* A command is typed, on the files of the volume,
FileCommand ==
  \/ \E c \in FirstCluster, n \in 1..MaxFill : CallFill(c, n)
  \/ \E s \in Slot, passes \in 1..2, full \in BOOLEAN : CallCreate(s, passes, full)
  \/ CallReload
  \/ \E c \in FirstCluster, n \in 0..MaxLen : CallTrim(c, n)
  \/ \E s \in Slot : CallRemove(s)

\* or on the bitmap and the FAT themselves.
RawCommand ==
  \/ \E clu \in RawClusters : ShellAlloc(clu) \/ ShellRelease(clu)
  \/ \E e \in RawEntries : ShellFat(e[1], e[2])

Next == Step \/ FileCommand \/ RawCommand \/ \E flag \in RootFlags : Restart(flag)

Spec == Init /\ [][Next]_vars

=============================================================================
