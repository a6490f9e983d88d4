---------------------------- MODULE ExfatOwnership ---------------------------
(***************************************************************************)
(* What the exFAT allocator guarantees, and to whom: the clusters each     *)
(* directory owns according to the disk alone, the conditions on the       *)
(* commands under which the code keeps them apart, and the properties.     *)
(***************************************************************************)
EXTENDS ExfatAlloc, Sequences

CONSTANT System   \* the clusters of the allocation bitmap and the up-case table

ASSUME SystemAssumption == System \subseteq Cluster /\ RootOffset \notin System

Root == 0
Owner == {Root} \union Slot

(* The clusters an owner has, as the next start of the program will read   *)
(* them from the disk's FAT f and dentries d.  The root's size is recorded *)
(* nowhere, so it has all that is linked from its first cluster.           *)
OwnedIn(f, d, o) ==
  IF o = Root THEN Chain(f, RootOffset, ClusterCount, FALSE)
  ELSE IF d[o].live THEN Chain(f, d[o].clu, d[o].len, d[o].nofat)
  ELSE << >>

Owned(o) == OwnedIn(fat, stream, o)

Holds(o) == {Owned(o)[k] : k \in 1..Len(Owned(o))}

\* The owner whose clusters the running command changes.
Operand ==
  IF r.op = "remove" \/ pc \in {"new", "newmark", "enter"} THEN r.slot
  ELSE IF r.obj = RootOffset THEN Root
  ELSE StreamOf(r.obj)

\* The clusters the allocator looks at.
Scanned == EXFAT_FIRST_CLUSTER..(ClusterCount - 1)

-----------------------------------------------------------------------------
(* The conditions.  For each one left out, some sequence of commands makes *)
(* the code hang, or lets two directories share a cluster.                 *)

\* A linked chain is as long as its dentry says, and ends there.
Exact(s) ==
  \/ stream[s].nofat
  \/ Len(Owned(s)) = stream[s].len /\ fat[Owned(s)[stream[s].len]] = EXFAT_LASTCLUSTER

(* The directory at c is the root, and the flag in its fileinfo, which the *)
(* code never sets, reads as clear; or its fileinfo says what its dentry   *)
(* says, and the dentry says what is so: it has that many clusters, not 0. *)
InStep(c) ==
  \/ c = RootOffset /\ ~head[c].nofat
  \/ LET s == StreamOf(c) IN
       s # 0 /\ head[c] = stream[s] /\ stream[s].len > 0 /\ Exact(s)

(* The images the program is started on: each directory has clusters of    *)
(* the heap, all of them marked, none of them another's, its own twice, or *)
(* the volume's; the root's end with the mark for that, and a dentry       *)
(* without a first cluster says that it has none.                          *)
ASSUME SoundImages ==
  \A img \in Images :
    LET list(o) == OwnedIn(img.fat, img.stream, o)
        holds(o) == {list(o)[k] : k \in 1..Len(list(o))}
    IN  /\ System \subseteq img.bitmap
        /\ \A o \in Owner :
             /\ holds(o) \subseteq img.bitmap \ System
             /\ \A j, k \in 1..Len(list(o)) : list(o)[j] = list(o)[k] => j = k
             /\ \A p \in Owner \ {o} : holds(o) \intersect holds(p) = {}
        /\ img.fat[list(Root)[Len(list(Root))]] = EXFAT_LASTCLUSTER
        /\ \A s \in Slot : img.stream[s].live /\ img.stream[s].clu = 0 =>
             img.stream[s].len = 0 /\ img.stream[s].nofat

(* Nothing is lost on them, or said wrongly: what is marked is the         *)
(* volume's or a directory's, and each directory has as many clusters as   *)
(* its dentry says, at least one.  Only ExactlyAccounted and SizeIsExact   *)
(* rest on it.                                                             *)
ASSUME ExactImages ==
  \A img \in Images :
    LET list(o) == OwnedIn(img.fat, img.stream, o)
        holds(o) == {list(o)[k] : k \in 1..Len(list(o))}
    IN  /\ img.bitmap \subseteq System \union UNION {holds(o) : o \in Owner}
        /\ \A s \in Slot : img.stream[s].live =>
             /\ img.stream[s].clu # 0 /\ img.stream[s].len > 0
             /\ \/ img.stream[s].nofat
                \/ /\ Len(list(s)) = img.stream[s].len
                   /\ img.fat[list(s)[img.stream[s].len]] = EXFAT_LASTCLUSTER

\* What is asked for is there, of a directory in step.
CarefulGrowth == Cardinality(Scanned \ alloc_table) >= r'.num /\ InStep(r'.obj)

\* A linked directory other than the root keeps a cluster.
CarefulTrim ==
  /\ r'.obj # RootOffset
  /\ InStep(r'.obj)
  /\ ~head[r'.obj].nofat
  /\ r'.num < head[r'.obj].len

CarefulCall ==
  /\ pc' = "last" => CarefulGrowth
  /\ r'.op = "trim" => CarefulTrim
  /\ r'.op = "remove" => child[r'.slot] = stream[r'.slot] /\ Exact(r'.slot)

(* Two moments at which the program must not be killed: the root directory *)
(* has a new cluster linked whose bit is not set, or the clusters of an    *)
(* entry that is still there are being freed.                              *)
CarefulKill == ~(pc = "mark" /\ r.obj = RootOffset) /\ r.op # "remove"

\* Commands typed with that care, none of them raw, and a program that may be killed.
CarefulNext ==
  \/ Step
  \/ FileCommand /\ CarefulCall
  \/ CarefulKill /\ \E flag \in RootFlags : Restart(flag)

CarefulSpec == Init /\ [][CarefulNext]_vars

(* The same, less the commands that make or remove directories, and the    *)
(* restarts.  The program is a single thread that runs a command to its    *)
(* end, so a step that can be taken is taken.                              *)
FillTrimNext ==
  \/ Step
  \/ FileCommand /\ r'.op \in {"none", "fill", "trim"} /\ CarefulCall

FillTrimSpec == Init /\ [][FillTrimNext]_vars /\ WF_vars(Step)

\* Any command of the shell but the raw ones, and no restart.
ShellNext == Step \/ FileCommand

ShellSpec == Init /\ [][ShellNext]_vars

-----------------------------------------------------------------------------
(* Properties of every behaviour of the code, whatever is typed.           *)

(* The copy of the allocation bitmap in memory and the bitmap on disk say  *)
(* the same at every step, over restarts too: exfat_save_bitmap is the     *)
(* only writer of either, and the code never reads the disk's again.       *)
BitmapCoherent == alloc_table = bitmap

(* Between the choice of a cluster and the setting of its bit, two disk    *)
(* writes later, the cluster is one the disk says is free, and one that    *)
(* set_cluster can write to.                                               *)
ChosenIsFree == pc \in {"link", "mark", "newmark"} => r.next \in Scanned \ bitmap

-----------------------------------------------------------------------------
(* Properties under the conditions above.                                  *)

(* Whatever the disk says a directory has is marked as in use, at every    *)
(* step, so that a program killed there and started again cannot give it   *)
(* away: a cluster is marked before the size covers it, and cut off before *)
(* it is unmarked.  Two orders in the code are the other way round and are *)
(* excepted: the root, whose size is not recorded, has a cluster as soon   *)
(* as it is linked; and remove frees the clusters of an entry that is      *)
(* still there.                                                            *)
OwnedIsMarked ==
  /\ System \subseteq bitmap
  /\ \A o \in Owner :
       ~(r.op = "remove" /\ o = r.slot) =>
         Holds(o) \ (IF o = Root /\ pc = "mark" THEN {r.next} ELSE {}) \subseteq bitmap

(* A command on one directory never rewrites the FAT entry of a cluster of *)
(* another one or of the volume's own, nor one that belongs to no cluster. *)
ForeignFatKept ==
  [][fat' # fat =>
       LET changed == {w \in Word : fat'[w] # fat[w]}
       IN  /\ changed \subseteq Cluster \ System
           /\ \A o \in Owner \ {Operand} : changed \intersect Holds(o) = {}]_vars

(* The lists of clusters on disk change as ClusterOwnership says: one at a *)
(* time, by clusters nobody has, or by losing a tail.                      *)
Promise == INSTANCE ClusterOwnership WITH
             Owner <- Owner, Heap <- Cluster, System <- System,
             owned <- [o \in Owner |-> Owned(o)]

ImplementsOwnership == Promise!Spec

(* A command that was typed returns to the prompt: neither the search for  *)
(* a free cluster nor a walk along a chain goes round for ever.            *)
CommandReturns == pc # "idle" ~> pc = "idle"

(* With fill and trim alone no cluster is lost or gained: at the prompt,   *)
(* those marked are the volume's own and the directories'.                 *)
ExactlyAccounted == pc = "idle" => bitmap = System \union UNION {Holds(o) : o \in Owner}

(* At the prompt every directory has as many clusters as its dentry says,  *)
(* and the fileinfo that fill and trim use says the same.                  *)
SizeIsExact ==
  pc = "idle" => \A s \in Slot : stream[s].live => InStep(stream[s].clu)

-----------------------------------------------------------------------------
(* What the change log says of the program, and the program does not do.   *)

(* CHANGELOG.md, 0.4.0, under Fixed: "Keep allocated even the              *)
(* file/directory was removed".  When remove is about to erase the entry,  *)
(* the clusters it had are marked as in use no more.                       *)
RemovedIsReleased ==
  pc = "erase" => Holds(r.slot) \intersect bitmap = {}

=============================================================================
