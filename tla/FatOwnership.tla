----------------------------- MODULE FatOwnership -----------------------------
(***************************************************************************)
(* What the FAT16 and FAT32 allocator guarantees: no cluster ever gets two *)
(* owners, whatever files are made, trimmed and removed; and what it does  *)
(* not: a directory of several clusters cannot grow, a new directory gets  *)
(* no cluster, and trim loses one.                                         *)
(***************************************************************************)
EXTENDS FatClusters

\* The clusters linked from c: the first entry that is no link ends them.
ChainOf(c) ==
  LET hop[k \in 0..CountofClusters] == IF k = 0 THEN c ELSE fat[hop[k - 1]]
      ends == {k \in 1..CountofClusters : hop[k] \notin Cluster}
      size == IF ends = {} THEN CountofClusters ELSE CHOOSE k \in ends : \A j \in ends : k <= j
  IN  IF c \notin Cluster THEN << >> ELSE [k \in 1..size |-> hop[k - 1]]

-----------------------------------------------------------------------------
(* Properties of every command but the raw ones, with the program killed   *)
(* at any step.                                                            *)

(* No entry links to a free cluster, so none that is part of a chain can   *)
(* be given to another directory: a cluster is marked before it is linked, *)
(* and cut off before it is freed.                                         *)
NoLinkToFree == \A w \in Word : fat[w] \in Cluster => fat[fat[w]] # 0

(* No cluster is reached in two ways: two entries never link to the same   *)
(* one, and none links to the first cluster of a directory the program can *)
(* work in, a removed one included, which is never free.                   *)
OneWayIn ==
  /\ \A v, w \in Word : fat[v] = fat[w] /\ fat[v] \in Cluster => v = w
  /\ \A d \in known \intersect Cluster : fat[d] # 0 /\ \A w \in Word : fat[w] # d

(* Both hold of the images the program is started on, and no two dentries  *)
(* there have one first cluster.                                           *)
ASSUME SoundImages ==
  \A img \in Images :
    LET linked(w) == img.fat[w] \in Cluster
    IN  /\ \A w \in Word : linked(w) => img.fat[img.fat[w]] # 0
        /\ \A v, w \in Word : img.fat[v] = img.fat[w] /\ linked(v) => v = w
        /\ \A s \in Slot : img.first[s] \in Cluster =>
             /\ img.fat[img.first[s]] # 0 /\ \A w \in Word : img.fat[w] # img.first[s]
             /\ \A t \in Slot : img.first[t] = img.first[s] => t = s

(* The lists of clusters on disk change as ClusterOwnership says.          *)
Promise == INSTANCE ClusterOwnership WITH
             Owner <- Slot, Heap <- Cluster, System <- {},
             owned <- [s \in Slot |-> ChainOf(first[s])]

ImplementsOwnership == Promise!Spec

(* A raw command that leaves every chain as it was: the table's owner can  *)
(* do anything with alloc, release and fat, and what is then true is his.  *)
HarmlessRaw ==
  /\ RawCommand
  /\ NoLinkToFree'
  /\ OneWayIn'
  /\ \A s \in Slot : ChainOf(first[s])' = ChainOf(first[s])

FileNext == Step \/ FileCommand \/ HarmlessRaw \/ Restart

FileSpec == Init /\ [][FileNext]_vars

-----------------------------------------------------------------------------
(* Properties under conditions: a directory of one cluster grows, by what  *)
(* is free; trim leaves a cluster; nothing is killed.  A single thread     *)
(* runs each command to its end.                                           *)

Scanned == FAT_FSTCLUSTER..(ClusterCount - 1)

CarefulStep ==
  /\ Step
  /\ pc' = "last" => /\ r'.base = 1
                     /\ Cardinality({c \in Scanned : fat[c] = 0}) >= r'.num
  /\ pc = "count" /\ pc' = "walk" => r'.num < r'.base

CarefulCommand ==
  \/ \E c \in known \intersect Cluster : CallAdd(c, NoSlot) \/ CallTrim(c)
  \/ \E s \in Slot : Remove(s)

CarefulNext == CarefulStep \/ CarefulCommand

CarefulSpec == Init /\ [][CarefulNext]_vars /\ WF_vars(CarefulStep)

(* A command that was typed returns to the prompt.                         *)
CommandReturns == pc # "idle" ~> pc = "idle"

(* When a command returns, its directory has the clusters it had and those *)
(* it was to get, or those it was to keep.                                 *)
AsAsked ==
  [][pc' = "idle" /\ pc \in {"scan", "link", "cut"} =>
       \A c \in Cluster :
         c = r.obj => Len(ChainOf(c)') = IF r.op = "add" THEN r.base + r.num ELSE r.base - r.num]_vars

-----------------------------------------------------------------------------
(* What the code's documents say, and it does not do.                      *)

ShellNext == Step \/ FileCommand

ShellSpec == Init /\ [][ShellNext]_vars

(* CHANGELOG.md, 0.4.0, under Fixed: "Return incorrect last cluster in     *)
(* FAT12/FAT16/FAT32".  The search for a free cluster starts at the last   *)
(* one of the directory that is to grow.                                   *)
LastIsLast ==
  pc = "scan" /\ r.left = r.num /\ r.obj \in Cluster =>
    r.last = ChainOf(r.obj)[Len(ChainOf(r.obj))]

=============================================================================
