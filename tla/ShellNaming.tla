---------------------------- MODULE ShellNaming ----------------------------
(***************************************************************************)
(* What the names on an exFAT volume mean, the conditions under which the  *)
(* shell keeps its promise about them, and the properties of ExfatShell.   *)
(***************************************************************************)
EXTENDS ExfatShell

(* The files of the volume, by their paths, as the disk has them, whatever *)
(* is in memory.                                                           *)
RootEntry == [name |-> NoName, clu |-> Root, dir |-> TRUE, size |-> 1, linked |-> TRUE]
Nowhere == [name |-> NoName, clu |-> Missing, dir |-> FALSE, size |-> 0, linked |-> FALSE]

(* The entry sets in the directory e, on the disk d.                       *)
Below(d, e) == IF e.dir THEN Listing(d[e.clu], e.size) ELSE <<>>

In(d, file) ==
  LET es == Below(d, file.entry)
  IN  {[path |-> Append(file.path, es[k].name), entry |-> es[k]] : k \in DOMAIN es}

FilesOn(d) ==
  LET Level[k \in 0..MaxDepth + 1] ==
        IF k = 0 THEN {[path |-> <<>>, entry |-> RootEntry]}
        ELSE UNION {In(d, file) : file \in Level[k - 1]}
  IN  UNION {Level[k] : k \in 0..MaxDepth + 1}

Files == FilesOn(disk)

(* The entry set a path leads to.                                          *)
Into(d, e, n) ==
  LET k == ByName(Below(d, e), n) IN IF k = 0 THEN Nowhere ELSE Below(d, e)[k]

EntryOn(d, p) ==
  LET At[k \in 0..Len(p)] == IF k = 0 THEN RootEntry ELSE Into(d, At[k - 1], p[k])
  IN  At[Len(p)]

EntryAt(p) == EntryOn(disk, p)

(* A volume with nothing wrong: D are the clusters of the directories that *)
(* have any, each but the root's in one entry set; nothing else is in two  *)
(* either, all of it is marked, and every entry set has a name.  A linked  *)
(* directory of size 0 has nothing left in its cluster.                    *)
Sound(d, u, D) ==
  /\ Root \in D /\ D \subseteq u
  /\ \A c \in D : \A k \in DOMAIN d[c] :
       LET e == d[c][k]
       IN  /\ e.name # NoName
           /\ e.clu \in (u \ {Root}) \union {0}
           /\ e.clu \in D <=> e.dir /\ e.size = 1
           /\ e.dir /\ e.linked /\ e.size = 0 => d[e.clu] = <<>>
  /\ \A b, c \in D : \A j \in DOMAIN d[b], k \in DOMAIN d[c] :
       d[b][j].clu = d[c][k].clu /\ d[b][j].clu # 0 => b = c /\ j = k

ASSUME SoundImages == \A m \in Images : \E D \in SUBSET Cluster : Sound(m.disk, m.used, D)

-----------------------------------------------------------------------------
(* Careful use.                                                            *)

(* Memory that was never written holds zeros.                              *)
Zeroed == Garbage \subseteq {FALSE}

(* The directory part of a path is there, and is not lost to strtok_dir:   *)
(* of /b nothing is left for lookup, which then stays where it is.         *)
Reaches(p) ==
  /\ EntryAt(DirName(p)).dir
  /\ DirName(p) = <<>> => pwd = <<>>

(* What memory has of a directory is what its dentry says.                 *)
InStep(e) ==
  LET i == Find(root, e.clu)
  IN  i # 0 /\ e.clu # Root => root.heads[i].size = e.size /\ root.heads[i].linked = e.linked

Grows(e) == InStep(e) /\ ~GrowsWild(e)

CarefulMake(p) == Reaches(p) /\ p # <<>> /\ Grows(EntryAt(DirName(p)))

(* The entries the shell may take for the one named are that one, and none *)
(* of them is a linked one of size 0; the directory's number is no slot's, *)
(* nor will be when the command has looked the directory up.               *)
CarefulTake(p, g) ==
  LET dir == EntryAt(DirName(p))
      i == Find(root, dir.clu)
      seen == Traverse(Located(p, g).tab, disk, dir.clu, g)
      Likely == {disk[dir.clu][k] : k \in DOMAIN disk[dir.clu]}
                  \union (IF i = 0 THEN {} ELSE {root.heads[i].kids[k] : k \in DOMAIN root.heads[i].kids})
  IN  /\ Reaches(p)
      /\ p # pwd
      /\ \A e \in Likely : Upper[e.name] = Upper[FileName(p)] => e.name = FileName(p) /\ ~ReleasesWild(e)
      /\ dir.clu >= Len(seen.heads) /\ dir.clu < root.clear

CarefulTrim ==
  LET e == EntryAt(pwd)
  IN  cluster # Root /\ InStep(e) /\ (disk[cluster] = <<>> => e.linked /\ e.size = 1)

CarefulNext ==
  \E g \in Garbage :
    \/ Restart(g)
    \/ List(g)
    \/ ChangeHome
    \/ CarefulTrim /\ Trim(g)
    \/ Grows(EntryAt(pwd)) /\ \E n \in Name : Fill(n, g)
    \/ \E p \in Paths :
         LET path == FormatPath(p)
         IN  \/ EntryAt(path).dir /\ ChangeDir(p, g)
             \/ Reaches(path) /\ Look(p, g)
             \/ CarefulMake(path) /\ (Create(p, g) \/ Mkdir(p, g))
             \/ CarefulTake(path, g) /\ (RemoveFile(p, g) \/ Rmdir(p, g))

CarefulSpec == Zeroed /\ Init /\ [][CarefulNext]_vars

-----------------------------------------------------------------------------
(* Properties of careful use.                                              *)

Named(es) == [k \in DOMAIN es |-> <<es[k].name, es[k].clu, es[k].dir>>]

(* A directory that counts as loaded has in memory the children it has on  *)
(* disk, in their order, over create, remove, fill, trim (which does not   *)
(* reload), and the reuse of a removed directory's cluster for a new one.  *)
CacheIsDisk ==
  \A i \in DOMAIN root.heads :
    LET h == root.heads[i]
    IN  h.cached => Named(h.kids) = Named(Listing(disk[h.index], h.size))

(* The current directory is the one PWD names, and one that is marked as   *)
(* in use, so that fill and trim, which work by its number, change the     *)
(* directory the prompt shows.                                             *)
PwdIsCluster == EntryAt(pwd).dir /\ EntryAt(pwd).clu = cluster /\ cluster \in used

(* No two names lead to one cluster, and none leads to a free one.         *)
OneNamePerCluster ==
  LET kept == {file \in Files : file.entry.clu # 0}
      clusters == {file.entry.clu : file \in kept}
  IN  Cardinality(clusters) = Cardinality(kept) /\ clusters \subseteq used

(* docs/test_specification.md: "DO NOT abort in shell mode command" and    *)
(* "DO NOT abort in the wrong usage".  No command follows a NULL pointer.  *)
NeverAborts == root.ok

(* shell.c:566, in format_path: `If str is "/A/B/C" or "/", then "/" else  *)
(* concatenate PWD'.  A create or mkdir adds to no directory but the one   *)
(* the path names, where that directory is there and, if it is the root,   *)
(* is the current one.  Typed elsewhere, /b goes to the current directory: *)
(* strtok_dir leaves lookup nothing of the path (shell.c:282, 283), and it *)
(* starts at the root only at a slash (exfat.c:1759).  Reaches leaves that *)
(* out, and the paths whose directory is not there.                        *)
MakesWhereAsked ==
  [][\A c \in Cluster :
       Len(disk'[c]) > Len(disk[c]) =>
         \A p \in Paths, g \in Garbage :
           Reaches(FormatPath(p)) /\ EntryAt(DirName(FormatPath(p))).clu # c =>
             ~(Create(p, g) \/ Mkdir(p, g))]_vars

(* The tree of names changes as Namespace says.  The tree is what is on    *)
(* disk, so a restart does not change it.                                  *)
Promise == INSTANCE Namespace WITH paths <- {file.path : file \in Files}, cwd <- pwd

ImplementsNamespace == Promise!Spec

=============================================================================
