----------------------------- MODULE ExfatShell -----------------------------
(***************************************************************************)
(* The interactive shell of debugfatfs on an exFAT volume: the current     *)
(* directory and PWD, the directory chain in memory, and the directories   *)
(* on disk, as sequences of the entry sets that are in use.  A command is  *)
(* one step: the process has one thread.  What a command does to the FAT,  *)
(* and a kill in the middle of it, are in ExfatAlloc; the dentries an      *)
(* entry set is made of are in ExfatDentries.  Names here have at most 15  *)
(* letters, and so one name dentry: a longer one is read back as another   *)
(* (Shown of ExfatDentries), and lookup, which goes by the text, would not *)
(* find it.                                                                *)
(***************************************************************************)
EXTENDS DirectoryChain, FiniteSets, FiniteSetsExt

CONSTANTS Images,       \* volumes a session may start on: [disk, used]
          Paths,        \* the paths a user types: [abs, names]
          Garbage,      \* what g may be
          MaxEntries,   \* bound: entry sets in a directory, as many as its one cluster takes
          MaxDepth      \* bound: length of PWD

VARIABLES disk,         \* disk[c]: the entry sets in the directory at cluster c
          used,         \* the allocation bitmap
          root,         \* info.root
          cluster,      \* the current directory
          pwd,          \* PWD, as a sequence of names
          intact        \* FALSE once the allocator has run wild

vars == <<disk, used, root, cluster, pwd, intact>>

ASSUME ShellAssumption ==
  /\ Images \subseteq [disk : [Cluster -> Seq(Entry)], used : SUBSET Cluster]
  /\ Paths \subseteq [abs : BOOLEAN, names : Seq(Name)]
  /\ Garbage \subseteq BOOLEAN
  /\ MaxEntries \in Nat
  /\ MaxDepth \in Nat

TypeOK ==
  /\ disk \in [Cluster -> Seq(Entry)]
  /\ used \subseteq Cluster
  /\ root \in Table
  /\ cluster \in Cluster \union {0}
  /\ pwd \in Seq(Name)
  /\ intact \in BOOLEAN

(* The program recognises the volume and the shell lists the root.         *)
Started(d, g) == Traverse(Fresh(g), d, Root, g)

Init ==
  \E m \in Images, g \in Garbage :
    /\ disk = m.disk
    /\ used = m.used
    /\ root = Started(m.disk, g)
    /\ cluster = Root
    /\ pwd = <<>>
    /\ intact = TRUE

-----------------------------------------------------------------------------
(* Paths.                                                                  *)

FormatPath(p) == IF p.abs THEN p.names ELSE pwd \o p.names

(* The two parts strtok_dir makes of a formatted path.                     *)
FileName(p) == IF p = <<>> THEN NoName ELSE Last(p)
DirName(p) == IF p = <<>> THEN <<>> ELSE Front(p)

(* Seeded fault: the directory part of the path is not looked up.          *)
LocatedHere(p, g) == [tab |-> root, clu |-> cluster]

(* lookup of what is left of the path: the empty string is not absolute,   *)
(* and so is the current directory, whatever the path was.                 *)
Located(p, g) ==
  IF DirName(p) = <<>> THEN [tab |-> root, clu |-> cluster]
  ELSE Lookup(root, disk, Root, DirName(p), g)

-----------------------------------------------------------------------------
(* Changing a directory.                                                   *)

Free == Cluster \ used

(* Seeded fault: the size is added to the one the dentry has.              *)
SizedMore(es, c, size) ==
  LET k == SelectInSeq(es, LAMBDA e : e.clu = c)
  IN  IF k = 0 THEN es ELSE [es EXCEPT ![k].size = @ + size]

(* exfat_update_filesize: the entry set of the cluster c in the parent.    *)
SizedIn(es, c, size) ==
  LET k == SelectInSeq(es, LAMBDA e : e.clu = c)
  IN  IF k = 0 THEN es ELSE [es EXCEPT ![k].size = size]

(* exfat_update_filesize writes nothing for the root, or where the parent  *)
(* is not known to have a cluster.                                         *)
Resized(d, r, i, size) ==
  LET h == r.heads[i]
      u == Find(r, h.up)
  IN  IF h.index # Root /\ u # 0 /\ r.heads[u].size = 1
      THEN [d EXCEPT ![h.up] = SizedIn(@, h.index, size)] ELSE d

(* Where a new entry set goes: after the last, or, if the size was 0, over *)
(* whatever the cluster begins with.                                       *)
Placed(es, size, new) ==
  IF size = 0 /\ es # <<>> /\ new # <<>> THEN new \o Tail(es) ELSE es \o new

(* The clusters exfat_new_clusters takes, the last of which the entry gets *)
FirstOf(S, n) == {c \in S : Cardinality({b \in S : b < c}) < n}

(* A command that ends, or is aborted, without having changed the volume.  *)
OnlyLooked(r) == root' = r /\ UNCHANGED <<disk, used, cluster, pwd, intact>>

(* A command that does not end: one of the allocator's unsigned loops has  *)
(* wrapped, and it overwrites the FAT (Runaway in ExfatAlloc).  What the   *)
(* volume is worth then is not told any more.                              *)
RunsWild == intact' = FALSE /\ UNCHANGED <<disk, used, root, cluster, pwd>>

(* exfat_alloc_clusters on a contiguous directory of size 0, which is what *)
(* mkdir leaves: it looks for the cluster before the first, finds the one  *)
(* after, and converts a chain of no links.                                *)
GrowsWild(h) == h.size = 0 /\ ~h.linked

(* exfat_add_entry and the reload that follows it; takes is 1 for create   *)
(* and 2 for mkdir.  Both mark the entry as a directory.                   *)
AddEntry(r, c, n, takes, g) ==
  LET i == Find(r, c)
      s == Traverse(r, disk, c, g)
      size == s.heads[i].size
      full == [s EXCEPT !.heads[i].size = 1]
  IN  IF ~r.ok \/ i = 0 THEN OnlyLooked(Aborted(r))
      ELSE IF ~s.ok THEN OnlyLooked(s)
      ELSE IF ByHash(s.heads[i].kids, n) # 0 THEN OnlyLooked(Reload(s, disk, c, g))
      ELSE IF GrowsWild(s.heads[i]) THEN RunsWild
      ELSE /\ Len(disk[c]) < MaxEntries
           /\ Cardinality(Free) >= takes + 1 - size
           /\ \E grown \in {x \in SUBSET Free : Cardinality(x) = 1 - size} :
                LET new == FirstOf(Free \ grown, takes)
                    e == [name |-> n, clu |-> Max(new), dir |-> TRUE, size |-> 0, linked |-> FALSE]
                IN  /\ used' = used \union grown \union new
                    /\ disk' = [Resized(disk, s, i, 1) EXCEPT ![c] = Placed(@, size, <<e>>)]
                    /\ root' = Reload(full, disk', c, g)
           /\ UNCHANGED <<cluster, pwd, intact>>

(* exfat_free_clusters of all an entry has: a contiguous one's cluster is  *)
(* free, a linked one's stays marked, and of a linked one of size 0 it     *)
(* never comes to an end.                                                  *)
Released(e) == IF e.size = 1 /\ ~e.linked THEN {e.clu} ELSE {}
ReleasesWild(e) == e.size = 0 /\ e.linked

(* Seeded fault: the directory's contents are not looked at. *)
NotEmptyUnread(e) == FALSE

(* check_dir_empty, with the size the child in memory has.                 *)
NotEmpty(e) == e.size # 0 /\ disk[e.clu] # <<>>

Refused(type, e) == IF type = "file" THEN e.dir ELSE NotEmpty(e)

(* Seeded fault: the last entry set of the directory is erased.            *)
ErasedLast(es, n) == IF es = <<>> THEN es ELSE Front(es)

(* The entry set that is erased has the hash and the very same name, and   *)
(* if there is none the clusters are released all the same.                *)
Erased(es, n) == LET k == ByName(es, n) IN IF k = 0 THEN es ELSE RemoveAt(es, k)

(* exfat_remove_entry and the reload that follows it.  The slot cleaned is *)
(* the one whose index is the directory's cluster number.                  *)
RemoveEntry(r, c, n, type, g) ==
  LET i == Find(r, c)
      s == Traverse(r, disk, c, g)
      k == ByHash(s.heads[i].kids, n)
      e == s.heads[i].kids[k]
      t == Clean(s, c + 1, g)
  IN  IF ~r.ok \/ i = 0 THEN OnlyLooked(Aborted(r))
      ELSE IF ~s.ok THEN OnlyLooked(s)
      ELSE IF k = 0 \/ Refused(type, e) THEN OnlyLooked(Reload(s, disk, c, g))
      ELSE IF ReleasesWild(e) THEN RunsWild
      ELSE /\ used' = used \ Released(e)
           /\ disk' = IF t.ok THEN [disk EXCEPT ![c] = Erased(@, n)] ELSE disk
           /\ root' = IF t.ok THEN Reload(t, disk', c, g) ELSE t
           /\ UNCHANGED <<cluster, pwd, intact>>

-----------------------------------------------------------------------------
(* The commands.                                                           *)

List(g) == OnlyLooked(Traverse(root, disk, cluster, g))

(* Seeded fault: PWD keeps the path it had.                                *)
ChangeHomeKept == cluster' = Root /\ UNCHANGED <<disk, used, root, pwd, intact>>

ChangeHome == cluster' = Root /\ pwd' = <<>> /\ UNCHANGED <<disk, used, root, intact>>

ChangeDir(p, g) ==
  LET to == Lookup(root, disk, Root, FormatPath(p), g)
  IN  /\ Len(FormatPath(p)) <= MaxDepth
      /\ root' = to.tab
      /\ IF to.tab.ok /\ to.clu # Missing
         THEN cluster' = to.clu /\ pwd' = FormatPath(p)
         ELSE UNCHANGED <<cluster, pwd>>
      /\ UNCHANGED <<disk, used, intact>>

(* tail and stat. *)
Look(p, g) ==
  LET at == Located(FormatPath(p), g)
  IN  OnlyLooked(IF at.tab.ok THEN Traverse(at.tab, disk, at.clu, g) ELSE at.tab)

Create(p, g) ==
  LET at == Located(FormatPath(p), g) IN AddEntry(at.tab, at.clu, FileName(FormatPath(p)), 1, g)

Mkdir(p, g) ==
  LET at == Located(FormatPath(p), g) IN AddEntry(at.tab, at.clu, FileName(FormatPath(p)), 2, g)

RemoveFile(p, g) ==
  LET at == Located(FormatPath(p), g) IN RemoveEntry(at.tab, at.clu, FileName(FormatPath(p)), "file", g)

Rmdir(p, g) ==
  LET at == Located(FormatPath(p), g) IN RemoveEntry(at.tab, at.clu, FileName(FormatPath(p)), "dir", g)

(* Only an empty directory gives its cluster back: a contiguous one and    *)
(* keeps its size, a linked one loses its size and the cluster stays       *)
(* marked.  Of the root, and of a linked directory of size 0, the loops    *)
(* wrap.  Nothing is reloaded.                                             *)
Trim(g) ==
  LET i == Find(root, cluster)
      h == root.heads[i]
      last == h.size = 1 /\ disk[cluster] = <<>>
  IN  IF i = 0 THEN OnlyLooked(Aborted(root))
      ELSE IF cluster = Root \/ ReleasesWild(h) THEN RunsWild
      ELSE IF ~last THEN OnlyLooked(root)
      ELSE IF ~h.linked
           THEN used' = used \ {cluster} /\ UNCHANGED <<disk, root, cluster, pwd, intact>>
           ELSE /\ root' = [root EXCEPT !.heads[i].size = 0]
                /\ disk' = Resized(disk, root, i, 0)
                /\ UNCHANGED <<used, cluster, pwd, intact>>

(* A file of a random name, with no cluster, or blank dentries only, or    *)
(* nothing at all if the directory has as many dentries as were asked for. *)
Fill(n, g) ==
  LET i == Find(root, cluster)
      h == root.heads[i]
      e == [name |-> n, clu |-> 0, dir |-> FALSE, size |-> 0, linked |-> FALSE]
  IN  IF i = 0 THEN OnlyLooked(Aborted(root))
      ELSE \/ OnlyLooked(Reload(root, disk, cluster, g))
           \/ IF GrowsWild(h) THEN RunsWild
              ELSE /\ ByName(disk[cluster], n) = 0
                   /\ Len(disk[cluster]) < MaxEntries
                   /\ \E grown \in {x \in SUBSET Free : Cardinality(x) = 1 - h.size},
                        new \in {<<>>, <<e>>} :
                        /\ used' = used \union grown
                        /\ disk' = [Resized(disk, root, i, 1) EXCEPT ![cluster] = Placed(@, h.size, new)]
                        /\ root' = Reload([root EXCEPT !.heads[i].size = 1], disk', cluster, g)
                   /\ UNCHANGED <<cluster, pwd, intact>>

(* The program is ended, by exit or by a signal, and started again.        *)
Restart(g) ==
  /\ root' = Started(disk, g)
  /\ cluster' = Root
  /\ pwd' = <<>>
  /\ UNCHANGED <<disk, used, intact>>

Command(p, n, g) ==
  \/ List(g)
  \/ ChangeHome
  \/ ChangeDir(p, g)
  \/ Look(p, g)
  \/ Create(p, g)
  \/ Mkdir(p, g)
  \/ RemoveFile(p, g)
  \/ Rmdir(p, g)
  \/ Trim(g)
  \/ Fill(n, g)

Next ==
  \E g \in Garbage :
    \/ intact /\ Restart(g)
    \/ intact /\ root.ok /\ \E p \in Paths, n \in Name : Command(p, n, g)

Spec == Init /\ [][Next]_vars

=============================================================================
