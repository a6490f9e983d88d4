---------------------------- MODULE ExfatDentries ----------------------------
(***************************************************************************)
(* The dentries of one exFAT directory, its clusters linked by the FAT:    *)
(* where create, remove, trim and fill put, mark and move the dentries of  *)
(* entry sets, what traverse reads back, and what is on disk when the      *)
(* program is killed between the writes of two clusters.  A command reads  *)
(* the directory into a buffer, changes that, and writes it back one       *)
(* cluster at a time.                                                      *)
(*                                                                         *)
(* Which clusters are taken is ExfatAlloc's matter; which of the commands  *)
(* refuses what kind of child is ExfatShell's.                             *)
(***************************************************************************)
EXTENDS Integers, Sequences, SequencesExt, FiniteSetsExt

CONSTANTS Name,         \* names of files: a text, with a hash and a length
          Given,        \* names given to create and remove
          NoName,       \* in dentries that hold none
          Hash,         \* Hash[n]: the hash of n in upper case
          Seen,         \* Seen[n]: its length, and the bytes of it remove compares
          Chunks,       \* Chunks[n]: the name dentries n takes
          Shown,        \* Shown[n]: how n is read back if only its first one has text of it
          Random,       \* names fill makes up
          Counts,       \* numbers the user gives to fill
          PerCluster,   \* dentries in a cluster
          MaxClusters,  \* bound: clusters of the directory
          Images,       \* what the directory holds to begin with
          Stale         \* what a free cluster may hold

Dentry == [type : {"unused", "file", "stream", "name"}, used : BOOLEAN,
           name : Name \union {NoName}, part : Nat]

DentriesAssumption ==
  /\ NoName \notin Name
  /\ Given \subseteq Name
  /\ DOMAIN Hash = Name /\ DOMAIN Seen = Name
  /\ Chunks \in [Name -> Nat \ {0}]
  /\ Shown \in [Name -> Name]
  /\ \A n \in Name : Hash[Shown[n]] = Hash[n] /\ Seen[Shown[n]] = Seen[n]
  /\ \A n \in Name : Chunks[n] = 1 => Shown[n] = n
  /\ Random \subseteq {n \in Name : Chunks[n] = 1}
  /\ Counts \subseteq Nat \ {0}
  /\ PerCluster \in Nat \ {0}
  /\ MaxClusters \in Nat \ {0}
  /\ Images \subseteq Seq(Dentry)
  /\ Stale \subseteq [1..PerCluster -> Dentry]
ASSUME DentriesAssumption

VARIABLES slots,    \* the directory on disk
          kids,     \* the names of the children in memory, in their order
          buf,      \* the buffer of the running command
          at,       \* the cluster it writes next; 0 if none runs
          asked     \* what it was asked to do

vars == <<slots, kids, buf, at, asked>>

Commands == {"none", "create", "remove", "trim", "fill"}

TypeOK ==
  /\ slots \in Seq(Dentry)
  /\ Len(slots) % PerCluster = 0 /\ Len(slots) <= MaxClusters * PerCluster
  /\ kids \in Seq(Name)
  /\ buf \in Seq(Dentry)
  /\ at \in 0..MaxClusters + 1
  /\ asked \in [op : Commands, names : SUBSET Name]
  /\ at = 0 <=> asked.op = "none"

Clusters(n) == (n + PerCluster - 1) \div PerCluster
Size == Clusters(Len(slots))

-----------------------------------------------------------------------------
(* Dentries.  part is the SecondaryCount of a file dentry, and says which  *)
(* piece of its name a name dentry has: 0 if bytes of no name.  The hash   *)
(* and the length of a name are in the stream dentry, its text is in the   *)
(* name dentries.                                                          *)

Unused == [type |-> "unused", used |-> FALSE, name |-> NoName, part |-> 0]
File(n) == [type |-> "file", used |-> TRUE, name |-> n, part |-> Chunks[n] + 1]
Stream(n) == [type |-> "stream", used |-> TRUE, name |-> n, part |-> 0]
Piece(n) == [type |-> "name", used |-> TRUE, name |-> n, part |-> 1]

(* A name dentry that gets the type only, and keeps its bytes.             *)
Retyped(d) == IF d.type = "name" THEN [d EXCEPT !.used = TRUE]
              ELSE [type |-> "name", used |-> TRUE, name |-> NoName, part |-> 0]

(* DENTRY_FILE - EXFAT_INUSE, with which fill pads. *)
Blank == [type |-> "file", used |-> FALSE, name |-> NoName, part |-> 0]

Dent(s, i) == IF i \in DOMAIN s THEN s[i] ELSE Unused

(* The first unused dentry, or the one after the last. *)
End(s) == LET i == SelectInSeq(s, LAMBDA d : d.type = "unused") IN IF i = 0 THEN Len(s) + 1 ELSE i

(* The next dentry after i that is not one of a deleted file's. *)
Following(s, i) ==
  Min({k \in i + 1..Len(s) : s[k].used \/ s[k].type = "unused"} \union {Len(s) + 1})

IsFile(d) == d.type = "file" /\ d.used

(* The text in the name dentries from k on, read for a stream dentry of n. *)
(* They are taken whatever their type is now, so a deleted one counts.     *)
NameRead(s, k, n) ==
  LET Has(d, j) == d.type = "name" /\ d.name = n /\ d.part = j
  IN  IF \A j \in 1..Chunks[n] : Has(Dent(s, k + j - 1), j) THEN n ELSE Shown[n]

(* exfat_traverse_directory: the names of the entry sets, up to one that   *)
(* has no name dentry.  It does not stop at an unused dentry.              *)
Listed(s) ==
  LET From[i \in 1..Len(s) + PerCluster] ==
        LET stream == Following(s, i)
            name == Following(s, stream)
        IN  IF i > Len(s) THEN <<>>
            ELSE IF ~IsFile(s[i]) THEN From[i + 1]
            ELSE IF Dent(s, stream).type # "stream" THEN From[stream]
            ELSE IF Dent(s, name).type # "name" THEN <<>>
            ELSE <<NameRead(s, name, s[stream].name)>> \o From[name - 1 + s[i].part]
  IN  From[1]

(* Seeded fault: the first entry set is taken, whatever its hash.          *)
MatchFirst(s, n) == LET i == SelectInSeq(s, IsFile) IN {i, i + 1, i + 2} \intersect DOMAIN s

(* The three dentries exfat_remove_entry marks: of the first entry set of  *)
(* that hash whose name looks the same to memcmp: that compares fewer      *)
(* bytes than the first name dentry has.                                   *)
Match(s, n) ==
  LET From[i \in 1..Len(s) + PerCluster] ==
        LET stream == Following(s, i)
        IN  IF i >= End(s) THEN {}
            ELSE IF ~IsFile(s[i]) THEN From[i + 1]
            ELSE IF Dent(s, stream).type # "stream" THEN From[stream]
            ELSE IF Hash[s[stream].name] # Hash[n] THEN From[stream + s[i].part - 1]
            ELSE IF Dent(s, stream + 1).type # "name" THEN {}
            ELSE IF Seen[s[stream + 1].name] = Seen[n] THEN {i, stream, stream + 1}
            ELSE From[stream + s[i].part]
  IN  From[1]

-----------------------------------------------------------------------------
(* What the commands make of the buffer.                                   *)

(* Seeded fault: a dentry is left out before what is written.              *)
OverLate(s, i, new) ==
  [k \in DOMAIN s |-> IF k \in i + 1..i + Len(new) THEN new[k - i] ELSE s[k]]

Over(s, i, new) ==
  [k \in DOMAIN s |-> IF k \in i..i + Len(new) - 1 THEN new[k - i + 1] ELSE s[k]]

(* The entry set of n, over the dentries from i on.  Each turn of the loop *)
(* over the name writes the beginning of it, and to the name dentry of the *)
(* turn before, so that the last one never has text of it.                 *)
EntrySet(s, i, n) ==
  <<File(n), Stream(n), Piece(n)>>
    \o [k \in 1..Chunks[n] - 1 |->
          IF k < Chunks[n] - 1 THEN Piece(n) ELSE Retyped(s[i + 2 + k])]

Deleted(s, S) == [k \in DOMAIN s |-> IF k \in S THEN [s[k] EXCEPT !.used = FALSE] ELSE s[k]]

InUse(s) ==
  LET From[i \in 1..End(s)] ==
        IF i = End(s) THEN <<>>
        ELSE IF s[i].used THEN <<s[i]>> \o From[i + 1] ELSE From[i + 1]
  IN  From[1]

Blanks(n) == [k \in 1..n |-> Blank]

(* Seeded fault: what is behind the dentries moved is left as it was. *)
TrimmedUncleared(s) == Over(s, 1, InUse(s))

Trimmed(s) == [k \in DOMAIN s |-> Dent(InUse(s), k)]

(* Seeded fault: the dentries begin one before the end.                    *)
FilledEarly(s, i, new, need) == Over(s, i - 1, Blanks(need))

(* fill, of a directory whose end is i: the blanks first, for the entry    *)
(* sets to end at the number asked for.                                    *)
Filled(s, i, new, need) ==
  LET Sets[k \in 0..Len(new)] ==
        IF k = 0 THEN Blanks(need % 3)
        ELSE Sets[k - 1] \o <<File(new[k]), Stream(new[k]), Piece(new[k])>>
  IN  Over(s, i, Sets[Len(new)])

-----------------------------------------------------------------------------
Idle == asked.op = "none"

Nothing == [op |-> "none", names |-> {}]

Init ==
  /\ slots \in Images
  /\ kids = Listed(slots)
  /\ buf = <<>>
  /\ at = 0
  /\ asked = Nothing

(* A command that writes nothing; the shell reloads the directory.         *)
Refuse == kids' = Listed(slots) /\ UNCHANGED <<slots, buf, at, asked>>

Begin(op, names, b) ==
  /\ asked' = [op |-> op, names |-> names]
  /\ buf' = b
  /\ at' = 1
  /\ UNCHANGED kids

(* Seeded fault: as many clusters are taken as are needed in all.          *)
GrownByAll(n) ==
  IF n <= Size THEN {slots} ELSE {slots \o FlattenSeq(new) : new \in [1..n -> Stale]}

(* exfat_alloc_clusters: the directory on disk has the clusters, with what *)
(* they held, before anything is written to them.                          *)
Grown(n) ==
  IF n <= Size THEN {slots} ELSE {slots \o FlattenSeq(new) : new \in [1..n - Size -> Stale]}

(* Seeded fault: names are the same if all letters are. *)
KnownExactly(n) == \E k \in DOMAIN kids : kids[k] = n

Known(n) == \E k \in DOMAIN kids : Hash[kids[k]] = Hash[n]

(* The room asked for is one dentry more than the entry set takes.         *)
Create(n) ==
  /\ Idle
  /\ IF Known(n) THEN Refuse
     ELSE LET i == End(slots)
              room == Clusters(i + Chunks[n] + 2)
          IN  /\ room <= MaxClusters
              /\ \E s \in Grown(room) :
                   slots' = s /\ Begin("create", {Shown[n]}, Over(s, i, EntrySet(s, i, n)))

(* The clusters of the child that has the hash are released as well.       *)
RemoveName(n) ==
  /\ Idle
  /\ IF ~Known(n) THEN Refuse
     ELSE Begin("remove", {n}, Deleted(slots, Match(slots, n))) /\ UNCHANGED slots

(* Of an empty directory the last cluster is freed too: in ExfatAlloc.     *)
Trim ==
  /\ Idle
  /\ InUse(slots) # <<>>
  /\ Begin("trim", {}, Trimmed(slots))
  /\ UNCHANGED slots

(* As long as the random names differ, and are none that the directory has. *)
Fill(count) ==
  LET i == End(slots)
      need == count - i + 1
  IN  /\ Idle
      /\ IF i > count THEN Refuse
         ELSE /\ Clusters(count) <= MaxClusters
              /\ \E s \in Grown(Clusters(count)), new \in [1..need \div 3 -> Random] :
                   /\ \A j, k \in DOMAIN new : Hash[new[j]] = Hash[new[k]] => j = k
                   /\ \A k \in DOMAIN new : ~Known(new[k])
                   /\ slots' = s
                   /\ Begin("fill", {new[k] : k \in DOMAIN new}, Filled(s, i, new, need))

(* exfat_set_cluster, one cluster of it. *)
Write ==
  /\ ~Idle
  /\ at <= Size
  /\ slots' = [k \in DOMAIN slots |-> IF Clusters(k) = at THEN buf[k] ELSE slots[k]]
  /\ at' = at + 1
  /\ UNCHANGED <<kids, buf, asked>>

(* Seeded fault: a whole last cluster is taken for one that is not needed. *)
KeptDown(s) == Len(InUse(s)) \div PerCluster

(* The size trim leaves the directory with. *)
Kept(s) == Clusters(Len(InUse(s)))

(* trim gives the clusters back that are not needed, and does not reload;  *)
(* after the others the shell does.                                        *)
Return ==
  /\ ~Idle
  /\ at > Size
  /\ IF asked.op = "trim"
     THEN slots' = SubSeq(slots, 1, Kept(slots) * PerCluster) /\ UNCHANGED kids
     ELSE kids' = Listed(slots) /\ UNCHANGED slots
  /\ buf' = <<>> /\ at' = 0 /\ asked' = Nothing

(* The program ends, in whatever it was doing, and is started again.       *)
Kill ==
  /\ kids' = Listed(slots)
  /\ buf' = <<>> /\ at' = 0 /\ asked' = Nothing
  /\ UNCHANGED slots

Command ==
  \/ \E n \in Given : Create(n) \/ RemoveName(n)
  \/ Trim
  \/ \E count \in Counts : Fill(count)
  \/ Write
  \/ Return

Next == Command \/ Kill

Spec == Init /\ [][Next]_vars

=============================================================================
