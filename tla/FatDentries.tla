----------------------------- MODULE FatDentries -----------------------------
(***************************************************************************)
(* The dentries of one FAT directory, in clusters linked by the FAT or in  *)
(* the fixed area of a FAT12 or FAT16 root: where create, remove, trim and *)
(* fill put, mark and move the dentries of files and of their long names,  *)
(* what traverse reads back, and what is on disk when the program is       *)
(* killed between the writes of two clusters.                              *)
(*                                                                         *)
(* A file is known by its long name, if it has one, but removed by the     *)
(* short name the program makes of that, and by the checksum of the short  *)
(* name.  Which clusters are taken is the matter of FatClusters.           *)
(***************************************************************************)
EXTENDS Integers, Sequences, SequencesExt, FiniteSetsExt

CONSTANTS Name,         \* names of files, long and short
          Given,        \* names given to create
          NoName,       \* in dentries that hold none
          Short,        \* Short[n]: the short name made of n
          Pieces,       \* Pieces[n]: the long name dentries n takes
          Shown,        \* Shown[n]: how n is read back from those
          Garbage,      \* what a checksum may start from
          Checksum,     \* Checksum[n, g]: of the short name n
          Random,       \* names fill makes up
          Counts,       \* numbers the user gives to fill
          PerSector,    \* dentries in a sector
          PerCluster,   \* and in a cluster
          MaxClusters,  \* bound: clusters of the directory
          Images,       \* what the directory is to begin with: [slots, fixed]
          Stale         \* what a free cluster may hold

Dentry == [type : {"unused", "deleted", "label", "short", "long"}, name : Name \union {NoName},
           ord : Nat, sum : Nat]

DentriesAssumption ==
  /\ NoName \notin Name
  /\ Given \subseteq Name
  /\ Short \in [Name -> Name] /\ Shown \in [Name -> Name]
  /\ Pieces \in [Name -> Nat]
  /\ \A n \in Name : Pieces[n] = 0 => Short[n] = n /\ Shown[n] = n
  /\ Garbage # {} /\ Checksum \in [Name \X Garbage -> Nat]
  /\ Random \subseteq {n \in Name : Pieces[n] = 0}
  /\ Counts \subseteq Nat \ {0}
  /\ PerSector \in Nat \ {0} /\ PerCluster \in Nat \ {0}
  /\ MaxClusters \in Nat \ {0}
  /\ Images \subseteq [slots : Seq(Dentry), fixed : BOOLEAN]
  /\ Stale \subseteq [1..PerCluster -> Dentry]
ASSUME DentriesAssumption

VARIABLES slots,    \* the directory on disk
          fixed,    \* it is a FAT12 or FAT16 root
          kids,     \* the names of the children in memory, in their order
          buf,      \* the buffer of the running command
          at,       \* the part it writes next; 0 if none runs
          asked     \* what it was asked to do

vars == <<slots, fixed, kids, buf, at, asked>>

Clusters(n) == (n + PerCluster - 1) \div PerCluster

(* The fixed area is written in one, the clusters one by one.              *)
Parts == IF fixed THEN 1 ELSE Clusters(Len(slots))
PartOf(k) == IF fixed THEN 1 ELSE Clusters(k)

TypeOK ==
  /\ slots \in Seq(Dentry)
  /\ fixed \in BOOLEAN
  /\ ~fixed => Len(slots) % PerCluster = 0 /\ Parts <= MaxClusters
  /\ kids \in Seq(Name)
  /\ buf \in Seq(Dentry)
  /\ at \in 0..MaxClusters + 1
  /\ asked \in [op : {"none", "create", "remove", "trim", "fill"}, names : SUBSET Name]
  /\ at = 0 <=> asked.op = "none"

-----------------------------------------------------------------------------
(* Dentries.  A short dentry is the file's, its name the short one; a long *)
(* one has the name that its set reads as, and counts down to 1.           *)

Unused == [type |-> "unused", name |-> NoName, ord |-> 0, sum |-> 0]
File(n) == [type |-> "short", name |-> n, ord |-> 0, sum |-> 0]
Long(n, k, sum) == [type |-> "long", name |-> n, ord |-> k, sum |-> sum]

Dent(s, i) == IF i \in DOMAIN s THEN s[i] ELSE Unused
End(s) == LET i == SelectInSeq(s, LAMBDA d : d.type = "unused") IN IF i = 0 THEN Len(s) + 1 ELSE i
InUse(s) ==
  LET From[i \in 1..End(s)] ==
        IF i = End(s) THEN <<>>
        ELSE IF s[i].type # "deleted" THEN <<s[i]>> \o From[i + 1] ELSE From[i + 1]
  IN  From[1]

(* fat_traverse_directory.  Whatever comes after the pieces of a long name *)
(* is taken for the file's dentry.                                         *)
Listed(s) ==
  LET After(i) == IF s[i].type = "long" THEN i + s[i].ord + 1 ELSE i + 1
      From[i \in 1..Len(s) + 1] ==
        IF Dent(s, i).type = "unused" THEN <<>>
        ELSE (IF s[i].type \in {"deleted", "label"} THEN <<>> ELSE <<s[i].name>>)
               \o From[Min({After(i), Len(s) + 1})]
  IN  From[1]

(* What fat_remove_entry marks: a short dentry of that name, and a piece   *)
(* of that checksum.                                                       *)
Hit(d, short, sum) == IF d.type = "long" THEN d.sum = sum ELSE d.type # "deleted" /\ d.name = short

(* Seeded fault: of a long name one piece is marked.                       *)
MarksFirst(s, short, sum) ==
  {i \in 1..End(s) - 1 : Hit(s[i], short, sum) /\ (i = 1 \/ s[i].type # "long" \/ s[i - 1].type # "long")}

(* It marks all of them.  After a piece with another checksum it skips the *)
(* rest of the set and the short dentry.                                   *)
Marks(s, short, sum) ==
  LET After(i) == IF s[i].type = "long" /\ s[i].sum # sum THEN i + s[i].ord + 1 ELSE i + 1
      From[i \in 1..Len(s) + 1] ==
        IF Dent(s, i).type = "unused" THEN {}
        ELSE (IF Hit(s[i], short, sum) THEN {i} ELSE {}) \union From[Min({After(i), Len(s) + 1})]
  IN  From[1]

-----------------------------------------------------------------------------
(* What the commands make of the buffer.                                   *)

(* Seeded fault: a dentry is left out before what is written.              *)
OverLate(s, i, new) ==
  [k \in DOMAIN s |-> IF k \in i + 1..i + Len(new) THEN new[k - i] ELSE s[k]]

Over(s, i, new) ==
  [k \in DOMAIN s |-> IF k \in i..i + Len(new) - 1 THEN new[k - i + 1] ELSE s[k]]

(* The pieces get one checksum, and all of them the beginning of the name, *)
(* so that a name of more than ten letters is read back as another.        *)
EntrySet(n, g) ==
  [k \in 1..Pieces[n] |-> Long(Shown[n], Pieces[n] - k + 1, Checksum[Short[n], g])]
    \o <<File(Short[n])>>

Deleted(s, S) == [k \in DOMAIN s |-> IF k \in S THEN [s[k] EXCEPT !.type = "deleted"] ELSE s[k]]

(* Seeded fault: what is behind the dentries moved is left as it was.      *)
TrimmedUncleared(s) == Over(s, 1, InUse(s))

Trimmed(s) == [k \in DOMAIN s |-> Dent(InUse(s), k)]

(* Seeded fault: the dentries begin one before the end.                    *)
FilledEarly(s, new) == Over(s, End(s) - 1, [k \in DOMAIN new |-> File(new[k])])

Filled(s, new) == Over(s, End(s), [k \in DOMAIN new |-> File(new[k])])

-----------------------------------------------------------------------------
Idle == asked.op = "none"

Nothing == [op |-> "none", names |-> {}]

Init ==
  /\ \E m \in Images : slots = m.slots /\ fixed = m.fixed
  /\ kids = Listed(slots)
  /\ buf = <<>>
  /\ at = 0
  /\ asked = Nothing

(* A command that writes nothing; the shell reloads the directory.         *)
Refuse == kids' = Listed(slots) /\ UNCHANGED <<slots, buf, at, asked>>

Begin(op, names, b) ==
  /\ asked' = [op |-> op, names |-> names]
  /\ buf' = b
  /\ at' = 1
  /\ UNCHANGED kids

(* Seeded fault: as many clusters are taken as are needed in all.          *)
GrownByAll(n) ==
  IF n <= Parts THEN {slots} ELSE {slots \o FlattenSeq(new) : new \in [1..n -> Stale]}

(* fat_alloc_clusters: the directory on disk has the clusters, with what   *)
(* they held, before anything is written to them.                          *)
Grown(n) ==
  IF n <= Parts THEN {slots} ELSE {slots \o FlattenSeq(new) : new \in [1..n - Parts -> Stale]}

(* In the fixed area a dentry is reckoned to take a sector.  A directory   *)
(* of several clusters does not grow (FatClusters), and what is past the   *)
(* buffer then is not modelled.                                            *)
Create(n) ==
  LET i == End(slots)
      need == i + Pieces[n]
  IN  /\ Idle
      /\ IF fixed /\ need > Len(slots) \div PerSector THEN Refuse
         ELSE /\ fixed \/ Clusters(need) <= Parts \/ (Parts = 1 /\ Clusters(need) <= MaxClusters)
              /\ \E s \in (IF fixed THEN {slots} ELSE Grown(Clusters(need))), g \in Garbage :
                   slots' = s /\ Begin("create", {Shown[n]}, Over(s, i, EntrySet(n, g)))
      /\ UNCHANGED fixed

(* remove refuses a directory, and rmdir one that is not empty.            *)
RemoveName(n) ==
  /\ Idle
  /\ \/ Refuse
     \/ /\ n \in ToSet(kids)
        /\ \E g \in Garbage :
             Begin("remove", {n}, Deleted(slots, Marks(slots, Short[n], Checksum[Short[n], g])))
        /\ UNCHANGED slots
  /\ UNCHANGED fixed

(* Of an empty directory the count of clusters wraps: in FatClusters.      *)
Trim ==
  /\ Idle
  /\ InUse(slots) # <<>>
  /\ Begin("trim", {}, Trimmed(slots))
  /\ UNCHANGED <<slots, fixed>>

(* As long as the random names are none that the directory has.  fill      *)
(* reads one cluster only; what it writes to others is not modelled.       *)
Fill(count) ==
  LET entries == IF fixed THEN Len(slots) ELSE PerCluster
      i == End(SubSeq(slots, 1, entries))
  IN  /\ Idle
      /\ IF count > entries \/ i > count THEN Refuse
         ELSE /\ Parts = 1
              /\ \E new \in [1..count - i + 1 -> Random] :
                   /\ IsInjective(new)
                   /\ ToSet(new) \intersect ToSet(kids) = {}
                   /\ Begin("fill", ToSet(new), Filled(slots, new))
              /\ UNCHANGED slots
      /\ UNCHANGED fixed

(* set_sector of the fixed area, or one cluster of fat_set_cluster.        *)
Write ==
  /\ ~Idle
  /\ at <= Parts
  /\ slots' = [k \in DOMAIN slots |-> IF PartOf(k) = at THEN buf[k] ELSE slots[k]]
  /\ at' = at + 1
  /\ UNCHANGED <<fixed, kids, buf, asked>>

(* Seeded fault: a whole last cluster is taken for one that is not needed. *)
KeptDown(s) == Len(InUse(s)) \div PerCluster

(* The clusters trim leaves the directory with. *)
Kept(s) == Clusters(Len(InUse(s)))

(* trim gives the clusters back that are not needed, and does not reload;  *)
(* after the others the shell does.                                        *)
Return ==
  /\ ~Idle
  /\ at > Parts
  /\ IF asked.op = "trim"
     THEN /\ slots' = IF fixed THEN slots ELSE SubSeq(slots, 1, Kept(slots) * PerCluster)
          /\ UNCHANGED kids
     ELSE kids' = Listed(slots) /\ UNCHANGED slots
  /\ buf' = <<>> /\ at' = 0 /\ asked' = Nothing
  /\ UNCHANGED fixed

(* The program ends, in whatever it was doing, and is started again.       *)
Kill ==
  /\ kids' = Listed(slots)
  /\ buf' = <<>> /\ at' = 0 /\ asked' = Nothing
  /\ UNCHANGED <<slots, fixed>>

Command ==
  \/ \E n \in Given : Create(n)
  \/ \E n \in Name : RemoveName(n)
  \/ Trim
  \/ \E count \in Counts : Fill(count)
  \/ Write
  \/ Return

Next == Command \/ Kill

Spec == Init /\ [][Next]_vars

=============================================================================
