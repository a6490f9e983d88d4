--------------------------- MODULE DirectoryChain ---------------------------
(***************************************************************************)
(* The directory chain of debugfatfs for exFAT: info.root, a table of      *)
(* heads, one for each directory met so far, found by its first cluster,   *)
(* each with the list of its children, found by the hash of their names.   *)
(* The operators are the functions of exfat.c that read and change it, as  *)
(* functions of the table r, the directories on disk d, and g.             *)
(*                                                                         *)
(* g says what memory holds that was allocated and never written: TRUE for *)
(* something that is not 0.  Two reads depend on it: the cached flag of a  *)
(* new head, and a slot of the table past those that were ever written.    *)
(***************************************************************************)
EXTENDS Integers, Sequences, SequencesExt

CONSTANTS Cluster,    \* the clusters of the heap
          Root,       \* the root directory's
          Name,       \* the names a user types
          NoName,     \* the empty name, which "create /" makes
          Upper,      \* Upper[n]: n in upper case; names are hashed so
          ListSize    \* slots the table has to begin with

ASSUME ChainAssumption ==
  /\ Cluster \subseteq Nat \ {0}
  /\ IsFiniteSet(Cluster)
  /\ Root \in Cluster
  /\ NoName \notin Name
  /\ Upper \in [Name \union {NoName} -> Name \union {NoName}]
  /\ ListSize \in Nat \ {0}

(* lookup's -1, as get_index receives it: no cluster has this number. *)
Missing == -1

(* A file as its entry set on disk, or its child in memory, describes it.  *)
(* The first cluster 0 is that of an empty file; of the size what matters  *)
(* here is whether there is any; linked says that NoFatChain is not set.   *)
(* A directory has a cluster.                                              *)
Entry ==
  {e \in [name : Name \union {NoName}, clu : Cluster \union {0}, dir : BOOLEAN,
          size : {0, 1}, linked : BOOLEAN] : e.dir => e.clu # 0}

(* up is the directory that has the entry, size and linked are copies.     *)
DirHead == [index : Cluster, up : Cluster \union {0}, size : {0, 1}, linked : BOOLEAN,
            cached : BOOLEAN, kids : Seq(Entry)]

(* Slots 1..Len(heads) are the table's root[0], root[1] and so on; those   *)
(* up to clear have been written, the others hold what the memory held.    *)
(* A read of one of those is a read of a pointer to nowhere: ok is FALSE   *)
(* once the program has followed one, or NULL, and was aborted.            *)
Table == [heads : Seq(DirHead), clear : Nat, ok : BOOLEAN]

(* The table when the volume has been recognised. *)
Fresh(g) ==
  [heads |-> <<[index |-> Root, up |-> 0, size |-> 1, linked |-> TRUE, cached |-> g, kids |-> <<>>]>>,
   clear |-> ListSize, ok |-> TRUE]

Aborted(r) == [r EXCEPT !.ok = FALSE]

(* The slot of a directory, or 0. *)
Find(r, c) == SelectInSeq(r.heads, LAMBDA h : h.index = c)

(* The first child with the name's hash, or 0; the first of that name.     *)
ByHash(kids, n) == SelectInSeq(kids, LAMBDA e : Upper[e.name] = Upper[n])
ByName(kids, n) == SelectInSeq(kids, LAMBDA e : e.name = n)

(* A scan that found nothing has read the slot after the last head.        *)
Scanned(r, g) == [r EXCEPT !.ok = @ /\ (Len(r.heads) < r.clear \/ ~g)]

(* exfat_get_index of a cluster it does not know: the table is made longer *)
(* by ListSize, and of the new slots one is written.                       *)
Grown(r, g) ==
  [Scanned(r, g) EXCEPT !.clear = IF @ > Len(r.heads) THEN @ ELSE Len(r.heads) + 1]

(* Seeded fault: a new directory gets no head.                             *)
CreateFileinfoHeadless(r, i, e, g) ==
  [r EXCEPT !.heads[i].kids = Append(@, e), !.heads[i].cached = TRUE]

(* A new child e of the head at i, and for a directory not met before a    *)
(* head of its own, whose cached flag is not set.                          *)
CreateFileinfo(r, i, e, g) ==
  LET s == [r EXCEPT !.heads[i].kids = Append(@, e), !.heads[i].cached = TRUE]
  IN  IF e.dir /\ Find(s, e.clu) = 0
      THEN [Grown(s, g) EXCEPT !.heads =
              Append(@, [index |-> e.clu, up |-> r.heads[i].index, size |-> e.size,
                         linked |-> e.linked, cached |-> g, kids |-> <<>>])]
      ELSE s

(* What traverse takes from a directory: everything before the first entry *)
(* set without a name, and nothing if the size is 0.                       *)
Listing(es, size) ==
  LET n == ByName(es, NoName)
  IN  IF size = 0 THEN <<>> ELSE IF n = 0 THEN es ELSE SubSeq(es, 1, n - 1)

Traverse(r, d, c, g) ==
  LET i == Find(r, c)
      es == Listing(d[c], r.heads[i].size)
      Loaded[k \in 0..Len(es)] == IF k = 0 THEN r ELSE CreateFileinfo(Loaded[k - 1], i, es[k], g)
  IN  IF i = 0 THEN Aborted(Grown(r, g)) ELSE IF r.heads[i].cached THEN r ELSE Loaded[Len(es)]

(* exfat_clean_dchain of a slot: the children are freed, the flag stays.   *)
Clean(r, i, g) ==
  IF i \in DOMAIN r.heads THEN [r EXCEPT !.heads[i].kids = <<>>]
  ELSE IF i <= r.clear \/ ~g THEN r ELSE Aborted(r)

(* Seeded fault: the flag is not taken back, so nothing is read again. *)
ReloadCached(r, d, c, g) ==
  LET i == Find(r, c)
  IN  IF i = 0 THEN Aborted(Grown(r, g)) ELSE Traverse(Clean(r, i, g), d, c, g)

Reload(r, d, c, g) ==
  LET i == Find(r, c)
  IN  IF i = 0 THEN Aborted(Grown(r, g))
      ELSE Traverse([Clean(r, i, g) EXCEPT !.heads[i].cached = FALSE], d, c, g)

(* One component n of a path, for exfat_lookup that has come to s.clu.  A  *)
(* component that is a file has no head, and the program follows the NULL  *)
(* it gets.                                                                *)
LookIn(s, d, n, g) ==
  LET t == Traverse(s.tab, d, s.clu, g)
      kids == t.heads[Find(t, s.clu)].kids
      k == ByName(kids, n)
  IN  IF s.clu = Missing \/ ~s.tab.ok THEN s
      ELSE [tab |-> t, clu |-> IF ~t.ok \/ k = 0 THEN Missing ELSE kids[k].clu]

(* exfat_lookup of the names in p, from the directory c. *)
Lookup(r, d, c, p, g) ==
  LET At[k \in 0..Len(p)] ==
        IF k = 0 THEN [tab |-> r, clu |-> c] ELSE LookIn(At[k - 1], d, p[k], g)
  IN  At[Len(p)]

=============================================================================
