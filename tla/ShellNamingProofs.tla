-------------------------- MODULE ShellNamingProofs --------------------------
(***************************************************************************)
(* Theorems about ExfatShell used with care, for every volume, every set   *)
(* of names and every sequence of commands.                                *)
(*                                                                         *)
(* The inductive invariant is Whole: for some set D of clusters, those of  *)
(* the directories, the disk and the bitmap are Sound, the table in memory *)
(* is true to them (Mem), and the current directory is the one PWD leads   *)
(* to (Holds).  Each command is first told as what it does to the disk,    *)
(* (a directory grows, an entry set goes, a directory is trimmed), then    *)
(* shown to lead from such a state to another.                             *)
(***************************************************************************)
EXTENDS ShellNaming, InductionLemmas, SequenceTheorems

(* There is a head for the directory c in the table r. *)
HasHead(r, c) == \E i \in DOMAIN r.heads : r.heads[i].index = c

(* The smallest of a set of numbers is in it.                               *)
LEMMA MinLeast ==
  ASSUME NEW I, I \subseteq Nat, I # {}
  PROVE  Min(I) \in I /\ \A y \in I : Min(I) <= y
<1>1. \E x \in I : \A y \in I : x <= y
  BY LeastExists
<1>2. QED  BY <1>1, Zenon DEF Min

(* The functions that search find the first there is. *)
First(k, I) == (I = {} /\ k = 0) \/ (k \in I /\ \A y \in I : k <= y)

(* Find, ByName and ByHash choose the first that fits.                      *)
LEMMA FindFirst ==
  ASSUME NEW r, NEW c
  PROVE  First(Find(r, c), {i \in 1..Len(r.heads) : r.heads[i].index = c})
<1> DEFINE I == {i \in 1..Len(r.heads) : r.heads[i].index = c}
<1>1. Find(r, c) = IF I # {} THEN Min(I) ELSE 0
  BY DEF Find, SelectInSeq
<1>2. I \subseteq Nat
  OBVIOUS
<1> HIDE DEF I
<1>3. QED  BY <1>1, <1>2, MinLeast DEF First, I

LEMMA ByNameFirst ==
  ASSUME NEW es, NEW n
  PROVE  First(ByName(es, n), {k \in 1..Len(es) : es[k].name = n})
<1> DEFINE I == {k \in 1..Len(es) : es[k].name = n}
<1>1. ByName(es, n) = IF I # {} THEN Min(I) ELSE 0
  BY DEF ByName, SelectInSeq
<1>2. I \subseteq Nat
  OBVIOUS
<1> HIDE DEF I
<1>3. QED  BY <1>1, <1>2, MinLeast DEF First, I

LEMMA ByHashFirst ==
  ASSUME NEW kids, NEW n
  PROVE  First(ByHash(kids, n), {k \in 1..Len(kids) : Upper[kids[k].name] = Upper[n]})
<1> DEFINE I == {k \in 1..Len(kids) : Upper[kids[k].name] = Upper[n]}
<1>1. ByHash(kids, n) = IF I # {} THEN Min(I) ELSE 0
  BY DEF ByHash, SelectInSeq
<1>2. I \subseteq Nat
  OBVIOUS
<1> HIDE DEF I
<1>3. QED  BY <1>1, <1>2, MinLeast DEF First, I

(* What Find gives is a slot with that index, if there is one.              *)
LEMMA FindHead ==
  ASSUME NEW r, r.heads \in Seq(DirHead), NEW c
  PROVE  /\ Find(r, c) \in 0..Len(r.heads)
         /\ Find(r, c) = 0 <=> ~HasHead(r, c)
         /\ Find(r, c) # 0 => Find(r, c) \in DOMAIN r.heads /\ r.heads[Find(r, c)].index = c
BY FindFirst DEF First, HasHead

(* What ByName and ByHash give, in the sequence they are asked about.       *)
LEMMA NameFound ==
  ASSUME NEW S, NEW es \in Seq(S), NEW n
  PROVE  /\ ByName(es, n) \in 0..Len(es)
         /\ ByName(es, n) = 0 <=> \A k \in DOMAIN es : es[k].name # n
         /\ ByName(es, n) # 0 =>
              /\ ByName(es, n) \in DOMAIN es /\ es[ByName(es, n)].name = n
              /\ \A k \in DOMAIN es : es[k].name = n => ByName(es, n) <= k
BY ByNameFirst DEF First

LEMMA HashFound ==
  ASSUME NEW S, NEW kids \in Seq(S), NEW n
  PROVE  /\ ByHash(kids, n) \in 0..Len(kids)
         /\ ByHash(kids, n) # 0 =>
              /\ ByHash(kids, n) \in DOMAIN kids /\ Upper[kids[ByHash(kids, n)].name] = Upper[n]
              /\ \A k \in DOMAIN kids : Upper[kids[k].name] = Upper[n] => ByHash(kids, n) <= k
BY ByHashFirst DEF First

-----------------------------------------------------------------------------
(* A function of 0..N whose every value is made from the one before. *)
StepsOf(h, F, a, N) == h = [k \in 0..N |-> IF k = 0 THEN a ELSE F[k][h[k - 1]]]

(* A recursive function into a set is one of its members at each argument.  *)
LEMMA StepsExist ==
  ASSUME NEW S, NEW N \in Nat, NEW a \in S, NEW F \in [1..N -> [S -> S]]
  PROVE  \E h \in [0..N -> S] : StepsOf(h, F, a, N)
<1> DEFINE T == {n \in 0..N : \E h \in [0..n -> S] : StepsOf(h, F, a, n)}
<1>1. 0 \in T
  <2> DEFINE h == [k \in 0..0 |-> a]
  <2>1. h \in [0..0 -> S] /\ StepsOf(h, F, a, 0)
    BY DEF StepsOf
  <2>2. QED  BY <2>1
<1>2. ASSUME NEW n \in 0..(N - 1), n \in T PROVE n + 1 \in T
  <2>1. PICK h \in [0..n -> S] : StepsOf(h, F, a, n)
    BY <1>2
  <2> DEFINE x == F[n + 1][h[n]]
             g == [k \in 0..(n + 1) |-> IF k <= n THEN h[k] ELSE x]
  <2>2. h[n] \in S /\ F[n + 1] \in [S -> S]
    OBVIOUS
  <2>3. x \in S
    BY <2>2
  <2>4. g \in [0..(n + 1) -> S]
    BY <2>3
  <2>5. ASSUME NEW k \in 0..(n + 1) PROVE g[k] = IF k = 0 THEN a ELSE F[k][g[k - 1]]
    <3>1. CASE k = 0
      BY <2>1, <3>1 DEF StepsOf
    <3>2. CASE k \in 1..n
      <4>1. k - 1 \in 0..n /\ k \in 0..n /\ k # 0
        BY <3>2
      <4>2. h[k] = F[k][h[k - 1]]
        BY <2>1, <4>1 DEF StepsOf
      <4>3. QED  BY <3>2, <4>1, <4>2
    <3>3. CASE k = n + 1
      <4>1. k - 1 = n /\ g[n] = h[n] /\ g[k] = x
        BY <3>3
      <4>2. QED  BY <3>3, <4>1
    <3>4. QED  BY <3>1, <3>2, <3>3
  <2>6. StepsOf(g, F, a, n + 1)
    BY <2>5 DEF StepsOf
  <2>7. QED  BY <2>4, <2>6
<1> HIDE DEF T
<1>3. 0..N \subseteq T
  BY ONLY <1>1, <1>2, InductionUpTo, N \in Nat
<1>4. N \in T
  BY <1>3
<1>5. QED  BY <1>4 DEF T

NewHead(up, e, g) ==
  [index |-> e.clu, up |-> up, size |-> e.size, linked |-> e.linked, cached |-> g, kids |-> <<>>]

(* The fields of a table, of a head and of an entry set.                    *)
LEMMA TableType ==
  /\ \A r \in Table : r.heads \in Seq(DirHead) /\ r.clear \in Nat /\ r.ok \in BOOLEAN
  /\ \A h \in DirHead : /\ h.index \in Cluster /\ h.up \in Cluster \union {0} /\ h.size \in {0, 1}
                        /\ h.linked \in BOOLEAN /\ h.cached \in BOOLEAN /\ h.kids \in Seq(Entry)
  /\ \A e \in Entry : /\ e.name \in Name \union {NoName} /\ e.clu \in Cluster \union {0} /\ e.dir \in BOOLEAN
                      /\ e.size \in {0, 1} /\ e.linked \in BOOLEAN /\ (e.dir => e.clu \in Cluster)
BY DEF Table, DirHead, Entry

(* The table r with other children and another flag in the head at i.      *)
WithKids(r, i, kids, b) == [r EXCEPT !.heads[i].kids = kids, !.heads[i].cached = b]

IsWithKids(s, r, i, kids, b) ==
  /\ s \in Table /\ s.ok = r.ok /\ s.clear = r.clear
  /\ Len(s.heads) = Len(r.heads)
  /\ s.heads[i] = [r.heads[i] EXCEPT !.kids = kids, !.cached = b]
  /\ \A j \in DOMAIN r.heads : j # i => s.heads[j] = r.heads[j]

(* WithKids changes the children of one head and nothing else.              *)
LEMMA KidsSet ==
  ASSUME NEW r \in Table, NEW i \in DOMAIN r.heads, NEW kids \in Seq(Entry), NEW b \in BOOLEAN
  PROVE  IsWithKids(WithKids(r, i, kids, b), r, i, kids, b)
<1> DEFINE s == WithKids(r, i, kids, b)
           h == [r.heads[i] EXCEPT !.kids = kids, !.cached = b]
<1>1. r.heads \in Seq(DirHead) /\ r.heads[i] \in DirHead
  BY TableType
<1>2. h \in DirHead
  BY <1>1 DEF DirHead
<1>3. s = [r EXCEPT !.heads = [r.heads EXCEPT ![i] = h]]
  BY <1>1 DEF WithKids, Table, DirHead
<1> HIDE DEF h
<1>4. [r.heads EXCEPT ![i] = h] \in Seq(DirHead) /\ Len([r.heads EXCEPT ![i] = h]) = Len(r.heads)
  BY <1>1, <1>2
<1>5. /\ s \in Table /\ s.ok = r.ok /\ s.clear = r.clear
      /\ s.heads = [r.heads EXCEPT ![i] = h]
  BY <1>3, <1>4 DEF Table
<1>6. QED  BY <1>4, <1>5, <1>1 DEF h, IsWithKids

LEMMA SameIndexSameHeads ==
  ASSUME NEW r, NEW s, r.heads \in Seq(DirHead), s.heads \in Seq(DirHead), Len(r.heads) = Len(s.heads),
         \A j \in DOMAIN r.heads : s.heads[j].index = r.heads[j].index, NEW c
  PROVE  HasHead(s, c) <=> HasHead(r, c)
BY DEF HasHead

(* realloc keeps the heads there are, and where memory is zeroed does no    *)
(* harm.                                                                    *)
LEMMA GrownType ==
  ASSUME NEW r \in Table, NEW g \in BOOLEAN
  PROVE  /\ Grown(r, g) \in Table /\ Grown(r, g).heads = r.heads
         /\ ~g => Grown(r, g).ok = r.ok
<1>1. r.heads \in Seq(DirHead) /\ r.clear \in Nat /\ r.ok \in BOOLEAN
  BY TableType
<1>2. Scanned(r, g) = [r EXCEPT !.ok = r.ok /\ (Len(r.heads) < r.clear \/ ~g)]
  BY Zenon DEF Scanned
<1>3. (r.ok /\ (Len(r.heads) < r.clear \/ ~g)) \in BOOLEAN
  OBVIOUS
<1>4. Scanned(r, g) \in Table /\ Scanned(r, g).heads = r.heads /\ Scanned(r, g).clear = r.clear
  BY <1>2, <1>3 DEF Table
<1>5. ~g => Scanned(r, g).ok = r.ok
  BY <1>1, <1>2, Zenon DEF Table
<1>6. PICK m \in Nat : m = IF r.clear > Len(r.heads) THEN r.clear ELSE Len(r.heads) + 1
  BY <1>1
<1>7. Grown(r, g) = [Scanned(r, g) EXCEPT !.clear = m]
  BY <1>4, <1>6 DEF Grown
<1>8. QED  BY <1>4, <1>5, <1>7 DEF Table

(* t is r with the child e in the head at i, and a head for it if it needs one. *)
IsCreated(t, r, i, e, g) ==
  /\ t \in Table
  /\ t.heads[i] = [r.heads[i] EXCEPT !.kids = Append(r.heads[i].kids, e), !.cached = TRUE]
  /\ \A j \in DOMAIN r.heads : j # i => t.heads[j] = r.heads[j]
  /\ e.dir /\ ~HasHead(r, e.clu) =>
       /\ Len(t.heads) = Len(r.heads) + 1
       /\ t.heads[Len(r.heads) + 1] = NewHead(r.heads[i].index, e, g)
  /\ ~(e.dir /\ ~HasHead(r, e.clu)) => Len(t.heads) = Len(r.heads)
  /\ ~g => t.ok = r.ok

(* exfat_create_fileinfo adds a child to one head, and perhaps a head for   *)
(* it.                                                                      *)
LEMMA Created ==
  ASSUME NEW r \in Table, NEW i \in DOMAIN r.heads, NEW e \in Entry, NEW g \in BOOLEAN
  PROVE  IsCreated(CreateFileinfo(r, i, e, g), r, i, e, g)
<1> DEFINE kids == Append(r.heads[i].kids, e)
           s == WithKids(r, i, kids, TRUE)
           t == CreateFileinfo(r, i, e, g)
           h == NewHead(r.heads[i].index, e, g)
           n == Len(r.heads)
<1>1. r.heads \in Seq(DirHead) /\ r.heads[i] \in DirHead /\ n \in Nat
  BY TableType
<1>2. kids \in Seq(Entry)
  BY <1>1, TableType
<1> HIDE DEF kids
<1>3. /\ s \in Table /\ s.ok = r.ok /\ s.clear = r.clear /\ Len(s.heads) = n
      /\ s.heads[i] = [r.heads[i] EXCEPT !.kids = kids, !.cached = TRUE]
      /\ \A j \in DOMAIN r.heads : j # i => s.heads[j] = r.heads[j]
  <2>1. PICK b \in BOOLEAN : b = TRUE
    OBVIOUS
  <2>2. IsWithKids(WithKids(r, i, kids, b), r, i, kids, b)
    BY <1>2, KidsSet
  <2>3. IsWithKids(s, r, i, kids, TRUE)
    BY <2>1, <2>2, Zenon
  <2>4. QED  BY <2>3 DEF IsWithKids
<1>4. HasHead(s, e.clu) <=> HasHead(r, e.clu)
  <2>1. \A j \in DOMAIN r.heads : s.heads[j].index = r.heads[j].index
    BY <1>1, <1>3 DEF DirHead
  <2>2. s.heads \in Seq(DirHead) /\ Len(r.heads) = Len(s.heads)
    BY <1>3, TableType
  <2> HIDE DEF s
  <2>3. QED  BY ONLY <1>1, <2>1, <2>2, SameIndexSameHeads
<1>5. t = IF e.dir /\ Find(s, e.clu) = 0 THEN [Grown(s, g) EXCEPT !.heads = Append(@, h)] ELSE s
  BY Zenon DEF CreateFileinfo, NewHead, WithKids, kids
<1>6. s.heads \in Seq(DirHead)
  BY <1>3, TableType
<1>7. Find(s, e.clu) = 0 <=> ~HasHead(r, e.clu)
  BY <1>4, <1>6, FindHead
<1> HIDE DEF s, t, h, kids
<1>8. CASE e.dir /\ ~HasHead(r, e.clu)
  <2>1. h \in DirHead
    BY <1>1, <1>8, TableType DEF h, NewHead, DirHead
  <2>2. /\ Grown(s, g) \in Table /\ Grown(s, g).heads = s.heads /\ (~g => Grown(s, g).ok = s.ok)
    BY <1>3, GrownType
  <2>3. Append(s.heads, h) \in Seq(DirHead)
    BY <1>6, <2>1
  <2>4. t \in Table /\ t.heads = Append(s.heads, h) /\ (~g => t.ok = s.ok)
    BY <1>5, <1>7, <1>8, <2>2, <2>3 DEF Table
  <2>5. Len(t.heads) = n + 1 /\ t.heads[n + 1] = h /\ \A j \in DOMAIN r.heads : t.heads[j] = s.heads[j]
    BY <2>4, <1>6, <2>1, <1>3, <1>1
  <2>6. QED  BY <2>4, <2>5, <1>3, <1>8 DEF t, h, kids, IsCreated
<1>9. CASE ~(e.dir /\ ~HasHead(r, e.clu))
  <2>1. t = s
    BY <1>5, <1>7, <1>9
  <2>2. QED  BY <2>1, <1>3, <1>9 DEF t, kids, IsCreated
<1>10. QED  BY <1>8, <1>9

(* The first k entry sets of es have been loaded for the head i of r.      *)
LoadedTo(s, r, i, es, k, g) ==
  /\ s \in Table /\ Len(r.heads) <= Len(s.heads)
  /\ ~g => s.ok = r.ok
  /\ \A j \in DOMAIN r.heads : j # i => s.heads[j] = r.heads[j]
  /\ /\ s.heads[i].index = r.heads[i].index /\ s.heads[i].up = r.heads[i].up
     /\ s.heads[i].size = r.heads[i].size /\ s.heads[i].linked = r.heads[i].linked
     /\ Len(s.heads[i].kids) = Len(r.heads[i].kids) + k
     /\ \A m \in 1..k : s.heads[i].kids[Len(r.heads[i].kids) + m] = es[m]
     /\ k = 0 => s = r
     /\ k > 0 => s.heads[i].cached
  /\ \A j \in DOMAIN s.heads : j > Len(r.heads) =>
       /\ ~HasHead(r, s.heads[j].index)
       /\ \E m \in 1..k : es[m].dir /\ s.heads[j] = NewHead(r.heads[i].index, es[m], g)
       /\ \A l \in DOMAIN s.heads : s.heads[l].index = s.heads[j].index => l = j
  /\ \A m \in 1..k : es[m].dir => HasHead(s, es[m].clu)

(* One more entry set read is one more child in the head.                   *)
LEMMA LoadOne ==
  ASSUME NEW r \in Table, NEW s, NEW i \in DOMAIN r.heads, NEW es \in Seq(Entry), NEW k \in 1..Len(es),
         NEW g \in BOOLEAN, LoadedTo(s, r, i, es, k - 1, g)
  PROVE  LoadedTo(CreateFileinfo(s, i, es[k], g), r, i, es, k, g)
<1> DEFINE e == es[k]
           t == CreateFileinfo(s, i, e, g)
<1>1. /\ s \in Table /\ r.heads \in Seq(DirHead) /\ s.heads \in Seq(DirHead) /\ i \in DOMAIN s.heads /\ e \in Entry
      /\ k \in Nat /\ Len(r.heads) \in Nat /\ Len(s.heads) \in Nat /\ Len(r.heads) <= Len(s.heads)
      /\ i \in 1..Len(r.heads)
  BY TableType DEF LoadedTo
<1>2. PICK a \in Nat : a = Len(r.heads)
  BY <1>1
<1>3. PICK b \in Nat : b = Len(s.heads)
  BY <1>1
<1>4. PICK c \in Nat : c = Len(r.heads[i].kids)
  BY <1>1, TableType
<1>5. PICK new \in BOOLEAN : new <=> e.dir /\ ~HasHead(s, e.clu)
  OBVIOUS
<1>6. /\ t \in Table
      /\ t.heads[i] = [s.heads[i] EXCEPT !.kids = Append(s.heads[i].kids, e), !.cached = TRUE]
      /\ \A j \in DOMAIN s.heads : j # i => t.heads[j] = s.heads[j]
      /\ new => Len(t.heads) = b + 1 /\ t.heads[b + 1] = NewHead(s.heads[i].index, e, g)
      /\ ~new => Len(t.heads) = b
      /\ ~g => t.ok = s.ok
  <2>1. IsCreated(CreateFileinfo(s, i, e, g), s, i, e, g)
    BY ONLY <1>1, g \in BOOLEAN, Created
  <2>2. IsCreated(t, s, i, e, g)
    BY <2>1
  <2> HIDE DEF t, e
  <2>3. QED  BY <2>2, <1>1, <1>3, <1>5 DEF IsCreated
<1> HIDE DEF t, e
<1>7. t.heads \in Seq(DirHead) /\ s.heads[i] \in DirHead /\ t.heads[i] \in DirHead /\ r.heads[i] \in DirHead
  <2>1. t.heads \in Seq(DirHead) /\ i \in 1..Len(s.heads) /\ i \in 1..Len(t.heads)
    BY <1>1, <1>3, <1>6, TableType
  <2>2. QED  BY <2>1, <1>1
<1>8. PICK d \in Nat : d = Len(t.heads)
  BY <1>7
<1>9. DOMAIN r.heads = 1..a /\ DOMAIN s.heads = 1..b /\ DOMAIN t.heads = 1..d /\ a <= b /\ b <= d /\ i \in 1..a
  BY <1>1, <1>2, <1>3, <1>6, <1>7, <1>8
<1>10. /\ t.heads[i].index = s.heads[i].index /\ t.heads[i].up = s.heads[i].up
       /\ t.heads[i].size = s.heads[i].size /\ t.heads[i].linked = s.heads[i].linked
       /\ t.heads[i].kids = Append(s.heads[i].kids, e) /\ t.heads[i].cached
  BY <1>6, <1>7 DEF DirHead
<1>11. \A j \in 1..b : t.heads[j].index = s.heads[j].index
  BY <1>6, <1>9, <1>10
<1>12. \A x : HasHead(s, x) => HasHead(t, x)
  BY <1>9, <1>11 DEF HasHead
<1>13. \A j \in 1..a : j # i => t.heads[j] = r.heads[j]
  BY <1>6, <1>9, SMTT(40) DEF LoadedTo
<1>14. /\ Len(t.heads[i].kids) = c + k
       /\ \A m \in 1..k : t.heads[i].kids[c + m] = es[m]
  <2>1. s.heads[i].kids \in Seq(Entry) /\ Len(s.heads[i].kids) = c + (k - 1)
    BY <1>7, <1>4, TableType DEF LoadedTo
  <2>2. PICK q \in Seq(Entry) : q = s.heads[i].kids
    BY <2>1
  <2>3. \A m \in 1..(k - 1) : q[c + m] = es[m]
    BY <2>2, <1>4 DEF LoadedTo
  <2>4. Len(q) = c + (k - 1) /\ t.heads[i].kids = Append(q, es[k])
    BY <2>1, <2>2, <1>10 DEF e
  <2>5. Len(Append(q, es[k])) = c + k /\ \A m \in 1..k : Append(q, es[k])[c + m] = es[m]
    BY ONLY <2>2, <2>3, <2>4, k \in Nat, c \in Nat, SMTT(40)
  <2>6. QED  BY <2>4, <2>5
<1>15. t.heads[i].index = r.heads[i].index /\ t.heads[i].up = r.heads[i].up
       /\ t.heads[i].size = r.heads[i].size /\ t.heads[i].linked = r.heads[i].linked
  BY <1>10 DEF LoadedTo
<1>16. ASSUME NEW j \in 1..d, j > a
       PROVE  /\ ~HasHead(r, t.heads[j].index)
              /\ \E m \in 1..k : es[m].dir /\ t.heads[j] = NewHead(r.heads[i].index, es[m], g)
              /\ \A l \in 1..d : t.heads[l].index = t.heads[j].index => l = j
  <2>1. CASE j \in 1..b
    <3>1. /\ t.heads[j] = s.heads[j] /\ ~HasHead(r, s.heads[j].index)
          /\ \E m \in 1..(k - 1) : es[m].dir /\ s.heads[j] = NewHead(r.heads[i].index, es[m], g)
          /\ \A l \in 1..b : s.heads[l].index = s.heads[j].index => l = j
      <4>1. j \in DOMAIN s.heads /\ j > Len(r.heads) /\ j # i
        BY <1>2, <1>9, <1>16, <2>1
      <4>2. t.heads[j] = s.heads[j]
        BY <4>1, <1>6
      <4>3. QED  BY <4>1, <4>2, <1>9, Zenon DEF LoadedTo
    <3>2. \E m \in 1..k : es[m].dir /\ t.heads[j] = NewHead(r.heads[i].index, es[m], g)
      BY <3>1, <1>1
    <3>3. ASSUME NEW l \in 1..d, t.heads[l].index = t.heads[j].index PROVE l = j
      <4>1. CASE l \in 1..b
        BY <3>1, <3>3, <4>1, <1>11
      <4>2. CASE l = b + 1
        <5>1. new
          BY <4>2, <1>6, <1>8
        <5>2. t.heads[l].index = e.clu
          BY <5>1, <4>2, <1>6 DEF NewHead
        <5>3. HasHead(s, e.clu)
          BY <5>2, <3>1, <3>3, <2>1, <1>9 DEF HasHead
        <5>4. QED  BY <5>1, <5>3, <1>5
      <4>3. QED  BY <4>1, <4>2, <1>6, <1>8
    <3>4. QED  BY <3>1, <3>2, <3>3
  <2>2. CASE j = b + 1
    <3>1. new
      BY <2>2, <1>6, <1>8
    <3>2. t.heads[j] = NewHead(s.heads[i].index, e, g) /\ t.heads[j].index = e.clu
      BY <3>1, <2>2, <1>6 DEF NewHead
    <3>3. t.heads[j] = NewHead(r.heads[i].index, es[k], g) /\ es[k].dir
      BY <3>1, <3>2, <1>5 DEF LoadedTo, e
    <3>4. k \in 1..k
      BY <1>1
    <3>5. ~HasHead(r, t.heads[j].index)
      <4>1. \A x : HasHead(r, x) => HasHead(s, x)
        <5>1. \A l \in 1..a : s.heads[l].index = r.heads[l].index
          BY <1>9 DEF LoadedTo
        <5>2. QED  BY <5>1, <1>9, SMTT(40) DEF HasHead
      <4>2. QED  BY <4>1, <3>1, <3>2, <1>5
    <3>6. ASSUME NEW l \in 1..d, t.heads[l].index = t.heads[j].index PROVE l = j
      <4>1. CASE l \in 1..b
        BY <4>1, <3>6, <3>1, <3>2, <1>5, <1>9, <1>11 DEF HasHead
      <4>2. QED  BY <4>1, <1>6, <1>8, <2>2
    <3>7. QED  BY <3>3, <3>4, <3>5, <3>6
  <2>3. QED  BY <2>1, <2>2, <1>6, <1>8
<1>17. ASSUME NEW m \in 1..k, es[m].dir PROVE HasHead(t, es[m].clu)
  <2>1. CASE m < k
    BY <2>1, <1>12, <1>17 DEF LoadedTo
  <2>2. CASE m = k /\ new
    <3>1. t.heads[b + 1].index = e.clu /\ b + 1 \in 1..d
      BY <2>2, <1>6, <1>8 DEF NewHead
    <3>2. QED  BY <3>1, <2>2, <1>9 DEF HasHead, e
  <2>3. CASE m = k /\ ~new
    BY <2>3, <1>5, <1>12, <1>17 DEF e
  <2>4. QED  BY <2>1, <2>2, <2>3, <1>1
<1>18. ~g => t.ok = r.ok
  BY <1>6 DEF LoadedTo
<1>19. LoadedTo(t, r, i, es, k, g)
  <2>1. t \in Table /\ Len(r.heads) <= Len(t.heads)
    BY <1>2, <1>6, <1>8, <1>9
  <2>2. \A j \in DOMAIN r.heads : j # i => t.heads[j] = r.heads[j]
    BY <1>9, <1>13
  <2>3. /\ Len(t.heads[i].kids) = Len(r.heads[i].kids) + k
        /\ \A m \in 1..k : t.heads[i].kids[Len(r.heads[i].kids) + m] = es[m]
        /\ k = 0 => t = r
    BY <1>4, <1>14, <1>1
  <2>4. \A j \in DOMAIN t.heads : j > Len(r.heads) =>
          /\ ~HasHead(r, t.heads[j].index)
          /\ \E m \in 1..k : es[m].dir /\ t.heads[j] = NewHead(r.heads[i].index, es[m], g)
          /\ \A l \in DOMAIN t.heads : t.heads[l].index = t.heads[j].index => l = j
    BY <1>2, <1>9, <1>16
  <2> HIDE DEF t
  <2>5. QED  BY <2>1, <2>2, <2>3, <2>4, <1>10, <1>15, <1>17, <1>18, Zenon DEF LoadedTo
<1>20. QED  BY <1>19 DEF t, e

Disks == [Cluster -> Seq(Entry)]

LEMMA ListingType ==
  ASSUME NEW es \in Seq(Entry), NEW size
  PROVE  Listing(es, size) \in Seq(Entry)
<1>1. PICK n \in 0..Len(es) : n = ByName(es, NoName)
  BY NameFound
<1>2. n # 0 => SubSeq(es, 1, n - 1) \in Seq(Entry)
  BY SubSeqProperties
<1>3. QED  BY <1>1, <1>2 DEF Listing

LEMMA TableOfLoaded ==
  ASSUME NEW r \in Table, NEW i \in DOMAIN r.heads, NEW s, NEW es, NEW k, NEW g, LoadedTo(s, r, i, es, k, g)
  PROVE  s \in Table /\ i \in DOMAIN s.heads /\ \A x : HasHead(r, x) => HasHead(s, x)
<1>1. s \in Table /\ r.heads \in Seq(DirHead) /\ s.heads \in Seq(DirHead) /\ Len(r.heads) <= Len(s.heads)
  BY TableType DEF LoadedTo
<1>2. DOMAIN r.heads = 1..Len(r.heads) /\ DOMAIN s.heads = 1..Len(s.heads) /\ DOMAIN r.heads \subseteq DOMAIN s.heads
  BY <1>1
<1>3. \A j \in DOMAIN r.heads : s.heads[j].index = r.heads[j].index
  BY DEF LoadedTo
<1>4. QED  BY <1>1, <1>2, <1>3 DEF HasHead

(* A directory that is not loaded is loaded whole, in the order of the      *)
(* disk.                                                                    *)
LEMMA TraverseLoads ==
  ASSUME NEW r \in Table, NEW d \in Disks, NEW c, NEW g \in BOOLEAN, HasHead(r, c),
         NEW i, i = Find(r, c), ~r.heads[i].cached,
         NEW es, es = Listing(d[c], r.heads[i].size)
  PROVE  LoadedTo(Traverse(r, d, c, g), r, i, es, Len(es), g)
<1> DEFINE Loaded[k \in 0..Len(es)] == IF k = 0 THEN r ELSE CreateFileinfo(Loaded[k - 1], i, es[k], g)
<1>1. r.heads \in Seq(DirHead) /\ i \in DOMAIN r.heads /\ i # 0 /\ r.heads[i].index = c /\ c \in Cluster
  BY TableType, FindHead DEF HasHead
<1>2. es \in Seq(Entry) /\ Len(es) \in Nat
  BY <1>1, ListingType DEF Disks
<1>3. Traverse(r, d, c, g) = Loaded[Len(es)]
  BY <1>1, Zenon DEF Traverse
<1>4. Loaded = [k \in 0..Len(es) |-> IF k = 0 THEN r ELSE CreateFileinfo(Loaded[k - 1], i, es[k], g)]
  <2> DEFINE S == {s \in Table : i \in DOMAIN s.heads}
             F == [k \in 1..Len(es) |-> [s \in S |-> CreateFileinfo(s, i, es[k], g)]]
  <2>1. ASSUME NEW k \in 1..Len(es), NEW s \in S PROVE CreateFileinfo(s, i, es[k], g) \in S
    <3>1. es[k] \in Entry /\ s \in Table /\ i \in DOMAIN s.heads
      BY <1>2
    <3>2. IsCreated(CreateFileinfo(s, i, es[k], g), s, i, es[k], g)
      BY ONLY <3>1, g \in BOOLEAN, Created
    <3>3. PICK t : t = CreateFileinfo(s, i, es[k], g)
      OBVIOUS
    <3>4. t \in Table /\ Len(t.heads) \in {Len(s.heads), Len(s.heads) + 1}
      BY <3>2, <3>3 DEF IsCreated
    <3>5. i \in DOMAIN t.heads
      BY <3>1, <3>4, TableType
    <3>6. QED  BY <3>3, <3>4, <3>5
  <2>2. r \in S
    BY <1>1
  <2>3. F \in [1..Len(es) -> [S -> S]]
    BY <2>1
  <2> HIDE DEF S
  <2>4. PICK h \in [0..Len(es) -> S] : StepsOf(h, F, r, Len(es))
    BY <1>2, <2>2, <2>3, StepsExist, ZenonT(40)
  <2>5. h = [k \in 0..Len(es) |-> IF k = 0 THEN r ELSE F[k][h[k - 1]]]
    BY <2>4 DEF StepsOf
  <2>6. ASSUME NEW k \in 0..Len(es), k # 0 PROVE F[k][h[k - 1]] = CreateFileinfo(h[k - 1], i, es[k], g)
    <3>1. k \in 1..Len(es) /\ k - 1 \in 0..Len(es)
      BY <1>2, <2>6
    <3>2. QED  BY <3>1
  <2> HIDE DEF F
  <2>7. h = [k \in 0..Len(es) |-> IF k = 0 THEN r ELSE CreateFileinfo(h[k - 1], i, es[k], g)]
    BY <2>5, <2>6
  <2>8. \E f : f = [k \in 0..Len(es) |-> IF k = 0 THEN r ELSE CreateFileinfo(f[k - 1], i, es[k], g)]
    BY <2>7, Zenon
  <2>9. QED  BY <2>8, Zenon
<1> HIDE DEF Loaded
<1>5. Loaded[0] = r /\ \A k \in 1..Len(es) : Loaded[k] = CreateFileinfo(Loaded[k - 1], i, es[k], g)
  <2>1. ASSUME NEW k \in 0..Len(es)
        PROVE  Loaded[k] = IF k = 0 THEN r ELSE CreateFileinfo(Loaded[k - 1], i, es[k], g)
    BY <1>4, Zenon
  <2>2. 0 \in 0..Len(es) /\ 1..Len(es) \subseteq 0..Len(es) /\ 0 \notin 1..Len(es)
    BY <1>2
  <2>3. QED  BY <2>1, <2>2, Zenon
<1> DEFINE T == {k \in 0..Len(es) : LoadedTo(Loaded[k], r, i, es, k, g)}
<1>6. 0 \in T
  <2>1. LoadedTo(r, r, i, es, 0, g)
    <3>1. \A j \in DOMAIN r.heads : ~(j > Len(r.heads))
      BY <1>1
    <3>2. r.heads[i].kids \in Seq(Entry) /\ Len(r.heads[i].kids) + 0 = Len(r.heads[i].kids) /\ Len(r.heads) \in Nat
      BY <1>1, TableType
    <3>3. QED  BY <3>1, <3>2 DEF LoadedTo
  <2>2. QED  BY <2>1, <1>2, <1>5
<1>7. ASSUME NEW k \in 0..(Len(es) - 1), k \in T PROVE k + 1 \in T
  <2>1. PICK n \in 1..Len(es) : n = k + 1 /\ n - 1 = k
    BY <1>2
  <2>2. LoadedTo(Loaded[n - 1], r, i, es, n - 1, g)
    BY <1>7, <2>1
  <2>3. LoadedTo(CreateFileinfo(Loaded[n - 1], i, es[n], g), r, i, es, n, g)
    BY ONLY <2>2, <1>1, <1>2, r \in Table, g \in BOOLEAN, n \in 1..Len(es), LoadOne
  <2>4. QED  BY <2>1, <2>3, <1>5, <1>2
<1> HIDE DEF T
<1>8. 0..Len(es) \subseteq T
  BY ONLY <1>2, <1>6, <1>7, InductionUpTo
<1>9. LoadedTo(Loaded[Len(es)], r, i, es, Len(es), g)
  <2>1. Len(es) \in T
    BY <1>2, <1>8
  <2>2. QED  BY <2>1 DEF T
<1>10. QED  BY <1>3, <1>9

(* exfat_traverse_directory keeps the heads, and a loaded one as it is.     *)
LEMMA TraverseType ==
  ASSUME NEW r \in Table, NEW d \in Disks, NEW c, NEW g \in BOOLEAN
  PROVE  /\ Traverse(r, d, c, g) \in Table
         /\ \A x : HasHead(r, x) => HasHead(Traverse(r, d, c, g), x)
         /\ HasHead(r, c) /\ r.heads[Find(r, c)].cached => Traverse(r, d, c, g) = r
<1>0. r.heads \in Seq(DirHead)
  BY TableType
<1>1. CASE ~HasHead(r, c)
  <2>1. Traverse(r, d, c, g) = Aborted(Grown(r, g))
    BY <1>0, <1>1, FindHead, Zenon DEF Traverse
  <2>2. Aborted(Grown(r, g)) \in Table /\ Aborted(Grown(r, g)).heads = r.heads
    BY GrownType DEF Aborted, Table
  <2>3. QED  BY <1>1, <2>1, <2>2 DEF HasHead
<1>2. CASE HasHead(r, c) /\ r.heads[Find(r, c)].cached
  BY <1>0, <1>2, FindHead, Zenon DEF Traverse
<1>3. CASE HasHead(r, c) /\ ~r.heads[Find(r, c)].cached
  <2>1. PICK i : i = Find(r, c)
    OBVIOUS
  <2>2. PICK es : es = Listing(d[c], r.heads[i].size)
    OBVIOUS
  <2>3. LoadedTo(Traverse(r, d, c, g), r, i, es, Len(es), g)
    BY <1>3, <2>1, <2>2, TraverseLoads
  <2>4. i \in DOMAIN r.heads
    BY <1>0, <1>3, <2>1, FindHead
  <2>5. QED  BY <2>3, <2>4, <1>3, TableOfLoaded
<1>4. QED  BY <1>1, <1>2, <1>3

(* A slot number that is none of the table changes no head.                 *)
LEMMA CleanType ==
  ASSUME NEW r \in Table, NEW i, NEW g \in BOOLEAN
  PROVE  /\ Clean(r, i, g) \in Table
         /\ Len(Clean(r, i, g).heads) = Len(r.heads)
         /\ i \notin DOMAIN r.heads => Clean(r, i, g).heads = r.heads
         /\ i \in DOMAIN r.heads => IsWithKids(Clean(r, i, g), r, i, <<>>, r.heads[i].cached)
         /\ i \notin DOMAIN r.heads /\ ~g => Clean(r, i, g) = r
<1>1. CASE i \in DOMAIN r.heads
  <2>1. r.heads \in Seq(DirHead) /\ r.heads[i] \in DirHead
    BY <1>1, TableType
  <2>2. PICK b \in BOOLEAN : b = r.heads[i].cached
    BY <2>1, TableType
  <2>3. IsWithKids(WithKids(r, i, <<>>, b), r, i, <<>>, b)
    BY <1>1, <<>> \in Seq(Entry), KidsSet
  <2>4. Clean(r, i, g) = [r EXCEPT !.heads[i].kids = <<>>]
    BY <1>1, Zenon DEF Clean
  <2>5. [r EXCEPT !.heads[i].kids = <<>>] = WithKids(r, i, <<>>, b)
    BY <2>1, <2>2 DEF WithKids, Table, DirHead
  <2>6. QED  BY <1>1, <2>2, <2>3, <2>4, <2>5 DEF IsWithKids
<1>2. CASE i \notin DOMAIN r.heads
  <2>1. Clean(r, i, g) = IF i <= r.clear \/ ~g THEN r ELSE Aborted(r)
    BY <1>2, Zenon DEF Clean
  <2>2. Aborted(r) \in Table /\ Aborted(r).heads = r.heads
    BY DEF Aborted, Table
  <2>3. QED  BY <1>2, <2>1, <2>2
<1>3. QED  BY <1>1, <1>2

(* The table that reload has when it traverses: no children in the head i. *)
LEMMA UnloadedType ==
  ASSUME NEW r \in Table, NEW i \in DOMAIN r.heads, NEW g \in BOOLEAN
  PROVE  IsWithKids([Clean(r, i, g) EXCEPT !.heads[i].cached = FALSE], r, i, <<>>, FALSE)
<1>1. r.heads \in Seq(DirHead) /\ r.heads[i] \in DirHead
  BY TableType
<1>2. PICK b \in BOOLEAN : b = FALSE
  OBVIOUS
<1>3. IsWithKids(WithKids(r, i, <<>>, b), r, i, <<>>, b)
  BY <<>> \in Seq(Entry), KidsSet
<1>4. Clean(r, i, g) = [r EXCEPT !.heads[i].kids = <<>>]
  BY Zenon DEF Clean
<1>5. [Clean(r, i, g) EXCEPT !.heads[i].cached = FALSE] = WithKids(r, i, <<>>, FALSE)
  BY <1>1, <1>4 DEF WithKids, Table, DirHead
<1>6. QED  BY <1>2, <1>3, <1>5, Zenon

LEMMA WithKidsHeads ==
  ASSUME NEW r \in Table, NEW i \in DOMAIN r.heads, NEW s, NEW kids, NEW b, IsWithKids(s, r, i, kids, b)
  PROVE  /\ DOMAIN s.heads = DOMAIN r.heads
         /\ \A j \in DOMAIN r.heads : s.heads[j].index = r.heads[j].index
         /\ \A x : HasHead(s, x) <=> HasHead(r, x)
<1>1. r.heads \in Seq(DirHead) /\ s.heads \in Seq(DirHead) /\ Len(s.heads) = Len(r.heads)
  BY TableType DEF IsWithKids
<1>2. \A j \in DOMAIN r.heads : s.heads[j].index = r.heads[j].index
  <2>1. r.heads[i] \in DirHead /\ s.heads[i] = [r.heads[i] EXCEPT !.kids = kids, !.cached = b]
    BY <1>1 DEF IsWithKids
  <2>2. s.heads[i].index = r.heads[i].index
    BY <2>1 DEF DirHead
  <2>3. QED  BY <2>2 DEF IsWithKids
<1>3. DOMAIN s.heads = DOMAIN r.heads
  BY <1>1
<1>4. QED  BY <1>2, <1>3 DEF HasHead

(* A reload loses no head.                                                  *)
LEMMA ReloadType ==
  ASSUME NEW r \in Table, NEW d \in Disks, NEW c, NEW g \in BOOLEAN
  PROVE  /\ Reload(r, d, c, g) \in Table
         /\ \A x : HasHead(r, x) => HasHead(Reload(r, d, c, g), x)
<1>0. r.heads \in Seq(DirHead)
  BY TableType
<1>1. CASE ~HasHead(r, c)
  <2>1. Reload(r, d, c, g) = Aborted(Grown(r, g))
    BY <1>0, <1>1, FindHead, Zenon DEF Reload
  <2>2. Aborted(Grown(r, g)) \in Table /\ Aborted(Grown(r, g)).heads = r.heads
    BY GrownType DEF Aborted, Table
  <2>3. QED  BY <2>1, <2>2 DEF HasHead
<1>2. CASE HasHead(r, c)
  <2>1. PICK i : i = Find(r, c)
    OBVIOUS
  <2>2. i \in DOMAIN r.heads /\ i # 0
    BY <1>0, <1>2, <2>1, FindHead
  <2>3. PICK s : s = [Clean(r, i, g) EXCEPT !.heads[i].cached = FALSE]
    OBVIOUS
  <2>4. IsWithKids(s, r, i, <<>>, FALSE)
    BY <2>2, <2>3, UnloadedType
  <2>5. Reload(r, d, c, g) = Traverse(s, d, c, g)
    BY <2>1, <2>2, <2>3, Zenon DEF Reload
  <2>6. s \in Table /\ \A x : HasHead(r, x) => HasHead(s, x)
    <3>1. \A x : HasHead(s, x) <=> HasHead(r, x)
      BY ONLY <2>2, <2>4, r \in Table, WithKidsHeads, Zenon
    <3>2. QED  BY <3>1, <2>4, Zenon DEF IsWithKids
  <2>7. QED  BY <2>5, <2>6, TraverseType
<1>3. QED  BY <1>1, <1>2

Places == [tab : Table, clu : Cluster \union {0, Missing}]

LEMMA LookInType ==
  ASSUME NEW s \in Places, NEW d \in Disks, NEW n, NEW g \in BOOLEAN
  PROVE  LookIn(s, d, n, g) \in Places
<1>1. PICK t \in Table : t = Traverse(s.tab, d, s.clu, g)
  BY TraverseType DEF Places
<1>2. PICK i : i = Find(t, s.clu)
  OBVIOUS
<1>3. PICK kids : kids = t.heads[i].kids
  OBVIOUS
<1>4. PICK k : k = ByName(kids, n)
  OBVIOUS
<1>5. LookIn(s, d, n, g) = IF s.clu = Missing \/ ~s.tab.ok THEN s
                           ELSE [tab |-> t, clu |-> IF ~t.ok \/ k = 0 THEN Missing ELSE kids[k].clu]
  BY <1>1, <1>2, <1>3, <1>4, Zenon DEF LookIn
<1>6. CASE HasHead(s.tab, s.clu)
  <2>1. i \in DOMAIN t.heads /\ t.heads \in Seq(DirHead)
    BY <1>1, <1>2, <1>6, TraverseType, FindHead, TableType DEF Places
  <2>2. kids \in Seq(Entry)
    BY <1>3, <2>1, TableType
  <2>3. k \in 0..Len(kids)
    BY <1>4, <2>2, NameFound
  <2>4. k # 0 => kids[k].clu \in Cluster \union {0}
    BY <2>2, <2>3, TableType
  <2>5. QED  BY <1>5, <2>4 DEF Places
<1>7. CASE ~HasHead(s.tab, s.clu)
  <2>1. t = Aborted(Grown(s.tab, g))
    BY <1>1, <1>7, FindHead, TableType, Zenon DEF Traverse, Places
  <2>2. s.tab \in Table
    BY DEF Places
  <2>3. ~t.ok
    BY <2>1, <2>2, GrownType DEF Aborted, Table
  <2>4. QED  BY <1>5, <2>3 DEF Places
<1>8. QED  BY <1>6, <1>7

(* h[k] is where lookup has come to after k components.                    *)
LooksUp(h, r, d, c, p, g) ==
  /\ h[0] = [tab |-> r, clu |-> c]
  /\ \A k \in 1..Len(p) : h[k] = LookIn(h[k - 1], d, p[k], g)
  /\ Lookup(r, d, c, p, g) = h[Len(p)]

(* A lookup, component by component.                                        *)
LEMMA LookupSteps ==
  ASSUME NEW r \in Table, NEW d \in Disks, NEW c \in Cluster \union {0, Missing}, NEW p, Len(p) \in Nat,
         NEW g \in BOOLEAN
  PROVE  \E h \in [0..Len(p) -> Places] : LooksUp(h, r, d, c, p, g)
<1> DEFINE At[k \in 0..Len(p)] == IF k = 0 THEN [tab |-> r, clu |-> c] ELSE LookIn(At[k - 1], d, p[k], g)
           F == [k \in 1..Len(p) |-> [s \in Places |-> LookIn(s, d, p[k], g)]]
           a == [tab |-> r, clu |-> c]
<1>1. Lookup(r, d, c, p, g) = At[Len(p)]
  BY Zenon DEF Lookup
<1>2. F \in [1..Len(p) -> [Places -> Places]]
  BY LookInType
<1>3. a \in Places
  BY DEF Places
<1>4. PICK h \in [0..Len(p) -> Places] : StepsOf(h, F, a, Len(p))
  BY <1>2, <1>3, StepsExist
<1>5. h = [k \in 0..Len(p) |-> IF k = 0 THEN a ELSE F[k][h[k - 1]]]
  BY <1>4 DEF StepsOf
<1>6. ASSUME NEW k \in 0..Len(p), k # 0 PROVE F[k][h[k - 1]] = LookIn(h[k - 1], d, p[k], g)
  <2>1. k \in 1..Len(p) /\ k - 1 \in 0..Len(p)
    BY <1>6
  <2>2. QED  BY <2>1
<1> HIDE DEF F, a
<1>7. h = [k \in 0..Len(p) |-> IF k = 0 THEN a ELSE LookIn(h[k - 1], d, p[k], g)]
  BY <1>5, <1>6
<1>8. \E f : f = [k \in 0..Len(p) |-> IF k = 0 THEN [tab |-> r, clu |-> c] ELSE LookIn(f[k - 1], d, p[k], g)]
  BY <1>7, Zenon DEF a
<1>9. At = [k \in 0..Len(p) |-> IF k = 0 THEN [tab |-> r, clu |-> c] ELSE LookIn(At[k - 1], d, p[k], g)]
  BY <1>8, Zenon
<1> HIDE DEF At
<1>10. ASSUME NEW k \in 0..Len(p)
       PROVE  At[k] = IF k = 0 THEN a ELSE LookIn(At[k - 1], d, p[k], g)
  BY <1>9, Zenon DEF a
<1>11. At[0] = a /\ \A k \in 1..Len(p) : At[k] = LookIn(At[k - 1], d, p[k], g)
  <2>1. 0 \in 0..Len(p) /\ 1..Len(p) \subseteq 0..Len(p) /\ 0 \notin 1..Len(p)
    OBVIOUS
  <2>2. QED  BY <1>10, <2>1, Zenon
<1> DEFINE T == {k \in 0..Len(p) : At[k] \in Places}
<1>12. 0 \in T
  BY <1>3, <1>11
<1>13. ASSUME NEW k \in 0..(Len(p) - 1), k \in T PROVE k + 1 \in T
  <2>1. PICK n \in 1..Len(p) : n = k + 1 /\ n - 1 = k
    OBVIOUS
  <2>2. At[n - 1] \in Places
    BY <1>13, <2>1
  <2>3. LookIn(At[n - 1], d, p[n], g) \in Places
    BY <2>2, LookInType
  <2>4. QED  BY <2>1, <2>3, <1>11
<1> HIDE DEF T
<1>14. 0..Len(p) \subseteq T
  BY ONLY <1>12, <1>13, InductionUpTo, Len(p) \in Nat
<1>15. At \in [0..Len(p) -> Places]
  <2>1. \A k \in 0..Len(p) : At[k] \in Places
    BY <1>14 DEF T
  <2>2. \E h2 : At = [k \in 0..Len(p) |-> h2[k]]
    <3>1. PICK h2 : h2 = [k \in 0..Len(p) |-> IF k = 0 THEN a ELSE LookIn(At[k - 1], d, p[k], g)]
      OBVIOUS
    <3>2. At = h2
      BY <3>1, <1>9, Zenon DEF a
    <3>3. QED  BY <3>1, <3>2
  <2>3. QED  BY <2>1, <2>2
<1>16. LooksUp(At, r, d, c, p, g)
  BY <1>1, <1>11, Zenon DEF a, LooksUp
<1>17. QED  BY <1>15, <1>16

(* The entry set e with another size. *)
OfSize(e, size) == [e EXCEPT !.size = size]

LEMMA OfSizeType ==
  ASSUME NEW e \in Entry, NEW size \in {0, 1}
  PROVE  /\ OfSize(e, size) \in Entry /\ OfSize(e, size).size = size
         /\ OfSize(e, size).name = e.name /\ OfSize(e, size).clu = e.clu
         /\ OfSize(e, size).dir = e.dir /\ OfSize(e, size).linked = e.linked
         /\ (e.size = size => OfSize(e, size) = e)
BY DEF OfSize, Entry

(* es with another size of the entry set of the cluster c, if it has one.   *)
SizedAs(es, c, size) ==
  \/ SizedIn(es, c, size) = es /\ \A k \in DOMAIN es : es[k].clu # c
  \/ \E k \in DOMAIN es : /\ es[k].clu = c
                          /\ SizedIn(es, c, size) = [es EXCEPT ![k] = OfSize(es[k], size)]
                          /\ SizedIn(es, c, size) \in Seq(Entry)

(* exfat_update_filesize changes the size of one entry set.                 *)
LEMMA SizedInIs ==
  ASSUME NEW es \in Seq(Entry), NEW c, NEW size \in {0, 1}
  PROVE  SizedAs(es, c, size)
<1> DEFINE I == {i \in 1..Len(es) : es[i].clu = c}
<1>1. PICK k : k = SelectInSeq(es, LAMBDA e : e.clu = c)
  OBVIOUS
<1>2. k = IF I # {} THEN Min(I) ELSE 0
  BY <1>1 DEF SelectInSeq
<1>3. I \subseteq Nat /\ 0 \notin I
  OBVIOUS
<1>4. SizedIn(es, c, size) = IF k = 0 THEN es ELSE [es EXCEPT ![k].size = size]
  BY <1>1, Zenon DEF SizedIn
<1>5. CASE I = {}
  <2>1. k = 0
    BY <1>2, <1>5
  <2>2. SizedIn(es, c, size) = es
    BY <1>4, <2>1, Zenon
  <2>3. \A i \in DOMAIN es : es[i].clu # c
    BY <1>5
  <2>4. QED  BY <2>2, <2>3 DEF SizedAs
<1>6. CASE I # {}
  <2> HIDE DEF I
  <2>1. k \in I /\ k # 0
    BY <1>2, <1>3, <1>6, MinLeast
  <2>2. k \in DOMAIN es /\ es[k].clu = c /\ es[k] \in Entry
    BY <2>1 DEF I
  <2>3. SizedIn(es, c, size) = [es EXCEPT ![k] = OfSize(es[k], size)]
    BY <1>4, <2>1, <2>2, Zenon DEF OfSize
  <2>4. [es EXCEPT ![k] = OfSize(es[k], size)] \in Seq(Entry)
    BY <2>2, OfSizeType
  <2>5. QED  BY <2>2, <2>3, <2>4, Zenon DEF SizedAs
<1>7. QED  BY <1>5, <1>6

(* No directory gains or loses an entry set by it.                          *)
LEMMA ResizedType ==
  ASSUME NEW d \in Disks, NEW r \in Table, NEW i \in DOMAIN r.heads, NEW size \in {0, 1}
  PROVE  /\ Resized(d, r, i, size) \in Disks
         /\ \A c \in Cluster : Len(Resized(d, r, i, size)[c]) = Len(d[c])
<1>1. r.heads \in Seq(DirHead) /\ r.heads[i] \in DirHead
  BY TableType
<1>2. PICK h \in DirHead : h = r.heads[i]
  BY <1>1
<1>3. PICK u : u = Find(r, h.up)
  OBVIOUS
<1>4. Resized(d, r, i, size) = IF h.index # Root /\ u # 0 /\ r.heads[u].size = 1
                               THEN [d EXCEPT ![h.up] = SizedIn(d[h.up], h.index, size)] ELSE d
  BY <1>2, <1>3, Zenon DEF Resized
<1>5. CASE u # 0
  <2>1. h.up \in Cluster
    BY <1>1, <1>3, <1>5, FindHead, TableType
  <2>2. PICK es \in Seq(Entry) : es = d[h.up]
    BY <2>1 DEF Disks
  <2>3. PICK fs : fs = SizedIn(es, h.index, size)
    OBVIOUS
  <2>4. fs \in Seq(Entry) /\ Len(fs) = Len(es)
    BY <2>3, SizedInIs DEF SizedAs
  <2>5. [d EXCEPT ![h.up] = fs] \in Disks /\ \A c \in Cluster : Len([d EXCEPT ![h.up] = fs][c]) = Len(d[c])
    BY <2>1, <2>2, <2>4 DEF Disks
  <2>6. QED  BY <1>4, <2>2, <2>3, <2>5
<1>6. CASE u = 0
  BY <1>4, <1>6
<1>7. QED  BY <1>5, <1>6

LEMMA PlacedType ==
  ASSUME NEW es \in Seq(Entry), NEW size, NEW new \in Seq(Entry)
  PROVE  Placed(es, size, new) \in Seq(Entry)
<1>1. es # <<>> => Tail(es) \in Seq(Entry)
  OBVIOUS
<1>2. QED  BY <1>1 DEF Placed

LEMMA ErasedType ==
  ASSUME NEW es \in Seq(Entry), NEW n
  PROVE  Erased(es, n) \in Seq(Entry)
<1>1. PICK k \in 0..Len(es) : k = ByName(es, n)
  BY NameFound
<1>2. k # 0 => RemoveAt(es, k) \in Seq(Entry)
  <2> SUFFICES ASSUME k # 0 PROVE RemoveAt(es, k) \in Seq(Entry)
    OBVIOUS
  <2>1. SubSeq(es, 1, k - 1) \in Seq(Entry) /\ SubSeq(es, k + 1, Len(es)) \in Seq(Entry)
    BY SubSeqProperties
  <2>2. QED  BY <2>1 DEF RemoveAt
<1>3. QED  BY <1>1, <1>2 DEF Erased

(* A finite set of naturals has a greatest element: the one that has the   *)
(* fewest above it.                                                        *)
LEMMA GreatestExists ==
  ASSUME NEW S, S \subseteq Nat, IsFiniteSet(S), S # {}
  PROVE  Max(S) \in S /\ \A y \in S : y <= Max(S)
<1> DEFINE Up(y) == {w \in S : w > y}
           N == {Cardinality(Up(y)) : y \in S}
<1>1. \A y \in S : IsFiniteSet(Up(y)) /\ Cardinality(Up(y)) \in Nat
  <2>1. \A y \in S : Up(y) \in SUBSET S
    OBVIOUS
  <2> HIDE DEF Up
  <2>2. QED  BY <2>1, FS_Subset, FS_CardinalityType
<1>2. N \subseteq Nat /\ N # {}
  BY <1>1
<1>3. PICK n \in N : \A m \in N : n <= m
  BY <1>2, LeastExists
<1>4. PICK x \in S : n = Cardinality(Up(x))
  OBVIOUS
<1>5. ASSUME NEW y \in S, ~(y <= x) PROVE FALSE
  <2>1. Up(y) \in SUBSET Up(x) /\ y \in Up(x) /\ y \notin Up(y)
    <3>1. x \in Nat /\ y \in Nat /\ y > x
      BY <1>5
    <3>2. \A w \in S : w > y => w > x
      BY <3>1
    <3>3. ~(y > y)
      BY <3>1
    <3>4. y \in Up(x) /\ y \notin Up(y)
      BY <3>1, <3>3
    <3>5. \A w \in Up(y) : w \in Up(x)
      BY <3>2
    <3>6. QED  BY <3>4, <3>5
  <2>2. Cardinality(Up(y)) <= Cardinality(Up(x)) /\ Cardinality(Up(y)) # Cardinality(Up(x))
    <3> HIDE DEF Up
    <3>1. QED  BY <1>1, <2>1, FS_Subset
  <2>3. n <= Cardinality(Up(y))
    BY <1>3
  <2> HIDE DEF Up
  <2>4. QED  BY <1>1, <1>4, <2>2, <2>3
<1>6. \E z \in S : \A y \in S : z >= y
  BY <1>5
<1>7. Max(S) \in S /\ \A y \in S : Max(S) >= y
  BY <1>6, Zenon DEF Max
<1>8. QED  BY <1>7

(* The clusters taken for a new entry set are some, and free.              *)
LEMMA FreeTaken ==
  ASSUME NEW F, F \subseteq Cluster, NEW n \in Nat, Cardinality(F) >= n, n > 0, NEW new, new = FirstOf(F, n)
  PROVE  new \subseteq F /\ new # {} /\ Max(new) \in new
<1>1. IsFiniteSet(F) /\ F \subseteq Nat
  <2>1. IsFiniteSet(Cluster) /\ Cluster \subseteq Nat /\ F \in SUBSET Cluster
    BY ChainAssumption
  <2>2. QED  BY <2>1, FS_Subset
<1>2. F # {}
  BY FS_EmptySet
<1>3. PICK x \in F : \A y \in F : x <= y
  BY <1>1, <1>2, LeastExists
<1>4. {b \in F : b < x} = {}
  <2>1. F \subseteq Nat
    BY <1>1
  <2>2. \A y \in F : x <= y
    BY <1>3
  <2>3. \A y \in F : ~(y < x)
    BY ONLY <2>1, <2>2, x \in F
  <2>4. QED  BY <2>3
<1>5. x \in new
  <2>1. Cardinality({b \in F : b < x}) < n
    BY <1>4, FS_EmptySet
  <2>2. QED  BY <2>1 DEF FirstOf
<1>6. new \subseteq F
  BY DEF FirstOf
<1>7. IsFiniteSet(new) /\ new \subseteq Nat
  BY <1>1, <1>6, FS_Subset
<1>8. Max(new) \in new
  BY <1>5, <1>7, GreatestExists
<1>9. QED  BY <1>5, <1>6, <1>8

(* The table r with another size in the head at i.                         *)
WithSize(r, i, size) == [r EXCEPT !.heads[i].size = size]

IsWithSize(s, r, i, size) ==
  /\ s \in Table /\ s.ok = r.ok /\ s.clear = r.clear
  /\ Len(s.heads) = Len(r.heads)
  /\ s.heads[i] = [r.heads[i] EXCEPT !.size = size]
  /\ \A j \in DOMAIN r.heads : j # i => s.heads[j] = r.heads[j]

LEMMA SizeSet ==
  ASSUME NEW r \in Table, NEW i \in DOMAIN r.heads, NEW size \in {0, 1}
  PROVE  IsWithSize(WithSize(r, i, size), r, i, size)
<1> DEFINE s == WithSize(r, i, size)
           h == [r.heads[i] EXCEPT !.size = size]
<1>1. r.heads \in Seq(DirHead) /\ r.heads[i] \in DirHead
  BY TableType
<1>2. h \in DirHead
  BY <1>1 DEF DirHead
<1>3. s = [r EXCEPT !.heads = [r.heads EXCEPT ![i] = h]]
  BY <1>1 DEF WithSize, Table, DirHead
<1> HIDE DEF h
<1>4. [r.heads EXCEPT ![i] = h] \in Seq(DirHead) /\ Len([r.heads EXCEPT ![i] = h]) = Len(r.heads)
  BY <1>1, <1>2
<1>5. /\ s \in Table /\ s.ok = r.ok /\ s.clear = r.clear
      /\ s.heads = [r.heads EXCEPT ![i] = h]
  BY <1>3, <1>4 DEF Table
<1>6. QED  BY <1>4, <1>5, <1>1 DEF h, IsWithSize

LEMMA WithSizeHeads ==
  ASSUME NEW r \in Table, NEW i \in DOMAIN r.heads, NEW s, NEW size, IsWithSize(s, r, i, size)
  PROVE  /\ DOMAIN s.heads = DOMAIN r.heads
         /\ \A j \in DOMAIN r.heads : s.heads[j].index = r.heads[j].index
         /\ \A x : HasHead(s, x) <=> HasHead(r, x)
<1>1. r.heads \in Seq(DirHead) /\ s.heads \in Seq(DirHead) /\ Len(s.heads) = Len(r.heads)
  BY TableType DEF IsWithSize
<1>2. \A j \in DOMAIN r.heads : s.heads[j].index = r.heads[j].index
  <2>1. r.heads[i] \in DirHead /\ s.heads[i] = [r.heads[i] EXCEPT !.size = size]
    BY <1>1 DEF IsWithSize
  <2>2. s.heads[i].index = r.heads[i].index
    BY <2>1 DEF DirHead
  <2>3. QED  BY <2>2 DEF IsWithSize
<1>3. DOMAIN s.heads = DOMAIN r.heads
  BY <1>1
<1>4. QED  BY <1>2, <1>3 DEF HasHead

(* The commands keep the types, however they end.                           *)
LEMMA OnlyLookedType ==
  ASSUME TypeOK, NEW r \in Table, OnlyLooked(r)
  PROVE  TypeOK'
BY DEF TypeOK, OnlyLooked

LEMMA RunsWildType ==
  ASSUME TypeOK, RunsWild
  PROVE  TypeOK'
BY DEF TypeOK, RunsWild

LEMMA AbortedType ==
  ASSUME NEW r \in Table
  PROVE  Aborted(r) \in Table
BY DEF Aborted, Table

(* What a command writes when a new entry set is added.                    *)
Added(r, c, n, takes, g) ==
  LET i == Find(r, c)
      s == Traverse(r, disk, c, g)
      size == s.heads[i].size
      full == [s EXCEPT !.heads[i].size = 1]
  IN  /\ Len(disk[c]) < MaxEntries
      /\ Cardinality(Free) >= takes + 1 - size
      /\ \E grown \in {x \in SUBSET Free : Cardinality(x) = 1 - size} :
           LET new == FirstOf(Free \ grown, takes)
               e == [name |-> n, clu |-> Max(new), dir |-> TRUE, size |-> 0, linked |-> FALSE]
           IN  /\ used' = used \union grown \union new
               /\ disk' = [Resized(disk, s, i, 1) EXCEPT ![c] = Placed(@, size, <<e>>)]
               /\ root' = Reload(full, disk', c, g)
      /\ UNCHANGED <<cluster, pwd, intact>>

(* How create and mkdir end.                                                *)
LEMMA AddEntryCases ==
  ASSUME NEW r \in Table, NEW c, NEW n, NEW takes, NEW g, AddEntry(r, c, n, takes, g)
  PROVE  LET i == Find(r, c)
             s == Traverse(r, disk, c, g)
         IN  \/ OnlyLooked(Aborted(r)) /\ (~r.ok \/ i = 0)
             \/ OnlyLooked(s) /\ r.ok /\ i # 0 /\ ~s.ok
             \/ OnlyLooked(Reload(s, disk, c, g)) /\ i # 0
             \/ RunsWild
             \/ i # 0 /\ s.ok /\ ByHash(s.heads[i].kids, n) = 0 /\ ~GrowsWild(s.heads[i]) /\ Added(r, c, n, takes, g)
BY Zenon DEF AddEntry, Added

(* The free clusters are finitely many, so a command can take some.         *)
LEMMA FreeType == TypeOK => Free \subseteq Cluster /\ IsFiniteSet(Free) /\ Cardinality(Free) \in Nat
BY ChainAssumption, FS_Subset, FS_CardinalityType DEF Free

(* The entry set of a file that is made. *)
MadeEntry(n, new) == [name |-> n, clu |-> Max(new), dir |-> TRUE, size |-> 0, linked |-> FALSE]

(* Whichever clusters a growing directory takes, there is one for the new entry. *)
LEMMA AddedEntry ==
  ASSUME TypeOK, NEW size \in {0, 1}, NEW takes \in {1, 2}, Cardinality(Free) >= takes + 1 - size,
         NEW grown \in SUBSET Free, Cardinality(grown) = 1 - size, NEW n \in Name \union {NoName},
         NEW new, new = FirstOf(Free \ grown, takes)
  PROVE  /\ new \subseteq Free \ grown /\ Max(new) \in new
         /\ MadeEntry(n, new) \in Entry
<1>1. IsFiniteSet(Free) /\ Cardinality(Free) \in Nat /\ Free \subseteq Cluster
  BY FreeType
<1>2. IsFiniteSet(Free \ grown) /\ Cardinality(Free \ grown) = Cardinality(Free) - Cardinality(grown)
  <2>1. Cardinality(Free \ grown) = Cardinality(Free) - Cardinality(Free \cap grown) /\ IsFiniteSet(Free \ grown)
    BY <1>1, FS_Difference
  <2>2. Free \cap grown = grown
    OBVIOUS
  <2>3. QED  BY <2>1, <2>2
<1>3. Cardinality(Free \ grown) >= takes /\ takes \in Nat /\ takes > 0
  BY <1>1, <1>2
<1>4. new \subseteq Free \ grown /\ Max(new) \in new
  <2>1. Free \ grown \subseteq Cluster
    BY <1>1
  <2>2. QED  BY <1>3, <2>1, FreeTaken
<1>5. Max(new) \in Cluster /\ Max(new) # 0
  BY <1>1, <1>4, ChainAssumption
<1>6. QED  BY <1>4, <1>5 DEF Entry, MadeEntry

LEMMA AddEntryType ==
  ASSUME TypeOK, NEW r \in Table, NEW c, NEW n \in Name \union {NoName}, NEW takes \in {1, 2},
         NEW g \in BOOLEAN, AddEntry(r, c, n, takes, g)
  PROVE  TypeOK'
<1> DEFINE i == Find(r, c)
           s == Traverse(r, disk, c, g)
<1>1. disk \in Disks
  BY DEF TypeOK, Disks
<1>2. s \in Table
  BY <1>1, TraverseType
<1>3. CASE OnlyLooked(Aborted(r))
  BY <1>3, AbortedType, OnlyLookedType
<1>4. CASE OnlyLooked(s)
  BY <1>2, <1>4, OnlyLookedType
<1>5. CASE OnlyLooked(Reload(s, disk, c, g))
  BY <1>1, <1>2, <1>5, ReloadType, OnlyLookedType
<1>6. CASE RunsWild
  BY <1>6, RunsWildType
<1>7. CASE i # 0 /\ Added(r, c, n, takes, g)
  <2>1. HasHead(r, c) /\ HasHead(s, c)
    <3>1. HasHead(r, c)
      BY <1>7, TableType, FindHead
    <3>2. QED  BY <3>1, <1>1, TraverseType
  <2>2. i \in DOMAIN s.heads /\ c \in Cluster
    <3>1. i \in DOMAIN r.heads /\ r.heads[i].index = c /\ r.heads \in Seq(DirHead)
      BY <1>7, TableType, FindHead
    <3>2. CASE r.heads[i].cached
      <4>1. s = r
        BY <3>2, <2>1, <1>1, TraverseType
      <4>2. QED  BY <3>1, <4>1, TableType
    <3>3. CASE ~r.heads[i].cached
      <4>1. PICK es : es = Listing(disk[c], r.heads[i].size)
        OBVIOUS
      <4>2. LoadedTo(s, r, i, es, Len(es), g)
        BY <3>3, <2>1, <1>1, <4>1, TraverseLoads
      <4>3. QED  BY <4>2, <3>1, TableOfLoaded, TableType
    <3>4. QED  BY <3>2, <3>3
  <2> HIDE DEF i, s
  <2>3. PICK size \in {0, 1} : size = s.heads[i].size
    BY <1>2, <2>2, TableType
  <2>4. PICK full \in Table : full = [s EXCEPT !.heads[i].size = 1]
    <3>1. IsWithSize(WithSize(s, i, 1), s, i, 1)
      BY <1>2, <2>2, SizeSet
    <3>2. QED  BY <3>1 DEF IsWithSize, WithSize
  <2>5. /\ Cardinality(Free) >= takes + 1 - size
        /\ UNCHANGED <<cluster, pwd, intact>>
        /\ \E grown \in {x \in SUBSET Free : Cardinality(x) = 1 - size} :
             LET new == FirstOf(Free \ grown, takes)
                 e == [name |-> n, clu |-> Max(new), dir |-> TRUE, size |-> 0, linked |-> FALSE]
             IN  /\ used' = used \union grown \union new
                 /\ disk' = [Resized(disk, s, i, 1) EXCEPT ![c] = Placed(@, size, <<e>>)]
                 /\ root' = Reload(full, disk', c, g)
    BY <1>7, <2>3, <2>4, Zenon DEF Added, i, s
  <2>6. PICK grown \in SUBSET Free :
          /\ Cardinality(grown) = 1 - size
          /\ LET new == FirstOf(Free \ grown, takes)
                 e == [name |-> n, clu |-> Max(new), dir |-> TRUE, size |-> 0, linked |-> FALSE]
             IN  /\ used' = used \union grown \union new
                 /\ disk' = [Resized(disk, s, i, 1) EXCEPT ![c] = Placed(@, size, <<e>>)]
                 /\ root' = Reload(full, disk', c, g)
    BY <2>5
  <2>7. PICK new : new = FirstOf(Free \ grown, takes)
    OBVIOUS
  <2>8. PICK e : e = [name |-> n, clu |-> Max(new), dir |-> TRUE, size |-> 0, linked |-> FALSE]
    OBVIOUS
  <2>9. new \subseteq Free \ grown /\ e \in Entry
    <3>1. Cardinality(Free) >= takes + 1 - size /\ Cardinality(grown) = 1 - size
      BY <2>5, <2>6, Zenon
    <3>2. new \subseteq Free \ grown /\ MadeEntry(n, new) \in Entry
      BY ONLY TypeOK, <3>1, <2>7, size \in {0, 1}, takes \in {1, 2}, grown \in SUBSET Free,
              n \in Name \union {NoName}, AddedEntry
    <3>3. QED  BY <2>8, <3>2 DEF MadeEntry
  <2>10. PICK d \in Disks : d = Resized(disk, s, i, 1)
    BY <1>1, <1>2, <2>2, ResizedType
  <2>11. /\ used' = used \union grown \union new
         /\ disk' = [d EXCEPT ![c] = Placed(d[c], size, <<e>>)]
         /\ root' = Reload(full, disk', c, g)
    BY <2>6, <2>7, <2>8, <2>10, Zenon
  <2>12. disk' \in Disks
    <3>1. d[c] \in Seq(Entry) /\ <<e>> \in Seq(Entry)
      BY <2>2, <2>9 DEF Disks
    <3>2. Placed(d[c], size, <<e>>) \in Seq(Entry)
      BY <3>1, PlacedType
    <3>3. QED  BY <2>11, <3>2, <2>2 DEF Disks
  <2>13. root' \in Table
    BY <2>11, <2>12, ReloadType
  <2>14. used' \subseteq Cluster
    BY <2>9, <2>11, FreeType DEF TypeOK
  <2>15. QED  BY <2>5, <2>12, <2>13, <2>14 DEF TypeOK, Disks
<1>8. QED  BY <1>3, <1>4, <1>5, <1>6, <1>7, AddEntryCases

(* What a command writes when an entry set is removed.                     *)
Removed(s, c, e, n, g) ==
  LET t == Clean(s, c + 1, g)
  IN  /\ used' = used \ Released(e)
      /\ disk' = IF t.ok THEN [disk EXCEPT ![c] = Erased(@, n)] ELSE disk
      /\ root' = IF t.ok THEN Reload(t, disk', c, g) ELSE t
      /\ UNCHANGED <<cluster, pwd, intact>>

(* How rm and rmdir end.                                                    *)
LEMMA RemoveEntryCases ==
  ASSUME NEW r \in Table, NEW c, NEW n, NEW type, NEW g, RemoveEntry(r, c, n, type, g)
  PROVE  LET i == Find(r, c)
             s == Traverse(r, disk, c, g)
             k == ByHash(s.heads[i].kids, n)
             e == s.heads[i].kids[k]
         IN  \/ OnlyLooked(Aborted(r)) /\ (~r.ok \/ i = 0)
             \/ OnlyLooked(s) /\ r.ok /\ i # 0 /\ ~s.ok
             \/ OnlyLooked(Reload(s, disk, c, g)) /\ i # 0
             \/ RunsWild
             \/ i # 0 /\ s.ok /\ k # 0 /\ ~Refused(type, e) /\ ~ReleasesWild(e) /\ Removed(s, c, e, n, g)
BY Zenon DEF RemoveEntry, Removed

LEMMA TraverseHas ==
  ASSUME NEW r \in Table, NEW d \in Disks, NEW c, NEW g \in BOOLEAN, Find(r, c) # 0
  PROVE  /\ HasHead(r, c) /\ HasHead(Traverse(r, d, c, g), c)
         /\ Find(r, c) \in DOMAIN r.heads /\ Find(r, c) \in DOMAIN Traverse(r, d, c, g).heads
         /\ c \in Cluster
<1> DEFINE i == Find(r, c)
           s == Traverse(r, d, c, g)
<1>1. HasHead(r, c) /\ i \in DOMAIN r.heads /\ r.heads[i].index = c /\ r.heads \in Seq(DirHead)
  BY TableType, FindHead
<1>2. HasHead(s, c)
  BY <1>1, TraverseType
<1>3. i \in DOMAIN s.heads
  <2>1. CASE r.heads[i].cached
    <3>1. s = r
      BY <2>1, <1>1, TraverseType
    <3>2. QED  BY <1>1, <3>1
  <2>2. CASE ~r.heads[i].cached
    <3>1. PICK es : es = Listing(d[c], r.heads[i].size)
      OBVIOUS
    <3>2. LoadedTo(s, r, i, es, Len(es), g)
      BY <2>2, <1>1, <3>1, TraverseLoads
    <3>3. QED  BY <3>2, <1>1, TableOfLoaded
  <2>3. QED  BY <2>1, <2>2
<1>4. c \in Cluster
  BY <1>1, TableType
<1>5. QED  BY <1>1, <1>2, <1>3, <1>4

LEMMA RemoveEntryType ==
  ASSUME TypeOK, NEW r \in Table, NEW c, NEW n, NEW type, NEW g \in BOOLEAN, RemoveEntry(r, c, n, type, g)
  PROVE  TypeOK'
<1> DEFINE i == Find(r, c)
           s == Traverse(r, disk, c, g)
           k == ByHash(s.heads[i].kids, n)
           e == s.heads[i].kids[k]
<1>1. disk \in Disks
  BY DEF TypeOK, Disks
<1>2. s \in Table
  BY <1>1, TraverseType
<1>3. CASE OnlyLooked(Aborted(r))
  BY <1>3, AbortedType, OnlyLookedType
<1>4. CASE OnlyLooked(s)
  BY <1>2, <1>4, OnlyLookedType
<1>5. CASE OnlyLooked(Reload(s, disk, c, g))
  BY <1>1, <1>2, <1>5, ReloadType, OnlyLookedType
<1>6. CASE RunsWild
  BY <1>6, RunsWildType
<1>7. CASE i # 0 /\ Removed(s, c, e, n, g)
  <2>1. c \in Cluster
    BY <1>1, <1>7, TraverseHas
  <2> HIDE DEF i, s, e, k
  <2>2. PICK t \in Table : t = Clean(s, c + 1, g)
    BY <1>2, CleanType
  <2>3. /\ used' = used \ Released(e)
        /\ disk' = IF t.ok THEN [disk EXCEPT ![c] = Erased(@, n)] ELSE disk
        /\ root' = IF t.ok THEN Reload(t, disk', c, g) ELSE t
        /\ UNCHANGED <<cluster, pwd, intact>>
    BY <1>7, <2>2, Zenon DEF Removed
  <2>4. disk' \in Disks
    <3>1. Erased(disk[c], n) \in Seq(Entry)
      BY <1>1, <2>1, ErasedType DEF Disks
    <3>2. QED  BY <1>1, <2>1, <2>3, <3>1 DEF Disks
  <2>5. root' \in Table
    BY <2>3, <2>4, ReloadType
  <2>6. used' \subseteq Cluster
    BY <2>3 DEF TypeOK
  <2>7. QED  BY <2>3, <2>4, <2>5, <2>6 DEF TypeOK, Disks
<1>8. QED  BY <1>3, <1>4, <1>5, <1>6, <1>7, RemoveEntryCases

LEMMA TrimType ==
  ASSUME TypeOK, NEW g, Trim(g)
  PROVE  TypeOK'
<1> DEFINE i == Find(root, cluster)
           h == root.heads[i]
<1>1. disk \in Disks /\ root \in Table
  BY DEF TypeOK, Disks
<1>2. \/ OnlyLooked(Aborted(root))
      \/ RunsWild
      \/ OnlyLooked(root)
      \/ used' = used \ {cluster} /\ UNCHANGED <<disk, root, cluster, pwd, intact>>
      \/ /\ i # 0 /\ root' = [root EXCEPT !.heads[i].size = 0]
         /\ disk' = Resized(disk, root, i, 0) /\ UNCHANGED <<used, cluster, pwd, intact>>
  BY Zenon DEF Trim
<1>3. CASE OnlyLooked(Aborted(root)) \/ RunsWild \/ OnlyLooked(root)
  BY <1>1, <1>3, AbortedType, RunsWildType, OnlyLookedType
<1>4. CASE used' = used \ {cluster} /\ UNCHANGED <<disk, root, cluster, pwd, intact>>
  BY <1>4 DEF TypeOK
<1>5. CASE /\ i # 0 /\ root' = [root EXCEPT !.heads[i].size = 0]
           /\ disk' = Resized(disk, root, i, 0) /\ UNCHANGED <<used, cluster, pwd, intact>>
  <2>1. i \in DOMAIN root.heads
    BY <1>1, <1>5, FindHead, TableType
  <2>2. IsWithSize(WithSize(root, i, 0), root, i, 0)
    BY <1>1, <2>1, SizeSet
  <2>3. root' \in Table
    BY <1>5, <2>2 DEF IsWithSize, WithSize
  <2>4. disk' \in Disks
    BY <1>1, <1>5, <2>1, ResizedType
  <2>5. QED  BY <1>5, <2>3, <2>4 DEF TypeOK, Disks
<1>6. QED  BY <1>2, <1>3, <1>4, <1>5

(* The entry set of a file that fill makes. *)
FilledEntry(n) == [name |-> n, clu |-> 0, dir |-> FALSE, size |-> 0, linked |-> FALSE]

FillGrows(n, g, i, h) ==
  /\ ByName(disk[cluster], n) = 0
  /\ Len(disk[cluster]) < MaxEntries
  /\ \E grown \in {x \in SUBSET Free : Cardinality(x) = 1 - h.size}, new \in {<<>>, <<FilledEntry(n)>>} :
       /\ used' = used \union grown
       /\ disk' = [Resized(disk, root, i, 1) EXCEPT ![cluster] = Placed(@, h.size, new)]
       /\ root' = Reload([root EXCEPT !.heads[i].size = 1], disk', cluster, g)
  /\ UNCHANGED <<cluster, pwd, intact>>

(* How fill ends.                                                           *)
LEMMA FillCases ==
  ASSUME NEW n, NEW g, Fill(n, g)
  PROVE  LET i == Find(root, cluster)
             h == root.heads[i]
         IN  \/ OnlyLooked(Aborted(root)) /\ i = 0
             \/ OnlyLooked(Reload(root, disk, cluster, g)) /\ i # 0
             \/ RunsWild
             \/ i # 0 /\ ~GrowsWild(h) /\ FillGrows(n, g, i, h)
BY Zenon DEF Fill, FillGrows, FilledEntry

LEMMA FillType ==
  ASSUME TypeOK, NEW n \in Name, NEW g \in BOOLEAN, Fill(n, g)
  PROVE  TypeOK'
<1> DEFINE i == Find(root, cluster)
           h == root.heads[i]
<1>1. disk \in Disks /\ root \in Table
  BY DEF TypeOK, Disks
<1>2. CASE OnlyLooked(Aborted(root)) \/ RunsWild
  BY <1>1, <1>2, AbortedType, RunsWildType, OnlyLookedType
<1>3. CASE OnlyLooked(Reload(root, disk, cluster, g))
  BY <1>1, <1>3, ReloadType, OnlyLookedType
<1>4. CASE i # 0 /\ FillGrows(n, g, i, h)
  <2>1. i \in DOMAIN root.heads /\ cluster \in Cluster
    BY <1>1, <1>4, FindHead, TableType
  <2>2. PICK full \in Table : full = [root EXCEPT !.heads[i].size = 1]
    <3>1. IsWithSize(WithSize(root, i, 1), root, i, 1)
      BY <1>1, <2>1, SizeSet
    <3>2. QED  BY <3>1 DEF IsWithSize, WithSize
  <2>3. PICK d \in Disks : d = Resized(disk, root, i, 1)
    BY <1>1, <2>1, ResizedType
  <2> HIDE DEF i, h
  <2>4. PICK grown \in {x \in SUBSET Free : Cardinality(x) = 1 - h.size}, new \in {<<>>, <<FilledEntry(n)>>} :
          /\ used' = used \union grown
          /\ disk' = [d EXCEPT ![cluster] = Placed(d[cluster], h.size, new)]
          /\ root' = Reload(full, disk', cluster, g)
    BY <1>4, <2>2, <2>3, Zenon DEF FillGrows
  <2>5. UNCHANGED <<cluster, pwd, intact>>
    BY <1>4 DEF FillGrows
  <2>6. FilledEntry(n) \in Entry
    BY DEF FilledEntry, Entry
  <2>7. disk' \in Disks
    <3>0. new \in Seq(Entry)
      <4>1. <<FilledEntry(n)>> \in Seq(Entry) /\ <<>> \in Seq(Entry)
        BY <2>6
      <4>2. QED  BY <4>1
    <3>1. d[cluster] \in Seq(Entry) /\ new \in Seq(Entry)
      BY <2>1, <3>0 DEF Disks
    <3>2. Placed(d[cluster], h.size, new) \in Seq(Entry)
      BY <3>1, PlacedType
    <3>3. QED  BY <2>4, <3>2, <2>1 DEF Disks
  <2>8. root' \in Table
    BY <2>4, <2>7, ReloadType
  <2>9. used' \subseteq Cluster
    BY <2>4, FreeType DEF TypeOK
  <2>10. QED  BY <2>5, <2>7, <2>8, <2>9 DEF TypeOK, Disks
<1>5. QED  BY <1>2, <1>3, <1>4, FillCases

LEMMA StartedType ==
  ASSUME NEW d \in Disks, NEW g \in BOOLEAN
  PROVE  Started(d, g) \in Table
<1>1. Fresh(g) \in Table
  <2>1. [index |-> Root, up |-> 0, size |-> 1, linked |-> TRUE, cached |-> g, kids |-> <<>>] \in DirHead
    BY ChainAssumption DEF DirHead
  <2>2. QED  BY <2>1, ChainAssumption DEF Fresh, Table
<1>2. QED  BY <1>1, TraverseType DEF Started

(* The parts of a formatted path.                                           *)
LEMMA PathType ==
  ASSUME TypeOK, NEW p \in Paths
  PROVE  /\ FormatPath(p) \in Seq(Name)
         /\ DirName(FormatPath(p)) \in Seq(Name)
         /\ FileName(FormatPath(p)) \in Name \union {NoName}
         /\ FormatPath(p) # <<>> => FileName(FormatPath(p)) \in Name
<1>1. p.names \in Seq(Name) /\ pwd \in Seq(Name)
  BY ShellAssumption DEF TypeOK
<1>2. PICK q \in Seq(Name) : q = FormatPath(p)
  <2>1. pwd \o p.names \in Seq(Name)
    BY <1>1
  <2>2. FormatPath(p) = p.names \/ FormatPath(p) = pwd \o p.names
    BY Zenon DEF FormatPath
  <2>3. QED  BY <1>1, <2>1, <2>2
<1>3. q # <<>> => Last(q) \in Name /\ Front(q) \in Seq(Name)
  BY DEF Last, Front
<1>4. DirName(q) \in Seq(Name) /\ FileName(q) \in Name \union {NoName} /\ (q # <<>> => FileName(q) \in Name)
  BY <1>3 DEF DirName, FileName
<1>5. QED  BY <1>2, <1>4

LEMMA LookupType ==
  ASSUME NEW r \in Table, NEW d \in Disks, NEW c \in Cluster \union {0, Missing}, NEW p \in Seq(Name),
         NEW g \in BOOLEAN
  PROVE  Lookup(r, d, c, p, g) \in Places
<1>1. Len(p) \in Nat /\ Len(p) \in 0..Len(p)
  OBVIOUS
<1>2. PICK h \in [0..Len(p) -> Places] : LooksUp(h, r, d, c, p, g)
  BY <1>1, LookupSteps, Zenon
<1>3. Lookup(r, d, c, p, g) = h[Len(p)]
  BY <1>2, Zenon DEF LooksUp
<1>4. QED  BY <1>1, <1>3

LEMMA LocatedType ==
  ASSUME TypeOK, NEW p \in Seq(Name), DirName(p) \in Seq(Name), NEW g \in BOOLEAN
  PROVE  Located(p, g) \in Places
<1>1. disk \in Disks /\ root \in Table /\ cluster \in Cluster \union {0} /\ Root \in Cluster
  BY ChainAssumption DEF TypeOK, Disks
<1>2. Lookup(root, disk, Root, DirName(p), g) \in Places
  BY <1>1, LookupType
<1>3. QED  BY <1>1, <1>2 DEF Located, Places

-----------------------------------------------------------------------------
(* The commands, whether or not they are used with care.                   *)
Moves(g) ==
  \/ Restart(g)
  \/ List(g)
  \/ ChangeHome
  \/ Trim(g)
  \/ \E n \in Name : Fill(n, g)
  \/ \E p \in Paths : \/ ChangeDir(p, g)
                      \/ Look(p, g)
                      \/ Create(p, g)
                      \/ Mkdir(p, g)
                      \/ RemoveFile(p, g)
                      \/ Rmdir(p, g)

(* Every command keeps the types.                                           *)
LEMMA MovesType ==
  ASSUME TypeOK, NEW g \in BOOLEAN, Moves(g)
  PROVE  TypeOK'
<1>1. disk \in Disks /\ root \in Table /\ Root \in Cluster
  BY ChainAssumption DEF TypeOK, Disks
<1>2. CASE Restart(g)
  <2>1. Started(disk, g) \in Table /\ <<>> \in Seq(Name)
    BY <1>1, StartedType
  <2>2. QED  BY <1>1, <1>2, <2>1 DEF Restart, TypeOK
<1>3. CASE List(g)
  <2>1. Traverse(root, disk, cluster, g) \in Table
    BY <1>1, TraverseType
  <2>2. QED  BY <1>3, <2>1, OnlyLookedType DEF List
<1>4. CASE ChangeHome
  BY <1>1, <1>4 DEF ChangeHome, TypeOK
<1>5. CASE Trim(g)
  BY <1>5, TrimType
<1>6. ASSUME NEW n \in Name, Fill(n, g) PROVE TypeOK'
  BY <1>6, FillType
<1>7. ASSUME NEW p \in Paths PROVE
        /\ Located(FormatPath(p), g) \in Places
        /\ FileName(FormatPath(p)) \in Name \union {NoName}
        /\ FormatPath(p) \in Seq(Name)
  BY PathType, LocatedType
<1>8. ASSUME NEW p \in Paths, ChangeDir(p, g) PROVE TypeOK'
  <2>1. PICK to \in Places : to = Lookup(root, disk, Root, FormatPath(p), g)
    BY <1>1, <1>7, LookupType
  <2>2. to.tab \in Table /\ (to.clu # Missing => to.clu \in Cluster \union {0})
    BY DEF Places
  <2>3. /\ root' = to.tab
        /\ IF to.tab.ok /\ to.clu # Missing
           THEN cluster' = to.clu /\ pwd' = FormatPath(p)
           ELSE UNCHANGED <<cluster, pwd>>
        /\ UNCHANGED <<disk, used, intact>>
    BY <1>8, <2>1, Zenon DEF ChangeDir
  <2>4. QED  BY <1>7, <2>2, <2>3 DEF TypeOK
<1>9. ASSUME NEW p \in Paths, Look(p, g) PROVE TypeOK'
  <2>1. PICK at \in Places : at = Located(FormatPath(p), g)
    BY <1>7
  <2>2. at.tab \in Table /\ Traverse(at.tab, disk, at.clu, g) \in Table
    BY <1>1, TraverseType DEF Places
  <2>3. \/ OnlyLooked(at.tab) \/ OnlyLooked(Traverse(at.tab, disk, at.clu, g))
    BY <1>9, <2>1, Zenon DEF Look
  <2>4. QED  BY <2>2, <2>3, OnlyLookedType
<1>10. ASSUME NEW p \in Paths, Create(p, g) \/ Mkdir(p, g) PROVE TypeOK'
  <2>1. PICK at \in Places : at = Located(FormatPath(p), g)
    BY <1>7
  <2>2. at.tab \in Table
    BY DEF Places
  <2>3. \E takes \in {1, 2} : AddEntry(at.tab, at.clu, FileName(FormatPath(p)), takes, g)
    BY <1>10, <2>1 DEF Create, Mkdir
  <2>4. QED  BY <1>7, <2>2, <2>3, AddEntryType
<1>11. ASSUME NEW p \in Paths, RemoveFile(p, g) \/ Rmdir(p, g) PROVE TypeOK'
  <2>1. PICK at \in Places : at = Located(FormatPath(p), g)
    BY <1>7
  <2>2. at.tab \in Table
    BY DEF Places
  <2>3. \E type \in {"file", "dir"} : RemoveEntry(at.tab, at.clu, FileName(FormatPath(p)), type, g)
    BY <1>11, <2>1 DEF RemoveFile, Rmdir
  <2>4. QED  BY <2>2, <2>3, RemoveEntryType
<1>12. QED  BY <1>2, <1>3, <1>4, <1>5, <1>6, <1>8, <1>9, <1>10, <1>11 DEF Moves

LEMMA InitType == Init => TypeOK
<1> SUFFICES ASSUME Init PROVE TypeOK
  OBVIOUS
<1>1. PICK m \in Images, g \in Garbage :
        /\ disk = m.disk /\ used = m.used /\ root = Started(m.disk, g)
        /\ cluster = Root /\ pwd = <<>> /\ intact = TRUE
  BY DEF Init
<1>2. disk \in Disks /\ used \subseteq Cluster /\ g \in BOOLEAN
  BY <1>1, ShellAssumption DEF Disks
<1>3. root \in Table
  BY <1>1, <1>2, StartedType
<1>4. QED  BY <1>1, <1>2, <1>3, ChainAssumption DEF TypeOK, Disks

(* A step, of careful use or of any, is a command.                          *)
LEMMA NextMoves ==
  /\ Next => \E g \in BOOLEAN : Moves(g)
  /\ Zeroed /\ CarefulNext => Moves(FALSE)
<1>1. Garbage \subseteq BOOLEAN
  BY ShellAssumption
<1>2. Next => \E g \in BOOLEAN : Moves(g)
  BY <1>1 DEF Next, Command, Moves
<1>3. Zeroed /\ CarefulNext => Moves(FALSE)
  BY DEF CarefulNext, Moves, Zeroed
<1>4. QED  BY <1>2, <1>3

(* Whatever commands are typed, in whatever order and with whatever malloc  *)
(* left in memory, the disk, the bitmap, the table of directory heads and   *)
(* PWD have the types TypeOK names: no command of exfat.c makes a child, a  *)
(* head or a path of the shell that is none.                                *)
THEOREM TypeCorrect == Spec => []TypeOK
<1>1. TypeOK /\ [Next]_vars => TypeOK'
  <2> SUFFICES ASSUME TypeOK, [Next]_vars PROVE TypeOK'
    OBVIOUS
  <2>1. CASE Next
    BY <2>1, NextMoves, MovesType
  <2>2. CASE UNCHANGED vars
    BY <2>2 DEF vars, TypeOK
  <2>3. QED  BY <2>1, <2>2
<1>2. QED  BY <1>1, InitType, PTL DEF Spec

(* What the directory at c holds that a path can lead to. *)
Held(d, D, c) == IF c \in D THEN d[c] ELSE <<>>

(* The child a in memory says of a file what its entry set b on disk says. *)
Like(a, b) ==
  /\ a.name = b.name /\ a.clu = b.clu /\ a.dir = b.dir /\ a.linked = b.linked
  /\ a.size = 0 /\ ~a.linked => b.size = 0

KidsAre(h, d, D) ==
  /\ Len(h.kids) = Len(Held(d, D, h.index))
  /\ \A k \in DOMAIN h.kids : Like(h.kids[k], Held(d, D, h.index)[k])

(* A head of a directory with a cluster has its size, and of another there *)
(* is nothing to be read.                                                  *)
SizeTrue(h, d, D) ==
  /\ h.index \in D => h.size = 1
  /\ h.index \notin D => h.size = 0 \/ d[h.index] = <<>>

(* The head of a linked directory says what its entry set says, and where  *)
(* that is: the parent's number is used to write a size back.              *)
LinkedTrue(r, h, d, D) ==
  \A b \in D : \A k \in DOMAIN d[b] :
    d[b][k].clu = h.index /\ d[b][k].dir /\ d[b][k].linked =>
      h.linked /\ h.size = d[b][k].size /\ h.up = b /\ HasHead(r, b)

KidsTrue(h, d, D) == IF h.cached THEN KidsAre(h, d, D) ELSE h.kids = <<>>

KidsHeaded(r, h) == \A k \in DOMAIN h.kids : h.kids[k].dir => HasHead(r, h.kids[k].clu)

HeadTrue(r, h, d, D) ==
  SizeTrue(h, d, D) /\ LinkedTrue(r, h, d, D) /\ KidsTrue(h, d, D) /\ KidsHeaded(r, h)

OneHeadEach(r) == \A i, j \in DOMAIN r.heads : r.heads[i].index = r.heads[j].index => i = j

(* The directory chain is true to the disk. *)
Mem(r, d, D) ==
  /\ r \in Table /\ r.ok
  /\ HasHead(r, Root)
  /\ OneHeadEach(r)
  /\ \A i \in DOMAIN r.heads : HeadTrue(r, r.heads[i], d, D)

-----------------------------------------------------------------------------
(* What Sound says of one entry set, and of two.                            *)
LEMMA SoundEntry ==
  ASSUME NEW d, NEW u, NEW D, Sound(d, u, D), NEW c \in D, NEW k \in DOMAIN d[c]
  PROVE  /\ d[c][k].name # NoName
         /\ d[c][k].clu \in (u \ {Root}) \union {0}
         /\ d[c][k].clu \in D <=> d[c][k].dir /\ d[c][k].size = 1
         /\ d[c][k].dir /\ d[c][k].linked /\ d[c][k].size = 0 => d[d[c][k].clu] = <<>>
BY DEF Sound

LEMMA SoundOnce ==
  ASSUME NEW d, NEW u, NEW D, Sound(d, u, D), NEW b \in D, NEW c \in D,
         NEW j \in DOMAIN d[b], NEW k \in DOMAIN d[c], d[b][j].clu = d[c][k].clu, d[b][j].clu # 0
  PROVE  b = c /\ j = k
BY DEF Sound

(* Where every entry set has a name, all of a directory is listed.         *)
LEMMA ListedIsHeld ==
  ASSUME NEW d \in Disks, NEW u, NEW D \in SUBSET Cluster, Sound(d, u, D), NEW c \in Cluster, NEW size \in {0, 1},
         c \in D => size = 1, c \notin D => size = 0 \/ d[c] = <<>>
  PROVE  Listing(d[c], size) = Held(d, D, c)
<1>1. d[c] \in Seq(Entry)
  BY DEF Disks
<1>2. PICK n : n = ByName(d[c], NoName)
  OBVIOUS
<1>3. Listing(d[c], size) = IF size = 0 THEN <<>> ELSE IF n = 0 THEN d[c] ELSE SubSeq(d[c], 1, n - 1)
  BY <1>2, Zenon DEF Listing
<1>4. (\A k \in DOMAIN d[c] : d[c][k].name # NoName) => n = 0
  BY <1>1, <1>2, NameFound
<1>5. CASE c \in D
  BY <1>3, <1>4, <1>5, SoundEntry DEF Held
<1>6. CASE c \notin D
  BY <1>3, <1>4, <1>6 DEF Held
<1>7. QED  BY <1>5, <1>6

LEMMA LikeItself == \A e : Like(e, e)
BY DEF Like

(* A table that has the heads r has, as r has them but for the one at i,   *)
(* and perhaps more, is true in what it says of the others.                *)
LEMMA HeadKept ==
  ASSUME NEW r, NEW s, NEW h, NEW d, NEW D, HeadTrue(r, h, d, D), \A x : HasHead(r, x) => HasHead(s, x)
  PROVE  HeadTrue(s, h, d, D)
BY DEF HeadTrue, LinkedTrue, KidsHeaded

(* The head a traversal makes is true. *)
LEMMA NewHeadTrue ==
  ASSUME NEW d \in Disks, NEW u, NEW D \in SUBSET Cluster, Sound(d, u, D), NEW c \in D, NEW m \in DOMAIN d[c],
         d[c][m].dir, NEW g, ~g, NEW r, HasHead(r, c), NEW h, h = NewHead(c, d[c][m], g)
  PROVE  HeadTrue(r, h, d, D)
<1>1. d[c] \in Seq(Entry) /\ d[c][m] \in Entry
  BY DEF Disks
<1>2. /\ h.index = d[c][m].clu /\ h.up = c /\ h.size = d[c][m].size /\ h.linked = d[c][m].linked
      /\ ~h.cached /\ h.kids = <<>>
  BY DEF NewHead
<1>3. d[c][m].clu # 0 /\ d[c][m].size \in {0, 1} /\ d[c][m].clu \in Cluster
  BY <1>1, TableType, ChainAssumption
<1>4. SizeTrue(h, d, D)
  BY <1>2, <1>3, SoundEntry DEF SizeTrue
<1>5. LinkedTrue(r, h, d, D)
  <2>1. ASSUME NEW b \in D, NEW k \in DOMAIN d[b], d[b][k].clu = h.index
        PROVE  b = c /\ k = m
    BY <2>1, <1>2, <1>3, SoundOnce
  <2>2. QED  BY <1>2, <2>1 DEF LinkedTrue
<1>6. KidsTrue(h, d, D) /\ KidsHeaded(r, h)
  BY <1>2 DEF KidsTrue, KidsHeaded
<1>7. QED  BY <1>4, <1>5, <1>6 DEF HeadTrue

(* What memory has of the directory e is what its dentry says.             *)
Agrees(r, e) ==
  \A i \in DOMAIN r.heads : r.heads[i].index = e.clu => r.heads[i].size = e.size /\ r.heads[i].linked = e.linked

(* t is what a command that only reads makes of r. *)
ReadFrom(t, r, d, D) ==
  /\ Mem(t, d, D)
  /\ \A x : HasHead(r, x) => HasHead(t, x)
  /\ \A b \in D : \A k \in DOMAIN d[b] : d[b][k].dir /\ Agrees(r, d[b][k]) => Agrees(t, d[b][k])

(* What Mem says of the head in a slot.                                     *)
LEMMA HeadIs ==
  ASSUME NEW d, NEW D, NEW r, Mem(r, d, D), NEW i, i \in DOMAIN r.heads
  PROVE  /\ r \in Table /\ r.heads[i] \in DirHead /\ r.heads[i].index \in Cluster
         /\ HeadTrue(r, r.heads[i], d, D)
         /\ r.heads[i].index \in D => r.heads[i].size = 1
         /\ r.heads[i].index \notin D => r.heads[i].size = 0 \/ d[r.heads[i].index] = <<>>
         /\ Find(r, r.heads[i].index) = i
<1>1. r \in Table /\ r.heads \in Seq(DirHead) /\ r.heads[i] \in DirHead /\ HeadTrue(r, r.heads[i], d, D)
  BY TableType DEF Mem
<1>2. r.heads[i].index \in Cluster
  BY <1>1, TableType
<1>3. Find(r, r.heads[i].index) = i
  <2>1. HasHead(r, r.heads[i].index)
    BY DEF HasHead
  <2>2. Find(r, r.heads[i].index) \in DOMAIN r.heads
        /\ r.heads[Find(r, r.heads[i].index)].index = r.heads[i].index
    BY <1>1, <2>1, FindHead
  <2>3. QED  BY <2>2 DEF Mem, OneHeadEach
<1>4. QED  BY <1>1, <1>2, <1>3 DEF HeadTrue, SizeTrue

(* What traverse would take of a directory is what it holds. *)
LEMMA HeadLists ==
  ASSUME NEW d \in Disks, NEW u, NEW D \in SUBSET Cluster, Sound(d, u, D), NEW r, Mem(r, d, D),
         NEW i \in DOMAIN r.heads
  PROVE  Listing(d[r.heads[i].index], r.heads[i].size) = Held(d, D, r.heads[i].index)
<1>1. r.heads[i].size \in {0, 1}
  BY HeadIs, TableType
<1>2. QED  BY <1>1, HeadIs, ListedIsHeld

(* Loading a directory keeps memory true to the disk.                       *)
LEMMA MemLoaded ==
  ASSUME NEW d \in Disks, NEW u, NEW D \in SUBSET Cluster, Sound(d, u, D), NEW r, Mem(r, d, D),
         NEW i \in DOMAIN r.heads, ~r.heads[i].cached, NEW es, es = Held(d, D, r.heads[i].index),
         NEW g \in BOOLEAN, ~g, NEW t, LoadedTo(t, r, i, es, Len(es), g)
  PROVE  ReadFrom(t, r, d, D) /\ KidsAre(t.heads[i], d, D)
<1> DEFINE c == r.heads[i].index
<1>0. /\ r \in Table /\ c \in Cluster /\ r.heads \in Seq(DirHead) /\ Len(r.heads) \in Nat /\ HeadTrue(r, r.heads[i], d, D)
      /\ r.ok /\ OneHeadEach(r) /\ HasHead(r, Root)
  BY HeadIs, TableType DEF Mem
<1>1. /\ t \in Table /\ i \in DOMAIN t.heads /\ (\A x : HasHead(r, x) => HasHead(t, x))
      /\ DOMAIN t.heads = 1..Len(t.heads) /\ Len(t.heads) \in Nat /\ Len(r.heads) <= Len(t.heads) /\ t.heads \in Seq(DirHead)
  <2>1. t \in Table /\ i \in DOMAIN t.heads /\ \A x : HasHead(r, x) => HasHead(t, x)
    BY <1>0, TableOfLoaded
  <2>2. QED  BY <2>1, TableType, SMTT(40) DEF LoadedTo
<1>2. es \in Seq(Entry) /\ Len(es) \in Nat /\ DOMAIN es = 1..Len(es)
  <2>1. es \in Seq(Entry)
    BY <1>0 DEF Held, Disks
  <2>2. QED  BY <2>1
<1>3. r.heads[i].kids = <<>>
  BY <1>0 DEF HeadTrue, KidsTrue
<1>4. /\ t.heads[i].index = c /\ t.heads[i].up = r.heads[i].up
      /\ t.heads[i].size = r.heads[i].size /\ t.heads[i].linked = r.heads[i].linked
      /\ t.heads[i].kids \in Seq(Entry) /\ Len(t.heads[i].kids) = Len(es)
      /\ \A m \in 1..Len(es) : t.heads[i].kids[m] = es[m]
  <2>1. t.heads[i].kids \in Seq(Entry)
    BY <1>1, TableType
  <2>2. Len(t.heads[i].kids) = Len(es) /\ \A m \in 1..Len(es) : t.heads[i].kids[0 + m] = es[m]
    BY <1>2, <1>3, SMTT(40) DEF LoadedTo
  <2>3. \A m \in 1..Len(es) : 0 + m = m
    BY <1>2
  <2>4. QED  BY <2>1, <2>2, <2>3, ZenonT(40) DEF LoadedTo
<1>5. KidsAre(t.heads[i], d, D)
  <2>1. \A k \in DOMAIN t.heads[i].kids : Like(t.heads[i].kids[k], Held(d, D, c)[k])
    BY <1>2, <1>4, LikeItself
  <2>2. QED  BY <1>4, <2>1 DEF KidsAre
<1>6. HeadTrue(t, t.heads[i], d, D)
  <2>1. SizeTrue(t.heads[i], d, D)
    BY <1>0, <1>4 DEF HeadTrue, SizeTrue
  <2>2. LinkedTrue(t, t.heads[i], d, D)
    BY <1>0, <1>1, <1>4 DEF HeadTrue, LinkedTrue
  <2>3. KidsTrue(t.heads[i], d, D)
    <3>1. CASE Len(es) = 0
      <4>1. t = r
        BY <3>1 DEF LoadedTo
      <4>2. QED  BY <4>1, <1>0 DEF HeadTrue
    <3>2. CASE Len(es) # 0
      <4>1. t.heads[i].cached
        BY <3>2, <1>2, SMTT(40) DEF LoadedTo
      <4>2. QED  BY <4>1, <1>5 DEF KidsTrue
    <3>3. QED  BY <3>1, <3>2
  <2>4. KidsHeaded(t, t.heads[i])
    <3>1. \A m \in 1..Len(es) : es[m].dir => HasHead(t, es[m].clu)
      BY DEF LoadedTo
    <3>2. \A k \in DOMAIN t.heads[i].kids : k \in 1..Len(es)
      BY <1>4
    <3>3. QED  BY <1>4, <3>1, <3>2 DEF KidsHeaded
  <2>5. QED  BY <2>1, <2>2, <2>3, <2>4 DEF HeadTrue
<1>7. ASSUME NEW j \in DOMAIN t.heads, j \notin DOMAIN r.heads
      PROVE  /\ ~HasHead(r, t.heads[j].index)
             /\ \E m \in DOMAIN d[c] : c \in D /\ d[c][m].dir /\ t.heads[j] = NewHead(c, d[c][m], g)
             /\ \A l \in DOMAIN t.heads : t.heads[l].index = t.heads[j].index => l = j
  <2>1. j > Len(r.heads)
    BY <1>0, <1>1, <1>7
  <2>2. PICK m \in 1..Len(es) : es[m].dir /\ t.heads[j] = NewHead(r.heads[i].index, es[m], g)
    BY <2>1 DEF LoadedTo
  <2>3. c \in D /\ es = d[c] /\ m \in DOMAIN d[c]
    BY <1>2, <2>2, SMTT(40) DEF Held
  <2>4. ~HasHead(r, t.heads[j].index) /\ \A l \in DOMAIN t.heads : t.heads[l].index = t.heads[j].index => l = j
    BY <2>1 DEF LoadedTo
  <2>5. \E x \in DOMAIN d[c] : c \in D /\ d[c][x].dir /\ t.heads[j] = NewHead(c, d[c][x], g)
    BY <2>2, <2>3
  <2>6. QED  BY <2>4, <2>5
<1>8. ASSUME NEW j \in DOMAIN t.heads PROVE HeadTrue(t, t.heads[j], d, D)
  <2>1. CASE j = i
    BY <2>1, <1>6
  <2>2. CASE j \in DOMAIN r.heads /\ j # i
    <3>1. t.heads[j] = r.heads[j]
      BY <2>2 DEF LoadedTo
    <3>2. HeadTrue(r, r.heads[j], d, D)
      BY <2>2, HeadIs
    <3>3. QED  BY <3>1, <3>2, <1>1, HeadKept
  <2>3. CASE j \notin DOMAIN r.heads
    <3>1. PICK m \in DOMAIN d[c] : c \in D /\ d[c][m].dir /\ t.heads[j] = NewHead(c, d[c][m], g)
      BY <2>3, <1>7
    <3>2. HasHead(t, c)
      BY <1>1, <1>4 DEF HasHead
    <3> HIDE DEF c
    <3>3. QED  BY <3>1, <3>2, NewHeadTrue
  <2>4. QED  BY <2>1, <2>2, <2>3
<1>9. \A j \in DOMAIN r.heads : /\ t.heads[j].index = r.heads[j].index
                                /\ t.heads[j].size = r.heads[j].size /\ t.heads[j].linked = r.heads[j].linked
  BY <1>4 DEF LoadedTo
<1>10. OneHeadEach(t)
  <2>1. ASSUME NEW j \in DOMAIN t.heads, NEW l \in DOMAIN t.heads, t.heads[j].index = t.heads[l].index
        PROVE  j = l
    <3>1. CASE j \in DOMAIN r.heads /\ l \in DOMAIN r.heads
      BY <2>1, <3>1, <1>9, <1>0 DEF OneHeadEach
    <3>2. CASE j \notin DOMAIN r.heads
      BY <2>1, <3>2, <1>7
    <3>3. CASE l \notin DOMAIN r.heads
      BY <2>1, <3>3, <1>7
    <3>4. QED  BY <3>1, <3>2, <3>3
  <2>2. QED  BY <2>1 DEF OneHeadEach
<1>11. t.ok
  BY <1>0 DEF LoadedTo
<1>12. Mem(t, d, D)
  BY <1>0, <1>1, <1>8, <1>10, <1>11 DEF Mem
<1>13. ASSUME NEW b \in D, NEW k \in DOMAIN d[b], d[b][k].dir, Agrees(r, d[b][k]), NEW j \in DOMAIN t.heads,
              t.heads[j].index = d[b][k].clu
       PROVE  t.heads[j].size = d[b][k].size /\ t.heads[j].linked = d[b][k].linked
  <2>1. CASE j \in DOMAIN r.heads
    BY <2>1, <1>9, <1>13 DEF Agrees
  <2>2. CASE j \notin DOMAIN r.heads
    <3>1. PICK m \in DOMAIN d[c] : c \in D /\ d[c][m].dir /\ t.heads[j] = NewHead(c, d[c][m], g)
      BY <2>2, <1>7
    <3>2. t.heads[j].index = d[c][m].clu /\ t.heads[j].size = d[c][m].size /\ t.heads[j].linked = d[c][m].linked
      BY <3>1, SMTT(40) DEF NewHead
    <3>3. d[c][m].clu # 0
      BY <3>1, <3>2, <1>1, TableType, ChainAssumption, SMTT(40)
    <3>4. c = b /\ m = k
      <4>1. c \in D /\ m \in DOMAIN d[c] /\ d[c][m].clu = d[b][k].clu
        BY <3>1, <3>2, <1>13
      <4> HIDE DEF c
      <4>2. QED  BY <4>1, <3>3, SoundOnce
    <3>5. QED  BY <3>2, <3>4
  <2>3. QED  BY <2>1, <2>2
<1>14. ReadFrom(t, r, d, D)
  <2>1. \A b \in D : \A k \in DOMAIN d[b] : d[b][k].dir /\ Agrees(r, d[b][k]) => Agrees(t, d[b][k])
    BY <1>13 DEF Agrees
  <2>2. QED  BY <1>1, <1>12, <2>1 DEF ReadFrom
<1>15. QED  BY <1>5, <1>14

(* So does exfat_traverse_directory, which leaves its head loaded.          *)
LEMMA MemTraverse ==
  ASSUME NEW d \in Disks, NEW u, NEW D \in SUBSET Cluster, Sound(d, u, D), NEW r, Mem(r, d, D),
         NEW c, HasHead(r, c), NEW g \in BOOLEAN, ~g, NEW t, t = Traverse(r, d, c, g)
  PROVE  /\ ReadFrom(t, r, d, D)
         /\ Find(t, c) \in DOMAIN t.heads /\ t.heads[Find(t, c)].index = c /\ KidsAre(t.heads[Find(t, c)], d, D)
<1>1. PICK i : i = Find(r, c)
  OBVIOUS
<1>2. r \in Table /\ i \in DOMAIN r.heads /\ r.heads[i].index = c /\ c \in Cluster
  <2>1. r \in Table /\ r.heads \in Seq(DirHead)
    BY TableType DEF Mem
  <2>2. i \in DOMAIN r.heads /\ r.heads[i].index = c
    BY <1>1, <2>1, FindHead
  <2>3. QED  BY <2>1, <2>2, HeadIs
<1>3. CASE r.heads[i].cached
  <2>1. t = r
    BY <1>1, <1>2, <1>3, TraverseType
  <2>2. ReadFrom(r, r, d, D)
    BY DEF ReadFrom
  <2>3. KidsAre(r.heads[i], d, D)
    BY <1>2, <1>3, HeadIs DEF HeadTrue, KidsTrue
  <2>4. QED  BY <1>1, <1>2, <2>1, <2>2, <2>3
<1>4. CASE ~r.heads[i].cached
  <2>1. PICK es : es = Listing(d[c], r.heads[i].size)
    OBVIOUS
  <2>2. LoadedTo(t, r, i, es, Len(es), g)
    BY <1>1, <1>2, <1>4, <2>1, TraverseLoads
  <2>3. es = Held(d, D, c)
    BY <1>2, <2>1, HeadLists
  <2>4. ReadFrom(t, r, d, D) /\ KidsAre(t.heads[i], d, D)
    BY <1>2, <1>4, <2>2, <2>3, MemLoaded
  <2>5. t.heads[i].index = c /\ i \in DOMAIN t.heads
    BY <1>2, <2>2, TableOfLoaded, SMTT(40) DEF LoadedTo
  <2>6. Find(t, c) = i
    BY <2>4, <2>5, HeadIs DEF ReadFrom
  <2>7. QED  BY <2>4, <2>5, <2>6
<1>5. QED  BY <1>3, <1>4

LEMMA ReadFromTwice ==
  ASSUME NEW r, NEW s, NEW t, NEW d, NEW D, ReadFrom(s, r, d, D), ReadFrom(t, s, d, D)
  PROVE  ReadFrom(t, r, d, D)
BY DEF ReadFrom

(* A directory of which the children are forgotten. *)
LEMMA MemUnloaded ==
  ASSUME NEW d \in Disks, NEW D, NEW r, Mem(r, d, D), NEW i \in DOMAIN r.heads, NEW s, IsWithKids(s, r, i, <<>>, FALSE)
  PROVE  ReadFrom(s, r, d, D)
<1>1. r \in Table /\ s \in Table /\ s.ok = r.ok /\ r.ok /\ OneHeadEach(r) /\ HasHead(r, Root)
  BY DEF Mem, IsWithKids
<1>2. /\ DOMAIN s.heads = DOMAIN r.heads
      /\ \A j \in DOMAIN r.heads : s.heads[j].index = r.heads[j].index
      /\ \A x : HasHead(s, x) <=> HasHead(r, x)
  BY <1>1, WithKidsHeads, Zenon
<1>3. s.heads[i] = [r.heads[i] EXCEPT !.kids = <<>>, !.cached = FALSE] /\ \A j \in DOMAIN r.heads : j # i => s.heads[j] = r.heads[j]
  BY DEF IsWithKids
<1>4. PICK b \in BOOLEAN : b = FALSE
  OBVIOUS
<1>5. r.heads[i] \in DirHead /\ HeadTrue(r, r.heads[i], d, D)
  BY HeadIs
<1>6. PICK h : h = s.heads[i]
  OBVIOUS
<1>7. /\ h.index = r.heads[i].index /\ h.up = r.heads[i].up /\ h.size = r.heads[i].size
      /\ h.linked = r.heads[i].linked /\ h.kids = <<>> /\ ~h.cached
  <2>1. h = [r.heads[i] EXCEPT !.kids = <<>>, !.cached = b]
    BY <1>3, <1>4, <1>6
  <2>2. QED  BY <2>1, <1>4, <1>5 DEF DirHead
<1>8. HeadTrue(r, h, d, D)
  BY <1>5, <1>7 DEF HeadTrue, SizeTrue, LinkedTrue, KidsTrue, KidsHeaded
<1>9. ASSUME NEW j \in DOMAIN s.heads PROVE HeadTrue(s, s.heads[j], d, D)
  <2>1. HeadTrue(r, s.heads[j], d, D)
    BY <1>2, <1>3, <1>6, <1>8, HeadIs
  <2>2. QED  BY <2>1, <1>2, HeadKept
<1>10. Mem(s, d, D)
  BY <1>1, <1>2, <1>9 DEF Mem, OneHeadEach
<1>11. \A j \in DOMAIN s.heads : s.heads[j].size = r.heads[j].size /\ s.heads[j].linked = r.heads[j].linked
  BY <1>2, <1>3, <1>6, <1>7
<1>12. QED  BY <1>2, <1>10, <1>11 DEF ReadFrom, Agrees

(* So does a reload.                                                        *)
LEMMA MemReload ==
  ASSUME NEW d \in Disks, NEW u, NEW D \in SUBSET Cluster, Sound(d, u, D), NEW r, Mem(r, d, D),
         NEW c, HasHead(r, c), NEW g \in BOOLEAN, ~g
  PROVE  ReadFrom(Reload(r, d, c, g), r, d, D)
<1>1. r \in Table /\ Find(r, c) \in DOMAIN r.heads /\ Find(r, c) # 0
  <2>1. r \in Table /\ r.heads \in Seq(DirHead)
    BY TableType DEF Mem
  <2>2. QED  BY <2>1, FindHead
<1>2. PICK s : s = [Clean(r, Find(r, c), g) EXCEPT !.heads[Find(r, c)].cached = FALSE]
  OBVIOUS
<1>3. IsWithKids(s, r, Find(r, c), <<>>, FALSE)
  BY <1>1, <1>2, UnloadedType
<1>4. ReadFrom(s, r, d, D)
  BY <1>1, <1>3, MemUnloaded, Zenon
<1>5. Reload(r, d, c, g) = Traverse(s, d, c, g)
  BY <1>1, <1>2, Zenon DEF Reload
<1>6. ReadFrom(Traverse(s, d, c, g), s, d, D)
  <2>1. Mem(s, d, D) /\ HasHead(s, c)
    BY <1>4 DEF ReadFrom
  <2>2. QED  BY <2>1, MemTraverse
<1>7. QED  BY <1>4, <1>5, <1>6, ReadFromTwice

-----------------------------------------------------------------------------
(* Paths on the disk. *)

Places0 == Entry \union {Nowhere}

(* A[k] is where the first k names of p lead. *)
Leads(A, d, p) ==
  /\ A[0] = RootEntry
  /\ \A k \in 1..Len(p) : A[k] = Into(d, A[k - 1], p[k])

LEMMA RootType == RootEntry \in Entry /\ RootEntry.clu = Root /\ RootEntry.dir /\ RootEntry.size = 1
<1>1. RootEntry.dir \in BOOLEAN
  BY DEF RootEntry
<1>2. QED  BY ChainAssumption DEF Entry, RootEntry

LEMMA NowhereType == ~Nowhere.dir /\ Nowhere.clu = -1
BY DEF Nowhere, Missing

(* Into a directory, or nowhere. *)
LEMMA IntoIs ==
  ASSUME NEW d \in Disks, NEW e \in Places0, NEW n
  PROVE  /\ Into(d, e, n) \in Places0
         /\ Into(d, e, n) = Nowhere \/ (/\ e \in Entry /\ e.dir /\ e.size # 0 /\ e.clu \in Cluster
                                        /\ ByName(Listing(d[e.clu], e.size), n) # 0
                                        /\ ByName(Listing(d[e.clu], e.size), n) \in DOMAIN Listing(d[e.clu], e.size)
                                        /\ Into(d, e, n) = Listing(d[e.clu], e.size)[ByName(Listing(d[e.clu], e.size), n)])
<1>1. PICK es : es = Below(d, e)
  OBVIOUS
<1>2. PICK k : k = ByName(es, n)
  OBVIOUS
<1>3. Into(d, e, n) = IF k = 0 THEN Nowhere ELSE es[k]
  BY <1>1, <1>2, Zenon DEF Into
<1>4. es = IF e.dir THEN Listing(d[e.clu], e.size) ELSE <<>>
  BY <1>1, Zenon DEF Below
<1>5. es \in Seq(Entry) /\ (e.dir => e \in Entry /\ e.clu \in Cluster)
  <2>1. CASE e.dir
    <3>1. e \in Entry /\ e.clu \in Cluster
      BY <2>1, NowhereType, TableType DEF Places0
    <3>2. d[e.clu] \in Seq(Entry)
      BY <3>1 DEF Disks
    <3>3. QED  BY <2>1, <3>1, <3>2, <1>4, ListingType
  <2>2. CASE ~e.dir
    BY <2>2, <1>4
  <2>3. QED  BY <2>1, <2>2
<1>6. k # 0 => k \in DOMAIN es /\ es # <<>>
  BY <1>2, <1>5, NameFound
<1>7. CASE k = 0
  BY <1>3, <1>7 DEF Places0
<1>8. CASE k # 0
  <2>1. e.dir /\ es = Listing(d[e.clu], e.size)
    BY <1>4, <1>6, <1>8
  <2>2. e.size # 0
    <3>1. e.size = 0 => Listing(d[e.clu], e.size) = <<>>
      BY Zenon DEF Listing
    <3>2. QED  BY <2>1, <3>1, <1>6, <1>8
  <2>3. es[k] \in Entry
    BY <1>5, <1>6, <1>8
  <2>4. QED  BY <1>2, <1>3, <1>5, <1>6, <1>8, <2>1, <2>2, <2>3 DEF Places0
<1>9. QED  BY <1>7, <1>8

(* A path leads where its steps lead, one after the other.                  *)
LEMMA PathLeads ==
  ASSUME NEW d \in Disks, NEW p, Len(p) \in Nat
  PROVE  \E A \in [0..Len(p) -> Places0] : Leads(A, d, p) /\ EntryOn(d, p) = A[Len(p)]
<1> DEFINE At[k \in 0..Len(p)] == IF k = 0 THEN RootEntry ELSE Into(d, At[k - 1], p[k])
           F == [k \in 1..Len(p) |-> [s \in Places0 |-> Into(d, s, p[k])]]
<1>1. EntryOn(d, p) = At[Len(p)]
  BY Zenon DEF EntryOn
<1>2. F \in [1..Len(p) -> [Places0 -> Places0]]
  BY IntoIs
<1>3. RootEntry \in Places0
  BY RootType DEF Places0
<1>4. PICK h \in [0..Len(p) -> Places0] : StepsOf(h, F, RootEntry, Len(p))
  BY <1>2, <1>3, StepsExist
<1>5. h = [k \in 0..Len(p) |-> IF k = 0 THEN RootEntry ELSE F[k][h[k - 1]]]
  BY <1>4 DEF StepsOf
<1>6. ASSUME NEW k \in 0..Len(p), k # 0 PROVE F[k][h[k - 1]] = Into(d, h[k - 1], p[k])
  <2>1. k \in 1..Len(p) /\ k - 1 \in 0..Len(p)
    BY <1>6
  <2>2. QED  BY <2>1
<1> HIDE DEF F
<1>7. h = [k \in 0..Len(p) |-> IF k = 0 THEN RootEntry ELSE Into(d, h[k - 1], p[k])]
  BY <1>5, <1>6
<1>8. \E f : f = [k \in 0..Len(p) |-> IF k = 0 THEN RootEntry ELSE Into(d, f[k - 1], p[k])]
  BY <1>7, Zenon
<1>9. At = [k \in 0..Len(p) |-> IF k = 0 THEN RootEntry ELSE Into(d, At[k - 1], p[k])]
  BY <1>8, Zenon
<1> HIDE DEF At
<1>10. ASSUME NEW k \in 0..Len(p)
       PROVE  At[k] = IF k = 0 THEN RootEntry ELSE Into(d, At[k - 1], p[k])
  BY <1>9, Zenon
<1>11. At[0] = RootEntry /\ \A k \in 1..Len(p) : At[k] = Into(d, At[k - 1], p[k])
  <2>1. 0 \in 0..Len(p) /\ 1..Len(p) \subseteq 0..Len(p) /\ 0 \notin 1..Len(p)
    OBVIOUS
  <2>2. QED  BY <1>10, <2>1, Zenon
<1> DEFINE T == {k \in 0..Len(p) : At[k] = h[k]}
<1>12. h[0] = RootEntry /\ \A k \in 1..Len(p) : h[k] = Into(d, h[k - 1], p[k])
  <2>1. ASSUME NEW k \in 0..Len(p) PROVE h[k] = IF k = 0 THEN RootEntry ELSE Into(d, h[k - 1], p[k])
    BY <1>7, Zenon
  <2>2. 0 \in 0..Len(p) /\ 1..Len(p) \subseteq 0..Len(p) /\ 0 \notin 1..Len(p)
    OBVIOUS
  <2>3. QED  BY <2>1, <2>2, Zenon
<1>13. 0 \in T
  BY <1>11, <1>12
<1>14. ASSUME NEW k \in 0..(Len(p) - 1), k \in T PROVE k + 1 \in T
  <2>1. PICK n \in 1..Len(p) : n = k + 1 /\ n - 1 = k
    OBVIOUS
  <2>2. At[n - 1] = h[n - 1]
    BY <1>14, <2>1
  <2>3. At[n] = h[n]
    BY <2>2, <1>11, <1>12, Zenon
  <2>4. QED  BY <2>1, <2>3
<1> HIDE DEF T
<1>15. 0..Len(p) \subseteq T
  BY ONLY <1>13, <1>14, InductionUpTo, Len(p) \in Nat
<1>16. At[Len(p)] = h[Len(p)]
  BY <1>15 DEF T
<1>17. Leads(h, d, p)
  BY <1>12 DEF Leads
<1>18. QED  BY <1>1, <1>16, <1>17

(* A and B lead the same way for n names. *)
LeadsAs(A, B, d, p, q, n) ==
  /\ A[0] = B[0]
  /\ \A k \in 1..n : A[k] = Into(d, A[k - 1], p[k]) /\ B[k] = Into(d, B[k - 1], q[k]) /\ p[k] = q[k]

(* Two paths whose steps are the same lead to the same entry set.           *)
LEMMA LeadsAlike ==
  ASSUME NEW d, NEW p, NEW q, NEW N \in Nat, NEW A, NEW B, LeadsAs(A, B, d, p, q, N)
  PROVE  \A k \in 0..N : A[k] = B[k]
<1> DEFINE T == {k \in 0..N : A[k] = B[k]}
<1>1. 0 \in T
  BY DEF LeadsAs
<1>2. ASSUME NEW k \in 0..(N - 1), k \in T PROVE k + 1 \in T
  <2>1. PICK n \in 1..N : n = k + 1 /\ n - 1 = k
    OBVIOUS
  <2>2. A[n - 1] = B[n - 1]
    BY <1>2, <2>1
  <2>3. A[n] = B[n]
    BY <2>2, Zenon DEF LeadsAs
  <2>4. QED  BY <2>1, <2>3
<1> HIDE DEF T
<1>3. 0..N \subseteq T
  BY ONLY <1>1, <1>2, InductionUpTo, N \in Nat
<1>4. QED  BY <1>3 DEF T

(* The last name of a path leads on from where its directory part leads. *)
LEMMA LastStep ==
  ASSUME NEW d \in Disks, NEW p \in Seq(Name), p # <<>>
  PROVE  /\ EntryOn(d, p) = Into(d, EntryOn(d, DirName(p)), FileName(p))
         /\ DirName(p) \in Seq(Name) /\ Len(DirName(p)) = Len(p) - 1 /\ FileName(p) = p[Len(p)] /\ FileName(p) \in Name
         /\ \A k \in 1..(Len(p) - 1) : DirName(p)[k] = p[k]
<1>1. PICK n \in Nat : n = Len(p) /\ n > 0
  OBVIOUS
<1>2. PICK q : q = DirName(p)
  OBVIOUS
<1>3. q \in Seq(Name) /\ Len(q) = n - 1 /\ FileName(p) = p[n] /\ p[n] \in Name /\ \A k \in 1..(n - 1) : q[k] = p[k]
  <2>1. q = SubSeq(p, 1, n - 1)
    BY <1>1, <1>2 DEF DirName, Front
  <2>2. FileName(p) = p[n]
    BY <1>1 DEF FileName, Last
  <2>3. QED  BY <1>1, <2>1, <2>2
<1>4. PICK A \in [0..n -> Places0] : Leads(A, d, p) /\ EntryOn(d, p) = A[n]
  BY <1>1, PathLeads
<1>5. PICK B \in [0..Len(q) -> Places0] : Leads(B, d, q) /\ EntryOn(d, q) = B[Len(q)]
  BY <1>1, <1>3, PathLeads
<1>6. PICK m \in Nat : m = n - 1 /\ m = Len(q)
  <2>1. n - 1 \in Nat
    BY <1>1
  <2>2. QED  BY <2>1, <1>3
<1>7. LeadsAs(A, B, d, p, q, m)
  BY <1>1, <1>3, <1>4, <1>5, <1>6 DEF Leads, LeadsAs
<1>8. \A k \in 0..m : A[k] = B[k]
  BY <1>7, LeadsAlike, SMTT(40)
<1>9. A[n] = Into(d, A[n - 1], p[n])
  BY <1>1, <1>4 DEF Leads
<1>10. A[n - 1] = EntryOn(d, q)
  BY <1>5, <1>6, <1>8
<1>11. QED  BY <1>1, <1>2, <1>3, <1>4, <1>9, <1>10

LEMMA RootPath ==
  ASSUME NEW d \in Disks
  PROVE  EntryOn(d, <<>>) = RootEntry
<1>1. PICK p : p = <<>> /\ Len(p) = 0
  OBVIOUS
<1>2. PICK A \in [0..Len(p) -> Places0] : Leads(A, d, p) /\ EntryOn(d, p) = A[Len(p)]
  BY <1>1, PathLeads
<1>3. QED  BY <1>1, <1>2 DEF Leads

(* The m-th name of p leads to the first entry set of that name in the     *)
(* directory that the names before lead to.                                *)
Enters(A, d, D, p, m) ==
  /\ A[m - 1].dir /\ A[m - 1].size = 1 /\ A[m - 1].clu \in D
  /\ ByName(d[A[m - 1].clu], p[m]) \in DOMAIN d[A[m - 1].clu]
  /\ A[m] = d[A[m - 1].clu][ByName(d[A[m - 1].clu], p[m])]
  /\ A[m].name = p[m]

(* A step that leads anywhere is through the first of that name.            *)
LEMMA EntersOne ==
  ASSUME NEW d \in Disks, NEW u, NEW D \in SUBSET Cluster, Sound(d, u, D), NEW e \in Places0, NEW n,
         e.dir /\ e.size = 1 => e.clu \in D,
         Into(d, e, n) # Nowhere
  PROVE  /\ e.dir /\ e.size = 1 /\ e.clu \in D
         /\ ByName(d[e.clu], n) # 0
         /\ ByName(d[e.clu], n) \in DOMAIN d[e.clu]
         /\ Into(d, e, n) = d[e.clu][ByName(d[e.clu], n)] /\ Into(d, e, n).name = n
<1>1. e \in Entry /\ e.dir /\ e.size # 0 /\ e.clu \in Cluster
  BY IntoIs
<1>2. e.size = 1 /\ e.clu \in D
  BY <1>1, TableType
<1>3. Listing(d[e.clu], e.size) = d[e.clu]
  BY <1>2, ListedIsHeld DEF Held
<1>4. d[e.clu] \in Seq(Entry)
  BY <1>1 DEF Disks
<1>5. PICK k : k = ByName(d[e.clu], n)
  OBVIOUS
<1>6. k # 0 /\ k \in DOMAIN d[e.clu] /\ Into(d, e, n) = d[e.clu][k]
  BY <1>3, <1>5, IntoIs
<1>7. d[e.clu][k].name = n
  BY <1>4, <1>5, <1>6, NameFound
<1>8. QED  BY <1>1, <1>2, <1>5, <1>6, <1>7

(* So every directory on the way to something is one in D.                  *)
LEMMA OnPath ==
  ASSUME NEW d \in Disks, NEW u, NEW D \in SUBSET Cluster, Sound(d, u, D), NEW p, Len(p) \in Nat,
         NEW A \in [0..Len(p) -> Places0], Leads(A, d, p)
  PROVE  /\ \A m \in 0..Len(p) : A[m].dir /\ A[m].size = 1 => A[m].clu \in D
         /\ \A m \in 1..Len(p) : A[m] # Nowhere => Enters(A, d, D, p, m) /\ A[m].clu # Root
<1> DEFINE T == {m \in 0..Len(p) : A[m].dir /\ A[m].size = 1 => A[m].clu \in D}
<1>1. 0 \in T
  BY RootType DEF Leads, Sound
<1>2. ASSUME NEW m \in 1..Len(p), m - 1 \in T, A[m] # Nowhere
      PROVE  Enters(A, d, D, p, m) /\ A[m].clu # Root /\ (A[m].dir /\ A[m].size = 1 => A[m].clu \in D)
  <2>1. m - 1 \in 0..Len(p) /\ A[m - 1] \in Places0 /\ A[m] = Into(d, A[m - 1], p[m])
    BY DEF Leads
  <2>2. A[m - 1].dir /\ A[m - 1].size = 1 => A[m - 1].clu \in D
    BY <1>2
  <2>3. PICK e \in Places0 : e = A[m - 1]
    BY <2>1
  <2>4. PICK k : k = ByName(d[e.clu], p[m])
    OBVIOUS
  <2>5. e.dir /\ e.size = 1 /\ e.clu \in D /\ k \in DOMAIN d[e.clu] /\ A[m] = d[e.clu][k] /\ A[m].name = p[m]
    BY <1>2, <2>1, <2>2, <2>3, <2>4, EntersOne
  <2>6. A[m].clu # Root /\ (A[m].dir /\ A[m].size = 1 => A[m].clu \in D)
    BY <2>5, SoundEntry, ChainAssumption
  <2>7. QED  BY <2>3, <2>4, <2>5, <2>6 DEF Enters
<1>3. ASSUME NEW m \in 0..(Len(p) - 1), m \in T PROVE m + 1 \in T
  <2>1. PICK n \in 1..Len(p) : n = m + 1 /\ n - 1 = m
    OBVIOUS
  <2>2. CASE A[n] = Nowhere
    BY <2>1, <2>2, NowhereType
  <2>3. CASE A[n] # Nowhere
    BY <1>2, <1>3, <2>1, <2>3
  <2>4. QED  BY <2>2, <2>3
<1>4. 0..Len(p) \subseteq T
  <2> HIDE DEF T
  <2>1. QED  BY ONLY <1>1, <1>3, InductionUpTo, Len(p) \in Nat
<1>5. \A m \in 1..Len(p) : m - 1 \in T
  <2> HIDE DEF T
  <2>1. QED  BY <1>4
<1>6. QED  BY <1>2, <1>4, <1>5

(* All directories on the way to a directory are there. *)
LEMMA WayThere ==
  ASSUME NEW d \in Disks, NEW u, NEW D \in SUBSET Cluster, Sound(d, u, D), NEW p, Len(p) \in Nat,
         NEW A \in [0..Len(p) -> Places0], Leads(A, d, p), A[Len(p)] # Nowhere
  PROVE  \A m \in 0..Len(p) : A[m] # Nowhere
<1> DEFINE T == {x \in 0..Len(p) : A[Len(p) - x] # Nowhere}
<1>1. 0 \in T
  OBVIOUS
<1>2. ASSUME NEW x \in 0..(Len(p) - 1), x \in T PROVE x + 1 \in T
  <2>1. PICK m \in 1..Len(p) : m = Len(p) - x /\ m - 1 = Len(p) - (x + 1)
    OBVIOUS
  <2>2. Enters(A, d, D, p, m)
    BY <1>2, <2>1, OnPath
  <2>3. A[m - 1].dir
    BY <2>2 DEF Enters
  <2>4. QED  BY <2>1, <2>3, NowhereType
<1> HIDE DEF T
<1>3. 0..Len(p) \subseteq T
  BY ONLY <1>1, <1>2, InductionUpTo, Len(p) \in Nat
<1>4. ASSUME NEW m \in 0..Len(p) PROVE A[m] # Nowhere
  <2>1. PICK x \in 0..Len(p) : m = Len(p) - x
    <3>1. Len(p) - m \in 0..Len(p) /\ m = Len(p) - (Len(p) - m)
      OBVIOUS
    <3>2. QED  BY <3>1
  <2>2. QED  BY <1>3, <2>1 DEF T
<1>5. QED  BY <1>4

(* A name is found in the same place while only others follow it.           *)
LEMMA SameNames ==
  ASSUME NEW es \in Seq(Entry), NEW fs \in Seq(Entry), Len(es) <= Len(fs),
         \A k \in DOMAIN es : fs[k].name = es[k].name, NEW n, ByName(es, n) # 0 \/ Len(es) = Len(fs)
  PROVE  ByName(fs, n) = ByName(es, n)
<1>1. PICK k : k = ByName(es, n)
  OBVIOUS
<1>2. PICK m : m = ByName(fs, n)
  OBVIOUS
<1>3. PICK a \in Nat, b \in Nat : a = Len(es) /\ b = Len(fs)
  OBVIOUS
<1>7. DOMAIN es = 1..a /\ DOMAIN fs = 1..b /\ a <= b /\ (k # 0 \/ a = b)
  BY <1>1, <1>3
<1>4. CASE k = 0
  <2>1. \A x \in DOMAIN es : es[x].name # n
    <3>1. es \in Seq(Entry)
      OBVIOUS
    <3>2. ByName(es, n) = 0 <=> \A x \in DOMAIN es : es[x].name # n
      BY ONLY <3>1, NameFound
    <3>3. QED  BY <1>1, <1>4, <3>2, Zenon
  <2>2. \A x \in DOMAIN fs : fs[x].name # n
    BY <1>4, <1>7, <2>1
  <2>3. m = 0
    BY <1>2, <2>2, NameFound
  <2>4. QED  BY <1>1, <1>2, <1>4, <2>3
<1>5. CASE k # 0
  <2>1. k \in DOMAIN es /\ es[k].name = n /\ \A x \in DOMAIN es : es[x].name = n => k <= x
    BY <1>1, <1>5, NameFound
  <2>2. k \in DOMAIN fs /\ fs[k].name = n
    <3>1. k \in 1..b
      BY <1>7, <2>1
    <3>2. fs[k].name = es[k].name
      BY <2>1
    <3>3. QED  BY <1>7, <2>1, <3>1, <3>2
  <2>3. m # 0
    BY <1>2, <2>2, NameFound
  <2>4. m \in DOMAIN fs /\ fs[m].name = n /\ m <= k
    BY <1>2, <2>2, <2>3, NameFound
  <2>5. m \in DOMAIN es /\ fs[m].name = es[m].name
    <3>1. m \in 1..a
      BY <1>7, <2>1, <2>4
    <3>2. QED  BY <1>7, <3>1
  <2>6. k <= m
    BY <2>1, <2>4, <2>5
  <2>7. QED  BY <1>1, <1>2, <1>7, <2>1, <2>4, <2>6
<1>6. QED  BY <1>4, <1>5

Alike(kids, es) ==
  /\ kids \in Seq(Entry) /\ es \in Seq(Entry)
  /\ Len(kids) = Len(es) /\ DOMAIN kids = DOMAIN es
  /\ \A k \in DOMAIN es : Like(kids[k], es[k])

LEMMA AlikeNames ==
  ASSUME NEW kids, NEW es, Alike(kids, es), NEW n
  PROVE  ByName(kids, n) = ByName(es, n)
<1>1. /\ kids \in Seq(Entry) /\ es \in Seq(Entry) /\ Len(es) <= Len(kids) /\ Len(es) = Len(kids)
      /\ \A k \in DOMAIN es : kids[k].name = es[k].name
  BY DEF Alike, Like
<1>2. QED  BY <1>1, SameNames

(* The children of a directory that has a cluster. *)
LEMMA KidsOf ==
  ASSUME NEW d \in Disks, NEW D \in SUBSET Cluster, NEW r, Mem(r, d, D), NEW i \in DOMAIN r.heads,
         NEW c \in D, r.heads[i].index = c, KidsAre(r.heads[i], d, D)
  PROVE  /\ Alike(r.heads[i].kids, d[c])
         /\ \A k \in DOMAIN d[c] : d[c][k].dir => HasHead(r, d[c][k].clu)
<1>1. PICK kids : kids = r.heads[i].kids
  OBVIOUS
<1>2. kids \in Seq(Entry) /\ d[c] \in Seq(Entry)
  BY <1>1, HeadIs, TableType DEF Disks
<1>3. Len(kids) = Len(d[c]) /\ \A k \in DOMAIN kids : Like(kids[k], d[c][k])
  BY <1>1 DEF KidsAre, Held
<1>4. DOMAIN kids = DOMAIN d[c]
  BY <1>2, <1>3
<1>5. \A k \in DOMAIN d[c] : kids[k].dir = d[c][k].dir /\ kids[k].clu = d[c][k].clu
  BY <1>3, <1>4 DEF Like
<1>6. \A k \in DOMAIN kids : kids[k].dir => HasHead(r, kids[k].clu)
  BY <1>1, HeadIs DEF HeadTrue, KidsHeaded
<1>7. Alike(kids, d[c])
  BY <1>2, <1>3, <1>4 DEF Alike
<1>8. QED  BY <1>1, <1>4, <1>5, <1>6, <1>7

(* One step of a lookup finds in memory the directory the disk has.         *)
LEMMA LookInMem ==
  ASSUME NEW d \in Disks, NEW u, NEW D \in SUBSET Cluster, Sound(d, u, D), NEW s \in Places, Mem(s.tab, d, D),
         HasHead(s.tab, s.clu), NEW c \in D, s.clu = c, NEW n, NEW g \in BOOLEAN, ~g,
         NEW k, k = ByName(d[c], n), k \in DOMAIN d[c], d[c][k].dir
  PROVE  /\ ReadFrom(LookIn(s, d, n, g).tab, s.tab, d, D)
         /\ LookIn(s, d, n, g).clu = d[c][k].clu
         /\ HasHead(LookIn(s, d, n, g).tab, d[c][k].clu)
<1>1. PICK t : t = Traverse(s.tab, d, s.clu, g)
  OBVIOUS
<1>2. PICK i : i = Find(t, s.clu)
  OBVIOUS
<1>3. PICK kids : kids = t.heads[i].kids
  OBVIOUS
<1>4. ReadFrom(t, s.tab, d, D) /\ i \in DOMAIN t.heads /\ t.heads[i].index = c /\ KidsAre(t.heads[i], d, D)
  BY <1>1, <1>2, MemTraverse
<1>5. Mem(t, d, D)
  BY <1>4 DEF ReadFrom
<1>6. /\ ByName(kids, n) = k /\ k # 0
      /\ kids[k].clu = d[c][k].clu
      /\ HasHead(t, d[c][k].clu)
  <2>1. d[c] \in Seq(Entry)
    BY DEF Disks
  <2>2. k # 0
    BY <2>1
  <2>3. Alike(kids, d[c]) /\ HasHead(t, d[c][k].clu)
    BY <1>3, <1>4, <1>5, KidsOf
  <2>4. ByName(kids, n) = k
    BY <2>3, AlikeNames
  <2>5. Like(kids[k], d[c][k])
    BY <2>3 DEF Alike
  <2>6. QED  BY <2>2, <2>3, <2>4, <2>5 DEF Like
<1>7. t.ok /\ s.tab.ok /\ s.clu # Missing
  <2>1. t.ok /\ s.tab.ok
    BY <1>5 DEF Mem
  <2>2. c # Missing
    BY ChainAssumption DEF Missing
  <2>3. QED  BY <2>1, <2>2
<1>8. LookIn(s, d, n, g) = [tab |-> t, clu |-> IF ~t.ok \/ ByName(kids, n) = 0 THEN Missing ELSE kids[ByName(kids, n)].clu]
  BY <1>1, <1>2, <1>3, <1>7, Zenon DEF LookIn
<1>9. QED  BY <1>4, <1>6, <1>7, <1>8

(* lookup of a path to a directory finds it, and the table stays true.     *)
LEMMA LookupMem ==
  ASSUME NEW d \in Disks, NEW u, NEW D \in SUBSET Cluster, Sound(d, u, D), NEW r, Mem(r, d, D), NEW p \in Seq(Name),
         NEW g \in BOOLEAN, ~g, NEW e, e = EntryOn(d, p), e.dir, NEW to, to = Lookup(r, d, Root, p, g)
  PROVE  ReadFrom(to.tab, r, d, D) /\ to.clu = e.clu /\ HasHead(to.tab, e.clu)
<1>1. PICK N \in Nat : N = Len(p)
  OBVIOUS
<1>2. PICK A \in [0..N -> Places0] : Leads(A, d, p) /\ e = A[N]
  BY <1>1, PathLeads
<1>3. PICK h \in [0..N -> Places] : LooksUp(h, r, d, Root, p, g)
  <2>1. r \in Table /\ Root \in Cluster \union {0, Missing} /\ Len(p) \in Nat
    BY ChainAssumption DEF Mem
  <2>2. PICK h \in [0..Len(p) -> Places] : LooksUp(h, r, d, Root, p, g)
    BY <2>1, LookupSteps, Zenon
  <2>3. QED  BY <1>1, <2>2
<1>4. A[0] = RootEntry /\ A[N].dir /\ A[N] # Nowhere
  BY <1>1, <1>2, NowhereType DEF Leads
<1>5. \A m \in 1..N : Enters(A, d, D, p, m)
  <2>1. \A m \in 0..N : A[m] # Nowhere
    BY <1>1, <1>2, <1>4, WayThere
  <2>2. QED  BY <1>1, <1>2, <2>1, OnPath
<1>6. \A m \in 0..N : A[m].dir
  <2>1. ASSUME NEW m \in 0..N, m # N PROVE A[m].dir
    <3>1. PICK k \in 1..N : k - 1 = m
      <4>1. m + 1 \in 1..N /\ (m + 1) - 1 = m
        BY <2>1
      <4>2. QED  BY <4>1
    <3>2. QED  BY <1>5, <3>1 DEF Enters
  <2>2. QED  BY <1>4, <2>1
<1>7. h[0] = [tab |-> r, clu |-> Root] /\ \A k \in 1..N : h[k] = LookIn(h[k - 1], d, p[k], g)
  BY <1>1, <1>3, Zenon DEF LooksUp
<1> DEFINE T == {k \in 0..N : ReadFrom(h[k].tab, r, d, D) /\ h[k].clu = A[k].clu /\ HasHead(h[k].tab, A[k].clu)}
<1>8. 0 \in T
  <2>1. ReadFrom(r, r, d, D) /\ HasHead(r, Root)
    BY DEF ReadFrom, Mem
  <2>2. QED  BY <1>4, <1>7, <2>1, RootType
<1>9. ASSUME NEW k \in 0..(N - 1), k \in T PROVE k + 1 \in T
  <2>1. PICK m \in 1..N : m = k + 1 /\ m - 1 = k
    OBVIOUS
  <2>2. PICK s \in Places : s = h[m - 1]
    BY <2>1
  <2>3. ReadFrom(s.tab, r, d, D) /\ s.clu = A[m - 1].clu /\ HasHead(s.tab, s.clu)
    BY <1>9, <2>1, <2>2
  <2>4. PICK c \in D : c = A[m - 1].clu
    BY <1>5 DEF Enters
  <2>5. PICK j \in DOMAIN d[c] : j = ByName(d[c], p[m]) /\ A[m] = d[c][j] /\ d[c][j].dir
    <3>1. A[m].dir
      BY <1>6
    <3>2. QED  BY <1>5, <2>4, <3>1 DEF Enters
  <2>6. Mem(s.tab, d, D)
    BY <2>3 DEF ReadFrom
  <2>7. PICK w : w = LookIn(s, d, p[m], g)
    OBVIOUS
  <2>8. ReadFrom(w.tab, s.tab, d, D) /\ w.clu = d[c][j].clu /\ HasHead(w.tab, d[c][j].clu)
    BY <2>3, <2>4, <2>5, <2>6, <2>7, LookInMem, SMTT(40)
  <2>9. h[m] = w
    BY <1>7, <2>2, <2>7
  <2>10. ReadFrom(w.tab, r, d, D)
    BY <2>3, <2>8, ReadFromTwice
  <2>11. QED  BY <2>1, <2>5, <2>8, <2>9, <2>10
<1>10. N \in T
  <2> HIDE DEF T
  <2>1. 0..N \subseteq T
    BY ONLY <1>8, <1>9, InductionUpTo, N \in Nat
  <2>2. QED  BY <2>1
<1>11. to = h[N]
  BY <1>1, <1>3, Zenon DEF LooksUp
<1>12. QED  BY <1>2, <1>10, <1>11

LEMMA IntoDir ==
  ASSUME NEW d \in Disks, NEW u, NEW D \in SUBSET Cluster, Sound(d, u, D), NEW e, e.dir, e.size = 1, NEW c \in D, e.clu = c,
         NEW n
  PROVE  Into(d, e, n) = IF ByName(d[c], n) = 0 THEN Nowhere ELSE d[c][ByName(d[c], n)]
<1>1. PICK es : es = Below(d, e)
  OBVIOUS
<1>2. es = Listing(d[c], 1)
  BY <1>1, Zenon DEF Below
<1>3. es = d[c]
  BY <1>2, ListedIsHeld DEF Held
<1>4. Into(d, e, n) = IF ByName(es, n) = 0 THEN Nowhere ELSE es[ByName(es, n)]
  BY <1>1, Zenon DEF Into
<1>5. QED  BY <1>3, <1>4

(* What leads to something that is there enters a directory at each name.  *)
LEMMA PathThere ==
  ASSUME NEW d \in Disks, NEW u, NEW D \in SUBSET Cluster, Sound(d, u, D), NEW p, NEW N \in Nat, N = Len(p),
         EntryOn(d, p) # Nowhere
  PROVE  \E A \in [0..N -> Places0] :
           /\ A[0] = RootEntry /\ A[N] = EntryOn(d, p)
           /\ Leads(A, d, p)
           /\ \A m \in 0..N : A[m] # Nowhere
           /\ \A m \in 1..N : Enters(A, d, D, p, m) /\ A[m].clu # Root
           /\ \A m \in 0..N : A[m].dir /\ A[m].size = 1 => A[m].clu \in D
<1>1. PICK A \in [0..N -> Places0] : Leads(A, d, p) /\ A[N] = EntryOn(d, p)
  BY PathLeads
<1>2. \A m \in 0..N : A[m] # Nowhere
  BY <1>1, WayThere
<1>3. /\ \A m \in 1..N : Enters(A, d, D, p, m) /\ A[m].clu # Root
      /\ \A m \in 0..N : A[m].dir /\ A[m].size = 1 => A[m].clu \in D
  BY <1>1, <1>2, OnPath
<1>4. A[0] = RootEntry
  BY <1>1 DEF Leads
<1>5. QED  BY <1>1, <1>2, <1>3, <1>4

(* A path leads to the root, to an entry set of D, or nowhere.              *)
LEMMA EntryFrom ==
  ASSUME NEW d \in Disks, NEW u, NEW D \in SUBSET Cluster, Sound(d, u, D), NEW p \in Seq(Name), NEW e, e = EntryOn(d, p),
         e # Nowhere
  PROVE  /\ e \in Entry
         /\ (e = RootEntry /\ p = <<>>) \/ \E b \in D : \E k \in DOMAIN d[b] : e = d[b][k] /\ e.clu # Root
         /\ e.dir => e.clu \in Cluster
         /\ e.dir /\ e.size = 1 => e.clu \in D
<1>1. PICK N \in Nat : N = Len(p)
  OBVIOUS
<1>2. PICK A \in [0..N -> Places0] :
        /\ A[0] = RootEntry /\ A[N] = e
        /\ \A m \in 0..N : A[m] # Nowhere
        /\ \A m \in 1..N : Enters(A, d, D, p, m) /\ A[m].clu # Root
        /\ \A m \in 0..N : A[m].dir /\ A[m].size = 1 => A[m].clu \in D
  BY <1>1, PathThere
<1>3. e \in Entry /\ (e.dir => e.clu \in Cluster)
  BY <1>2, TableType DEF Places0
<1>4. CASE N = 0
  <2>1. p = <<>> /\ e = RootEntry
    <3>1. Len(p) = 0
      BY <1>1, <1>4
    <3>2. p = <<>>
      BY <3>1, EmptySeq
    <3>3. QED  BY <1>2, <1>4, <3>2
  <2>2. e.dir /\ e.size = 1 => e.clu \in D
    BY <1>2
  <2>3. QED  BY <1>3, <2>1, <2>2
<1>5. CASE N # 0
  <2>1. N \in 1..N
    BY <1>5
  <2>2. Enters(A, d, D, p, N) /\ e.clu # Root
    BY <1>2, <2>1
  <2>3. \E b \in D : \E k \in DOMAIN d[b] : e = d[b][k] /\ e.clu # Root
    BY <1>2, <2>2, SMTT(40) DEF Enters
  <2>4. QED  BY <1>2, <1>3, <2>3
<1>6. QED  BY <1>4, <1>5

(* One path leads to a cluster. *)
LEMMA PathUnique ==
  ASSUME NEW d \in Disks, NEW u, NEW D \in SUBSET Cluster, Sound(d, u, D), NEW p \in Seq(Name), NEW q \in Seq(Name),
         EntryOn(d, p) # Nowhere, EntryOn(d, q) # Nowhere, EntryOn(d, p).clu = EntryOn(d, q).clu, EntryOn(d, p).clu # 0
  PROVE  p = q
<1>1. PICK N \in Nat : N = Len(p)
  OBVIOUS
<1>2. PICK M \in Nat : M = Len(q)
  OBVIOUS
<1>3. PICK A \in [0..N -> Places0] :
        /\ A[0] = RootEntry /\ A[N] = EntryOn(d, p)
        /\ \A m \in 1..N : Enters(A, d, D, p, m) /\ A[m].clu # Root
  BY <1>1, PathThere
<1>4. PICK B \in [0..M -> Places0] :
        /\ B[0] = RootEntry /\ B[M] = EntryOn(d, q)
        /\ \A m \in 1..M : Enters(B, d, D, q, m) /\ B[m].clu # Root
  BY <1>2, PathThere
<1> DEFINE Same(m, j) == m = j /\ \A x \in 1..m : p[x] = q[x]
           T == {m \in 0..N : \A j \in 0..M : A[m].clu = B[j].clu /\ A[m].clu # 0 => Same(m, j)}
<1>5. 0 \in T
  <2>1. ASSUME NEW j \in 0..M, A[0].clu = B[j].clu PROVE j = 0
    <3>1. B[j].clu = Root
      BY <1>3, <2>1, RootType
    <3>2. QED  BY <1>4, <3>1
  <2>2. QED  BY <2>1
<1>6. ASSUME NEW k \in 0..(N - 1), k \in T PROVE k + 1 \in T
  <2>1. PICK m \in 1..N : m = k + 1 /\ m - 1 = k
    OBVIOUS
  <2>2. SUFFICES ASSUME NEW j \in 0..M, A[m].clu = B[j].clu, A[m].clu # 0 PROVE Same(m, j)
    BY <2>1
  <2>3. j \in 1..M /\ j - 1 \in 0..M
    <3>1. B[j].clu # Root
      BY <1>3, <2>2
    <3>2. j # 0
      BY <3>1, <1>4, RootType
    <3>3. QED  BY <3>2
  <2>4. PICK b \in D : b = A[m - 1].clu
    BY <1>3 DEF Enters
  <2>5. PICK c \in D : c = B[j - 1].clu
    BY <1>4, <2>3 DEF Enters
  <2>6. PICK x \in DOMAIN d[b] : A[m] = d[b][x] /\ A[m].name = p[m]
    BY <1>3, <2>4 DEF Enters
  <2>7. PICK y \in DOMAIN d[c] : B[j] = d[c][y] /\ B[j].name = q[j]
    BY <1>4, <2>3, <2>5 DEF Enters
  <2>8. b = c /\ x = y
    BY <2>2, <2>6, <2>7, SoundOnce
  <2>9. Same(m - 1, j - 1)
    <3>1. A[m - 1].clu = B[j - 1].clu /\ A[m - 1].clu # 0
      BY <2>4, <2>5, <2>8, ChainAssumption
    <3>2. QED  BY <1>6, <2>1, <2>3, <3>1
  <2>10. p[m] = q[m] /\ m = j
    BY <2>6, <2>7, <2>8, <2>9
  <2>11. \A z \in 1..m : z \in 1..(m - 1) \/ z = m
    OBVIOUS
  <2>12. QED  BY <2>9, <2>10, <2>11
<1>7. N \in T
  <2> HIDE DEF T
  <2>1. 0..N \subseteq T
    BY ONLY <1>5, <1>6, InductionUpTo, N \in Nat
  <2>2. QED  BY <2>1
<1>8. N = M /\ \A x \in 1..N : p[x] = q[x]
  <2>1. A[N].clu = B[M].clu /\ A[N].clu # 0 /\ M \in 0..M
    BY <1>3, <1>4
  <2>2. QED  BY <1>7, <2>1
<1>9. QED  BY <1>1, <1>2, <1>8

-----------------------------------------------------------------------------
(* The name n in the directory c leads where it did.                       *)
SameThere(d, e, c, n) ==
  /\ ByName(e[c], n) # 0
  /\ e[c][ByName(e[c], n)].dir = d[c][ByName(d[c], n)].dir
  /\ e[c][ByName(e[c], n)].clu = d[c][ByName(d[c], n)].clu

(* So does a path each of whose names does.                                *)
StillLeads(A, d, e, D, E, p, n) ==
  /\ A[0] = RootEntry
  /\ \A m \in 1..n : Enters(A, d, D, p, m) /\ A[m - 1].clu \in E /\ SameThere(d, e, A[m - 1].clu, p[m])

(* A path whose steps are still there leads to the same cluster.            *)
LEMMA PathKept ==
  ASSUME NEW d \in Disks, NEW u, NEW D \in SUBSET Cluster, Sound(d, u, D),
         NEW e \in Disks, NEW v, NEW E \in SUBSET Cluster, Sound(e, v, E),
         NEW p, NEW N \in Nat, N = Len(p), NEW A, StillLeads(A, d, e, D, E, p, N)
  PROVE  EntryOn(e, p).dir = A[N].dir /\ EntryOn(e, p).clu = A[N].clu
<1>1. PICK B \in [0..N -> Places0] : Leads(B, e, p) /\ B[N] = EntryOn(e, p)
  BY PathLeads
<1> DEFINE T == {m \in 0..N : B[m].dir = A[m].dir /\ B[m].clu = A[m].clu /\ (m < N => B[m].size = 1)}
<1>2. 0 \in T
  BY <1>1, RootType DEF Leads, StillLeads
<1>3. ASSUME NEW k \in 0..(N - 1), k \in T PROVE k + 1 \in T
  <2>1. PICK m \in 1..N : m = k + 1 /\ m - 1 = k
    OBVIOUS
  <2>2. PICK c \in E : c = A[m - 1].clu
    BY DEF StillLeads
  <2>3. PICK b \in Places0 : b = B[m - 1]
    BY <2>1
  <2>4. b.dir /\ b.clu = c /\ b.size = 1
    <3>1. A[m - 1].dir
      BY DEF Enters, StillLeads
    <3>2. QED  BY <1>3, <2>1, <2>2, <2>3, <3>1
  <2>5. B[m] = Into(e, b, p[m])
    BY <1>1, <2>3 DEF Leads
  <2>6. PICK j : j = ByName(e[c], p[m])
    OBVIOUS
  <2>7. j # 0 /\ B[m] = e[c][j]
    <3>1. j # 0
      BY <2>2, <2>6 DEF SameThere, StillLeads
    <3>2. \A n : Into(e, b, n) = IF ByName(e[c], n) = 0 THEN Nowhere ELSE e[c][ByName(e[c], n)]
      BY <2>4, IntoDir
    <3>4. B[m] = IF j = 0 THEN Nowhere ELSE e[c][j]
      BY <2>5, <2>6, <3>2, Zenon
    <3>3. QED  BY <3>1, <3>4
  <2>8. B[m].dir = A[m].dir /\ B[m].clu = A[m].clu
    BY <2>2, <2>6, <2>7, SMTT(40) DEF SameThere, Enters, StillLeads
  <2>9. ASSUME m < N PROVE B[m].size = 1
    <3>1. PICK l \in 1..N : l - 1 = m
      <4>1. m + 1 \in 1..N /\ (m + 1) - 1 = m
        BY <2>9
      <4>2. QED  BY <4>1
    <3>2. B[m].clu \in E
      BY <2>8, <3>1 DEF StillLeads
    <3>3. e[c] \in Seq(Entry)
      BY DEF Disks
    <3>4. j \in DOMAIN e[c]
      BY <2>6, <2>7, <3>3, NameFound
    <3>5. QED  BY <2>7, <3>2, <3>4, SoundEntry
  <2>10. QED  BY <2>1, <2>8, <2>9
<1>4. N \in T
  <2> HIDE DEF T
  <2>1. 0..N \subseteq T
    BY ONLY <1>2, <1>3, InductionUpTo, N \in Nat
  <2>2. QED  BY <2>1
<1>5. QED  BY <1>1, <1>4

-----------------------------------------------------------------------------
(* A directory grows. *)

(* An entry set that was there: the same, or, of a linked directory that   *)
(* had no cluster to speak of and gets its first entry, of another size.   *)
Old(d, e, D, c, b, k) ==
  /\ b \in D /\ k \in DOMAIN d[b]
  /\ \/ e[b][k] = d[b][k] /\ (c \in D \/ d[b][k].clu # c)
     \/ c \notin D /\ d[b][k].clu = c /\ d[b][k].dir /\ d[b][k].linked /\ e[b][k] = OfSize(d[b][k], 1)

(* e is the disk d after the directory c got the entry sets in new, of     *)
(* which there is one at most.                                             *)
GrownTo(d, e, D, c, new) ==
  /\ e \in Disks
  /\ c \notin D => d[c] = <<>>
  /\ \A b \in D \union {c} : \A k \in DOMAIN e[b] :
       \/ Old(d, e, D, c, b, k)
       \/ b = c /\ k = Len(Held(d, D, c)) + 1 /\ new = <<e[b][k]>>
  /\ \A b \in D : \A k \in DOMAIN d[b] : Old(d, e, D, c, b, k)
  /\ \A b \in D : Len(d[b]) <= Len(e[b]) /\ (b # c => Len(d[b]) = Len(e[b]))
  /\ \A b \in Cluster : b \notin D \union {c} => e[b] = d[b]

(* What a command may add. *)
NewEntry(x, u) == x \in Entry /\ x.name # NoName /\ x.size = 0 /\ ~x.linked /\ x.clu \notin u

OldSame(d, e, b, k) ==
  /\ e[b][k].name = d[b][k].name /\ e[b][k].clu = d[b][k].clu
  /\ e[b][k].dir = d[b][k].dir /\ e[b][k].linked = d[b][k].linked

(* What an entry set that was there before has become.                      *)
LEMMA OldIs ==
  ASSUME NEW d \in Disks, NEW e, NEW D \in SUBSET Cluster, NEW c, NEW b, NEW k, Old(d, e, D, c, b, k)
  PROVE  /\ OldSame(d, e, b, k) /\ d[b][k] \in Entry
         /\ b \in D /\ k \in DOMAIN d[b]
         /\ d[b][k].clu # c => e[b][k] = d[b][k]
         /\ c \in D => e[b][k] = d[b][k]
         /\ c \notin D /\ d[b][k].clu = c => e[b][k].dir /\ e[b][k].linked /\ e[b][k].size = 1
<1>1. d[b][k] \in Entry
  BY DEF Old, Disks
<1>2. PICK f : f = OfSize(d[b][k], 1)
  OBVIOUS
<1>3. f.size = 1 /\ f.name = d[b][k].name /\ f.clu = d[b][k].clu /\ f.dir = d[b][k].dir /\ f.linked = d[b][k].linked
  BY <1>1, <1>2, OfSizeType
<1>4. QED  BY <1>1, <1>2, <1>3 DEF Old, OldSame

(* A directory that grows keeps the volume sound.                           *)
LEMMA GrownSound ==
  ASSUME NEW d \in Disks, NEW u, NEW D \in SUBSET Cluster, Sound(d, u, D), u \subseteq Cluster, NEW c \in u,
         NEW v \in SUBSET Cluster, u \subseteq v, NEW new, \A x : new = <<x>> => NewEntry(x, u) /\ x.clu \in v \union {0},
         NEW e, GrownTo(d, e, D, c, new), NEW E, E = D \union {c}
  PROVE  Sound(e, v, E)
<1>0. e \in Disks /\ Root \in D /\ D \subseteq u /\ 0 \notin Cluster
  BY ChainAssumption DEF GrownTo, Sound
<1>1. ASSUME NEW b \in E, NEW k \in DOMAIN e[b]
      PROVE  Old(d, e, D, c, b, k) \/ (b = c /\ k = Len(Held(d, D, c)) + 1 /\ new = <<e[b][k]>>)
  BY <1>1 DEF GrownTo
<1>2. ASSUME NEW b \in E, NEW k \in DOMAIN e[b]
      PROVE  /\ e[b][k].name # NoName
             /\ e[b][k].clu \in (v \ {Root}) \union {0}
             /\ e[b][k].clu \in E <=> e[b][k].dir /\ e[b][k].size = 1
             /\ e[b][k].dir /\ e[b][k].linked /\ e[b][k].size = 0 => e[e[b][k].clu] = <<>>
  <2>1. CASE Old(d, e, D, c, b, k)
    <3>1. /\ OldSame(d, e, b, k) /\ d[b][k] \in Entry /\ b \in D /\ k \in DOMAIN d[b]
          /\ d[b][k].clu # c => e[b][k] = d[b][k]
          /\ c \in D => e[b][k] = d[b][k]
          /\ c \notin D /\ d[b][k].clu = c => e[b][k].dir /\ e[b][k].linked /\ e[b][k].size = 1
      BY <2>1, OldIs
    <3>2. /\ d[b][k].name # NoName
          /\ d[b][k].clu \in (u \ {Root}) \union {0}
          /\ d[b][k].clu \in D <=> d[b][k].dir /\ d[b][k].size = 1
          /\ d[b][k].dir /\ d[b][k].linked /\ d[b][k].size = 0 => d[d[b][k].clu] = <<>>
      BY <3>1, SoundEntry
    <3>3. CASE c \notin D /\ d[b][k].clu = c
      BY <3>1, <3>2, <3>3 DEF OldSame
    <3>4. CASE c \in D \/ d[b][k].clu # c
      <4>1. e[b][k] = d[b][k]
        BY <3>1, <3>4
      <4>2. d[b][k].clu \in E <=> d[b][k].clu \in D
        BY <3>4
      <4>3. ASSUME d[b][k].dir, d[b][k].linked, d[b][k].size = 0 PROVE e[d[b][k].clu] = <<>>
        <5>1. d[b][k].clu \in Cluster /\ d[b][k].clu \notin E
          BY <3>1, <3>2, <4>2, <4>3, TableType
        <5>2. e[d[b][k].clu] = d[d[b][k].clu]
          BY <5>1 DEF GrownTo
        <5>3. QED  BY <3>2, <4>3, <5>2
      <4>4. QED  BY <3>2, <4>1, <4>2, <4>3
    <3>5. QED  BY <3>3, <3>4
  <2>2. CASE new = <<e[b][k]>>
    <3>1. NewEntry(e[b][k], u) /\ e[b][k].clu \in v \union {0}
      BY <2>2
    <3>2. QED  BY <3>1, <1>0 DEF NewEntry
  <2>3. QED  BY <1>1, <2>1, <2>2
<1>3. ASSUME NEW b \in E, NEW k \in DOMAIN e[b], NEW a \in E, NEW j \in DOMAIN e[a], e[b][k].clu = e[a][j].clu, e[b][k].clu # 0
      PROVE  b = a /\ k = j
  <2>1. ASSUME NEW x \in E, NEW m \in DOMAIN e[x], ~Old(d, e, D, c, x, m)
        PROVE  x = c /\ m = Len(Held(d, D, c)) + 1 /\ e[x][m].clu \notin u
    <3>1. x = c /\ m = Len(Held(d, D, c)) + 1 /\ new = <<e[x][m]>>
      BY <1>1, <2>1
    <3>2. QED  BY <3>1 DEF NewEntry
  <2>2. ASSUME NEW x \in E, NEW m \in DOMAIN e[x], Old(d, e, D, c, x, m)
        PROVE  x \in D /\ m \in DOMAIN d[x] /\ e[x][m].clu = d[x][m].clu /\ d[x][m].clu \in u \union {0}
    <3>1. OldSame(d, e, x, m) /\ x \in D /\ m \in DOMAIN d[x]
      BY <2>2, OldIs
    <3>2. QED  BY <3>1, SoundEntry DEF OldSame
  <2>3. CASE Old(d, e, D, c, b, k) /\ Old(d, e, D, c, a, j)
    BY <2>2, <2>3, <1>3, SoundOnce
  <2>4. CASE ~Old(d, e, D, c, b, k) /\ ~Old(d, e, D, c, a, j)
    BY <2>1, <2>4
  <2>5. CASE ~Old(d, e, D, c, b, k) /\ Old(d, e, D, c, a, j)
    BY <2>1, <2>2, <2>5, <1>3
  <2>6. CASE Old(d, e, D, c, b, k) /\ ~Old(d, e, D, c, a, j)
    BY <2>1, <2>2, <2>6, <1>3
  <2>7. QED  BY <2>3, <2>4, <2>5, <2>6
<1>4. Root \in E /\ E \subseteq v
  BY <1>0
<1>5. QED  BY <1>2, <1>3, <1>4 DEF Sound

(* Whatever has its place by a name keeps it. *)
LEMMA GrownSame ==
  ASSUME NEW d \in Disks, NEW D \in SUBSET Cluster, NEW c, NEW new, NEW e, GrownTo(d, e, D, c, new),
         NEW b \in D, NEW n, ByName(d[b], n) \in DOMAIN d[b]
  PROVE  SameThere(d, e, b, n)
<1>1. d[b] \in Seq(Entry) /\ e[b] \in Seq(Entry) /\ Len(d[b]) <= Len(e[b])
  BY DEF GrownTo, Disks
<1>2. \A k \in DOMAIN d[b] : OldSame(d, e, b, k)
  BY OldIs DEF GrownTo
<1>3. \A k \in DOMAIN d[b] : e[b][k].name = d[b][k].name
  BY <1>2 DEF OldSame
<1>4. ByName(d[b], n) # 0
  BY <1>1
<1>5. ByName(e[b], n) = ByName(d[b], n)
  BY <1>1, <1>3, <1>4, SameNames
<1>6. QED  BY <1>2, <1>4, <1>5 DEF SameThere, OldSame

(* s is the table r with another size in the head at i, and without its    *)
(* children: what reload traverses.                                        *)
Resets(s, r, i, size) ==
  /\ s \in Table /\ s.ok = r.ok /\ DOMAIN s.heads = DOMAIN r.heads
  /\ \A j \in DOMAIN r.heads : j # i => s.heads[j] = r.heads[j]
  /\ s.heads[i].index = r.heads[i].index /\ s.heads[i].up = r.heads[i].up /\ s.heads[i].linked = r.heads[i].linked
  /\ s.heads[i].size = size /\ s.heads[i].kids = <<>> /\ ~s.heads[i].cached

LEMMA ResetsHeads ==
  ASSUME NEW r, NEW s, NEW i \in DOMAIN r.heads, NEW size, Resets(s, r, i, size)
  PROVE  \A x : HasHead(s, x) <=> HasHead(r, x)
BY DEF Resets, HasHead

(* Memory stays true to the disk, but for the directory that is to be       *)
(* reloaded.                                                                *)
LEMMA GrownMem ==
  ASSUME NEW d \in Disks, NEW u, NEW D \in SUBSET Cluster, Sound(d, u, D), NEW r, Mem(r, d, D),
         NEW i \in DOMAIN r.heads, NEW c, c = r.heads[i].index,
         NEW new, \A x : new = <<x>> => NewEntry(x, u),
         NEW e, GrownTo(d, e, D, c, new), NEW E, E = D \union {c},
         NEW s, Resets(s, r, i, 1)
  PROVE  Mem(s, e, E)
<1>1. /\ r \in Table /\ r.ok /\ OneHeadEach(r) /\ HasHead(r, Root) /\ (\A x : HasHead(s, x) <=> HasHead(r, x))
  <2>1. \A x : HasHead(s, x) <=> HasHead(r, x)
    BY ResetsHeads
  <2>2. QED  BY <2>1 DEF Mem
<1>2. ASSUME NEW b \in E, NEW k \in DOMAIN e[b], ~Old(d, e, D, c, b, k) PROVE ~e[b][k].linked
  <2>1. new = <<e[b][k]>>
    BY <1>2 DEF GrownTo
  <2>2. QED  BY <2>1 DEF NewEntry
<1>3. ASSUME NEW j \in DOMAIN s.heads PROVE HeadTrue(s, s.heads[j], e, E)
  <2>0. j \in DOMAIN r.heads /\ r.heads[j].index \in Cluster /\ r.heads[j] \in DirHead
    BY <1>3, HeadIs DEF Resets
  <2>1. /\ SizeTrue(r.heads[j], d, D) /\ LinkedTrue(r, r.heads[j], d, D)
        /\ KidsTrue(r.heads[j], d, D) /\ KidsHeaded(r, r.heads[j])
    BY <2>0, HeadIs DEF HeadTrue
  <2>2. CASE j = i
    <3>1. /\ s.heads[j].index = c /\ s.heads[j].up = r.heads[j].up /\ s.heads[j].linked = r.heads[j].linked
          /\ s.heads[j].size = 1 /\ s.heads[j].kids = <<>> /\ ~s.heads[j].cached
      BY <2>2 DEF Resets
    <3>2. SizeTrue(s.heads[j], e, E)
      BY <3>1 DEF SizeTrue
    <3>3. ASSUME NEW b \in E, NEW k \in DOMAIN e[b], e[b][k].clu = c, e[b][k].dir, e[b][k].linked
          PROVE  s.heads[j].linked /\ e[b][k].size = 1 /\ s.heads[j].up = b /\ HasHead(s, b)
      <4>1. Old(d, e, D, c, b, k)
        BY <1>2, <3>3
      <4>2. /\ OldSame(d, e, b, k) /\ b \in D /\ k \in DOMAIN d[b] /\ d[b][k] \in Entry
            /\ c \in D => e[b][k] = d[b][k]
            /\ c \notin D /\ d[b][k].clu = c => e[b][k].size = 1
        BY <4>1, OldIs
      <4>3. d[b][k].clu = c /\ d[b][k].dir /\ d[b][k].linked
        BY <3>3, <4>2 DEF OldSame
      <4>4. r.heads[j].linked /\ r.heads[j].up = b /\ HasHead(r, b)
        BY <2>1, <2>2, <4>2, <4>3 DEF LinkedTrue
      <4>5. e[b][k].size = 1
        <5>1. c \in D => d[b][k].size = 1
          BY <4>2, <4>3, SoundEntry
        <5>2. QED  BY <4>2, <4>3, <5>1
      <4>6. QED  BY <1>1, <3>1, <4>4, <4>5
    <3>4. LinkedTrue(s, s.heads[j], e, E)
      BY <3>1, <3>3 DEF LinkedTrue
    <3>5. KidsTrue(s.heads[j], e, E) /\ KidsHeaded(s, s.heads[j])
      BY <3>1 DEF KidsTrue, KidsHeaded
    <3>6. QED  BY <3>2, <3>4, <3>5 DEF HeadTrue
  <2>3. CASE j # i
    <3>0. PICK h \in DirHead : h = r.heads[j]
      BY <2>0
    <3>1. s.heads[j] = h
      BY <2>0, <2>3, <3>0 DEF Resets
    <3>2. h.index # c /\ h.index \in Cluster
      BY <1>1, <2>0, <2>3, <3>0 DEF OneHeadEach
    <3>3. h.index \in E <=> h.index \in D
      BY <3>2
    <3>4. SizeTrue(h, e, E)
      <4>1. h.index \notin D => e[h.index] = d[h.index]
        BY <3>2 DEF GrownTo
      <4>2. QED  BY <2>1, <3>0, <3>3, <4>1 DEF SizeTrue
    <3>5. LinkedTrue(s, h, e, E)
      <4>1. ASSUME NEW b \in E, NEW k \in DOMAIN e[b], e[b][k].clu = h.index, e[b][k].dir, e[b][k].linked
            PROVE  h.linked /\ h.size = e[b][k].size /\ h.up = b /\ HasHead(s, b)
        <5>1. Old(d, e, D, c, b, k)
          BY <1>2, <4>1
        <5>2. OldSame(d, e, b, k) /\ b \in D /\ k \in DOMAIN d[b] /\ (d[b][k].clu # c => e[b][k] = d[b][k])
          BY <5>1, OldIs
        <5>3. e[b][k] = d[b][k]
          BY <3>2, <4>1, <5>2 DEF OldSame
        <5>4. QED  BY <1>1, <2>1, <3>0, <4>1, <5>2, <5>3 DEF LinkedTrue
      <4>2. QED  BY <4>1 DEF LinkedTrue
    <3>6. KidsTrue(h, e, E)
      <4>1. CASE ~h.cached
        BY <2>1, <3>0, <4>1 DEF KidsTrue
      <4>2. CASE h.cached /\ h.index \notin D
        BY <2>1, <3>0, <3>3, <4>2 DEF KidsTrue, KidsAre, Held
      <4>3. CASE h.cached /\ h.index \in D
        <5>1. Len(h.kids) = Len(d[h.index]) /\ \A k \in DOMAIN h.kids : Like(h.kids[k], d[h.index][k])
          BY <2>1, <3>0, <4>3 DEF KidsTrue, KidsAre, Held
        <5>2. h.kids \in Seq(Entry) /\ d[h.index] \in Seq(Entry) /\ e[h.index] \in Seq(Entry) /\ Len(e[h.index]) = Len(d[h.index])
          <6>1. h.kids \in Seq(Entry)
            BY TableType
          <6>2. QED  BY <6>1, <3>2, <4>3 DEF GrownTo, Disks
        <5>3. DOMAIN h.kids = DOMAIN d[h.index]
          BY <5>1, <5>2
        <5>4. ASSUME NEW k \in DOMAIN h.kids PROVE Like(h.kids[k], e[h.index][k])
          <6>1. Old(d, e, D, c, h.index, k)
            BY <4>3, <5>3 DEF GrownTo
          <6>2. /\ OldSame(d, e, h.index, k)
                /\ c \notin D /\ d[h.index][k].clu = c => e[h.index][k].linked
                /\ c \in D \/ d[h.index][k].clu # c => e[h.index][k] = d[h.index][k]
            BY <6>1, OldIs
          <6>3. QED  BY <5>1, <6>2 DEF Like, OldSame
        <5>5. QED  BY <3>3, <4>3, <5>1, <5>2, <5>4 DEF KidsTrue, KidsAre, Held
      <4>4. QED  BY <4>1, <4>2, <4>3
    <3>7. KidsHeaded(s, h)
      BY <1>1, <2>1, <3>0 DEF KidsHeaded
    <3>8. QED  BY <3>1, <3>4, <3>5, <3>6, <3>7 DEF HeadTrue
  <2>4. QED  BY <2>2, <2>3
<1>4. s \in Table /\ s.ok /\ OneHeadEach(s)
  <2>1. \A j \in DOMAIN r.heads : s.heads[j].index = r.heads[j].index
    BY DEF Resets
  <2>2. QED  BY <1>1, <2>1 DEF Resets, OneHeadEach
<1>5. QED  BY <1>1, <1>3, <1>4 DEF Mem

AtMostOne(new) == new = <<>> \/ \E x \in Entry : new = <<x>>

(* f is the entry set of a directory that can be reached. *)
IsEntry(f, d, D) ==
  /\ f.dir
  /\ \/ f = RootEntry
     \/ \E b \in D : \E k \in DOMAIN d[b] : f = d[b][k] /\ f.clu # Root

(* What comes after the entry sets there were.                              *)
LEMMA AtMostOneIs ==
  ASSUME NEW new, AtMostOne(new), NEW es \in Seq(Entry)
  PROVE  /\ new \in Seq(Entry) /\ es \o new \in Seq(Entry)
         /\ Len(es) <= Len(es \o new)
         /\ \A k \in DOMAIN es : k \in DOMAIN (es \o new) /\ (es \o new)[k] = es[k]
         /\ \A k \in DOMAIN (es \o new) : k \in DOMAIN es \/ (k = Len(es) + 1 /\ new = <<(es \o new)[k]>>)
<1>1. CASE new = <<>>
  BY <1>1
<1>2. CASE new # <<>>
  <2>1. PICK x \in Entry : new = <<x>>
    BY <1>2 DEF AtMostOne
  <2>2. QED  BY <2>1
<1>3. QED  BY <1>1, <1>2

(* The size that is written back is the one that is there.                 *)
LEMMA ResizedSame ==
  ASSUME NEW d \in Disks, NEW u, NEW D \in SUBSET Cluster, Sound(d, u, D), NEW r, Mem(r, d, D),
         NEW i \in DOMAIN r.heads, NEW c \in D, c = r.heads[i].index
  PROVE  Resized(d, r, i, 1) = d
<1>1. PICK a : a = r.heads[i].up
  OBVIOUS
<1>2. PICK n : n = Find(r, a)
  OBVIOUS
<1>3. Resized(d, r, i, 1) = IF c # Root /\ n # 0 /\ r.heads[n].size = 1 THEN [d EXCEPT ![a] = SizedIn(d[a], c, 1)] ELSE d
  BY <1>1, <1>2, Zenon DEF Resized
<1>4. CASE c # Root /\ n # 0 /\ r.heads[n].size = 1
  <2>1. r \in Table /\ r.heads \in Seq(DirHead)
    BY TableType DEF Mem
  <2>2. n \in DOMAIN r.heads /\ r.heads[n].index = a
    BY <1>2, <1>4, <2>1, FindHead
  <2>3. a \in Cluster /\ (a \notin D => d[a] = <<>>)
    BY <1>4, <2>2, HeadIs
  <2>4. PICK es \in Seq(Entry) : es = d[a]
    BY <2>3 DEF Disks
  <2>5. SizedIn(es, c, 1) = es
    <3>1. SUFFICES ASSUME NEW k \in DOMAIN es, es[k].clu = c, SizedIn(es, c, 1) = [es EXCEPT ![k] = OfSize(es[k], 1)]
                   PROVE  SizedIn(es, c, 1) = es
      BY SizedInIs DEF SizedAs
    <3>2. a \in D
      BY <2>3, <2>4, <3>1
    <3>3. es[k].size = 1
      BY <2>4, <3>1, <3>2, SoundEntry
    <3>4. OfSize(es[k], 1) = es[k]
      BY <3>3, OfSizeType
    <3>5. QED  BY <3>1, <3>4
  <2>6. [d EXCEPT ![a] = SizedIn(d[a], c, 1)] = d
    BY <2>4, <2>5 DEF Disks
  <2>7. QED  BY <1>3, <2>6
<1>5. QED  BY <1>3, <1>4

(* A size that the head of a linked directory has is written to its entry  *)
(* set, where that is.                                                     *)
LEMMA ResizedLinked ==
  ASSUME NEW d \in Disks, NEW u, NEW D \in SUBSET Cluster, Sound(d, u, D), NEW r, Mem(r, d, D),
         NEW i \in DOMAIN r.heads, NEW c, c = r.heads[i].index, NEW b \in D, NEW k \in DOMAIN d[b],
         d[b][k].clu = c, d[b][k].dir, d[b][k].linked, NEW size \in {0, 1}
  PROVE  /\ Resized(d, r, i, size) = [d EXCEPT ![b] = [d[b] EXCEPT ![k] = OfSize(d[b][k], size)]]
         /\ [d[b] EXCEPT ![k] = OfSize(d[b][k], size)] \in Seq(Entry)
<1>1. r.heads[i].up = b /\ HasHead(r, b) /\ c \in Cluster
  BY HeadIs DEF HeadTrue, LinkedTrue
<1>2. PICK n : n = Find(r, b)
  OBVIOUS
<1>3. n # 0 /\ r.heads[n].size = 1
  <2>1. r \in Table /\ r.heads \in Seq(DirHead)
    BY TableType DEF Mem
  <2>2. n # 0 /\ n \in DOMAIN r.heads /\ r.heads[n].index = b
    BY <1>1, <1>2, <2>1, FindHead
  <2>3. QED  BY <2>2, HeadIs
<1>4. c # Root
  BY SoundEntry, ChainAssumption
<1>5. Resized(d, r, i, size) = [d EXCEPT ![b] = SizedIn(d[b], c, size)]
  <2>1. Resized(d, r, i, size) = IF c # Root /\ n # 0 /\ r.heads[n].size = 1 THEN [d EXCEPT ![b] = SizedIn(d[b], c, size)] ELSE d
    BY <1>1, <1>2, Zenon DEF Resized
  <2>2. QED  BY <1>3, <1>4, <2>1
<1>6. PICK es \in Seq(Entry) : es = d[b]
  BY DEF Disks
<1>7. SizedIn(es, c, size) = [es EXCEPT ![k] = OfSize(es[k], size)] /\ SizedIn(es, c, size) \in Seq(Entry)
  <2>1. PICK j \in DOMAIN es : /\ es[j].clu = c /\ SizedIn(es, c, size) = [es EXCEPT ![j] = OfSize(es[j], size)]
                               /\ SizedIn(es, c, size) \in Seq(Entry)
    <3>1. SizedAs(es, c, size)
      BY SizedInIs
    <3>2. k \in DOMAIN es /\ es[k].clu = c
      BY <1>6
    <3>3. QED  BY <3>1, <3>2 DEF SizedAs
  <2>2. c # 0
    BY <1>1, ChainAssumption
  <2>3. j = k
    BY <1>6, <2>1, <2>2, SoundOnce
  <2>4. QED  BY <2>1, <2>3
<1>8. QED  BY <1>5, <1>6, <1>7

(* create, mkdir and fill grow the directory as GrownTo says.               *)
LEMMA GrownDisk ==
  ASSUME NEW d \in Disks, NEW u, NEW D \in SUBSET Cluster, Sound(d, u, D), u \subseteq Cluster, NEW r, Mem(r, d, D),
         NEW i \in DOMAIN r.heads, NEW c, c = r.heads[i].index,
         NEW f, IsEntry(f, d, D), f.clu = c, c # Root => Agrees(r, f), ~GrowsWild(r.heads[i]),
         NEW new, AtMostOne(new),
         NEW e, e = [Resized(d, r, i, 1) EXCEPT ![c] = Placed(@, r.heads[i].size, new)]
  PROVE  GrownTo(d, e, D, c, new) /\ c \in u
<1>0. c \in Cluster /\ Root \in D /\ D \subseteq u /\ d[c] \in Seq(Entry) /\ r.heads[i].size \in {0, 1} /\ 0 \notin Cluster
  <2>1. c \in Cluster /\ r.heads[i] \in DirHead
    BY HeadIs
  <2>2. r.heads[i].size \in {0, 1}
    BY <2>1, TableType
  <2>3. Root \in D /\ D \subseteq u
    BY DEF Sound
  <2>4. QED  BY <2>1, <2>2, <2>3, ChainAssumption DEF Disks
<1>1. CASE c \in D
  <2>1. Resized(d, r, i, 1) = d /\ r.heads[i].size = 1
    BY <1>1, ResizedSame, HeadIs
  <2>2. Placed(d[c], 1, new) = d[c] \o new
    BY DEF Placed
  <2>3. e = [d EXCEPT ![c] = d[c] \o new]
    BY <2>1, <2>2
  <2>4. PICK es : es = d[c] \o new
    OBVIOUS
  <2>5. /\ es \in Seq(Entry)
        /\ Len(d[c]) <= Len(es)
        /\ \A k \in DOMAIN d[c] : k \in DOMAIN es /\ es[k] = d[c][k]
        /\ \A k \in DOMAIN es : k \in DOMAIN d[c] \/ (k = Len(d[c]) + 1 /\ new = <<es[k]>>)
    BY <1>0, <2>4, AtMostOneIs, SMTT(40)
  <2>6. e[c] = es /\ (\A b \in Cluster : b # c => e[b] = d[b]) /\ e \in Disks
    BY <1>0, <2>3, <2>4, <2>5, ZenonT(40) DEF Disks
  <2>7. \A b \in D : \A k \in DOMAIN d[b] : Old(d, e, D, c, b, k) /\ e[b][k] = d[b][k]
    BY <1>1, <2>5, <2>6 DEF Old
  <2>8. D \union {c} = D /\ Held(d, D, c) = d[c] /\ \A b \in D : d[b] \in Seq(Entry) /\ Len(d[b]) \in Nat
    BY <1>1 DEF Held, Disks
  <2>9. \A b \in D : \A k \in DOMAIN e[b] : Old(d, e, D, c, b, k) \/ (b = c /\ k = Len(d[c]) + 1 /\ new = <<e[b][k]>>)
    <3>1. ASSUME NEW b \in D, NEW k \in DOMAIN e[b], k \notin DOMAIN d[b]
          PROVE  b = c /\ k = Len(d[c]) + 1 /\ new = <<e[b][k]>>
      BY <2>5, <2>6, <3>1
    <3>2. QED  BY <2>7, <3>1
  <2>10. \A b \in D : Len(d[b]) <= Len(e[b]) /\ (b # c => Len(d[b]) = Len(e[b]))
    BY <2>5, <2>6, <2>8
  <2>11. QED  BY <1>0, <1>1, <2>6, <2>7, <2>8, <2>9, <2>10 DEF GrownTo
<1>2. CASE c \notin D
  <2>1. PICK b \in D : \E k \in DOMAIN d[b] : f = d[b][k]
    BY <1>0, <1>2, RootType DEF IsEntry
  <2>2. PICK k \in DOMAIN d[b] : f = d[b][k]
    BY <2>1
  <2>3. d[b] \in Seq(Entry) /\ f \in Entry /\ b # c /\ b \in Cluster /\ c # Root
    BY <1>0, <1>2, <2>2 DEF Disks
  <2>4. f.size = 0 /\ r.heads[i].size = 0 /\ f.linked /\ f.dir
    <3>1. f.dir /\ f.size # 1
      BY <1>2, <2>2, SoundEntry DEF IsEntry
    <3>2. f.size = 0
      BY <2>3, <3>1, TableType
    <3>3. r.heads[i].size = f.size /\ r.heads[i].linked = f.linked
      BY <2>3 DEF Agrees
    <3>4. QED  BY <3>1, <3>2, <3>3 DEF GrowsWild
  <2>5. d[c] = <<>> /\ c \in u
    BY <2>2, <2>3, <2>4, <1>0, SoundEntry
  <2>6. PICK es : es = [d[b] EXCEPT ![k] = OfSize(d[b][k], 1)]
    OBVIOUS
  <2>7. Resized(d, r, i, 1) = [d EXCEPT ![b] = es] /\ es \in Seq(Entry)
    BY <2>2, <2>4, <2>6, ResizedLinked
  <2>8. DOMAIN es = DOMAIN d[b] /\ Len(es) = Len(d[b]) /\ es[k] = OfSize(d[b][k], 1) /\ \A j \in DOMAIN d[b] : j # k => es[j] = d[b][j]
    BY <2>3, <2>6, <2>7
  <2>9. Placed(<<>>, 0, new) = <<>> \o new
    BY Zenon DEF Placed
  <2>10. <<>> \o new = new /\ new \in Seq(Entry)
    <3>1. new \in Seq(Entry)
      BY <1>0, AtMostOneIs
    <3>2. QED  BY <3>1, ConcatEmptySeq
  <2>11. e = [[d EXCEPT ![b] = es] EXCEPT ![c] = new]
    <3>1. [d EXCEPT ![b] = es][c] = <<>>
      BY <1>0, <2>3, <2>5 DEF Disks
    <3>2. QED  BY <2>4, <2>7, <2>9, <2>10, <3>1
  <2>12. e[b] = es /\ e[c] = new /\ (\A x \in Cluster : x # b /\ x # c => e[x] = d[x]) /\ e \in Disks
    <3>1. PICK d1 : d1 = [d EXCEPT ![b] = es]
      OBVIOUS
    <3>2. d1 \in Disks /\ d1[b] = es /\ \A x \in Cluster : x # b => d1[x] = d[x]
      BY <2>3, <2>7, <3>1 DEF Disks
    <3>3. e = [d1 EXCEPT ![c] = new]
      BY <2>11, <3>1
    <3>4. e \in Disks /\ e[c] = new /\ \A x \in Cluster : x # c => e[x] = d1[x]
      <4>1. PICK w \in Seq(Entry) : w = new
        BY <2>10
      <4>2. e = [d1 EXCEPT ![c] = w] /\ d1 \in [Cluster -> Seq(Entry)] /\ c \in Cluster
        BY <1>0, <3>2, <3>3, <4>1 DEF Disks
      <4>3. e \in [Cluster -> Seq(Entry)] /\ e[c] = w /\ \A x \in Cluster : x # c => e[x] = d1[x]
        BY ONLY <4>2, w \in Seq(Entry)
      <4>4. QED  BY <4>1, <4>3 DEF Disks
    <3>5. QED  BY <2>3, <3>2, <3>4
  <2>13. ASSUME NEW a \in D, NEW j \in DOMAIN d[a] PROVE Old(d, e, D, c, a, j)
    <3>1. CASE a = b /\ j = k
      BY <1>2, <2>2, <2>4, <2>8, <2>12, <3>1 DEF Old
    <3>2. CASE ~(a = b /\ j = k)
      <4>1. d[a][j].clu # c
        BY <1>0, <2>2, <3>2, SoundOnce
      <4>2. e[a][j] = d[a][j]
        BY <1>2, <2>8, <2>12, <3>2
      <4>3. QED  BY <4>1, <4>2 DEF Old
    <3>3. QED  BY <3>1, <3>2
  <2>14. \A a \in D : DOMAIN e[a] = DOMAIN d[a] /\ Len(e[a]) = Len(d[a]) /\ Len(d[a]) \in Nat
    <3>1. ASSUME NEW a \in D PROVE DOMAIN e[a] = DOMAIN d[a] /\ Len(e[a]) = Len(d[a]) /\ Len(d[a]) \in Nat
      <4>1. a # c /\ a \in Cluster /\ d[a] \in Seq(Entry)
        BY <1>2 DEF Disks
      <4>2. (e[a] = es /\ a = b) \/ e[a] = d[a]
        BY <2>12, <4>1
      <4>3. QED  BY <2>8, <4>1, <4>2
    <3>2. QED  BY <3>1
  <2>15. \A j \in DOMAIN e[c] : j = 0 + 1 /\ new = <<e[c][j]>>
    BY <2>12 DEF AtMostOne
  <2>16. Len(Held(d, D, c)) = 0
    BY <1>2 DEF Held
  <2>17. \A a \in D \union {c} : \A j \in DOMAIN e[a] : Old(d, e, D, c, a, j) \/ (a = c /\ j = Len(Held(d, D, c)) + 1 /\ new = <<e[a][j]>>)
    BY <2>13, <2>14, <2>15, <2>16
  <2>18. \A a \in D : Len(d[a]) <= Len(e[a]) /\ (a # c => Len(d[a]) = Len(e[a]))
    BY <2>14
  <2>19. \A a \in Cluster : a \notin D \union {c} => e[a] = d[a]
    BY <2>12
  <2>20. QED  BY <2>5, <2>12, <2>13, <2>17, <2>18, <2>19 DEF GrownTo
<1>3. QED  BY <1>1, <1>2

-----------------------------------------------------------------------------
(* What a command does to the names: one appears, or one goes.              *)

SameFile(x, y) == x.name = y.name /\ x.clu = y.clu /\ x.dir = y.dir

(* Every entry set of the disk d is still there on e, perhaps in another    *)
(* place and of another size.                                               *)
Keeps(d, D, e, E) ==
  \A b \in D : \A j \in DOMAIN d[b] : b \in E /\ \E i \in DOMAIN e[b] : SameFile(e[b][i], d[b][j])

(* Every one but that at k of the directory c, which has nothing below.     *)
KeepsBut(d, D, e, E, c, k) ==
  /\ \A b \in D : \A j \in DOMAIN d[b] :
       \/ b = c /\ j = k
       \/ b \in E /\ \E i \in DOMAIN e[b] : SameFile(e[b][i], d[b][j])
  /\ c \in D /\ k \in DOMAIN d[c] /\ d[c][k].clu \in D => d[d[c][k].clu] = <<>>

Outgrows(d, D, e, E) == Keeps(d, D, e, E) /\ \E c, k : KeepsBut(e, E, d, D, c, k)

Becomes(d, D, e, E) == Outgrows(d, D, e, E) \/ Outgrows(e, E, d, D)

(* A change that keeps everything keeps everything but nothing.             *)
LEMMA KeepsAll ==
  ASSUME NEW d, NEW D \in SUBSET Cluster, NEW e, NEW E, Keeps(d, D, e, E)
  PROVE  KeepsBut(d, D, e, E, 0, 0)
BY ChainAssumption DEF Keeps, KeepsBut

LEMMA BecomesItself ==
  ASSUME NEW d, NEW D \in SUBSET Cluster
  PROVE  Becomes(d, D, d, D)
<1>1. Keeps(d, D, d, D)
  BY DEF Keeps, SameFile
<1>2. KeepsBut(d, D, d, D, 0, 0)
  BY <1>1, KeepsAll
<1>3. QED  BY <1>1, <1>2 DEF Becomes, Outgrows

(* One entry set appears, and it has no directory yet.                      *)
LEMMA GrownBecomes ==
  ASSUME NEW d \in Disks, NEW D \in SUBSET Cluster, NEW c, NEW new, NEW u, \A x : new = <<x>> => NewEntry(x, u),
         NEW e, GrownTo(d, e, D, c, new), NEW v, NEW E, E = D \union {c}, Sound(e, v, E), c \in Cluster
  PROVE  Becomes(d, D, e, E)
<1>1. /\ e \in Disks
      /\ \A b \in D \union {c} : \A k \in DOMAIN e[b] :
           \/ Old(d, e, D, c, b, k)
           \/ b = c /\ k = Len(Held(d, D, c)) + 1 /\ new = <<e[b][k]>>
      /\ \A b \in D : \A k \in DOMAIN d[b] : Old(d, e, D, c, b, k)
      /\ \A b \in D : Len(d[b]) <= Len(e[b])
  BY DEF GrownTo
<1>2. ASSUME NEW b \in D, NEW j \in DOMAIN d[b] PROVE b \in E /\ j \in DOMAIN e[b] /\ SameFile(e[b][j], d[b][j])
  <2>1. OldSame(d, e, b, j)
    BY <1>1, OldIs
  <2>2. d[b] \in Seq(Entry) /\ e[b] \in Seq(Entry) /\ Len(d[b]) <= Len(e[b])
    BY <1>1 DEF Disks
  <2>3. j \in DOMAIN e[b]
    BY <2>2
  <2>4. QED  BY <2>1, <2>3 DEF OldSame, SameFile
<1>3. Keeps(d, D, e, E)
  BY <1>2 DEF Keeps
<1>4. PICK K : K = Len(Held(d, D, c)) + 1
  OBVIOUS
<1>5. ASSUME NEW b \in E, NEW j \in DOMAIN e[b]
      PROVE  \/ b = c /\ j = K
             \/ b \in D /\ \E i \in DOMAIN d[b] : SameFile(d[b][i], e[b][j])
  <2>1. Old(d, e, D, c, b, j) \/ (b = c /\ j = K)
    BY <1>1, <1>4
  <2>2. CASE Old(d, e, D, c, b, j)
    <3>1. OldSame(d, e, b, j) /\ b \in D /\ j \in DOMAIN d[b]
      BY <2>2, OldIs
    <3>2. SameFile(d[b][j], e[b][j])
      BY <3>1 DEF OldSame, SameFile
    <3>3. QED  BY <3>1, <3>2
  <2>3. QED  BY <2>1, <2>2
<1>6. ASSUME c \in E, K \in DOMAIN e[c], e[c][K].clu \in E PROVE FALSE
  <2>1. Old(d, e, D, c, c, K) \/ new = <<e[c][K]>>
    BY <1>1, <1>6
  <2>2. CASE Old(d, e, D, c, c, K)
    <3>1. c \in D /\ K \in DOMAIN d[c]
      BY <2>2, OldIs
    <3>2. d[c] \in Seq(Entry) /\ K = Len(d[c]) + 1
      BY <1>4, <3>1 DEF Disks, Held
    <3>3. QED  BY <3>1, <3>2
  <2>3. CASE new = <<e[c][K]>>
    <3>1. e[c][K].size = 0
      BY <2>3 DEF NewEntry
    <3>2. e[c][K].clu \in E <=> e[c][K].dir /\ e[c][K].size = 1
      BY <1>6, SoundEntry
    <3>3. QED  BY <1>6, <3>1, <3>2
  <2>4. QED  BY <2>1, <2>2, <2>3
<1>7. KeepsBut(e, E, d, D, c, K)
  BY <1>5, <1>6 DEF KeepsBut
<1>8. QED  BY <1>3, <1>7 DEF Becomes, Outgrows

(* Disk d and bitmap u are sound, and the table r and the current directory *)
(* c of the path p true to them.                                           *)
Holds(d, u, r, c, p, D) ==
  /\ Sound(d, u, D)
  /\ Mem(r, d, D)
  /\ HasHead(r, c)
  /\ EntryOn(d, p).dir
  /\ EntryOn(d, p).clu = c

ReloadsFrom(s, r, i, size, full, d, c, g) == Resets(s, r, i, size) /\ Reload(full, d, c, g) = Traverse(s, d, c, g)

(* Reload after the size in the head at i was changed.                     *)
LEMMA ReloadResets ==
  ASSUME NEW r \in Table, OneHeadEach(r), NEW i \in DOMAIN r.heads, NEW c, c = r.heads[i].index,
         NEW size \in {0, 1}, NEW full, full = WithSize(r, i, size),
         NEW d, NEW g \in BOOLEAN
  PROVE  \E s : ReloadsFrom(s, r, i, size, full, d, c, g)
<1>1. IsWithSize(full, r, i, size)
  BY SizeSet
<1>2. /\ DOMAIN full.heads = DOMAIN r.heads
      /\ \A j \in DOMAIN r.heads : full.heads[j].index = r.heads[j].index
  BY <1>1, WithSizeHeads
<1>3. full \in Table /\ full.heads \in Seq(DirHead)
  BY <1>1, TableType DEF IsWithSize
<1>4. Find(full, c) = i /\ i # 0
  <2>1. HasHead(full, c)
    BY <1>2 DEF HasHead
  <2>2. Find(full, c) \in DOMAIN full.heads /\ full.heads[Find(full, c)].index = c /\ Find(full, c) # 0
    BY <1>3, <2>1, FindHead
  <2>3. QED  BY <1>2, <2>2 DEF OneHeadEach
<1>5. PICK s : s = [Clean(full, i, g) EXCEPT !.heads[i].cached = FALSE]
  OBVIOUS
<1>6. IsWithKids(s, full, i, <<>>, FALSE)
  BY <1>2, <1>3, <1>5, UnloadedType
<1>7. Reload(full, d, c, g) = Traverse(s, d, c, g)
  BY <1>4, <1>5, Zenon DEF Reload
<1>8. Resets(s, r, i, size)
  <2>1. DOMAIN s.heads = DOMAIN full.heads
    <3>1. i \in DOMAIN full.heads
      BY <1>2
    <3>2. QED  BY <3>1, <1>3, <1>6, WithKidsHeads, Zenon
  <2>2. PICK h \in DirHead : h = r.heads[i]
    BY TableType
  <2>3. PICK h1 : h1 = full.heads[i]
    OBVIOUS
  <2>4. h1 \in DirHead /\ h1.index = h.index /\ h1.up = h.up /\ h1.linked = h.linked /\ h1.size = size
    <3>1. h1 = [h EXCEPT !.size = size]
      BY <1>1, <2>2, <2>3 DEF IsWithSize
    <3>2. QED  BY <3>1 DEF DirHead
  <2>5. PICK h2 : h2 = s.heads[i]
    OBVIOUS
  <2>6. h2.index = h1.index /\ h2.up = h1.up /\ h2.linked = h1.linked /\ h2.size = h1.size /\ h2.kids = <<>> /\ ~h2.cached
    <3>1. PICK b \in BOOLEAN : b = FALSE
      OBVIOUS
    <3>2. h2 = [h1 EXCEPT !.kids = <<>>, !.cached = b]
      BY <1>6, <2>3, <2>5, <3>1, Zenon DEF IsWithKids
    <3>3. h2.index = h1.index /\ h2.up = h1.up /\ h2.linked = h1.linked /\ h2.size = h1.size /\ h2.kids = <<>> /\ h2.cached = b
      BY ONLY <3>2, <2>4 DEF DirHead
    <3>4. QED  BY <3>1, <3>3
  <2>7. \A j \in DOMAIN r.heads : j # i => s.heads[j] = r.heads[j]
    BY <1>1, <1>2, <1>6 DEF IsWithSize, IsWithKids
  <2>8. s \in Table /\ s.ok = r.ok
    BY <1>1, <1>6 DEF IsWithSize, IsWithKids
  <2>9. QED  BY <1>2, <2>1, <2>2, <2>3, <2>4, <2>5, <2>6, <2>7, <2>8 DEF Resets
<1>9. QED  BY <1>7, <1>8 DEF ReloadsFrom

(* The directory that grows, f, has a cluster c and a head at i.            *)
Grower(d, u, r, D, i, c, f) ==
  /\ Sound(d, u, D) /\ u \subseteq Cluster /\ Mem(r, d, D)
  /\ i \in DOMAIN r.heads /\ c = r.heads[i].index
  /\ IsEntry(f, d, D) /\ f.clu = c
  /\ c # Root => Agrees(r, f)
  /\ ~GrowsWild(r.heads[i])

(* The bitmap after it, and what the directory gets. *)
Gets(u, v, new) ==
  /\ v \in SUBSET Cluster /\ u \subseteq v
  /\ AtMostOne(new)
  /\ \A x : new = <<x>> => NewEntry(x, u) /\ x.clu \in v \union {0}

GrownAs(d, e, r, t, i, c, new, g) ==
  /\ e = [Resized(d, r, i, 1) EXCEPT ![c] = Placed(@, r.heads[i].size, new)]
  /\ t = Reload([r EXCEPT !.heads[i].size = 1], e, c, g)

(* The path p leads to the directory q, which has a head. *)
Stands(d, r, q, p) == p \in Seq(Name) /\ HasHead(r, q) /\ EntryOn(d, p).dir /\ EntryOn(d, p).clu = q

(* What create, mkdir and fill do, whole: disk, bitmap and memory.          *)
LEMMA GrownStep ==
  ASSUME NEW d \in Disks, NEW u, NEW D \in SUBSET Cluster, NEW r, NEW i, NEW c, NEW f, Grower(d, u, r, D, i, c, f),
         NEW v, NEW new, Gets(u, v, new),
         NEW e, NEW t, NEW g \in BOOLEAN, ~g, GrownAs(d, e, r, t, i, c, new, g),
         NEW q, NEW p, Stands(d, r, q, p)
  PROVE  \E E \in SUBSET Cluster : Holds(e, v, t, q, p, E) /\ Becomes(d, D, e, E)
<1> DEFINE E == D \union {c}
<1>0. /\ Sound(d, u, D) /\ u \subseteq Cluster /\ Mem(r, d, D)
      /\ i \in DOMAIN r.heads /\ c = r.heads[i].index /\ IsEntry(f, d, D) /\ f.clu = c
      /\ c # Root => Agrees(r, f)
      /\ ~GrowsWild(r.heads[i])
      /\ v \in SUBSET Cluster /\ u \subseteq v /\ AtMostOne(new)
      /\ \A x : new = <<x>> => NewEntry(x, u) /\ x.clu \in v \union {0}
      /\ e = [Resized(d, r, i, 1) EXCEPT ![c] = Placed(@, r.heads[i].size, new)]
      /\ t = Reload([r EXCEPT !.heads[i].size = 1], e, c, g)
      /\ p \in Seq(Name) /\ HasHead(r, q) /\ EntryOn(d, p).dir /\ EntryOn(d, p).clu = q
  BY DEF Grower, Gets, GrownAs, Stands
<1>1. GrownTo(d, e, D, c, new) /\ c \in u
  BY <1>0, GrownDisk
<1>2. e \in Disks
  BY <1>1 DEF GrownTo
<1>3. E \in SUBSET Cluster /\ D \subseteq E
  BY <1>0, <1>1
<1>4. Sound(e, v, E)
  BY <1>0, <1>1, GrownSound
<1>5. PICK s : Resets(s, r, i, 1) /\ t = Traverse(s, e, c, g)
  <2>1. r \in Table /\ OneHeadEach(r)
    BY <1>0 DEF Mem
  <2>2. PICK full : full = WithSize(r, i, 1)
    OBVIOUS
  <2>3. PICK s : ReloadsFrom(s, r, i, 1, full, e, c, g)
    <3>1. 1 \in {0, 1}
      OBVIOUS
    <3>2. i \in DOMAIN r.heads /\ g \in BOOLEAN /\ c = r.heads[i].index
      BY <1>0
    <3>3. QED  BY ONLY <2>1, <2>2, <3>1, <3>2, ReloadResets, Zenon
  <2>4. full = [r EXCEPT !.heads[i].size = 1]
    BY <2>2, Zenon DEF WithSize
  <2>5. QED  BY <1>0, <2>3, <2>4 DEF ReloadsFrom
<1>6. Mem(s, e, E) /\ \A x : HasHead(s, x) <=> HasHead(r, x)
  <2>1. \A x : new = <<x>> => NewEntry(x, u)
    BY <1>0
  <2>2. Mem(s, e, E)
    BY <1>0, <1>1, <1>5, <2>1, GrownMem
  <2>3. QED  BY <1>0, <1>5, <2>2, ResetsHeads
<1>7. ReadFrom(t, s, e, E)
  <2>1. HasHead(s, c)
    BY <1>0, <1>5, <1>6 DEF HasHead, Resets
  <2> HIDE DEF E
  <2>2. QED  BY <1>2, <1>3, <1>4, <1>5, <1>6, <2>1, MemTraverse
<1>8. Mem(t, e, E) /\ HasHead(t, q)
  BY <1>0, <1>6, <1>7 DEF ReadFrom
<1>9. EntryOn(e, p).dir /\ EntryOn(e, p).clu = q
  <2>1. PICK N \in Nat : N = Len(p)
    BY <1>0
  <2>2. PICK A \in [0..N -> Places0] :
          /\ A[0] = RootEntry /\ A[N] = EntryOn(d, p)
          /\ \A m \in 1..N : Enters(A, d, D, p, m)
    BY <1>0, <2>1, PathThere, NowhereType, SMTT(40)
  <2>3. ASSUME NEW m \in 1..N PROVE A[m - 1].clu \in E /\ SameThere(d, e, A[m - 1].clu, p[m])
    <3>1. A[m - 1].clu \in D /\ ByName(d[A[m - 1].clu], p[m]) \in DOMAIN d[A[m - 1].clu]
      BY <2>2 DEF Enters
    <3>2. QED  BY <1>1, <1>3, <3>1, GrownSame
  <2> HIDE DEF E
  <2>4. EntryOn(e, p).dir = A[N].dir /\ EntryOn(e, p).clu = A[N].clu
    <3>1. StillLeads(A, d, e, D, E, p, N)
      BY <2>2, <2>3 DEF StillLeads
    <3>2. QED  BY <1>0, <1>2, <1>3, <1>4, <2>1, <3>1, PathKept, SMTT(40)
  <2>5. QED  BY <1>0, <2>2, <2>4
<1>10. Becomes(d, D, e, E)
  <2>1. \A x : new = <<x>> => NewEntry(x, u)
    BY <1>0
  <2>2. c \in Cluster
    BY <1>3
  <2>3. QED  BY <1>1, <1>4, <2>1, <2>2, GrownBecomes
<1>11. Holds(e, v, t, q, p, E)
  BY <1>4, <1>8, <1>9 DEF Holds
<1> HIDE DEF E
<1>12. QED  BY <1>3, <1>10, <1>11

-----------------------------------------------------------------------------
(* An entry set is removed. *)

(* What has the place j now had the place Was before the one at k went.    *)
Was(k, j) == IF j < k THEN j ELSE j + 1

RemovedAt(fs, es, k) ==
  /\ fs \in Seq(Entry)
  /\ \A j \in DOMAIN fs : Was(k, j) \in DOMAIN es /\ Was(k, j) # k /\ fs[j] = es[Was(k, j)]
  /\ \A x \in DOMAIN es : x # k => \E j \in DOMAIN fs : Was(k, j) = x

LEMMA RemovedAtIs ==
  ASSUME NEW es \in Seq(Entry), NEW k \in DOMAIN es
  PROVE  RemovedAt(RemoveAt(es, k), es, k)
<1>1. PICK n \in Nat : n = Len(es) /\ k \in 1..n /\ DOMAIN es = 1..n
  OBVIOUS
<1>2. PICK a : a = SubSeq(es, 1, k - 1)
  OBVIOUS
<1>3. PICK b : b = SubSeq(es, k + 1, n)
  OBVIOUS
<1>4. a \in Seq(Entry) /\ Len(a) = k - 1 /\ \A j \in 1..(k - 1) : a[j] = es[j]
  BY <1>1, <1>2
<1>5. b \in Seq(Entry) /\ Len(b) = n - k /\ \A j \in 1..(n - k) : b[j] = es[j + k]
  BY <1>1, <1>3
<1>6. PICK fs : fs = a \o b
  OBVIOUS
<1>7. /\ fs \in Seq(Entry) /\ Len(fs) = n - 1
      /\ \A j \in 1..(n - 1) : fs[j] = IF j <= k - 1 THEN a[j] ELSE b[j - (k - 1)]
  BY <1>1, <1>4, <1>5, <1>6, SMTT(40)
<1>8. DOMAIN fs = 1..(n - 1)
  BY <1>7
<1>9. ASSUME NEW j \in 1..(n - 1) PROVE Was(k, j) \in 1..n /\ Was(k, j) # k /\ fs[j] = es[Was(k, j)]
  <2>1. CASE j < k
    BY <1>1, <1>4, <1>7, <2>1 DEF Was
  <2>2. CASE ~(j < k)
    <3>1. j - (k - 1) \in 1..(n - k) /\ (j - (k - 1)) + k = j + 1
      BY <1>1, <2>2
    <3>2. fs[j] = es[j + 1]
      BY <1>1, <1>5, <1>7, <2>2, <3>1
    <3>3. QED  BY <1>1, <2>2, <3>2 DEF Was
  <2>3. QED  BY <2>1, <2>2
<1>10. ASSUME NEW x \in 1..n, x # k PROVE \E j \in 1..(n - 1) : Was(k, j) = x
  <2>1. CASE x < k
    BY <1>1, <2>1 DEF Was
  <2>2. CASE ~(x < k)
    <3>1. x - 1 \in 1..(n - 1) /\ ~(x - 1 < k) /\ (x - 1) + 1 = x
      BY <1>1, <1>10, <2>2
    <3>2. QED  BY <3>1 DEF Was
  <2>3. QED  BY <2>1, <2>2
<1>11. fs = RemoveAt(es, k)
  BY <1>1, <1>2, <1>3, <1>6 DEF RemoveAt
<1>12. QED  BY <1>1, <1>7, <1>8, <1>9, <1>10, <1>11 DEF RemovedAt

(* The places of the entry sets that stay are in the same order.            *)
LEMMA WasOrder ==
  ASSUME NEW k \in Nat, NEW i \in Nat, NEW j \in Nat
  PROVE  /\ Was(k, i) \in Nat
         /\ i <= j => Was(k, i) <= Was(k, j)
         /\ Was(k, i) <= Was(k, j) => i <= j
         /\ Was(k, i) = Was(k, j) => i = j
BY DEF Was

(* A name that another entry set has leads where it did.                   *)
LEMMA RemovedName ==
  ASSUME NEW es \in Seq(Entry), NEW k \in DOMAIN es, NEW fs, RemovedAt(fs, es, k), NEW n, n # es[k].name,
         ByName(es, n) # 0
  PROVE  ByName(fs, n) # 0 /\ fs[ByName(fs, n)] = es[ByName(es, n)]
<1>1. PICK x : x = ByName(es, n)
  OBVIOUS
<1>2. x \in DOMAIN es /\ es[x].name = n /\ \A y \in DOMAIN es : es[y].name = n => x <= y
  BY <1>1, NameFound
<1>3. fs \in Seq(Entry) /\ DOMAIN fs \subseteq Nat /\ DOMAIN es \subseteq Nat
  BY DEF RemovedAt
<1>4. PICK j \in DOMAIN fs : Was(k, j) = x
  BY <1>2 DEF RemovedAt
<1>5. fs[j].name = n
  BY <1>2, <1>4 DEF RemovedAt
<1>6. PICK m : m = ByName(fs, n)
  OBVIOUS
<1>7. m # 0
  BY <1>3, <1>5, <1>6, NameFound
<1>8. m \in DOMAIN fs /\ fs[m].name = n /\ m <= j
  BY <1>3, <1>5, <1>6, <1>7, NameFound
<1>9. Was(k, m) \in DOMAIN es /\ fs[m] = es[Was(k, m)]
  BY <1>8 DEF RemovedAt
<1>10. x <= Was(k, m)
  BY <1>2, <1>8, <1>9
<1>11. Was(k, m) <= x
  <2>1. k \in Nat /\ m \in Nat /\ j \in Nat
    BY <1>3, <1>8
  <2>2. QED  BY <1>4, <1>8, <2>1, WasOrder
<1>12. Was(k, m) = x
  BY <1>2, <1>3, <1>9, <1>10, <1>11
<1>13. QED  BY <1>1, <1>6, <1>7, <1>9, <1>12

(* e is the disk d without the entry set k of the directory c, of which    *)
(* nothing is below.                                                       *)
RemovedFrom(d, e, D, c, k) ==
  /\ e \in Disks
  /\ c \in D /\ k \in DOMAIN d[c]
  /\ d[c][k].clu \in D => d[d[c][k].clu] = <<>>
  /\ RemovedAt(e[c], d[c], k)
  /\ \A b \in Cluster : b # c => e[b] = d[b]

(* Every entry set that stays was there.                                    *)
LEMMA RemovedWas ==
  ASSUME NEW d \in Disks, NEW u, NEW D \in SUBSET Cluster, Sound(d, u, D), NEW c, NEW k, NEW e, RemovedFrom(d, e, D, c, k),
         NEW b \in D, NEW j \in DOMAIN e[b]
  PROVE  \E w \in DOMAIN d[b] : /\ e[b][j] = d[b][w] /\ ~(b = c /\ w = k)
                               /\ w = IF b = c THEN Was(k, j) ELSE j
<1>1. CASE b = c
  BY <1>1 DEF RemovedFrom, RemovedAt
<1>2. CASE b # c
  BY <1>2 DEF RemovedFrom
<1>3. QED  BY <1>1, <1>2

(* Removing an entry set keeps the volume sound.                            *)
LEMMA RemovedSound ==
  ASSUME NEW d \in Disks, NEW u, NEW D \in SUBSET Cluster, Sound(d, u, D), u \subseteq Cluster,
         NEW c, NEW k, NEW e, RemovedFrom(d, e, D, c, k),
         NEW v, v \subseteq u, u \ {d[c][k].clu} \subseteq v, NEW E, E = D \ {d[c][k].clu}
  PROVE  Sound(e, v, E)
<1> DEFINE x == d[c][k].clu
<1>0. /\ e \in Disks /\ c \in D /\ k \in DOMAIN d[c] /\ Root \in D /\ D \subseteq u /\ 0 \notin Cluster
      /\ \A b \in Cluster : b # c => e[b] = d[b]
  BY ChainAssumption DEF RemovedFrom, Sound
<1>1. x # Root /\ d[c] # <<>>
  BY <1>0, SoundEntry, ChainAssumption DEF Disks
<1>2. ASSUME NEW b \in D, NEW w \in DOMAIN d[b], ~(b = c /\ w = k) PROVE d[b][w].clu = x => x = 0
  BY <1>0, <1>2, SoundOnce
<1>3. ASSUME NEW b \in E, NEW j \in DOMAIN e[b]
      PROVE  /\ e[b][j].name # NoName
             /\ e[b][j].clu \in (v \ {Root}) \union {0}
             /\ e[b][j].clu \in E <=> e[b][j].dir /\ e[b][j].size = 1
             /\ e[b][j].dir /\ e[b][j].linked /\ e[b][j].size = 0 => e[e[b][j].clu] = <<>>
  <2>1. PICK w \in DOMAIN d[b] : e[b][j] = d[b][w] /\ ~(b = c /\ w = k)
    BY RemovedWas
  <2>2. PICK f \in Entry : f = d[b][w]
    BY DEF Disks
  <2>3. /\ f.name # NoName
        /\ f.clu \in (u \ {Root}) \union {0}
        /\ f.clu \in D <=> f.dir /\ f.size = 1
        /\ f.dir /\ f.linked /\ f.size = 0 => d[f.clu] = <<>>
    BY <2>2, SoundEntry
  <2>4. f.clu = x => x = 0
    BY <1>2, <2>1, <2>2
  <2>5. ASSUME f.dir, f.linked, f.size = 0 PROVE e[f.clu] = <<>>
    <3>1. f.clu \in Cluster
      BY <2>5, TableType
    <3>2. f.clu # c
      BY <1>1, <2>3, <2>5
    <3>3. QED  BY <1>0, <2>3, <2>5, <3>1, <3>2
  <2>6. f.clu \in (v \ {Root}) \union {0}
    BY <2>3, <2>4
  <2>7. f.clu \in E <=> f.clu \in D
    BY <1>0, <2>4
  <2>8. QED  BY <2>1, <2>2, <2>3, <2>5, <2>6, <2>7
<1>4. ASSUME NEW b \in E, NEW j \in DOMAIN e[b], NEW a \in E, NEW l \in DOMAIN e[a], e[b][j].clu = e[a][l].clu, e[b][j].clu # 0
      PROVE  b = a /\ j = l
  <2>1. PICK w \in DOMAIN d[b] : e[b][j] = d[b][w] /\ w = IF b = c THEN Was(k, j) ELSE j
    BY RemovedWas
  <2>2. PICK z \in DOMAIN d[a] : e[a][l] = d[a][z] /\ z = IF a = c THEN Was(k, l) ELSE l
    BY RemovedWas
  <2>3. b = a /\ w = z
    BY <1>4, <2>1, <2>2, SoundOnce
  <2>4. k \in Nat /\ j \in Nat /\ l \in Nat
    BY <1>0 DEF Disks
  <2>5. QED  BY <2>1, <2>2, <2>3, <2>4, WasOrder
<1>5. Root \in E /\ E \subseteq v
  BY <1>0, <1>1
<1>6. QED  BY <1>3, <1>4, <1>5 DEF Sound

(* One entry set goes, and there was nothing below it.                      *)
LEMMA RemovedBecomes ==
  ASSUME NEW d \in Disks, NEW u, NEW D \in SUBSET Cluster, Sound(d, u, D),
         NEW c, NEW k, NEW e, RemovedFrom(d, e, D, c, k), NEW E, E = D \ {d[c][k].clu}
  PROVE  Becomes(d, D, e, E)
<1>1. /\ c \in D /\ k \in DOMAIN d[c]
      /\ d[c][k].clu \in D => d[d[c][k].clu] = <<>>
      /\ RemovedAt(e[c], d[c], k)
      /\ \A b \in Cluster : b # c => e[b] = d[b]
  BY DEF RemovedFrom
<1>2. Keeps(e, E, d, D)
  <2>1. ASSUME NEW b \in E, NEW j \in DOMAIN e[b] PROVE b \in D /\ \E i \in DOMAIN d[b] : SameFile(d[b][i], e[b][j])
    <3>1. b \in D
      OBVIOUS
    <3>2. PICK w \in DOMAIN d[b] : e[b][j] = d[b][w]
      BY <3>1, RemovedWas
    <3>3. QED  BY <3>1, <3>2 DEF SameFile
  <2>2. QED  BY <2>1 DEF Keeps
<1>3. ASSUME NEW b \in D, NEW j \in DOMAIN d[b], ~(b = c /\ j = k)
      PROVE  b \in E /\ \E i \in DOMAIN e[b] : SameFile(e[b][i], d[b][j])
  <2>1. b \in E
    <3>1. b # d[c][k].clu
      BY <1>1
    <3>2. QED  BY <3>1
  <2>2. CASE b = c
    <3>1. PICK i \in DOMAIN e[c] : Was(k, i) = j /\ e[c][i] = d[c][Was(k, i)]
      BY <1>1, <1>3, <2>2 DEF RemovedAt
    <3>2. e[b][i] = d[b][j] /\ i \in DOMAIN e[b]
      BY <2>2, <3>1
    <3>3. QED  BY <2>1, <3>2 DEF SameFile
  <2>3. CASE b # c
    <3>1. e[b] = d[b]
      BY <1>1, <2>3
    <3>2. QED  BY <2>1, <3>1 DEF SameFile
  <2>4. QED  BY <2>2, <2>3
<1>4. KeepsBut(d, D, e, E, c, k)
  BY <1>1, <1>3 DEF KeepsBut
<1>5. QED  BY <1>2, <1>4 DEF Becomes, Outgrows

(* Memory stays true to the disk, but for the directory that is to be       *)
(* reloaded.                                                                *)
LEMMA RemovedMem ==
  ASSUME NEW d \in Disks, NEW u, NEW D \in SUBSET Cluster, Sound(d, u, D), NEW r, Mem(r, d, D),
         NEW i \in DOMAIN r.heads, NEW c, c = r.heads[i].index,
         NEW k, NEW e, RemovedFrom(d, e, D, c, k), NEW E, E = D \ {d[c][k].clu},
         NEW s, Resets(s, r, i, 1)
  PROVE  Mem(s, e, E)
<1>1. /\ r \in Table /\ r.ok /\ OneHeadEach(r) /\ HasHead(r, Root) /\ (\A x : HasHead(s, x) <=> HasHead(r, x))
  <2>1. \A x : HasHead(s, x) <=> HasHead(r, x)
    BY ResetsHeads
  <2>2. QED  BY <2>1 DEF Mem
<1>2. /\ e \in Disks /\ c \in D /\ k \in DOMAIN d[c] /\ (\A b \in Cluster : b # c => e[b] = d[b])
      /\ d[c][k].clu \in D => d[d[c][k].clu] = <<>>
  BY DEF RemovedFrom
<1>3. c \in E /\ d[c] # <<>>
  BY <1>2, SMTT(40) DEF Disks
<1>4. ASSUME NEW j \in DOMAIN s.heads PROVE HeadTrue(s, s.heads[j], e, E)
  <2>0. j \in DOMAIN r.heads /\ r.heads[j].index \in Cluster /\ r.heads[j] \in DirHead
    BY <1>4, HeadIs DEF Resets
  <2>1. /\ SizeTrue(r.heads[j], d, D) /\ LinkedTrue(r, r.heads[j], d, D)
        /\ KidsTrue(r.heads[j], d, D) /\ KidsHeaded(r, r.heads[j])
    BY <2>0, HeadIs DEF HeadTrue
  <2>2. PICK h : h = s.heads[j]
    OBVIOUS
  <2>3. h.index = r.heads[j].index /\ h.up = r.heads[j].up /\ h.linked = r.heads[j].linked
    BY <2>0, <2>2 DEF Resets
  <2>4. h.size = r.heads[j].size
    <3>1. CASE j = i
      <4>1. r.heads[j].size = 1
        BY <1>2, <2>0, <3>1, HeadIs
      <4>2. QED  BY <2>2, <3>1, <4>1 DEF Resets
    <3>2. CASE j # i
      BY <2>0, <2>2, <3>2 DEF Resets
    <3>3. QED  BY <3>1, <3>2
  <2>5. LinkedTrue(s, h, e, E)
    <3>1. ASSUME NEW b \in E, NEW l \in DOMAIN e[b], e[b][l].clu = h.index, e[b][l].dir, e[b][l].linked
          PROVE  h.linked /\ h.size = e[b][l].size /\ h.up = b /\ HasHead(s, b)
      <4>1. PICK w \in DOMAIN d[b] : e[b][l] = d[b][w]
        BY RemovedWas
      <4>2. QED  BY <1>1, <2>1, <2>3, <2>4, <3>1, <4>1 DEF LinkedTrue
    <3>2. QED  BY <3>1 DEF LinkedTrue
  <2>6. CASE j = i
    <3>1. h.index = c /\ h.size = 1 /\ h.kids = <<>> /\ ~h.cached
      BY <2>2, <2>6 DEF Resets
    <3>2. SizeTrue(h, e, E) /\ KidsTrue(h, e, E) /\ KidsHeaded(s, h)
      BY <1>3, <3>1 DEF SizeTrue, KidsTrue, KidsHeaded
    <3>3. QED  BY <2>2, <2>5, <3>2 DEF HeadTrue
  <2>7. CASE j # i
    <3>1. h = r.heads[j]
      BY <2>0, <2>2, <2>7 DEF Resets
    <3>2. h.index # c /\ h.index \in Cluster
      BY <1>1, <2>0, <2>7, <3>1 DEF OneHeadEach
    <3>3. e[h.index] = d[h.index]
      BY <1>2, <3>2
    <3>4. SizeTrue(h, e, E)
      BY <1>2, <2>1, <3>1, <3>3 DEF SizeTrue
    <3>5. Held(e, E, h.index) = Held(d, D, h.index)
      BY <1>2, <3>3 DEF Held
    <3>6. KidsTrue(h, e, E)
      BY <2>1, <3>1, <3>5 DEF KidsTrue, KidsAre
    <3>7. KidsHeaded(s, h)
      BY <1>1, <2>1, <3>1 DEF KidsHeaded
    <3>8. QED  BY <2>2, <2>5, <3>4, <3>6, <3>7 DEF HeadTrue
  <2>8. QED  BY <2>6, <2>7
<1>5. s \in Table /\ s.ok /\ OneHeadEach(s)
  <2>1. \A j \in DOMAIN r.heads : s.heads[j].index = r.heads[j].index
    BY DEF Resets
  <2>2. QED  BY <1>1, <2>1 DEF Resets, OneHeadEach
<1>6. QED  BY <1>1, <1>4, <1>5 DEF Mem

(* What was removed is what the path w led to.                             *)
RemovedAtPath(d, e, D, E, c, k, n, w) ==
  /\ RemovedFrom(d, e, D, c, k)
  /\ E = D \ {d[c][k].clu}
  /\ k = ByName(d[c], n)
  /\ EntryOn(d, w) = d[c][k]

(* A path to a directory, other than the one removed, leads there still.   *)
LEMMA RemovedPath ==
  ASSUME NEW d \in Disks, NEW u, NEW D \in SUBSET Cluster, Sound(d, u, D),
         NEW e, NEW v, NEW E \in SUBSET Cluster, Sound(e, v, E),
         NEW c, NEW k, NEW n, NEW w \in Seq(Name), RemovedAtPath(d, e, D, E, c, k, n, w),
         NEW p \in Seq(Name), p # w, EntryOn(d, p).dir
  PROVE  EntryOn(e, p).dir /\ EntryOn(e, p).clu = EntryOn(d, p).clu
<1>1. /\ e \in Disks /\ c \in D /\ k \in DOMAIN d[c] /\ (\A b \in Cluster : b # c => e[b] = d[b])
      /\ d[c][k].clu \in D => d[d[c][k].clu] = <<>>
      /\ RemovedAt(e[c], d[c], k)
      /\ E = D \ {d[c][k].clu} /\ k = ByName(d[c], n) /\ EntryOn(d, w) = d[c][k]
  BY DEF RemovedFrom, RemovedAtPath
<1>2. PICK N \in Nat : N = Len(p)
  OBVIOUS
<1>3. PICK A \in [0..N -> Places0] :
        /\ A[0] = RootEntry /\ A[N] = EntryOn(d, p)
        /\ \A m \in 1..N : Enters(A, d, D, p, m)
  BY <1>2, PathThere, NowhereType
<1>4. ASSUME NEW m \in 1..N
      PROVE  A[m - 1].clu \in D /\ d[A[m - 1].clu] # <<>> /\ A[m - 1].clu # d[c][k].clu
             /\ d[A[m - 1].clu] \in Seq(Entry)
             /\ ByName(d[A[m - 1].clu], p[m]) # 0
             /\ A[m] = d[A[m - 1].clu][ByName(d[A[m - 1].clu], p[m])]
  <2>1. PICK b \in D : b = A[m - 1].clu
    BY <1>3 DEF Enters
  <2>2. d[b] \in Seq(Entry) /\ ByName(d[b], p[m]) \in DOMAIN d[b] /\ A[m] = d[b][ByName(d[b], p[m])]
    BY <1>3, <2>1 DEF Enters, Disks
  <2>3. d[b] # <<>> /\ ByName(d[b], p[m]) # 0
    BY <2>2
  <2>4. b # d[c][k].clu
    BY <1>1, <2>3
  <2>5. QED  BY <2>1, <2>2, <2>3, <2>4
<1>5. ASSUME NEW m \in 1..N PROVE SameThere(d, e, A[m - 1].clu, p[m])
  <2>1. PICK b \in D : b = A[m - 1].clu
    BY <1>4
  <2>2. d[b] \in Seq(Entry) /\ ByName(d[b], p[m]) # 0 /\ A[m] = d[b][ByName(d[b], p[m])]
    BY <1>4, <2>1
  <2>3. CASE b # c
    BY <1>1, <2>1, <2>2, <2>3 DEF SameThere
  <2>4. CASE b = c
    <3>1. p[m] # d[c][k].name
      <4>1. SUFFICES ASSUME p[m] = d[c][k].name PROVE FALSE
        OBVIOUS
      <4>2. d[c][k].name = n
        <5>1. k # 0
          BY <1>1, <2>2, <2>4
        <5>2. k = ByName(d[c], n) /\ d[c] \in Seq(Entry)
          BY <1>1, <2>2, <2>4
        <5>3. d[c][ByName(d[c], n)].name = n
          BY <5>1, <5>2, NameFound
        <5>4. QED  BY <5>2, <5>3
      <4>3. A[m] = d[c][k]
        <5>1. A[m] = d[c][ByName(d[c], n)]
          BY <2>2, <2>4, <4>1, <4>2
        <5>2. QED  BY <1>1, <5>1
      <4>4. CASE m = N
        <5>1. d[c][k] = EntryOn(d, p)
          BY <1>3, <4>3, <4>4
        <5>2. EntryOn(d, p) # Nowhere /\ EntryOn(d, w) # Nowhere /\ EntryOn(d, p).clu # 0
          <6>1. EntryOn(d, p) # Nowhere
            BY NowhereType
          <6>2. EntryOn(d, p).clu # 0
            BY <6>1, EntryFrom, ChainAssumption
          <6>3. QED  BY <1>1, <5>1, <6>1, <6>2
        <5>3. p = w
          BY <5>1, <5>2, PathUnique, SMTT(40)
        <5>4. QED  BY <5>3
      <4>5. CASE m # N
        <5>1. PICK l \in 1..N : l - 1 = m
          <6>1. m + 1 \in 1..N /\ (m + 1) - 1 = m
            BY <4>5
          <6>2. QED  BY <6>1
        <5>2. A[l - 1].clu # d[c][k].clu
          BY <1>4
        <5>3. QED  BY <4>3, <5>1, <5>2
      <4>6. QED  BY <4>4, <4>5
    <3>2. ByName(e[c], p[m]) # 0 /\ e[c][ByName(e[c], p[m])] = d[c][ByName(d[c], p[m])]
      BY <1>1, <2>2, <2>4, <3>1, RemovedName
    <3>3. QED  BY <2>1, <2>4, <3>2 DEF SameThere
  <2>5. QED  BY <2>3, <2>4
<1>6. StillLeads(A, d, e, D, E, p, N)
  <2>1. \A m \in 1..N : A[m - 1].clu \in E
    BY <1>1, <1>4
  <2>2. QED  BY <1>3, <1>5, <2>1 DEF StillLeads
<1>7. EntryOn(e, p).dir = A[N].dir /\ EntryOn(e, p).clu = A[N].clu
  BY <1>1, <1>2, <1>6, PathKept
<1>8. QED  BY <1>3, <1>7

(* The directory that loses an entry set has a cluster c and a head at i.  *)
Taker(d, u, r, D, i, c) ==
  /\ Sound(d, u, D) /\ u \subseteq Cluster /\ Mem(r, d, D)
  /\ i \in DOMAIN r.heads /\ c = r.heads[i].index

(* It has lost the one the path w led to, and u may have lost its cluster; *)
(* then it was read again.                                                 *)
Lost(d, e, u, v, r, t, D, c, k, n, w, g) ==
  /\ t = Reload(r, e, c, g)
  /\ RemovedFrom(d, e, D, c, k)
  /\ k = ByName(d[c], n)
  /\ w \in Seq(Name) /\ EntryOn(d, w) = d[c][k]
  /\ v \subseteq u /\ u \ {d[c][k].clu} \subseteq v

(* What rm and rmdir do, whole: disk, bitmap and memory.                    *)
LEMMA RemovedStep ==
  ASSUME NEW d \in Disks, NEW u, NEW D \in SUBSET Cluster, NEW r, NEW i, NEW c, Taker(d, u, r, D, i, c),
         NEW e, NEW v, NEW k, NEW n, NEW w, NEW g \in BOOLEAN, ~g, NEW t,
         Lost(d, e, u, v, r, t, D, c, k, n, w, g),
         NEW q, NEW p, Stands(d, r, q, p), p # w
  PROVE  \E E \in SUBSET Cluster : Holds(e, v, t, q, p, E) /\ Becomes(d, D, e, E)
<1>0. /\ Sound(d, u, D) /\ u \subseteq Cluster /\ Mem(r, d, D)
      /\ i \in DOMAIN r.heads /\ c = r.heads[i].index
      /\ RemovedFrom(d, e, D, c, k) /\ k = ByName(d[c], n) /\ t = Reload(r, e, c, g)
      /\ w \in Seq(Name) /\ EntryOn(d, w) = d[c][k] /\ v \subseteq u /\ u \ {d[c][k].clu} \subseteq v
      /\ p \in Seq(Name) /\ HasHead(r, q) /\ EntryOn(d, p).dir /\ EntryOn(d, p).clu = q
  BY DEF Taker, Lost, Stands
<1>1. PICK E \in SUBSET Cluster : E = D \ {d[c][k].clu}
  BY <1>0
<1>2. Sound(e, v, E) /\ e \in Disks
  <2>1. Sound(d, u, D) /\ u \subseteq Cluster /\ RemovedFrom(d, e, D, c, k) /\ v \subseteq u /\ u \ {d[c][k].clu} \subseteq v
    BY <1>0
  <2>2. Sound(e, v, E)
    BY <1>1, <2>1, RemovedSound, Zenon
  <2>3. e \in Disks
    BY <2>1 DEF RemovedFrom
  <2>4. QED  BY <2>2, <2>3
<1>3. r \in Table /\ OneHeadEach(r) /\ c \in D /\ r.heads \in Seq(DirHead)
  BY <1>0, TableType DEF Mem, RemovedFrom
<1>4. Find(r, c) = i /\ i # 0 /\ r.heads[i].size = 1 /\ r.heads[i] \in DirHead
  <2>1. i # 0
    BY <1>0, <1>3, SMTT(40)
  <2>2. QED  BY <1>0, <1>3, <2>1, HeadIs, SMTT(40)
<1>5. PICK s : s = [Clean(r, i, g) EXCEPT !.heads[i].cached = FALSE]
  OBVIOUS
<1>6. IsWithKids(s, r, i, <<>>, FALSE)
  BY <1>0, <1>3, <1>5, UnloadedType
<1>7. t = Traverse(s, e, c, g)
  BY <1>0, <1>4, <1>5, Zenon DEF Reload
<1>8. Resets(s, r, i, 1)
  <2>1. DOMAIN s.heads = DOMAIN r.heads
    BY <1>0, <1>3, <1>6, WithKidsHeads, Zenon
  <2>2. PICK h1 \in DirHead : h1 = r.heads[i]
    BY <1>4
  <2>3. PICK h2 : h2 = s.heads[i]
    OBVIOUS
  <2>4. h2.index = h1.index /\ h2.up = h1.up /\ h2.linked = h1.linked /\ h2.size = h1.size /\ h2.kids = <<>> /\ ~h2.cached
    <3>1. PICK b \in BOOLEAN : b = FALSE
      OBVIOUS
    <3>2. h2 = [h1 EXCEPT !.kids = <<>>, !.cached = b]
      BY <1>6, <2>2, <2>3, <3>1, Zenon DEF IsWithKids
    <3>3. h2.index = h1.index /\ h2.up = h1.up /\ h2.linked = h1.linked /\ h2.size = h1.size /\ h2.kids = <<>> /\ h2.cached = b
      BY ONLY <3>2, h1 \in DirHead DEF DirHead
    <3>4. QED  BY <3>1, <3>3
  <2>5. \A j \in DOMAIN r.heads : j # i => s.heads[j] = r.heads[j]
    BY <1>6 DEF IsWithKids
  <2>6. s \in Table /\ s.ok = r.ok
    BY <1>6 DEF IsWithKids
  <2>7. QED  BY <1>0, <1>4, <2>1, <2>2, <2>3, <2>4, <2>5, <2>6 DEF Resets
<1>9. Mem(s, e, E) /\ \A x : HasHead(s, x) <=> HasHead(r, x)
  <2>1. Mem(s, e, E)
    BY <1>0, <1>1, <1>8, RemovedMem
  <2>2. QED  BY <1>0, <1>8, <2>1, ResetsHeads
<1>10. ReadFrom(t, s, e, E)
  <2>1. HasHead(s, c)
    BY <1>0, <1>8, <1>9 DEF HasHead, Resets
  <2>2. QED  BY <1>2, <1>7, <1>9, <2>1, MemTraverse
<1>11. EntryOn(e, p).dir /\ EntryOn(e, p).clu = q
  <2>1. RemovedAtPath(d, e, D, E, c, k, n, w)
    BY <1>0, <1>1 DEF RemovedAtPath
  <2>2. Sound(e, v, E)
    BY <1>2
  <2>3. EntryOn(e, p).clu = EntryOn(d, p).clu
    BY <1>0, <2>1, <2>2, RemovedPath, SMTT(40)
  <2>4. EntryOn(e, p).dir
    BY <1>0, <2>1, <2>2, RemovedPath, SMTT(40)
  <2>5. QED  BY <1>0, <2>3, <2>4
<1>12. Becomes(d, D, e, E)
  BY <1>0, <1>1, RemovedBecomes
<1>13. Holds(e, v, t, q, p, E)
  BY <1>0, <1>2, <1>9, <1>10, <1>11 DEF Holds, ReadFrom
<1>14. QED  BY <1>12, <1>13

-----------------------------------------------------------------------------
(* The commands, used with care. *)

Whole == \E D \in SUBSET Cluster : Holds(disk, used, root, cluster, pwd, D)

(* A step to another such state, by which one name appears or one goes.     *)
Steps(D) ==
  \E E \in SUBSET Cluster : Holds(disk', used', root', cluster', pwd', E) /\ Becomes(disk, D, disk', E)

LEMMA DiskKept ==
  ASSUME NEW D \in SUBSET Cluster, Holds(disk', used', root', cluster', pwd', D), disk' = disk
  PROVE  Steps(D)
<1>1. Becomes(disk, D, disk', D)
  BY BecomesItself
<1>2. QED  BY <1>1 DEF Steps

(* A table that only reading made is as good as the one it was made of.    *)
LEMMA LookedWhole ==
  ASSUME NEW D \in SUBSET Cluster, Holds(disk, used, root, cluster, pwd, D),
         NEW r, ReadFrom(r, root, disk, D), OnlyLooked(r)
  PROVE  Steps(D)
<1>1. root' = r /\ disk' = disk /\ used' = used /\ cluster' = cluster /\ pwd' = pwd
  BY DEF OnlyLooked
<1>2. Holds(disk, used, r, cluster, pwd, D)
  BY DEF Holds, ReadFrom
<1>3. Holds(disk', used', root', cluster', pwd', D)
  BY <1>1, <1>2
<1>4. QED  BY <1>1, <1>3, DiskKept

(* A command that never ends has changed nothing yet.                       *)
LEMMA WildWhole ==
  ASSUME NEW D \in SUBSET Cluster, Holds(disk, used, root, cluster, pwd, D), RunsWild
  PROVE  Steps(D)
<1>1. root' = root /\ disk' = disk /\ used' = used /\ cluster' = cluster /\ pwd' = pwd
  BY DEF RunsWild
<1>2. Holds(disk', used', root', cluster', pwd', D)
  BY <1>1
<1>3. QED  BY <1>1, <1>2, DiskKept

LEMMA ReadFromItself ==
  ASSUME NEW d, NEW D, NEW r, Mem(r, d, D)
  PROVE  ReadFrom(r, r, d, D)
BY DEF ReadFrom

(* The directory part of a path is found where the disk has it.            *)
LEMMA LocatedMem ==
  ASSUME TypeOK, NEW D \in SUBSET Cluster, Holds(disk, used, root, cluster, pwd, D),
         NEW p \in Seq(Name), Reaches(p), NEW g \in BOOLEAN, ~g, NEW at, at = Located(p, g)
  PROVE  /\ ReadFrom(at.tab, root, disk, D)
         /\ at.clu = EntryAt(DirName(p)).clu
         /\ HasHead(at.tab, at.clu)
         /\ DirName(p) \in Seq(Name)
<1>1. disk \in Disks /\ Sound(disk, used, D) /\ Mem(root, disk, D) /\ HasHead(root, cluster) /\ EntryOn(disk, pwd).clu = cluster
  BY DEF TypeOK, Disks, Holds
<1>2. DirName(p) \in Seq(Name)
  <2>1. CASE p = <<>>
    BY <2>1 DEF DirName
  <2>2. CASE p # <<>>
    BY <1>1, <2>2, LastStep
  <2>3. QED  BY <2>1, <2>2
<1>3. CASE DirName(p) = <<>>
  <2>1. at = [tab |-> root, clu |-> cluster]
    BY <1>3, Zenon DEF Located
  <2>2. at.tab = root /\ at.clu = cluster
    BY <2>1
  <2>3. pwd = <<>>
    BY <1>3 DEF Reaches
  <2>4. QED  BY <1>1, <1>2, <1>3, <2>2, <2>3, ReadFromItself DEF EntryAt
<1>4. CASE DirName(p) # <<>>
  <2>1. at = Lookup(root, disk, Root, DirName(p), g)
    BY <1>4, Zenon DEF Located
  <2>2. EntryOn(disk, DirName(p)).dir
    BY DEF Reaches, EntryAt
  <2>3. ReadFrom(at.tab, root, disk, D) /\ at.clu = EntryOn(disk, DirName(p)).clu /\ HasHead(at.tab, EntryOn(disk, DirName(p)).clu)
    BY <1>1, <1>2, <2>1, <2>2, LookupMem
  <2>4. QED  BY <1>2, <2>3 DEF EntryAt
<1>5. QED  BY <1>3, <1>4

(* What traverse makes of the directory that was found. *)
LEMMA LocatedRead ==
  ASSUME TypeOK, NEW D \in SUBSET Cluster, Holds(disk, used, root, cluster, pwd, D),
         NEW r, ReadFrom(r, root, disk, D), NEW c, HasHead(r, c), NEW g \in BOOLEAN, ~g, NEW s, s = Traverse(r, disk, c, g)
  PROVE  /\ ReadFrom(s, root, disk, D) /\ s \in Table /\ s.ok
         /\ Find(s, c) = Find(r, c) /\ Find(s, c) \in DOMAIN s.heads /\ s.heads[Find(s, c)].index = c /\ c \in Cluster
         /\ KidsAre(s.heads[Find(s, c)], disk, D)
         /\ ReadFrom(Reload(s, disk, c, g), root, disk, D)
<1>1. disk \in Disks /\ Sound(disk, used, D) /\ Mem(r, disk, D) /\ r \in Table /\ r.heads \in Seq(DirHead)
  BY TableType DEF TypeOK, Disks, Holds, ReadFrom, Mem
<1>2. /\ ReadFrom(s, r, disk, D)
      /\ Find(s, c) \in DOMAIN s.heads /\ s.heads[Find(s, c)].index = c /\ KidsAre(s.heads[Find(s, c)], disk, D)
  BY <1>1, MemTraverse
<1>3. ReadFrom(s, root, disk, D)
  BY <1>2, ReadFromTwice
<1>4. Mem(s, disk, D) /\ s \in Table /\ s.ok /\ HasHead(s, c)
  BY <1>2 DEF ReadFrom, Mem, HasHead
<1>5. ReadFrom(Reload(s, disk, c, g), s, disk, D)
  BY <1>1, <1>4, MemReload
<1>6. ReadFrom(Reload(s, disk, c, g), root, disk, D)
  BY <1>3, <1>5, ReadFromTwice
<1>7. Find(r, c) # 0
  BY <1>1, FindHead
<1>8. c \in Cluster /\ Find(r, c) \in DOMAIN r.heads /\ Find(r, c) \in DOMAIN s.heads
  BY <1>1, <1>7, TraverseHas
<1>9. r.heads[Find(r, c)].index = c
  BY <1>1, <1>7, FindHead
<1>10. Find(s, c) = Find(r, c)
  <2>1. CASE r.heads[Find(r, c)].cached
    BY <1>1, <2>1, TraverseType
  <2>2. CASE ~r.heads[Find(r, c)].cached
    <3>1. PICK es : es = Listing(disk[c], r.heads[Find(r, c)].size)
      OBVIOUS
    <3>2. PICK i \in DOMAIN r.heads : i = Find(r, c)
      BY <1>8
    <3>3. LoadedTo(s, r, i, es, Len(es), g)
      BY <1>1, <2>2, <3>1, <3>2, TraverseLoads
    <3>4. s.heads[i].index = c
      BY <1>9, <3>2, <3>3 DEF LoadedTo
    <3>5. OneHeadEach(s)
      BY <1>4 DEF Mem
    <3>6. QED  BY <1>2, <1>8, <3>2, <3>4, <3>5 DEF OneHeadEach
  <2>3. QED  BY <2>1, <2>2
<1>11. QED  BY <1>2, <1>3, <1>4, <1>6, <1>8, <1>10

(* The entry set of a directory that is to grow. *)
LEMMA GrowsAgrees ==
  ASSUME TypeOK, NEW D \in SUBSET Cluster, Holds(disk, used, root, cluster, pwd, D),
         NEW p \in Seq(Name), NEW f, f = EntryAt(p), f.dir, InStep(f), NEW s, ReadFrom(s, root, disk, D)
  PROVE  IsEntry(f, disk, D) /\ (f.clu # Root => Agrees(s, f))
<1>1. disk \in Disks /\ Sound(disk, used, D) /\ Mem(root, disk, D) /\ root.heads \in Seq(DirHead)
  BY TableType DEF TypeOK, Disks, Holds
<1>2. f = EntryOn(disk, p) /\ f # Nowhere
  BY NowhereType DEF EntryAt
<1>3. f = RootEntry \/ \E b \in D : \E k \in DOMAIN disk[b] : f = disk[b][k] /\ f.clu # Root
  BY <1>1, <1>2, EntryFrom
<1>4. ASSUME f.clu # Root PROVE Agrees(root, f)
  <2>1. ASSUME NEW i \in DOMAIN root.heads, root.heads[i].index = f.clu
        PROVE  root.heads[i].size = f.size /\ root.heads[i].linked = f.linked
    <3>1. Find(root, f.clu) = i /\ i # 0
      BY <1>1, <2>1, HeadIs
    <3>2. QED  BY <1>4, <3>1 DEF InStep
  <2>2. QED  BY <2>1 DEF Agrees
<1>5. ASSUME f.clu # Root PROVE Agrees(s, f)
  <2>1. PICK b \in D : \E k \in DOMAIN disk[b] : f = disk[b][k]
    BY <1>3, <1>5, RootType
  <2>2. PICK k \in DOMAIN disk[b] : f = disk[b][k]
    BY <2>1
  <2>3. QED  BY <1>4, <1>5, <2>2 DEF ReadFrom
<1>6. QED  BY <1>3, <1>5 DEF IsEntry

(* create and mkdir.                                                        *)
LEMMA MakeWhole ==
  ASSUME TypeOK, NEW D \in SUBSET Cluster, Holds(disk, used, root, cluster, pwd, D),
         NEW p \in Seq(Name), CarefulMake(p), NEW g \in BOOLEAN, ~g, NEW takes \in {1, 2},
         AddEntry(Located(p, g).tab, Located(p, g).clu, FileName(p), takes, g)
  PROVE  Steps(D)
<1>1. PICK at : at = Located(p, g)
  OBVIOUS
<1>2. PICK r : r = at.tab
  OBVIOUS
<1>3. PICK f : f = EntryAt(DirName(p))
  OBVIOUS
<1>4. Reaches(p) /\ p # <<>> /\ InStep(f) /\ f.dir
  BY <1>3 DEF CarefulMake, Grows, Reaches
<1>5. ReadFrom(r, root, disk, D) /\ HasHead(r, f.clu) /\ at.clu = f.clu /\ DirName(p) \in Seq(Name)
  BY <1>1, <1>2, <1>3, <1>4, LocatedMem
<1>6. PICK c : c = f.clu
  OBVIOUS
<1>7. PICK n \in Name : n = FileName(p)
  BY <1>4, LastStep DEF TypeOK, Disks
<1>8. PICK s : s = Traverse(r, disk, c, g)
  OBVIOUS
<1>9. PICK i : i = Find(r, c)
  OBVIOUS
<1>10. /\ ReadFrom(s, root, disk, D) /\ s \in Table /\ s.ok
       /\ i \in DOMAIN s.heads /\ s.heads[i].index = c /\ c \in Cluster
       /\ ReadFrom(Reload(s, disk, c, g), root, disk, D)
  <2>1. HasHead(r, c)
    BY <1>5, <1>6
  <2>2. QED  BY <1>5, <1>8, <1>9, <2>1, LocatedRead
<1>11. r \in Table /\ r.ok /\ i # 0
  <2>1. r \in Table /\ r.ok
    BY <1>5 DEF ReadFrom, Mem
  <2>2. r.heads \in Seq(DirHead)
    BY <2>1, TableType
  <2>3. QED  BY <1>5, <1>6, <1>9, <2>1, <2>2, FindHead
<1>12. AddEntry(r, c, n, takes, g)
  BY <1>1, <1>2, <1>5, <1>6, <1>7
<1>13. \/ OnlyLooked(Reload(s, disk, c, g))
       \/ RunsWild
       \/ ~GrowsWild(s.heads[i]) /\ Added(r, c, n, takes, g)
  BY <1>8, <1>9, <1>10, <1>11, <1>12, AddEntryCases
<1>14. CASE OnlyLooked(Reload(s, disk, c, g))
  BY <1>10, <1>14, LookedWhole
<1>15. CASE RunsWild
  BY <1>15, WildWhole
<1>16. CASE ~GrowsWild(s.heads[i]) /\ Added(r, c, n, takes, g)
  <2>1. IsEntry(f, disk, D) /\ (c # Root => Agrees(s, f))
    BY <1>3, <1>4, <1>5, <1>6, <1>10, GrowsAgrees
  <2>2. PICK size : size = s.heads[i].size
    OBVIOUS
  <2>3. size \in {0, 1}
    BY <1>10, <2>2, TableType
  <2>4. PICK full : full = [s EXCEPT !.heads[i].size = 1]
    OBVIOUS
  <2>5. /\ Cardinality(Free) >= takes + 1 - size
        /\ UNCHANGED <<cluster, pwd, intact>>
        /\ \E grown \in {x \in SUBSET Free : Cardinality(x) = 1 - size} :
             LET new == FirstOf(Free \ grown, takes)
                 e == [name |-> n, clu |-> Max(new), dir |-> TRUE, size |-> 0, linked |-> FALSE]
             IN  /\ used' = used \union grown \union new
                 /\ disk' = [Resized(disk, s, i, 1) EXCEPT ![c] = Placed(@, size, <<e>>)]
                 /\ root' = Reload(full, disk', c, g)
    BY <1>8, <1>9, <1>16, <2>2, <2>4, Zenon DEF Added
  <2>6. PICK grown \in SUBSET Free :
          /\ Cardinality(grown) = 1 - size
          /\ LET new == FirstOf(Free \ grown, takes)
                 e == [name |-> n, clu |-> Max(new), dir |-> TRUE, size |-> 0, linked |-> FALSE]
             IN  /\ used' = used \union grown \union new
                 /\ disk' = [Resized(disk, s, i, 1) EXCEPT ![c] = Placed(@, size, <<e>>)]
                 /\ root' = Reload(full, disk', c, g)
    BY <2>5
  <2>7. PICK new : new = FirstOf(Free \ grown, takes)
    OBVIOUS
  <2>8. PICK e : e = [name |-> n, clu |-> Max(new), dir |-> TRUE, size |-> 0, linked |-> FALSE]
    OBVIOUS
  <2>9. new \subseteq Free \ grown /\ Max(new) \in new /\ e \in Entry
    <3>1. Cardinality(Free) >= takes + 1 - size /\ Cardinality(grown) = 1 - size
      BY <2>5, <2>6, Zenon
    <3>2. n \in Name \union {NoName}
      OBVIOUS
    <3>3. new \subseteq Free \ grown /\ Max(new) \in new /\ MadeEntry(n, new) \in Entry
      BY ONLY TypeOK, <3>1, <3>2, <2>7, <2>3, takes \in {1, 2}, grown \in SUBSET Free, AddedEntry
    <3>4. QED  BY <2>8, <3>3 DEF MadeEntry
  <2>10. /\ used' = used \union grown \union new
         /\ disk' = [Resized(disk, s, i, 1) EXCEPT ![c] = Placed(@, s.heads[i].size, <<e>>)]
         /\ root' = Reload([s EXCEPT !.heads[i].size = 1], disk', c, g)
    BY <2>2, <2>4, <2>6, <2>7, <2>8, Zenon
  <2>11. e.name = n /\ e.size = 0 /\ ~e.linked /\ e.clu \in new
    <3>1. e.name = n /\ e.size = 0 /\ e.linked = FALSE /\ e.clu = Max(new)
      BY <2>8
    <3>2. QED  BY <2>9, <3>1
  <2>12. NewEntry(e, used) /\ e.clu \in used' \union {0} /\ used \subseteq used' /\ used' \in SUBSET Cluster /\ used \subseteq Cluster
    <3>1. n # NoName
      BY ChainAssumption
    <3>2. QED  BY <2>9, <2>10, <2>11, <3>1 DEF NewEntry, Free, TypeOK
  <2>13. AtMostOne(<<e>>) /\ \A x : <<e>> = <<x>> => NewEntry(x, used) /\ x.clu \in used' \union {0}
    <3>1. AtMostOne(<<e>>)
      BY <2>9 DEF AtMostOne
    <3>2. QED  BY <2>12, <3>1
  <2>14. /\ disk \in Disks /\ Sound(disk, used, D) /\ Mem(s, disk, D) /\ HasHead(s, cluster)
         /\ EntryOn(disk, pwd).dir /\ EntryOn(disk, pwd).clu = cluster /\ pwd \in Seq(Name)
    BY <1>10 DEF TypeOK, Disks, Holds, ReadFrom
  <2>15. PICK v : v = used'
    OBVIOUS
  <2>16. PICK ee : ee = disk'
    OBVIOUS
  <2>17. PICK t : t = root'
    OBVIOUS
  <2>18. PICK one : one = <<e>>
    OBVIOUS
  <2>19. \E E \in SUBSET Cluster : Holds(ee, v, t, cluster, pwd, E) /\ Becomes(disk, D, ee, E)
    <3>1. GrownAs(disk, ee, s, t, i, c, one, g)
      BY <2>10, <2>16, <2>17, <2>18, Zenon DEF GrownAs
    <3>2. Gets(used, v, one)
      BY <2>12, <2>13, <2>15, <2>18 DEF Gets
    <3>3. Grower(disk, used, s, D, i, c, f)
      BY <1>6, <1>10, <1>16, <2>1, <2>12, <2>14 DEF Grower
    <3>4. Stands(disk, s, cluster, pwd)
      BY <2>14 DEF Stands
    <3>5. QED  BY <2>14, <3>1, <3>2, <3>3, <3>4, GrownStep, ZenonT(40)
  <2>20. \E E \in SUBSET Cluster : Holds(disk', used', root', cluster', pwd', E) /\ Becomes(disk, D, disk', E)
    BY <2>5, <2>15, <2>16, <2>17, <2>19
  <2>21. QED  BY <2>20 DEF Steps
<1>17. QED  BY <1>13, <1>14, <1>15, <1>16

(* fill.                                                                    *)
LEMMA FillWhole ==
  ASSUME TypeOK, NEW D \in SUBSET Cluster, Holds(disk, used, root, cluster, pwd, D),
         Grows(EntryAt(pwd)), NEW n \in Name, NEW g \in BOOLEAN, ~g, Fill(n, g)
  PROVE  Steps(D)
<1>1. PICK f : f = EntryAt(pwd)
  OBVIOUS
<1>2. /\ disk \in Disks /\ Sound(disk, used, D) /\ Mem(root, disk, D) /\ HasHead(root, cluster)
      /\ f.dir /\ f.clu = cluster /\ pwd \in Seq(Name) /\ EntryOn(disk, pwd).dir /\ EntryOn(disk, pwd).clu = cluster
      /\ root \in Table /\ root.heads \in Seq(DirHead)
  BY <1>1, TableType DEF TypeOK, Disks, Holds, EntryAt
<1>3. PICK i : i = Find(root, cluster)
  OBVIOUS
<1>4. i # 0 /\ i \in DOMAIN root.heads /\ root.heads[i].index = cluster
  BY <1>2, <1>3, FindHead
<1>5. ReadFrom(root, root, disk, D) /\ ReadFrom(Reload(root, disk, cluster, g), root, disk, D)
  BY <1>2, ReadFromItself, MemReload
<1>6. \/ OnlyLooked(Reload(root, disk, cluster, g))
      \/ RunsWild
      \/ ~GrowsWild(root.heads[i]) /\ FillGrows(n, g, i, root.heads[i])
  BY <1>3, <1>4, FillCases
<1>7. CASE OnlyLooked(Reload(root, disk, cluster, g))
  BY <1>5, <1>7, LookedWhole
<1>8. CASE RunsWild
  BY <1>8, WildWhole
<1>9. CASE ~GrowsWild(root.heads[i]) /\ FillGrows(n, g, i, root.heads[i])
  <2>1. IsEntry(f, disk, D) /\ (cluster # Root => Agrees(root, f))
    <3>1. InStep(f)
      BY <1>1 DEF Grows
    <3>2. QED  BY <1>1, <1>2, <1>5, <3>1, GrowsAgrees
  <2>2. UNCHANGED <<cluster, pwd, intact>>
    BY <1>9 DEF FillGrows
  <2>3. PICK grown \in {x \in SUBSET Free : Cardinality(x) = 1 - root.heads[i].size}, new \in {<<>>, <<FilledEntry(n)>>} :
          /\ used' = used \union grown
          /\ disk' = [Resized(disk, root, i, 1) EXCEPT ![cluster] = Placed(@, root.heads[i].size, new)]
          /\ root' = Reload([root EXCEPT !.heads[i].size = 1], disk', cluster, g)
    BY <1>9, Zenon DEF FillGrows
  <2>4. PICK x \in Entry : x = FilledEntry(n)
    BY DEF FilledEntry, Entry
  <2>5. x.name = n /\ x.clu = 0 /\ x.size = 0 /\ ~x.linked
    <3>1. x.name = n /\ x.clu = 0 /\ x.size = 0 /\ x.linked = FALSE
      BY <2>4 DEF FilledEntry
    <3>2. QED  BY <3>1
  <2>6. NewEntry(x, used) /\ used \subseteq Cluster
    BY <2>5, ChainAssumption DEF NewEntry, TypeOK
  <2>7. AtMostOne(new)
    BY <2>3, <2>4 DEF AtMostOne
  <2>8. ASSUME NEW y, new = <<y>> PROVE NewEntry(y, used) /\ y.clu = 0
    <3>1. new = <<x>>
      BY <2>3, <2>4, <2>8
    <3>2. y = x
      BY <2>8, <3>1
    <3>3. QED  BY <2>5, <2>6, <3>2
  <2>9. PICK v : v = used'
    OBVIOUS
  <2>10. PICK e : e = disk'
    OBVIOUS
  <2>11. PICK t : t = root'
    OBVIOUS
  <2>12. Gets(used, v, new)
    <3>1. v \in SUBSET Cluster /\ used \subseteq v
      BY <2>3, <2>6, <2>9 DEF Free
    <3>2. QED  BY <2>7, <2>8, <3>1 DEF Gets
  <2>13. GrownAs(disk, e, root, t, i, cluster, new, g)
    BY <2>3, <2>10, <2>11, Zenon DEF GrownAs
  <2>14. Grower(disk, used, root, D, i, cluster, f)
    BY <1>2, <1>4, <1>9, <2>1, <2>6 DEF Grower
  <2>15. Stands(disk, root, cluster, pwd)
    BY <1>2 DEF Stands
  <2>16. \E E \in SUBSET Cluster : Holds(e, v, t, cluster, pwd, E) /\ Becomes(disk, D, e, E)
    <3>1. disk \in Disks
      BY <1>2
    <3>2. QED  BY <3>1, <2>12, <2>13, <2>14, <2>15, GrownStep, ZenonT(40)
  <2>17. \E E \in SUBSET Cluster : Holds(disk', used', root', cluster', pwd', E) /\ Becomes(disk, D, disk', E)
    BY <2>2, <2>9, <2>10, <2>11, <2>16
  <2>18. QED  BY <2>17 DEF Steps
<1>10. QED  BY <1>6, <1>7, <1>8, <1>9

(* The child k that is taken has the hash of the name, and no other name   *)
(* on disk has.                                                            *)
Takes(d, D, s, i, c, n, k) ==
  /\ i \in DOMAIN s.heads /\ c = s.heads[i].index /\ KidsAre(s.heads[i], d, D)
  /\ k = ByHash(s.heads[i].kids, n) /\ k # 0
  /\ \A j \in DOMAIN d[c] : Upper[d[c][j].name] = Upper[n] => d[c][j].name = n

(* So it is the one named. *)
LEMMA TakenIs ==
  ASSUME NEW d \in Disks, NEW D \in SUBSET Cluster, NEW s, Mem(s, d, D),
         NEW i, NEW c, NEW n, NEW k, Takes(d, D, s, i, c, n, k)
  PROVE  /\ c \in D /\ k \in DOMAIN d[c] /\ k = ByName(d[c], n) /\ d[c][k].name = n
         /\ Like(s.heads[i].kids[k], d[c][k]) /\ s.heads[i].kids[k] \in Entry /\ d[c][k] \in Entry
<1>0. /\ i \in DOMAIN s.heads /\ c = s.heads[i].index /\ KidsAre(s.heads[i], d, D)
      /\ k = ByHash(s.heads[i].kids, n) /\ k # 0
      /\ \A j \in DOMAIN d[c] : Upper[d[c][j].name] = Upper[n] => d[c][j].name = n
  BY DEF Takes
<1>1. PICK kids \in Seq(Entry) : kids = s.heads[i].kids
  BY <1>0, HeadIs, TableType
<1>2. k \in DOMAIN kids /\ Upper[kids[k].name] = Upper[n] /\ \A j \in DOMAIN kids : Upper[kids[j].name] = Upper[n] => k <= j
  BY <1>0, <1>1, HashFound, SMTT(40)
<1>3. c \in D
  <2>1. SUFFICES ASSUME c \notin D PROVE FALSE
    OBVIOUS
  <2>2. Len(kids) = 0
    BY <1>0, <1>1, <2>1 DEF KidsAre, Held
  <2>3. QED  BY <1>2, <2>2
<1>4. Alike(kids, d[c])
  BY <1>0, <1>1, <1>3, KidsOf
<1>5. /\ d[c] \in Seq(Entry) /\ DOMAIN kids = DOMAIN d[c]
      /\ \A j \in DOMAIN d[c] : Like(kids[j], d[c][j]) /\ kids[j].name = d[c][j].name
  BY <1>4 DEF Alike, Like
<1>6. k \in DOMAIN d[c] /\ d[c][k].name = n
  BY <1>0, <1>2, <1>5
<1>7. \A j \in DOMAIN d[c] : d[c][j].name = n => k <= j
  BY <1>0, <1>2, <1>5
<1>8. k = ByName(d[c], n)
  <2>1. ByName(d[c], n) # 0
    BY <1>5, <1>6, NameFound
  <2>2. ByName(d[c], n) \in DOMAIN d[c] /\ d[c][ByName(d[c], n)].name = n /\ ByName(d[c], n) <= k
    BY <1>5, <1>6, <2>1, NameFound
  <2>3. k <= ByName(d[c], n)
    BY <1>7, <2>2
  <2>4. k \in Nat /\ ByName(d[c], n) \in Nat
    BY ONLY <1>5, <1>6, <2>2
  <2>5. QED  BY ONLY <2>2, <2>3, <2>4
<1>9. kids[k] \in Entry /\ d[c][k] \in Entry
  <2>1. kids \in Seq(Entry)
    OBVIOUS
  <2>2. QED  BY ONLY <1>2, <1>5, <1>6, <2>1
<1>10. QED  BY <1>1, <1>3, <1>5, <1>6, <1>8, <1>9

(* If it is a directory with a cluster, there is nothing below.            *)
LEMMA TakenEmpty ==
  ASSUME NEW D, NEW u, Sound(disk, u, D), NEW c \in D, NEW k \in DOMAIN disk[c], NEW kid, Like(kid, disk[c][k]),
         kid.size \in {0, 1}, NEW type \in {"file", "dir"}, ~Refused(type, kid), ~ReleasesWild(kid)
  PROVE  disk[c][k].clu \in D => disk[disk[c][k].clu] = <<>>
<1> SUFFICES ASSUME disk[c][k].clu \in D PROVE disk[disk[c][k].clu] = <<>>
  OBVIOUS
<1>1. disk[c][k].dir /\ disk[c][k].size = 1
  BY SoundEntry
<1>2. kid.dir /\ kid.clu = disk[c][k].clu
  BY <1>1 DEF Like
<1>3. kid.size # 0
  <2>1. SUFFICES ASSUME kid.size = 0 PROVE FALSE
    OBVIOUS
  <2>2. ~kid.linked
    BY <2>1 DEF ReleasesWild
  <2>3. QED  BY <1>1, <2>1, <2>2 DEF Like
<1>4. type = "dir"
  <2>1. type = "file" => Refused(type, kid) = kid.dir
    BY DEF Refused
  <2>2. QED  BY <1>2, <2>1
<1>5. ~NotEmpty(kid)
  BY <1>4 DEF Refused
<1>6. QED  BY <1>2, <1>3, <1>5 DEF NotEmpty

(* The disk without the entry set k of the directory c.                    *)
LEMMA ErasedFrom ==
  ASSUME NEW d \in Disks, NEW D \in SUBSET Cluster, NEW c \in D, NEW k \in DOMAIN d[c],
         d[c][k].clu \in D => d[d[c][k].clu] = <<>>,
         NEW n, k = ByName(d[c], n), NEW e, e = [d EXCEPT ![c] = Erased(@, n)]
  PROVE  RemovedFrom(d, e, D, c, k)
<1>1. d[c] \in Seq(Entry) /\ c \in Cluster
  BY DEF Disks
<1>2. k # 0
  BY <1>1
<1>3. Erased(d[c], n) = RemoveAt(d[c], k)
  BY <1>2 DEF Erased
<1>4. RemovedAt(RemoveAt(d[c], k), d[c], k)
  BY <1>1, RemovedAtIs
<1>5. e[c] = RemoveAt(d[c], k) /\ RemoveAt(d[c], k) \in Seq(Entry)
  BY <1>1, <1>3, <1>4 DEF Disks, RemovedAt
<1>6. e \in Disks /\ \A b \in Cluster : b # c => e[b] = d[b]
  BY <1>1, <1>3, <1>5 DEF Disks
<1>7. QED  BY <1>4, <1>5, <1>6 DEF RemovedFrom

(* The path whose last name was taken leads to what was taken.             *)
LEMMA TakenPath ==
  ASSUME NEW d \in Disks, NEW u, NEW D \in SUBSET Cluster, Sound(d, u, D), NEW p \in Seq(Name), p # <<>>,
         NEW f, f = EntryOn(d, DirName(p)), f.dir, NEW c \in D, c = f.clu,
         NEW k \in DOMAIN d[c], k = ByName(d[c], FileName(p))
  PROVE  EntryOn(d, p) = d[c][k]
<1>1. EntryOn(d, p) = Into(d, f, FileName(p)) /\ DirName(p) \in Seq(Name)
  BY LastStep
<1>2. f.size = 1
  <2>1. f # Nowhere
    BY NowhereType
  <2>2. f = RootEntry \/ \E b \in D : \E j \in DOMAIN d[b] : f = d[b][j]
    BY <1>1, <2>1, EntryFrom
  <2>3. CASE f = RootEntry
    BY <2>3, RootType
  <2>4. ASSUME NEW b \in D, NEW j \in DOMAIN d[b], f = d[b][j] PROVE f.size = 1
    BY <2>4, SoundEntry
  <2>5. QED  BY <2>2, <2>3, <2>4
<1>3. k # 0
  BY DEF Disks
<1>4. QED  BY <1>1, <1>2, <1>3, IntoDir

(* rm and rmdir.                                                            *)
LEMMA TakeWhole ==
  ASSUME TypeOK, NEW D \in SUBSET Cluster, Holds(disk, used, root, cluster, pwd, D),
         NEW p \in Seq(Name), NEW g \in BOOLEAN, ~g, CarefulTake(p, g), NEW type \in {"file", "dir"},
         RemoveEntry(Located(p, g).tab, Located(p, g).clu, FileName(p), type, g)
  PROVE  Steps(D)
<1>1. PICK at : at = Located(p, g)
  OBVIOUS
<1>2. PICK r : r = at.tab
  OBVIOUS
<1>3. PICK f : f = EntryAt(DirName(p))
  OBVIOUS
<1>4. PICK c : c = f.clu
  OBVIOUS
<1>5. PICK n : n = FileName(p)
  OBVIOUS
<1>6. PICK s : s = Traverse(r, disk, c, g)
  OBVIOUS
<1>7. Reaches(p) /\ f.dir /\ p # pwd
  BY <1>3 DEF CarefulTake, Reaches
<1>8. ReadFrom(r, root, disk, D) /\ HasHead(r, c) /\ at.clu = c /\ DirName(p) \in Seq(Name)
  BY <1>1, <1>2, <1>3, <1>4, <1>7, LocatedMem
<1>9. /\ \A j \in DOMAIN disk[c] : Upper[disk[c][j].name] = Upper[n] => disk[c][j].name = n
      /\ c >= Len(s.heads)
  <2>1. s = Traverse(Located(p, g).tab, disk, EntryAt(DirName(p)).clu, g)
    BY <1>1, <1>2, <1>3, <1>4, <1>6
  <2>2. c >= Len(s.heads)
    BY <1>3, <1>4, <2>1 DEF CarefulTake
  <2>3. \A j \in DOMAIN disk[c] : Upper[disk[c][j].name] = Upper[n] => disk[c][j].name = n
    BY <1>3, <1>4, <1>5 DEF CarefulTake
  <2>4. QED  BY <2>2, <2>3
<1>10. PICK i : i = Find(s, c)
  OBVIOUS
<1>11. /\ ReadFrom(s, root, disk, D) /\ s \in Table /\ s.ok
       /\ i = Find(r, c) /\ i \in DOMAIN s.heads /\ s.heads[i].index = c /\ c \in Cluster
       /\ KidsAre(s.heads[i], disk, D)
       /\ ReadFrom(Reload(s, disk, c, g), root, disk, D)
  BY <1>6, <1>8, <1>10, LocatedRead
<1>12. r \in Table /\ r.ok /\ i # 0
  <2>1. r \in Table /\ r.ok
    BY <1>8 DEF ReadFrom, Mem
  <2>2. r.heads \in Seq(DirHead)
    BY <2>1, TableType
  <2>3. QED  BY <1>8, <1>11, <2>1, <2>2, FindHead
<1>13. RemoveEntry(r, c, n, type, g)
  BY <1>1, <1>2, <1>5, <1>8
<1>14. PICK k : k = ByHash(s.heads[i].kids, n)
  OBVIOUS
<1>15. PICK kid : kid = s.heads[i].kids[k]
  OBVIOUS
<1>16. \/ OnlyLooked(Reload(s, disk, c, g))
       \/ RunsWild
       \/ k # 0 /\ ~Refused(type, kid) /\ ~ReleasesWild(kid) /\ Removed(s, c, kid, n, g)
  BY <1>6, <1>11, <1>12, <1>13, <1>14, <1>15, RemoveEntryCases
<1>17. CASE OnlyLooked(Reload(s, disk, c, g))
  BY <1>11, <1>17, LookedWhole
<1>18. CASE RunsWild
  BY <1>18, WildWhole
<1>19. CASE k # 0 /\ ~Refused(type, kid) /\ ~ReleasesWild(kid) /\ Removed(s, c, kid, n, g)
  <2>1. /\ disk \in Disks /\ Sound(disk, used, D) /\ Mem(s, disk, D) /\ HasHead(s, cluster)
        /\ EntryOn(disk, pwd).dir /\ EntryOn(disk, pwd).clu = cluster /\ pwd \in Seq(Name) /\ used \subseteq Cluster
    BY <1>11 DEF TypeOK, Disks, Holds, ReadFrom
  <2>2. /\ c \in D /\ k \in DOMAIN disk[c] /\ k = ByName(disk[c], n) /\ disk[c][k].name = n
        /\ Like(kid, disk[c][k]) /\ kid \in Entry
    <3>1. disk \in Disks
      BY <2>1
    <3>2. Sound(disk, used, D) /\ Mem(s, disk, D)
      BY <2>1
    <3>3. Takes(disk, D, s, i, c, n, k)
      BY <1>9, <1>11, <1>14, <1>19 DEF Takes
    <3>4. /\ c \in D /\ k \in DOMAIN disk[c] /\ k = ByName(disk[c], n) /\ disk[c][k].name = n
          /\ Like(s.heads[i].kids[k], disk[c][k]) /\ s.heads[i].kids[k] \in Entry
      <4>1. D \in SUBSET Cluster
        OBVIOUS
      <4>2. QED  BY ONLY <3>1, <3>2, <3>3, <4>1, TakenIs
    <3>5. QED  BY <1>15, <3>4
  <2>3. disk[c][k].clu \in D => disk[disk[c][k].clu] = <<>>
    <3>1. kid.size \in {0, 1}
      BY <2>2, TableType
    <3>2. QED  BY <1>19, <2>1, <2>2, <3>1, TakenEmpty
  <2>4. p # <<>>
    <3>1. SUFFICES ASSUME p = <<>> PROVE FALSE
      OBVIOUS
    <3>2. n = NoName
      BY <1>5, <3>1 DEF FileName
    <3>3. QED  BY <2>1, <2>2, <3>2, SoundEntry
  <2>5. EntryOn(disk, p) = disk[c][k]
    BY <1>3, <1>4, <1>5, <1>7, <2>1, <2>2, <2>4, TakenPath DEF EntryAt
  <2>6. Clean(s, c + 1, g) = s
    <3>1. c + 1 \notin DOMAIN s.heads
      <4>1. s.heads \in Seq(DirHead) /\ c \in Nat
        BY <1>11, TableType, ChainAssumption
      <4>2. QED  BY ONLY <1>9, <4>1
    <3>2. QED  BY <1>11, <3>1, CleanType
  <2>7. /\ used' = used \ Released(kid)
        /\ disk' = [disk EXCEPT ![c] = Erased(@, n)]
        /\ root' = Reload(s, disk', c, g)
        /\ UNCHANGED <<cluster, pwd, intact>>
    BY <1>11, <1>19, <2>6, Zenon DEF Removed
  <2>8. PICK v : v = used'
    OBVIOUS
  <2>9. PICK e : e = disk'
    OBVIOUS
  <2>10. PICK t : t = root'
    OBVIOUS
  <2>11. RemovedFrom(disk, e, D, c, k)
    BY <2>1, <2>2, <2>3, <2>7, <2>9, ErasedFrom
  <2>12. v \subseteq used /\ used \ {disk[c][k].clu} \subseteq v
    BY <2>2, <2>7, <2>8 DEF Released, Like
  <2>13. t = Reload(s, e, c, g)
    BY <2>7, <2>9, <2>10
  <2>14. Lost(disk, e, used, v, s, t, D, c, k, n, p, g)
    BY <2>2, <2>5, <2>11, <2>12, <2>13 DEF Lost
  <2>15. Taker(disk, used, s, D, i, c)
    BY <1>11, <2>1 DEF Taker
  <2>16. Stands(disk, s, cluster, pwd)
    BY <2>1 DEF Stands
  <2>17. \E E \in SUBSET Cluster : Holds(e, v, t, cluster, pwd, E) /\ Becomes(disk, D, e, E)
    <3>1. disk \in Disks
      BY <2>1
    <3>2. pwd # p
      BY <1>7
    <3>3. D \in SUBSET Cluster /\ g \in BOOLEAN /\ ~g
      OBVIOUS
    <3>4. QED  BY ONLY <3>1, <3>2, <3>3, <2>14, <2>15, <2>16, RemovedStep
  <2>18. \E E \in SUBSET Cluster : Holds(disk', used', root', cluster', pwd', E) /\ Becomes(disk, D, disk', E)
    BY <2>7, <2>8, <2>9, <2>10, <2>17
  <2>19. QED  BY <2>18 DEF Steps
<1>20. QED  BY <1>16, <1>17, <1>18, <1>19

-----------------------------------------------------------------------------
(* A linked directory is trimmed: it loses its size. *)

(* e is the disk d after that was written to the entry set k of b, of the  *)
(* directory c.                                                            *)
Trimmed(d, e, D, b, k, c) ==
  /\ e \in Disks
  /\ b \in D /\ k \in DOMAIN d[b]
  /\ c \in D /\ c # Root /\ d[c] = <<>>
  /\ d[b][k].clu = c /\ d[b][k].dir /\ d[b][k].linked
  /\ \A a \in Cluster : DOMAIN e[a] = DOMAIN d[a] /\ Len(e[a]) = Len(d[a])
  /\ \A a \in Cluster : \A j \in DOMAIN d[a] : ~(a = b /\ j = k) => e[a][j] = d[a][j]
  /\ e[b][k] = OfSize(d[b][k], 0)

(* What of an entry set no size is. *)
SameBut(d, e, a, j) ==
  /\ e[a][j].name = d[a][j].name /\ e[a][j].clu = d[a][j].clu
  /\ e[a][j].dir = d[a][j].dir /\ e[a][j].linked = d[a][j].linked

(* What a trim makes of the entry set of the directory, and of the others.  *)
LEMMA TrimmedIs ==
  ASSUME NEW d \in Disks, NEW u, NEW D \in SUBSET Cluster, Sound(d, u, D),
         NEW e, NEW b, NEW k, NEW c, Trimmed(d, e, D, b, k, c), NEW a \in Cluster, NEW j \in DOMAIN d[a]
  PROVE  /\ SameBut(d, e, a, j)
         /\ a = b /\ j = k => e[a][j].size = 0
         /\ ~(a = b /\ j = k) => e[a][j] = d[a][j]
         /\ a \in D /\ d[a][j].clu = c => a = b /\ j = k
         /\ d[a] # <<>> /\ a # c
<1>1. d[a] # <<>> /\ a # c
  BY DEF Trimmed, Disks
<1>2. ASSUME a = b, j = k PROVE SameBut(d, e, a, j) /\ e[a][j].size = 0
  <2>1. d[a][j] \in Entry
    BY DEF Disks
  <2>2. e[a][j] = OfSize(d[a][j], 0)
    BY <1>2 DEF Trimmed
  <2>3. QED  BY <2>1, <2>2, OfSizeType DEF SameBut
<1>3. ASSUME ~(a = b /\ j = k) PROVE SameBut(d, e, a, j) /\ e[a][j] = d[a][j]
  <2>1. e[a][j] = d[a][j]
    BY <1>3 DEF Trimmed
  <2>2. QED  BY <2>1 DEF SameBut
<1>4. ASSUME a \in D, d[a][j].clu = c PROVE a = b /\ j = k
  <2>1. b \in D /\ k \in DOMAIN d[b] /\ d[b][k].clu = c /\ c # 0
    BY ChainAssumption DEF Trimmed
  <2>2. QED  BY <1>4, <2>1, SoundOnce
<1>5. QED  BY <1>1, <1>2, <1>3, <1>4

(* A trim keeps the volume sound.                                           *)
LEMMA TrimmedSound ==
  ASSUME NEW d \in Disks, NEW u, NEW D \in SUBSET Cluster, Sound(d, u, D),
         NEW e, NEW b, NEW k, NEW c, Trimmed(d, e, D, b, k, c), NEW E, E = D \ {c}
  PROVE  Sound(e, u, E)
<1>0. /\ Root \in D /\ D \subseteq u /\ c # Root /\ b \in D /\ k \in DOMAIN d[b] /\ c \in D /\ d[c] = <<>> /\ 0 \notin Cluster
      /\ \A a \in Cluster : DOMAIN e[a] = DOMAIN d[a]
  BY ChainAssumption DEF Sound, Trimmed
<1>1. ASSUME NEW a \in Cluster, d[a] = <<>> PROVE e[a] = <<>>
  <2>1. e[a] \in Seq(Entry) /\ Len(e[a]) = Len(d[a])
    BY DEF Trimmed, Disks
  <2>2. Len(e[a]) = 0
    BY <1>1, <2>1
  <2>3. QED  BY <2>1, <2>2, EmptySeq
<1>2. ASSUME NEW a \in E, NEW j \in DOMAIN e[a]
      PROVE  /\ e[a][j].name # NoName
             /\ e[a][j].clu \in (u \ {Root}) \union {0}
             /\ e[a][j].clu \in E <=> e[a][j].dir /\ e[a][j].size = 1
             /\ e[a][j].dir /\ e[a][j].linked /\ e[a][j].size = 0 => e[e[a][j].clu] = <<>>
  <2>1. a \in D /\ a \in Cluster /\ j \in DOMAIN d[a]
    BY <1>0
  <2>2. PICK f \in Entry : f = d[a][j]
    BY <2>1 DEF Disks
  <2>3. /\ f.name # NoName
        /\ f.clu \in (u \ {Root}) \union {0}
        /\ f.clu \in D <=> f.dir /\ f.size = 1
        /\ f.dir /\ f.linked /\ f.size = 0 => d[f.clu] = <<>>
    BY <2>1, <2>2, SoundEntry
  <2>4. e[a][j].name = f.name /\ e[a][j].clu = f.clu /\ e[a][j].dir = f.dir /\ e[a][j].linked = f.linked
    BY <2>1, <2>2, TrimmedIs DEF SameBut
  <2>5. CASE a = b /\ j = k
    <3>1. e[a][j].size = 0 /\ f.clu = c
      BY <2>1, <2>2, <2>5, TrimmedIs DEF Trimmed
    <3>2. e[c] = <<>>
      BY <1>0, <1>1
    <3>3. QED  BY <2>3, <2>4, <3>1, <3>2
  <2>6. CASE ~(a = b /\ j = k)
    <3>1. e[a][j] = f /\ f.clu # c
      BY <2>1, <2>2, <2>6, TrimmedIs
    <3>2. f.dir => f.clu \in Cluster
      BY TableType
    <3>3. QED  BY <1>1, <2>3, <3>1, <3>2
  <2>7. QED  BY <2>5, <2>6
<1>3. ASSUME NEW a \in E, NEW j \in DOMAIN e[a], NEW x \in E, NEW l \in DOMAIN e[x], e[a][j].clu = e[x][l].clu, e[a][j].clu # 0
      PROVE  a = x /\ j = l
  <2>1. a \in D /\ x \in D /\ a \in Cluster /\ x \in Cluster /\ j \in DOMAIN d[a] /\ l \in DOMAIN d[x]
    BY <1>0
  <2>2. e[a][j].clu = d[a][j].clu /\ e[x][l].clu = d[x][l].clu
    BY <2>1, TrimmedIs DEF SameBut
  <2>3. d[a][j].clu = d[x][l].clu /\ d[a][j].clu # 0
    BY <1>3, <2>2
  <2>4. QED  BY <2>1, <2>3, SoundOnce
<1>4. Root \in E /\ E \subseteq u
  BY <1>0
<1>5. QED  BY <1>2, <1>3, <1>4 DEF Sound

(* Memory stays true to the disk, although nothing is reloaded.             *)
LEMMA TrimmedMem ==
  ASSUME NEW d \in Disks, NEW u, NEW D \in SUBSET Cluster, Sound(d, u, D), NEW r, Mem(r, d, D),
         NEW i \in DOMAIN r.heads, NEW c, c = r.heads[i].index,
         NEW e, NEW b, NEW k, Trimmed(d, e, D, b, k, c), NEW E, E = D \ {c},
         NEW t, IsWithSize(t, r, i, 0)
  PROVE  Mem(t, e, E)
<1>1. /\ r \in Table /\ r.ok /\ OneHeadEach(r) /\ HasHead(r, Root)
      /\ DOMAIN t.heads = DOMAIN r.heads
      /\ \A j \in DOMAIN r.heads : t.heads[j].index = r.heads[j].index
      /\ \A x : HasHead(t, x) <=> HasHead(r, x)
  <2>1. r \in Table
    BY DEF Mem
  <2>2. QED  BY <2>1, WithSizeHeads DEF Mem
<1>2. /\ b \in D /\ k \in DOMAIN d[b] /\ c \in D /\ d[c] = <<>>
      /\ \A a \in Cluster : DOMAIN e[a] = DOMAIN d[a] /\ Len(e[a]) = Len(d[a])
  BY DEF Trimmed
<1>3. ASSUME NEW j \in DOMAIN t.heads PROVE HeadTrue(t, t.heads[j], e, E)
  <2>0. j \in DOMAIN r.heads /\ r.heads[j].index \in Cluster
    BY <1>1, <1>3, HeadIs
  <2>1. /\ SizeTrue(r.heads[j], d, D) /\ LinkedTrue(r, r.heads[j], d, D)
        /\ KidsTrue(r.heads[j], d, D) /\ KidsHeaded(r, r.heads[j])
    BY <2>0, HeadIs DEF HeadTrue
  <2>2. PICK o \in DirHead : o = r.heads[j]
    BY <2>0, HeadIs
  <2>3. PICK h : h = t.heads[j]
    OBVIOUS
  <2>4. /\ h.index = o.index /\ h.up = o.up /\ h.linked = o.linked /\ h.cached = o.cached /\ h.kids = o.kids
        /\ j = i => h.size = 0
        /\ j # i => h = o
    <3>1. CASE j = i
      <4>1. h = [o EXCEPT !.size = 0]
        BY <2>2, <2>3, <3>1 DEF IsWithSize
      <4>2. QED  BY <3>1, <4>1 DEF DirHead
    <3>2. CASE j # i
      BY <2>0, <2>2, <2>3, <3>2 DEF IsWithSize
    <3>3. QED  BY <3>1, <3>2
  <2>5. h.index = c <=> j = i
    BY <1>1, <2>0, <2>2, <2>4 DEF OneHeadEach
  <2>6. SizeTrue(h, e, E)
    <3>1. CASE j = i
      BY <2>4, <2>5, <3>1 DEF SizeTrue
    <3>2. CASE j # i
      <4>1. h.index \in E <=> h.index \in D
        BY <2>5, <3>2
      <4>2. h.index \in D => h.size = 1
        BY <2>1, <2>2, <2>4, <3>2 DEF SizeTrue
      <4>3. ASSUME h.index \notin D, d[h.index] = <<>> PROVE e[h.index] = <<>>
        <5>1. h.index \in Cluster
          BY <2>0, <2>2, <2>4
        <5>2. e[h.index] \in Seq(Entry) /\ Len(e[h.index]) = Len(d[h.index])
          BY <5>1 DEF Trimmed, Disks
        <5>3. Len(e[h.index]) = 0
          BY <4>3, <5>2
        <5>4. QED  BY <5>2, <5>3, EmptySeq
      <4>4. h.index \notin D => h.size = 0 \/ d[h.index] = <<>>
        BY <2>1, <2>2, <2>4, <3>2 DEF SizeTrue
      <4>5. QED  BY <4>1, <4>2, <4>3, <4>4 DEF SizeTrue
    <3>3. QED  BY <3>1, <3>2
  <2>7. LinkedTrue(t, h, e, E)
    <3>1. ASSUME NEW a \in E, NEW l \in DOMAIN e[a], e[a][l].clu = h.index, e[a][l].dir, e[a][l].linked
          PROVE  h.linked /\ h.size = e[a][l].size /\ h.up = a /\ HasHead(t, a)
      <4>1. a \in D /\ a \in Cluster /\ l \in DOMAIN d[a]
        BY <1>2
      <4>2. d[a][l].clu = h.index /\ d[a][l].dir /\ d[a][l].linked
        BY <3>1, <4>1, TrimmedIs DEF SameBut
      <4>3. o.linked /\ o.size = d[a][l].size /\ o.up = a /\ HasHead(r, a)
        BY <2>1, <2>2, <2>4, <4>1, <4>2 DEF LinkedTrue
      <4>4. h.size = e[a][l].size
        <5>1. CASE j = i
          <6>1. a = b /\ l = k
            BY <2>5, <4>1, <4>2, <5>1, TrimmedIs
          <6>2. e[a][l].size = 0
            BY <4>1, <6>1, TrimmedIs
          <6>3. QED  BY <2>4, <5>1, <6>2
        <5>2. CASE j # i
          <6>1. ~(a = b /\ l = k)
            BY <2>5, <4>2, <5>2 DEF Trimmed
          <6>2. e[a][l] = d[a][l]
            BY <4>1, <6>1, TrimmedIs
          <6>3. QED  BY <2>4, <4>3, <5>2, <6>2
        <5>3. QED  BY <5>1, <5>2
      <4>5. QED  BY <1>1, <2>4, <4>3, <4>4
    <3>2. QED  BY <3>1 DEF LinkedTrue
  <2>8. KidsTrue(h, e, E)
    <3>1. CASE ~h.cached
      BY <2>1, <2>2, <2>4, <3>1 DEF KidsTrue
    <3>2. CASE h.cached
      <4>1. KidsAre(o, d, D)
        BY <2>1, <2>2, <2>4, <3>2 DEF KidsTrue
      <4>2. PICK x \in Cluster : x = h.index
        BY <2>0, <2>2, <2>4
      <4>3. Len(h.kids) = Len(Held(e, E, x)) /\ DOMAIN Held(e, E, x) = DOMAIN Held(d, D, x)
        <5>1. Len(o.kids) = Len(Held(d, D, x))
          BY <2>4, <4>1, <4>2 DEF KidsAre
        <5>2. CASE x = c
          <6>1. Held(d, D, x) = <<>> /\ Held(e, E, x) = <<>>
            BY <1>2, <5>2 DEF Held
          <6>2. QED  BY <2>4, <5>1, <6>1
        <5>3. CASE x # c
          <6>1. Len(Held(e, E, x)) = Len(Held(d, D, x)) /\ DOMAIN Held(e, E, x) = DOMAIN Held(d, D, x)
            BY <1>2, <5>3 DEF Held
          <6>2. QED  BY <2>4, <5>1, <6>1
        <5>4. QED  BY <5>2, <5>3
      <4>4. ASSUME NEW l \in DOMAIN h.kids PROVE Like(h.kids[l], Held(e, E, x)[l])
        <5>1. Like(h.kids[l], Held(d, D, x)[l])
          BY <2>4, <4>1, <4>2 DEF KidsAre
        <5>2. l \in DOMAIN Held(d, D, x)
          <6>1. h.kids \in Seq(Entry) /\ Held(d, D, x) \in Seq(Entry)
            <7>1. o.kids \in Seq(Entry)
              BY TableType
            <7>2. Held(d, D, x) \in Seq(Entry)
              BY DEF Held, Disks
            <7>3. QED  BY <2>4, <7>1, <7>2
          <6>2. Len(h.kids) = Len(Held(d, D, x))
            BY <2>4, <4>1, <4>2 DEF KidsAre
          <6>3. QED  BY <6>1, <6>2
        <5>3. x \in D /\ x # c /\ Held(d, D, x) = d[x] /\ Held(e, E, x) = e[x] /\ l \in DOMAIN d[x]
          BY <1>2, <5>2 DEF Held
        <5>4. SameBut(d, e, x, l) /\ (e[x][l].size = 0 \/ e[x][l] = d[x][l])
          BY <5>3, TrimmedIs
        <5>5. QED  BY <5>1, <5>3, <5>4 DEF Like, SameBut
      <4>5. KidsAre(h, e, E)
        BY <4>2, <4>3, <4>4 DEF KidsAre
      <4>6. QED  BY <3>2, <4>5 DEF KidsTrue
    <3>3. QED  BY <3>1, <3>2
  <2>9. KidsHeaded(t, h)
    BY <1>1, <2>1, <2>2, <2>4 DEF KidsHeaded
  <2>10. QED  BY <2>3, <2>6, <2>7, <2>8, <2>9 DEF HeadTrue
<1>4. t \in Table /\ t.ok /\ OneHeadEach(t)
  <2>1. t \in Table /\ t.ok
    BY <1>1 DEF IsWithSize
  <2>2. QED  BY <1>1, <2>1 DEF OneHeadEach
<1>5. QED  BY <1>1, <1>3, <1>4 DEF Mem

(* No name appears or goes by a trim.                                       *)
LEMMA TrimmedBecomes ==
  ASSUME NEW d \in Disks, NEW u, NEW D \in SUBSET Cluster, Sound(d, u, D),
         NEW e, NEW b, NEW k, NEW c, Trimmed(d, e, D, b, k, c), NEW E, E = D \ {c}
  PROVE  Becomes(d, D, e, E)
<1>1. ASSUME NEW a \in D, NEW j \in DOMAIN d[a]
      PROVE  a \in E /\ j \in DOMAIN e[a] /\ SameFile(e[a][j], d[a][j]) /\ SameFile(d[a][j], e[a][j])
  <2>1. SameBut(d, e, a, j) /\ a # c
    BY TrimmedIs
  <2>2. j \in DOMAIN e[a]
    BY DEF Trimmed
  <2>3. QED  BY <2>1, <2>2 DEF SameBut, SameFile
<1>2. Keeps(d, D, e, E)
  BY <1>1 DEF Keeps
<1>3. Keeps(e, E, d, D)
  <2>1. ASSUME NEW a \in E, NEW j \in DOMAIN e[a] PROVE a \in D /\ j \in DOMAIN d[a] /\ SameFile(d[a][j], e[a][j])
    <3>1. a \in D /\ j \in DOMAIN d[a]
      BY DEF Trimmed
    <3>2. QED  BY <1>1, <3>1
  <2>2. QED  BY <2>1 DEF Keeps
<1>4. KeepsBut(e, E, d, D, 0, 0)
  BY <1>3, KeepsAll
<1>5. QED  BY <1>2, <1>4 DEF Becomes, Outgrows

(* No path changes: nothing is below the directory that was trimmed.       *)
LEMMA TrimmedPath ==
  ASSUME NEW d \in Disks, NEW u, NEW D \in SUBSET Cluster, Sound(d, u, D),
         NEW e, NEW b, NEW k, NEW c, Trimmed(d, e, D, b, k, c), NEW E \in SUBSET Cluster, E = D \ {c}, Sound(e, u, E),
         NEW p \in Seq(Name), EntryOn(d, p).dir
  PROVE  EntryOn(e, p).dir /\ EntryOn(e, p).clu = EntryOn(d, p).clu
<1>1. PICK N \in Nat : N = Len(p)
  OBVIOUS
<1>2. PICK A \in [0..N -> Places0] :
        /\ A[0] = RootEntry /\ A[N] = EntryOn(d, p)
        /\ \A m \in 1..N : Enters(A, d, D, p, m)
  BY <1>1, PathThere, NowhereType
<1>3. e \in Disks
  BY DEF Trimmed
<1>4. ASSUME NEW m \in 1..N PROVE A[m - 1].clu \in E /\ SameThere(d, e, A[m - 1].clu, p[m])
  <2>1. PICK a \in D : a = A[m - 1].clu
    BY <1>2 DEF Enters
  <2>2. ByName(d[a], p[m]) \in DOMAIN d[a]
    BY <1>2, <2>1 DEF Enters
  <2>3. a \in Cluster /\ a # c
    BY <2>2, TrimmedIs
  <2>4. d[a] \in Seq(Entry) /\ e[a] \in Seq(Entry) /\ Len(e[a]) = Len(d[a]) /\ DOMAIN e[a] = DOMAIN d[a]
    BY <1>3, <2>3 DEF Trimmed, Disks
  <2>5. \A j \in DOMAIN d[a] : e[a][j].name = d[a][j].name
    BY <2>3, TrimmedIs DEF SameBut
  <2>6. PICK n : n = ByName(d[a], p[m])
    OBVIOUS
  <2>7. ByName(e[a], p[m]) = n
    <3>1. Len(d[a]) <= Len(e[a]) /\ Len(d[a]) = Len(e[a])
      BY <2>4
    <3>2. QED  BY <2>4, <2>5, <2>6, <3>1, SameNames
  <2>8. n \in DOMAIN d[a] /\ n # 0 /\ e[a][n].dir = d[a][n].dir /\ e[a][n].clu = d[a][n].clu
    <3>1. n \in DOMAIN d[a]
      BY <2>2, <2>6
    <3>2. n # 0
      BY ONLY <2>4, <3>1
    <3>3. SameBut(d, e, a, n)
      BY <2>3, <3>1, TrimmedIs
    <3>4. QED  BY <3>1, <3>2, <3>3 DEF SameBut
  <2>9. SameThere(d, e, a, p[m])
    BY <2>6, <2>7, <2>8 DEF SameThere
  <2>10. QED  BY <2>1, <2>3, <2>9
<1>5. StillLeads(A, d, e, D, E, p, N)
  BY <1>2, <1>4 DEF StillLeads
<1>6. EntryOn(e, p).dir = A[N].dir /\ EntryOn(e, p).clu = A[N].clu
  BY <1>1, <1>3, <1>5, PathKept
<1>7. QED  BY <1>2, <1>6

(* What is written back when the size of a linked directory is taken away. *)
LEMMA TrimmedDisk ==
  ASSUME NEW d \in Disks, NEW u, NEW D \in SUBSET Cluster, Sound(d, u, D), NEW r, Mem(r, d, D),
         NEW i \in DOMAIN r.heads, NEW c, c = r.heads[i].index, c \in D, d[c] = <<>>,
         NEW b \in D, NEW k \in DOMAIN d[b], d[b][k].clu = c, d[b][k].dir, d[b][k].linked,
         NEW e, e = Resized(d, r, i, 0)
  PROVE  Trimmed(d, e, D, b, k, c)
<1>1. PICK f \in Entry : f = d[b][k]
  BY DEF Disks
<1>2. PICK es : es = [d[b] EXCEPT ![k] = OfSize(f, 0)]
  OBVIOUS
<1>3. e = [d EXCEPT ![b] = es] /\ es \in Seq(Entry)
  <2>1. 0 \in {0, 1}
    OBVIOUS
  <2>2. QED  BY <1>1, <1>2, <2>1, ResizedLinked
<1>4. c # Root
  <2>1. c \in (u \ {Root}) \union {0}
    BY SoundEntry
  <2>2. QED  BY <2>1, ChainAssumption
<1>5. d[b] \in Seq(Entry) /\ b \in Cluster
  BY DEF Disks
<1>6. /\ DOMAIN es = DOMAIN d[b] /\ Len(es) = Len(d[b]) /\ es[k] = OfSize(f, 0)
      /\ \A j \in DOMAIN d[b] : j # k => es[j] = d[b][j]
  BY <1>2, <1>5
<1>7. e \in Disks /\ e[b] = es /\ \A a \in Cluster : a # b => e[a] = d[a]
  BY <1>3, <1>5, ZenonT(40) DEF Disks
<1>8. /\ \A a \in Cluster : DOMAIN e[a] = DOMAIN d[a] /\ Len(e[a]) = Len(d[a])
      /\ \A a \in Cluster : \A j \in DOMAIN d[a] : ~(a = b /\ j = k) => e[a][j] = d[a][j]
  BY <1>6, <1>7
<1>9. QED  BY <1>1, <1>4, <1>6, <1>7, <1>8 DEF Trimmed

(* trim.                                                                    *)
LEMMA TrimWhole ==
  ASSUME TypeOK, NEW D \in SUBSET Cluster, Holds(disk, used, root, cluster, pwd, D),
         CarefulTrim, NEW g \in BOOLEAN, Trim(g)
  PROVE  Steps(D)
<1>1. PICK f : f = EntryAt(pwd)
  OBVIOUS
<1>2. /\ disk \in Disks /\ Sound(disk, used, D) /\ Mem(root, disk, D) /\ HasHead(root, cluster)
      /\ f.dir /\ f.clu = cluster /\ pwd \in Seq(Name) /\ EntryOn(disk, pwd) = f
      /\ root \in Table /\ root.heads \in Seq(DirHead)
  BY <1>1, TableType DEF TypeOK, Disks, Holds, EntryAt
<1>3. PICK i : i = Find(root, cluster)
  OBVIOUS
<1>4. i # 0 /\ i \in DOMAIN root.heads /\ root.heads[i].index = cluster
  BY <1>2, <1>3, FindHead
<1>5. PICK h : h = root.heads[i]
  OBVIOUS
<1>6. cluster # Root /\ h.linked = f.linked /\ (disk[cluster] = <<>> => f.linked /\ f.size = 1)
  BY <1>1, <1>2, <1>3, <1>4, <1>5 DEF CarefulTrim, InStep
<1>7. \/ RunsWild
      \/ OnlyLooked(root)
      \/ disk[cluster] = <<>> /\ ~h.linked
      \/ /\ disk[cluster] = <<>> /\ root' = [root EXCEPT !.heads[i].size = 0]
         /\ disk' = Resized(disk, root, i, 0) /\ UNCHANGED <<used, cluster, pwd, intact>>
  BY <1>3, <1>4, <1>5, Zenon DEF Trim
<1>8. CASE RunsWild
  BY <1>8, WildWhole
<1>9. CASE OnlyLooked(root)
  BY <1>2, <1>9, ReadFromItself, LookedWhole
<1>10. CASE disk[cluster] = <<>> /\ ~h.linked
  BY <1>6, <1>10
<1>11. CASE /\ disk[cluster] = <<>> /\ root' = [root EXCEPT !.heads[i].size = 0]
            /\ disk' = Resized(disk, root, i, 0) /\ UNCHANGED <<used, cluster, pwd, intact>>
  <2>1. f # Nowhere /\ f # RootEntry
    BY <1>2, <1>6, NowhereType, RootType
  <2>2. PICK b \in D : \E k \in DOMAIN disk[b] : f = disk[b][k]
    BY <1>2, <2>1, EntryFrom
  <2>3. PICK k \in DOMAIN disk[b] : f = disk[b][k]
    BY <2>2
  <2>4. f.linked /\ f.size = 1
    BY <1>6, <1>11
  <2>5. cluster \in D
    BY <1>2, <2>3, <2>4, SoundEntry
  <2>6. PICK e : e = disk'
    OBVIOUS
  <2>7. PICK t : t = root'
    OBVIOUS
  <2>8. Trimmed(disk, e, D, b, k, cluster)
    <3>1. e = Resized(disk, root, i, 0)
      BY <1>11, <2>6
    <3>2. disk[b][k].clu = cluster /\ disk[b][k].dir /\ disk[b][k].linked
      BY <1>2, <2>3, <2>4
    <3>3. cluster = root.heads[i].index /\ disk[cluster] = <<>>
      BY <1>4, <1>11
    <3>4. QED  BY <1>2, <1>4, <2>5, <3>1, <3>2, <3>3, TrimmedDisk
  <2>9. IsWithSize(t, root, i, 0)
    <3>1. IsWithSize(WithSize(root, i, 0), root, i, 0)
      BY <1>2, <1>4, SizeSet
    <3>2. t = WithSize(root, i, 0)
      BY <1>11, <2>7, Zenon DEF WithSize
    <3>3. QED  BY <3>1, <3>2
  <2>10. PICK E \in SUBSET Cluster : E = D \ {cluster}
    OBVIOUS
  <2>11. Sound(e, used, E)
    BY <1>2, <2>8, <2>10, TrimmedSound
  <2>12. Mem(t, e, E)
    BY <1>2, <1>4, <2>8, <2>9, <2>10, TrimmedMem
  <2>13. HasHead(t, cluster)
    BY <1>2, <1>4, <2>9, WithSizeHeads
  <2>14. EntryOn(e, pwd).dir /\ EntryOn(e, pwd).clu = cluster
    BY <1>2, <2>8, <2>10, <2>11, TrimmedPath
  <2>15. Holds(e, used, t, cluster, pwd, E)
    BY <2>11, <2>12, <2>13, <2>14 DEF Holds
  <2>16. Holds(disk', used', root', cluster', pwd', E)
    BY <1>11, <2>6, <2>7, <2>15
  <2>17. Becomes(disk, D, disk', E)
    BY <1>2, <2>6, <2>8, <2>10, TrimmedBecomes
  <2>18. QED  BY <2>16, <2>17 DEF Steps
<1>12. QED  BY <1>7, <1>8, <1>9, <1>10, <1>11

(* A session that starts on a sound volume. *)
LEMMA StartedHolds ==
  ASSUME NEW d \in Disks, NEW u, NEW D \in SUBSET Cluster, Sound(d, u, D), NEW g \in BOOLEAN, ~g
  PROVE  Holds(d, u, Started(d, g), Root, <<>>, D)
<1>1. PICK h : h = [index |-> Root, up |-> 0, size |-> 1, linked |-> TRUE, cached |-> g, kids |-> <<>>]
  OBVIOUS
<1>2. h \in DirHead
  BY <1>1, ChainAssumption DEF DirHead
<1>3. h.index = Root /\ h.size = 1 /\ h.kids = <<>> /\ ~h.cached
  BY <1>1
<1>4. PICK r : r = Fresh(g)
  OBVIOUS
<1>5. r = [heads |-> <<h>>, clear |-> ListSize, ok |-> TRUE]
  BY <1>1, <1>4, Zenon DEF Fresh
<1>6. r \in Table /\ r.ok /\ r.heads = <<h>>
  BY <1>2, <1>5, ChainAssumption DEF Table
<1>7. DOMAIN r.heads = {1} /\ r.heads[1] = h
  BY <1>6
<1>8. HasHead(r, Root)
  BY <1>3, <1>7 DEF HasHead
<1>9. Root \in D
  BY DEF Sound
<1>10. HeadTrue(r, h, d, D)
  <2>1. SizeTrue(h, d, D)
    BY <1>3, <1>9 DEF SizeTrue
  <2>2. LinkedTrue(r, h, d, D)
    <3>1. ASSUME NEW b \in D, NEW k \in DOMAIN d[b], d[b][k].clu = Root PROVE FALSE
      <4>1. Root \in (u \ {Root}) \union {0}
        BY <3>1, SoundEntry
      <4>2. QED  BY <4>1, ChainAssumption
    <3>2. QED  BY <1>3, <3>1 DEF LinkedTrue
  <2>3. KidsTrue(h, d, D) /\ KidsHeaded(r, h)
    BY <1>3 DEF KidsTrue, KidsHeaded
  <2>4. QED  BY <2>1, <2>2, <2>3 DEF HeadTrue
<1>11. Mem(r, d, D)
  BY <1>6, <1>7, <1>8, <1>10 DEF Mem, OneHeadEach
<1>12. PICK t : t = Started(d, g)
  OBVIOUS
<1>13. t = Traverse(r, d, Root, g)
  BY <1>4, <1>12 DEF Started
<1>14. ReadFrom(t, r, d, D)
  BY <1>8, <1>11, <1>13, MemTraverse
<1>15. Mem(t, d, D) /\ HasHead(t, Root)
  BY <1>8, <1>14 DEF ReadFrom
<1>16. EntryOn(d, <<>>).dir /\ EntryOn(d, <<>>).clu = Root
  BY RootPath, RootType
<1>17. QED  BY <1>12, <1>15, <1>16 DEF Holds

(* A volume with nothing wrong, and nothing loaded but the root.            *)
LEMMA InitWhole == Zeroed /\ Init => Whole
<1> SUFFICES ASSUME Zeroed, Init PROVE Whole
  OBVIOUS
<1>1. PICK m \in Images, g \in Garbage :
        /\ disk = m.disk /\ used = m.used /\ root = Started(m.disk, g)
        /\ cluster = Root /\ pwd = <<>> /\ intact = TRUE
  BY DEF Init
<1>2. disk \in Disks /\ g \in BOOLEAN /\ ~g
  BY <1>1, ShellAssumption DEF Disks, Zeroed
<1>3. PICK D \in SUBSET Cluster : Sound(m.disk, m.used, D)
  BY SoundImages
<1>4. Holds(m.disk, m.used, Started(m.disk, g), Root, <<>>, D)
  <2>1. m.disk \in Disks
    BY <1>1, <1>2
  <2>2. QED  BY <1>2, <1>3, <2>1, StartedHolds
<1>5. Holds(disk, used, root, cluster, pwd, D)
  BY <1>1, <1>4
<1>6. QED  BY <1>5 DEF Whole

(* Memory is lost, and what is on the disk is as it was.                    *)
LEMMA RestartWhole ==
  ASSUME TypeOK, NEW D \in SUBSET Cluster, Holds(disk, used, root, cluster, pwd, D),
         NEW g \in BOOLEAN, ~g, Restart(g)
  PROVE  Steps(D)
<1>1. disk \in Disks /\ Sound(disk, used, D)
  BY DEF TypeOK, Disks, Holds
<1>2. Holds(disk, used, Started(disk, g), Root, <<>>, D)
  BY <1>1, StartedHolds
<1>3. Holds(disk', used', root', cluster', pwd', D)
  BY <1>2 DEF Restart
<1>4. QED  BY <1>3, DiskKept DEF Restart

(* The commands that only read.                                             *)
LEMMA ListWhole ==
  ASSUME TypeOK, NEW D \in SUBSET Cluster, Holds(disk, used, root, cluster, pwd, D),
         NEW g \in BOOLEAN, ~g, List(g)
  PROVE  Steps(D)
<1>1. PICK t : t = Traverse(root, disk, cluster, g)
  OBVIOUS
<1>2. disk \in Disks /\ Sound(disk, used, D) /\ Mem(root, disk, D) /\ HasHead(root, cluster)
  BY DEF TypeOK, Disks, Holds
<1>3. ReadFrom(t, root, disk, D)
  BY <1>1, <1>2, MemTraverse
<1>4. OnlyLooked(t)
  BY <1>1 DEF List
<1>5. QED  BY <1>3, <1>4, LookedWhole

LEMMA HomeWhole ==
  ASSUME TypeOK, NEW D \in SUBSET Cluster, Holds(disk, used, root, cluster, pwd, D), ChangeHome
  PROVE  Steps(D)
<1>1. disk \in Disks
  BY DEF TypeOK, Disks
<1>2. HasHead(root, Root) /\ EntryOn(disk, <<>>).dir /\ EntryOn(disk, <<>>).clu = Root
  BY <1>1, RootPath, RootType DEF Holds, Mem
<1>3. Holds(disk, used, root, Root, <<>>, D)
  BY <1>2 DEF Holds
<1>4. Holds(disk', used', root', cluster', pwd', D)
  BY <1>3 DEF ChangeHome
<1>5. QED  BY <1>4, DiskKept DEF ChangeHome

LEMMA ChangeDirWhole ==
  ASSUME TypeOK, NEW D \in SUBSET Cluster, Holds(disk, used, root, cluster, pwd, D),
         NEW g \in BOOLEAN, ~g, NEW p \in Paths, EntryAt(FormatPath(p)).dir, ChangeDir(p, g)
  PROVE  Steps(D)
<1>1. PICK path \in Seq(Name) : path = FormatPath(p)
  BY PathType
<1>2. PICK to : to = Lookup(root, disk, Root, path, g)
  OBVIOUS
<1>3. PICK f : f = EntryOn(disk, path)
  OBVIOUS
<1>4. disk \in Disks /\ Sound(disk, used, D) /\ Mem(root, disk, D) /\ f.dir
  BY <1>1, <1>3 DEF TypeOK, Disks, Holds, EntryAt
<1>5. ReadFrom(to.tab, root, disk, D) /\ to.clu = f.clu /\ HasHead(to.tab, f.clu)
  BY <1>2, <1>3, <1>4, LookupMem
<1>6. to.tab.ok /\ Mem(to.tab, disk, D)
  BY <1>5 DEF ReadFrom, Mem
<1>7. to.clu # Missing
  <2>1. f # Nowhere
    BY <1>4, NowhereType
  <2>2. f.clu \in Cluster
    BY <1>3, <1>4, <2>1, EntryFrom
  <2>3. QED  BY <1>5, <2>2, ChainAssumption DEF Missing
<1>8. /\ root' = to.tab
      /\ IF to.tab.ok /\ to.clu # Missing
         THEN cluster' = to.clu /\ pwd' = FormatPath(p)
         ELSE UNCHANGED <<cluster, pwd>>
      /\ UNCHANGED <<disk, used, intact>>
  BY <1>1, <1>2, Zenon DEF ChangeDir
<1>9. root' = to.tab /\ cluster' = to.clu /\ pwd' = path /\ disk' = disk /\ used' = used
  BY <1>1, <1>6, <1>7, <1>8
<1>10. Holds(disk, used, to.tab, to.clu, path, D)
  BY <1>3, <1>4, <1>5, <1>6 DEF Holds
<1>11. Holds(disk', used', root', cluster', pwd', D)
  BY <1>9, <1>10
<1>12. QED  BY <1>9, <1>11, DiskKept

LEMMA LookWhole ==
  ASSUME TypeOK, NEW D \in SUBSET Cluster, Holds(disk, used, root, cluster, pwd, D),
         NEW g \in BOOLEAN, ~g, NEW p \in Paths, Reaches(FormatPath(p)), Look(p, g)
  PROVE  Steps(D)
<1>1. PICK path \in Seq(Name) : path = FormatPath(p)
  BY PathType
<1>2. PICK at : at = Located(path, g)
  OBVIOUS
<1>3. PICK r : r = at.tab
  OBVIOUS
<1>4. PICK s : s = Traverse(r, disk, at.clu, g)
  OBVIOUS
<1>5. ReadFrom(r, root, disk, D) /\ HasHead(r, at.clu)
  BY <1>1, <1>2, <1>3, LocatedMem
<1>6. ReadFrom(s, root, disk, D)
  BY <1>4, <1>5, LocatedRead
<1>7. OnlyLooked(r) \/ OnlyLooked(s)
  BY <1>1, <1>2, <1>3, <1>4, Zenon DEF Look
<1>8. QED  BY <1>5, <1>6, <1>7, LookedWhole

(* Every command of careful use leads to such a state.                      *)
LEMMA NextSteps ==
  ASSUME Zeroed, TypeOK, CarefulNext,
         NEW D \in SUBSET Cluster, Holds(disk, used, root, cluster, pwd, D)
  PROVE  TypeOK' /\ Steps(D)
<1>2. PICK g \in Garbage :
        \/ Restart(g)
        \/ List(g)
        \/ ChangeHome
        \/ CarefulTrim /\ Trim(g)
        \/ Grows(EntryAt(pwd)) /\ \E n \in Name : Fill(n, g)
        \/ \E p \in Paths :
             LET path == FormatPath(p)
             IN  \/ EntryAt(path).dir /\ ChangeDir(p, g)
                 \/ Reaches(path) /\ Look(p, g)
                 \/ CarefulMake(path) /\ (Create(p, g) \/ Mkdir(p, g))
                 \/ CarefulTake(path, g) /\ (RemoveFile(p, g) \/ Rmdir(p, g))
  BY Zenon DEF CarefulNext
<1>3. g \in BOOLEAN /\ ~g
  BY ShellAssumption DEF Zeroed
<1>4. TypeOK'
  <2>1. Moves(g)
    BY <1>2 DEF Moves
  <2>2. QED  BY <1>3, <2>1, MovesType
<1>5. Steps(D)
  <2>1. CASE Restart(g)
    BY <1>3, <2>1, RestartWhole
  <2>2. CASE List(g)
    BY <1>3, <2>2, ListWhole
  <2>3. CASE ChangeHome
    BY <2>3, HomeWhole
  <2>4. CASE CarefulTrim /\ Trim(g)
    BY <1>3, <2>4, TrimWhole
  <2>5. ASSUME NEW n \in Name, Grows(EntryAt(pwd)), Fill(n, g) PROVE Steps(D)
    BY <1>3, <2>5, FillWhole
  <2>6. ASSUME NEW p \in Paths, EntryAt(FormatPath(p)).dir, ChangeDir(p, g) PROVE Steps(D)
    BY <1>3, <2>6, ChangeDirWhole
  <2>7. ASSUME NEW p \in Paths, Reaches(FormatPath(p)), Look(p, g) PROVE Steps(D)
    BY <1>3, <2>7, LookWhole
  <2>8. ASSUME NEW p \in Paths, CarefulMake(FormatPath(p)), Create(p, g) \/ Mkdir(p, g) PROVE Steps(D)
    <3>1. PICK path \in Seq(Name) : path = FormatPath(p)
      BY PathType
    <3>2. PICK takes \in {1, 2} : AddEntry(Located(path, g).tab, Located(path, g).clu, FileName(path), takes, g)
      BY <2>8, <3>1 DEF Create, Mkdir
    <3>3. CarefulMake(path)
      BY <2>8, <3>1
    <3>4. QED  BY <1>3, <3>2, <3>3, MakeWhole
  <2>9. ASSUME NEW p \in Paths, CarefulTake(FormatPath(p), g), RemoveFile(p, g) \/ Rmdir(p, g) PROVE Steps(D)
    <3>1. PICK path \in Seq(Name) : path = FormatPath(p)
      BY PathType
    <3>2. PICK type \in {"file", "dir"} : RemoveEntry(Located(path, g).tab, Located(path, g).clu, FileName(path), type, g)
      BY <2>9, <3>1 DEF RemoveFile, Rmdir
    <3>3. CarefulTake(path, g)
      BY <2>9, <3>1
    <3>4. QED  BY <1>3, <3>2, <3>3, TakeWhole
  <2>10. QED  BY <1>2, <2>1, <2>2, <2>3, <2>4, <2>5, <2>6, <2>7, <2>8, <2>9, Zenon
<1>6. QED  BY <1>4, <1>5

LEMMA StepsWhole ==
  ASSUME NEW D, Steps(D)
  PROVE  Whole'
BY DEF Steps, Whole

(* PWD is never longer than the model lets it be, and a command that        *)
(* changes the disk does not change it.                                     *)
Shallow == Len(pwd) <= MaxDepth

LEMMA MovesPwd ==
  ASSUME Shallow, NEW g, Moves(g)
  PROVE  Shallow' /\ (disk' = disk \/ pwd' = pwd)
<1>1. CASE pwd' = pwd
  BY <1>1 DEF Shallow
<1>2. CASE pwd' = <<>> /\ disk' = disk
  <2>1. Len(<<>>) <= MaxDepth
    BY ShellAssumption
  <2>2. QED  BY <1>2, <2>1 DEF Shallow
<1>3. ASSUME NEW p, Len(FormatPath(p)) <= MaxDepth, pwd' = pwd \/ pwd' = FormatPath(p), disk' = disk
      PROVE  Shallow' /\ disk' = disk
  BY <1>3 DEF Shallow
<1>4. ASSUME NEW r, NEW c, NEW n, NEW takes, AddEntry(r, c, n, takes, g) PROVE pwd' = pwd
  BY <1>4, Zenon DEF AddEntry, OnlyLooked, RunsWild
<1>5. ASSUME NEW r, NEW c, NEW n, NEW type, RemoveEntry(r, c, n, type, g) PROVE pwd' = pwd
  BY <1>5, Zenon DEF RemoveEntry, OnlyLooked, RunsWild
<1>6. CASE Trim(g)
  <2>1. pwd' = pwd
    BY <1>6, Zenon DEF Trim, OnlyLooked, RunsWild
  <2>2. QED  BY <1>1, <2>1
<1>7. ASSUME NEW n, Fill(n, g) PROVE pwd' = pwd
  BY <1>7, Zenon DEF Fill, OnlyLooked, RunsWild
<1>8. ASSUME NEW p, ChangeDir(p, g) PROVE Shallow' /\ disk' = disk
  <2>1. Len(FormatPath(p)) <= MaxDepth /\ disk' = disk /\ (pwd' = pwd \/ pwd' = FormatPath(p))
    BY <1>8, Zenon DEF ChangeDir
  <2>2. QED  BY <1>3, <2>1
<1>9. ASSUME NEW p, Look(p, g) PROVE pwd' = pwd
  BY <1>9, Zenon DEF Look, OnlyLooked
<1>10. ASSUME List(g) PROVE pwd' = pwd
  BY <1>10, Zenon DEF List, OnlyLooked
<1>11. ASSUME Restart(g) \/ ChangeHome PROVE pwd' = <<>> /\ disk' = disk
  BY <1>11 DEF Restart, ChangeHome
<1>12. QED
  BY <1>1, <1>2, <1>4, <1>5, <1>6, <1>7, <1>8, <1>9, <1>10, <1>11 DEF Moves, Create, Mkdir, RemoveFile, Rmdir

(* In careful use the volume stays sound, memory stays true to it, and the  *)
(* current directory is the one PWD leads to: the inductive invariant       *)
(* behind the results on create, mkdir, rm, rmdir, fill, trim and cd in     *)
(* exfat.c and shell.c.                                                     *)
THEOREM CarefulInvariant == CarefulSpec => [](TypeOK /\ Whole /\ Shallow)
<1> SUFFICES ASSUME Zeroed PROVE Init /\ [][CarefulNext]_vars => [](TypeOK /\ Whole /\ Shallow)
  BY DEF CarefulSpec
<1>1. Init => TypeOK /\ Whole /\ Shallow
  <2>1. Init => pwd = <<>>
    BY DEF Init
  <2>2. Init => Shallow
    BY <2>1, ShellAssumption DEF Shallow
  <2>3. QED  BY <2>2, InitType, InitWhole
<1>2. TypeOK /\ Whole /\ Shallow /\ [CarefulNext]_vars => (TypeOK /\ Whole /\ Shallow)'
  <2> SUFFICES ASSUME TypeOK, Whole, Shallow, [CarefulNext]_vars PROVE TypeOK' /\ Whole' /\ Shallow'
    OBVIOUS
  <2>1. CASE CarefulNext
    <3>1. PICK D \in SUBSET Cluster : Holds(disk, used, root, cluster, pwd, D)
      BY DEF Whole
    <3>2. TypeOK' /\ Steps(D)
      BY <2>1, <3>1, NextSteps
    <3>3. Moves(FALSE)
      BY <2>1, NextMoves
    <3>4. QED  BY <3>2, <3>3, StepsWhole, MovesPwd
  <2>2. CASE UNCHANGED vars
    <3>1. disk' = disk /\ used' = used /\ root' = root /\ cluster' = cluster /\ pwd' = pwd /\ intact' = intact
      BY <2>2 DEF vars
    <3>2. TypeOK' /\ Shallow'
      BY <3>1 DEF TypeOK, Shallow
    <3>3. PICK D \in SUBSET Cluster : Holds(disk, used, root, cluster, pwd, D)
      BY DEF Whole
    <3>4. Holds(disk', used', root', cluster', pwd', D)
      BY <3>1, <3>3
    <3>5. QED  BY <3>2, <3>4 DEF Whole
  <2>3. QED  BY <2>1, <2>2
<1>3. QED  BY <1>1, <1>2, PTL

(* What the inductive invariant says of the properties.                     *)
LEMMA WholeOk == TypeOK /\ Whole => NeverAborts
BY DEF Whole, Holds, Mem, NeverAborts

LEMMA LikeNamed ==
  ASSUME NEW kids, NEW es, Alike(kids, es)
  PROVE  Named(kids) = Named(es)
BY DEF Alike, Like, Named

LEMMA WholeCache == TypeOK /\ Whole => CacheIsDisk
<1> SUFFICES ASSUME TypeOK, Whole, NEW i \in DOMAIN root.heads, root.heads[i].cached
             PROVE  Named(root.heads[i].kids) = Named(Listing(disk[root.heads[i].index], root.heads[i].size))
  BY DEF CacheIsDisk
<1>1. PICK D \in SUBSET Cluster : Holds(disk, used, root, cluster, pwd, D)
  BY DEF Whole
<1>2. disk \in Disks /\ Sound(disk, used, D) /\ Mem(root, disk, D)
  BY <1>1 DEF TypeOK, Disks, Holds
<1>3. PICK h \in DirHead : h = root.heads[i]
  BY <1>2, HeadIs
<1>4. PICK es : es = Held(disk, D, h.index)
  OBVIOUS
<1>5. Listing(disk[h.index], h.size) = es
  BY <1>2, <1>3, <1>4, HeadLists
<1>6. KidsAre(h, disk, D)
  BY <1>2, <1>3, HeadIs DEF HeadTrue, KidsTrue
<1>7. Alike(h.kids, es)
  <2>1. h.kids \in Seq(Entry) /\ es \in Seq(Entry)
    <3>1. h.kids \in Seq(Entry) /\ h.index \in Cluster
      BY TableType
    <3>2. es \in Seq(Entry)
      BY <1>2, <1>4, <3>1 DEF Held, Disks
    <3>3. QED  BY <3>1, <3>2
  <2>2. Len(h.kids) = Len(es) /\ \A k \in DOMAIN h.kids : Like(h.kids[k], es[k])
    BY <1>4, <1>6 DEF KidsAre
  <2>3. DOMAIN h.kids = DOMAIN es
    BY <2>1, <2>2
  <2>4. QED  BY <2>1, <2>2, <2>3 DEF Alike
<1>8. QED  BY <1>3, <1>5, <1>7, LikeNamed

LEMMA WholePwd == TypeOK /\ Whole => PwdIsCluster
<1> SUFFICES ASSUME TypeOK, Whole PROVE PwdIsCluster
  OBVIOUS
<1>1. PICK D \in SUBSET Cluster : Holds(disk, used, root, cluster, pwd, D)
  BY DEF Whole
<1>2. PICK f : f = EntryOn(disk, pwd)
  OBVIOUS
<1>3. disk \in Disks /\ Sound(disk, used, D) /\ f.dir /\ f.clu = cluster /\ pwd \in Seq(Name)
  BY <1>1, <1>2 DEF TypeOK, Disks, Holds
<1>4. f # Nowhere
  BY <1>3, NowhereType
<1>5. f = RootEntry \/ \E b \in D : \E k \in DOMAIN disk[b] : f = disk[b][k]
  BY <1>2, <1>3, <1>4, EntryFrom
<1>6. f.clu \in Cluster
  BY <1>2, <1>3, <1>4, EntryFrom
<1>7. cluster \in used
  <2>1. CASE f = RootEntry
    BY <1>3, <2>1, RootType DEF Sound
  <2>2. ASSUME NEW b \in D, NEW k \in DOMAIN disk[b], f = disk[b][k] PROVE cluster \in used
    <3>1. f.clu \in (used \ {Root}) \union {0}
      BY <1>3, <2>2, SoundEntry
    <3>2. QED  BY <1>3, <1>6, <3>1, ChainAssumption
  <2>3. QED  BY <1>5, <2>1, <2>2
<1>8. QED  BY <1>2, <1>3, <1>7 DEF PwdIsCluster, EntryAt

(* In careful use no command of the shell follows a NULL pointer or calls   *)
(* through a head that is not there, for every volume that starts sound     *)
(* and every sequence of commands.                                          *)
THEOREM CommandsNeverAbort == CarefulSpec => []NeverAborts
BY CarefulInvariant, WholeOk, PTL

(* In careful use what a loaded directory has in memory is what it has on   *)
(* disk, in the same order, after every create, mkdir, rm, rmdir, fill and  *)
(* trim, whether the directory was reloaded or not.                         *)
THEOREM CacheKept == CarefulSpec => []CacheIsDisk
BY CarefulInvariant, WholeCache, PTL

(* In careful use the current directory is the cluster PWD leads to on      *)
(* disk, and it is marked as in use: no command of exfat.c moves or frees   *)
(* it behind the prompt.                                                    *)
THEOREM PromptIsTrue == CarefulSpec => []PwdIsCluster
BY CarefulInvariant, WholePwd, PTL

-----------------------------------------------------------------------------
(* The files of the volume, level by level. *)

FileSet == [path : Seq(Name \union {NoName}), entry : Entry]

RootFile == [path |-> <<>>, entry |-> RootEntry]

LevelsOf(L, d, N) ==
  /\ L[0] = {RootFile}
  /\ \A k \in 1..N : L[k] = UNION {In(d, file) : file \in L[k - 1]}

(* x is the file that the directory y has at k. *)
IsIn(x, d, y, k) ==
  LET es == Below(d, y.entry)
  IN  k \in DOMAIN es /\ x = [path |-> Append(y.path, es[k].name), entry |-> es[k]]

(* The types of what is in a directory.                                     *)
LEMMA BelowType ==
  ASSUME NEW d \in Disks, NEW e \in Entry
  PROVE  Below(d, e) \in Seq(Entry)
<1>1. CASE e.dir
  <2>1. e.clu \in Cluster
    BY <1>1, TableType
  <2>2. Listing(d[e.clu], e.size) \in Seq(Entry)
    BY <2>1, ListingType DEF Disks
  <2>3. QED  BY <1>1, <2>2 DEF Below
<1>2. CASE ~e.dir
  BY <1>2 DEF Below
<1>3. QED  BY <1>1, <1>2

LEMMA InType ==
  ASSUME NEW d \in Disks, NEW y \in FileSet
  PROVE  In(d, y) \in SUBSET FileSet /\ \A x : x \in In(d, y) <=> \E k : IsIn(x, d, y, k)
<1>1. PICK es \in Seq(Entry) : es = Below(d, y.entry)
  BY BelowType DEF FileSet
<1>2. In(d, y) = {[path |-> Append(y.path, es[k].name), entry |-> es[k]] : k \in DOMAIN es}
  BY <1>1, Zenon DEF In
<1>3. ASSUME NEW k \in DOMAIN es PROVE [path |-> Append(y.path, es[k].name), entry |-> es[k]] \in FileSet
  <2>1. y.path \in Seq(Name \union {NoName}) /\ es[k] \in Entry
    BY DEF FileSet
  <2>2. es[k].name \in Name \union {NoName}
    BY <2>1, TableType
  <2>3. Append(y.path, es[k].name) \in Seq(Name \union {NoName})
    BY <2>1, <2>2
  <2>4. QED  BY <2>1, <2>3 DEF FileSet
<1>4. \A x, k : IsIn(x, d, y, k) <=> k \in DOMAIN es /\ x = [path |-> Append(y.path, es[k].name), entry |-> es[k]]
  BY <1>1, Zenon DEF IsIn
<1>5. In(d, y) \in SUBSET FileSet
  BY <1>2, <1>3
<1>6. \A x : x \in In(d, y) <=> \E k : IsIn(x, d, y, k)
  <2>1. ASSUME NEW x PROVE x \in In(d, y) <=> \E k \in DOMAIN es : x = [path |-> Append(y.path, es[k].name), entry |-> es[k]]
    BY ONLY <1>2
  <2>2. QED  BY <1>4, <2>1, Zenon
<1>7. QED  BY <1>5, <1>6

(* The files, as a function of their depth.                                 *)
LEMMA FilesLevels ==
  ASSUME NEW d \in Disks, NEW N, N = MaxDepth + 1
  PROVE  /\ N \in Nat
         /\ \E L \in [0..N -> SUBSET FileSet] : LevelsOf(L, d, N) /\ FilesOn(d) = UNION {L[k] : k \in 0..N}
<1> DEFINE Level[k \in 0..N] == IF k = 0 THEN {RootFile} ELSE UNION {In(d, file) : file \in Level[k - 1]}
           F == [k \in 1..N |-> [X \in SUBSET FileSet |-> UNION {In(d, file) : file \in X}]]
<1>0. N \in Nat
  BY ShellAssumption
<1>1. FilesOn(d) = UNION {Level[k] : k \in 0..N}
  BY Zenon DEF FilesOn, RootFile
<1>2. F \in [1..N -> [SUBSET FileSet -> SUBSET FileSet]]
  <2>1. ASSUME NEW X \in SUBSET FileSet PROVE UNION {In(d, file) : file \in X} \in SUBSET FileSet
    BY <2>1, InType
  <2>2. QED  BY <2>1
<1>3. {RootFile} \in SUBSET FileSet
  <2>1. <<>> \in Seq(Name \union {NoName})
    OBVIOUS
  <2>2. QED  BY <2>1, RootType DEF RootFile, FileSet
<1>4. PICK h \in [0..N -> SUBSET FileSet] : StepsOf(h, F, {RootFile}, N)
  BY <1>0, <1>2, <1>3, StepsExist
<1>5. h = [k \in 0..N |-> IF k = 0 THEN {RootFile} ELSE F[k][h[k - 1]]]
  BY <1>4 DEF StepsOf
<1>6. ASSUME NEW k \in 0..N, k # 0 PROVE F[k][h[k - 1]] = UNION {In(d, file) : file \in h[k - 1]}
  <2>1. k \in 1..N /\ k - 1 \in 0..N
    BY <1>0, <1>6
  <2>2. h[k - 1] \in SUBSET FileSet
    BY <2>1
  <2>3. QED  BY <2>1, <2>2
<1> HIDE DEF F
<1>7. h = [k \in 0..N |-> IF k = 0 THEN {RootFile} ELSE UNION {In(d, file) : file \in h[k - 1]}]
  BY <1>5, <1>6
<1>8. \E f : f = [k \in 0..N |-> IF k = 0 THEN {RootFile} ELSE UNION {In(d, file) : file \in f[k - 1]}]
  BY <1>7, Zenon
<1>9. Level = [k \in 0..N |-> IF k = 0 THEN {RootFile} ELSE UNION {In(d, file) : file \in Level[k - 1]}]
  BY <1>8, Zenon
<1> HIDE DEF Level
<1>10. 0 \in 0..N /\ 1..N \subseteq 0..N /\ 0 \notin 1..N
  BY <1>0
<1>11. Level[0] = {RootFile} /\ \A k \in 1..N : Level[k] = UNION {In(d, file) : file \in Level[k - 1]}
  <2>1. ASSUME NEW k \in 0..N
        PROVE  Level[k] = IF k = 0 THEN {RootFile} ELSE UNION {In(d, file) : file \in Level[k - 1]}
    BY <1>9, Zenon
  <2>2. QED  BY <1>10, <2>1, Zenon
<1>12. h[0] = {RootFile} /\ \A k \in 1..N : h[k] = UNION {In(d, file) : file \in h[k - 1]}
  <2>1. ASSUME NEW k \in 0..N
        PROVE  h[k] = IF k = 0 THEN {RootFile} ELSE UNION {In(d, file) : file \in h[k - 1]}
    BY <1>7, Zenon
  <2>2. QED  BY <1>10, <2>1, Zenon
<1> DEFINE T == {k \in 0..N : Level[k] = h[k]}
<1>13. 0 \in T
  BY <1>10, <1>11, <1>12
<1>14. ASSUME NEW k \in 0..(N - 1), k \in T PROVE k + 1 \in T
  <2>1. PICK n \in 1..N : n = k + 1 /\ n - 1 = k
    BY <1>0
  <2>2. Level[n - 1] = h[n - 1]
    BY <1>14, <2>1
  <2>3. Level[n] = h[n]
    BY <2>2, <1>11, <1>12, Zenon
  <2>4. QED  BY <1>10, <2>1, <2>3
<1> HIDE DEF T
<1>15. 0..N \subseteq T
  BY ONLY <1>0, <1>13, <1>14, InductionUpTo
<1>16. {Level[k] : k \in 0..N} = {h[k] : k \in 0..N}
  BY <1>15 DEF T
<1>17. LevelsOf(h, d, N)
  BY <1>12 DEF LevelsOf
<1>18. QED  BY <1>0, <1>1, <1>16, <1>17

(* x is the file at k of the directory y, which has a cluster.              *)
ChildAt(x, y, d, D, k) ==
  /\ y.entry.dir /\ y.entry.clu \in D
  /\ k \in DOMAIN d[y.entry.clu]
  /\ x.entry = d[y.entry.clu][k]
  /\ x.path = Append(y.path, x.entry.name)

(* x has a cluster if it is a directory with a size, and a path of names.   *)
Kept(x, D) ==
  /\ x.entry.clu \in D <=> x.entry.dir /\ x.entry.size = 1
  /\ x.path \in Seq(Name)

(* What is in a file, and what ChildAt says of it.                          *)
LEMMA InIsChild ==
  ASSUME NEW d \in Disks, NEW u, NEW D \in SUBSET Cluster, Sound(d, u, D), NEW y \in FileSet, Kept(y, D),
         NEW x \in In(d, y)
  PROVE  \E k : ChildAt(x, y, d, D, k)
<1>1. PICK k : IsIn(x, d, y, k)
  BY InType
<1>2. PICK es : es = Below(d, y.entry)
  OBVIOUS
<1>3. k \in DOMAIN es /\ x = [path |-> Append(y.path, es[k].name), entry |-> es[k]]
  BY <1>1, <1>2, Zenon DEF IsIn
<1>4. y.entry \in Entry
  BY DEF FileSet
<1>5. y.entry.dir
  <2>1. CASE ~y.entry.dir
    <3>1. es = <<>>
      BY <1>2, <2>1 DEF Below
    <3>2. QED  BY <1>3, <3>1
  <2>2. QED  BY <2>1
<1>6. es = Listing(d[y.entry.clu], y.entry.size)
  BY <1>2, <1>5 DEF Below
<1>7. y.entry.size = 1
  <2>1. CASE y.entry.size = 0
    <3>1. es = <<>>
      BY <1>6, <2>1, Zenon DEF Listing
    <3>2. QED  BY <1>3, <3>1
  <2>2. y.entry.size \in {0, 1}
    BY <1>4, TableType
  <2>3. QED  BY <2>1, <2>2
<1>8. y.entry.clu \in D
  BY <1>5, <1>7 DEF Kept
<1>9. es = d[y.entry.clu]
  <2>1. PICK c \in Cluster : c = y.entry.clu
    BY <1>8
  <2>2. PICK size \in {0, 1} : size = y.entry.size
    BY <1>7
  <2>3. c \in D /\ size = 1
    BY <1>7, <1>8, <2>1, <2>2
  <2>4. Listing(d[c], size) = Held(d, D, c)
    BY <2>3, ListedIsHeld
  <2>5. QED  BY <1>6, <2>1, <2>2, <2>3, <2>4 DEF Held
<1>10. QED  BY <1>3, <1>5, <1>8, <1>9 DEF ChildAt

(* What is in a directory of D is kept as D says.                           *)
LEMMA ChildKept ==
  ASSUME NEW d \in Disks, NEW u, NEW D \in SUBSET Cluster, Sound(d, u, D), NEW y \in FileSet, Kept(y, D),
         NEW x, NEW k, ChildAt(x, y, d, D, k)
  PROVE  /\ Kept(x, D)
         /\ x.entry.clu \in (u \ {Root}) \union {0}
<1>1. /\ y.entry.clu \in D /\ k \in DOMAIN d[y.entry.clu] /\ x.entry = d[y.entry.clu][k]
      /\ x.path = Append(y.path, x.entry.name)
  BY DEF ChildAt
<1>2. /\ x.entry.clu \in (u \ {Root}) \union {0}
      /\ x.entry.clu \in D <=> x.entry.dir /\ x.entry.size = 1
  BY <1>1, SoundEntry
<1>3. x.path \in Seq(Name)
  <2>1. x.entry \in Entry /\ x.entry.name # NoName
    <3>1. d[y.entry.clu] \in Seq(Entry)
      BY <1>1 DEF Disks
    <3>2. x.entry \in Entry
      BY <1>1, <3>1
    <3>3. x.entry.name # NoName
      BY <1>1, SoundEntry
    <3>4. QED  BY <3>2, <3>3
  <2>2. x.entry.name \in Name
    BY <2>1, TableType
  <2>3. y.path \in Seq(Name)
    BY DEF Kept
  <2>4. QED  BY <1>1, <2>2, <2>3
<1>4. QED  BY <1>2, <1>3 DEF Kept

(* x, of the level k, is the root, or has a parent one level up.            *)
Stems(x, L, k, d, D) ==
  IF k = 0 THEN x = RootFile ELSE \E y \in L[k - 1] : \E j : ChildAt(x, y, d, D, j)

(* Every file but the root is in a directory of the level above.            *)
LEMMA LevelsKept ==
  ASSUME NEW d \in Disks, NEW u, NEW D \in SUBSET Cluster, Sound(d, u, D), NEW N \in Nat,
         NEW L \in [0..N -> SUBSET FileSet], LevelsOf(L, d, N), NEW k \in 0..N, NEW x \in L[k]
  PROVE  x \in FileSet /\ Kept(x, D) /\ Stems(x, L, k, d, D)
<1> DEFINE T == {m \in 0..N : \A z \in L[m] : Kept(z, D)}
<1>0. Root \in D
  BY DEF Sound
<1>1. \A m \in 0..N : L[m] \subseteq FileSet
  OBVIOUS
<1>2. L[0] = {RootFile} /\ \A m \in 1..N : L[m] = UNION {In(d, file) : file \in L[m - 1]}
  BY DEF LevelsOf
<1>3. 0 \in T
  <2>1. <<>> \in Seq(Name)
    OBVIOUS
  <2>2. RootFile.path = <<>> /\ RootFile.entry = RootEntry
    BY DEF RootFile
  <2>3. Kept(RootFile, D)
    BY <1>0, <2>1, <2>2, RootType DEF Kept
  <2>4. QED  BY <1>2, <2>3
<1>4. ASSUME NEW m \in 1..N, m - 1 \in T, NEW z \in L[m]
      PROVE  \E y \in L[m - 1] : \E j : ChildAt(z, y, d, D, j)
  <2>1. PICK y \in L[m - 1] : z \in In(d, y)
    BY <1>2, <1>4
  <2>2. y \in FileSet /\ Kept(y, D)
    BY <1>1, <1>4, <2>1
  <2>3. QED  BY <2>1, <2>2, InIsChild
<1>5. ASSUME NEW m \in 0..(N - 1), m \in T PROVE m + 1 \in T
  <2>1. PICK n \in 1..N : n = m + 1 /\ n - 1 = m /\ n \in 0..N
    OBVIOUS
  <2>2. ASSUME NEW z \in L[n] PROVE Kept(z, D)
    <3>1. PICK y \in L[n - 1] : \E j : ChildAt(z, y, d, D, j)
      BY <1>4, <1>5, <2>1
    <3>2. y \in FileSet /\ Kept(y, D)
      BY <1>1, <1>5, <2>1, <3>1
    <3>3. QED  BY <3>1, <3>2, ChildKept
  <2>3. QED  BY <2>1, <2>2
<1>6. 0..N \subseteq T
  <2> HIDE DEF T
  <2>1. QED  BY ONLY <1>3, <1>5, InductionUpTo, N \in Nat
<1>7. Stems(x, L, k, d, D)
  <2>1. CASE k = 0
    BY <1>2, <2>1 DEF Stems
  <2>2. CASE k # 0
    <3>1. k \in 1..N /\ k - 1 \in T
      BY <1>6, <2>2
    <3>2. \E y \in L[k - 1] : \E j : ChildAt(x, y, d, D, j)
      BY <1>4, <3>1
    <3>3. QED  BY <2>2, <3>2, Zenon DEF Stems
  <2>3. QED  BY <2>1, <2>2
<1>8. QED  BY <1>1, <1>6, <1>7

(* The names of one cluster are one name.                                   *)
LEMMA LevelsOnce ==
  ASSUME NEW d \in Disks, NEW u, NEW D \in SUBSET Cluster, Sound(d, u, D), NEW N \in Nat,
         NEW L \in [0..N -> SUBSET FileSet], LevelsOf(L, d, N)
  PROVE  \A k, m \in 0..N : \A x \in L[k], y \in L[m] :
           x.entry.clu = y.entry.clu /\ x.entry.clu # 0 => x = y
<1> DEFINE T == {k \in 0..N : \A m \in 0..N : \A x \in L[k], y \in L[m] :
                   x.entry.clu = y.entry.clu /\ x.entry.clu # 0 => x = y}
<1>0. RootFile.entry.clu = Root
  BY RootType DEF RootFile
<1>1. ASSUME NEW k \in 0..N, NEW x \in L[k] PROVE x \in FileSet /\ Kept(x, D) /\ Stems(x, L, k, d, D)
  BY <1>1, LevelsKept
<1>2. ASSUME NEW k \in 0..N, NEW x \in L[k], x.entry.clu = Root PROVE x = RootFile
  <2>1. CASE k = 0
    BY <1>1, <2>1 DEF Stems
  <2>2. CASE k # 0
    <3>1. PICK y \in L[k - 1] : \E j : ChildAt(x, y, d, D, j)
      BY <1>1, <2>2 DEF Stems
    <3>2. y \in FileSet /\ Kept(y, D)
      BY <1>1, <2>2, <3>1
    <3>3. x.entry.clu \in (u \ {Root}) \union {0}
      BY <3>1, <3>2, ChildKept
    <3>4. QED  BY <1>2, <3>3, ChainAssumption
  <2>3. QED  BY <2>1, <2>2
<1>3. 0 \in T
  <2>1. ASSUME NEW m \in 0..N, NEW x \in L[0], NEW y \in L[m], x.entry.clu = y.entry.clu PROVE x = y
    <3>1. 0 \in 0..N
      OBVIOUS
    <3>2. x = RootFile
      BY <3>1, <1>1 DEF Stems
    <3>3. y = RootFile
      BY <1>0, <1>2, <2>1, <3>2
    <3>4. QED  BY <3>2, <3>3
  <2>2. QED  BY <2>1
<1>4. ASSUME NEW k \in 0..(N - 1), k \in T PROVE k + 1 \in T
  <2>1. PICK n \in 0..N : n = k + 1 /\ n - 1 = k /\ n # 0 /\ k \in 0..N
    OBVIOUS
  <2>2. ASSUME NEW m \in 0..N, NEW x \in L[n], NEW y \in L[m], x.entry.clu = y.entry.clu, x.entry.clu # 0
        PROVE  x = y
    <3>1. PICK v \in L[k] : \E j : ChildAt(x, v, d, D, j)
      BY <1>1, <2>1 DEF Stems
    <3>2. PICK i : ChildAt(x, v, d, D, i)
      BY <3>1
    <3>3. CASE m = 0
      <4>1. y = RootFile
        BY <1>1, <3>3 DEF Stems
      <4>2. x = RootFile
        BY <1>0, <1>2, <2>2, <4>1
      <4>3. QED  BY <4>1, <4>2
    <3>4. CASE m # 0
      <4>1. PICK w \in L[m - 1] : \E j : ChildAt(y, w, d, D, j)
        BY <1>1, <3>4 DEF Stems
      <4>2. PICK j : ChildAt(y, w, d, D, j)
        BY <4>1
      <4>3. PICK b \in D, c \in D : b = v.entry.clu /\ c = w.entry.clu
        BY <3>2, <4>2 DEF ChildAt
      <4>4. /\ i \in DOMAIN d[b] /\ x.entry = d[b][i] /\ x.path = Append(v.path, x.entry.name)
            /\ j \in DOMAIN d[c] /\ y.entry = d[c][j] /\ y.path = Append(w.path, y.entry.name)
        BY <3>2, <4>2, <4>3 DEF ChildAt
      <4>5. b = c /\ i = j
        <5>1. d[b][i].clu = d[c][j].clu /\ d[b][i].clu # 0
          BY <2>2, <4>4
        <5>2. QED  BY <4>4, <5>1, SoundOnce
      <4>6. v = w
        <5>1. m - 1 \in 0..N
          BY <3>4
        <5>2. v.entry.clu = w.entry.clu /\ v.entry.clu # 0
          BY <4>3, <4>5, ChainAssumption
        <5>3. QED  BY <1>4, <5>1, <5>2
      <4>7. x.entry = y.entry /\ x.path = y.path
        BY <4>4, <4>5, <4>6
      <4>8. x \in FileSet /\ y \in FileSet
        BY <1>1
      <4>9. QED  BY <4>7, <4>8 DEF FileSet
    <3>5. QED  BY <3>3, <3>4
  <2>3. QED  BY <2>1, <2>2
<1>5. 0..N \subseteq T
  <2> HIDE DEF T
  <2>1. QED  BY ONLY <1>3, <1>4, InductionUpTo, N \in Nat
<1>6. QED  BY <1>5

(* Two files of one cluster would be one entry set of one directory.        *)
LEMMA WholeOnce == TypeOK /\ Whole => OneNamePerCluster
<1> SUFFICES ASSUME TypeOK, Whole PROVE OneNamePerCluster
  OBVIOUS
<1>1. PICK D \in SUBSET Cluster : Holds(disk, used, root, cluster, pwd, D)
  BY DEF Whole
<1>2. disk \in Disks /\ Sound(disk, used, D) /\ used \subseteq Cluster
  BY <1>1 DEF TypeOK, Disks, Holds
<1>3. PICK N : N = MaxDepth + 1
  OBVIOUS
<1>4. N \in Nat
  BY <1>2, <1>3, FilesLevels
<1>5. PICK L \in [0..N -> SUBSET FileSet] : LevelsOf(L, disk, N) /\ Files = UNION {L[k] : k \in 0..N}
  BY <1>2, <1>3, FilesLevels DEF Files
<1> DEFINE kept == {file \in Files : file.entry.clu # 0}
           clusters == {file.entry.clu : file \in kept}
           f == [file \in kept |-> file.entry.clu]
<1>6. \A x, y \in kept : x.entry.clu = y.entry.clu => x = y
  BY <1>2, <1>4, <1>5, LevelsOnce
<1>7. ASSUME NEW x \in kept PROVE x.entry.clu \in used
  <2>1. PICK k \in 0..N : x \in L[k]
    BY <1>5
  <2>2. Stems(x, L, k, disk, D)
    BY <1>2, <1>4, <1>5, <2>1, LevelsKept
  <2>3. CASE k = 0
    <3>1. x.entry.clu = Root
      BY <2>2, <2>3, RootType DEF Stems, RootFile
    <3>2. QED  BY <1>2, <3>1 DEF Sound
  <2>4. CASE k # 0
    <3>1. PICK y \in L[k - 1] : \E j : ChildAt(x, y, disk, D, j)
      BY <2>2, <2>4 DEF Stems
    <3>2. k - 1 \in 0..N
      BY <1>4, <2>4
    <3>3. y \in FileSet /\ Kept(y, D)
      BY <1>2, <1>4, <1>5, <3>1, <3>2, LevelsKept
    <3>4. x.entry.clu \in (used \ {Root}) \union {0}
      BY <1>2, <3>1, <3>3, ChildKept
    <3>5. QED  BY <3>4
  <2>5. QED  BY <2>3, <2>4
<1>8. clusters \subseteq used
  BY <1>7
<1>9. Cardinality(clusters) = Cardinality(kept)
  <2>1. IsFiniteSet(clusters)
    <3>1. clusters \subseteq Cluster /\ IsFiniteSet(Cluster)
      BY <1>2, <1>8, ChainAssumption
    <3>2. QED  BY <3>1, FS_Subset
  <2>2. f \in Injection(kept, clusters)
    BY <1>6 DEF Injection, IsInjective
  <2>3. f \in Surjection(kept, clusters)
    BY DEF Surjection
  <2> HIDE DEF kept, clusters, f
  <2>4. QED  BY ONLY <2>1, <2>2, <2>3, FS_Injection
<1>10. QED  BY <1>8, <1>9 DEF OneNamePerCluster

(* In careful use no two paths of a volume lead to one cluster and none     *)
(* leads to a free one: exfat_add_entry and exfat_remove_entry neither      *)
(* share a cluster nor free one that a name still has.                      *)
THEOREM NamesAreSingle == CarefulSpec => []OneNamePerCluster
BY CarefulInvariant, WholeOnce, PTL

(* What is added to a directory is added to the one the path names.         *)
LEMMA MakesThere ==
  ASSUME Zeroed, TypeOK, Whole, NEW p \in Seq(Name), NEW g \in Garbage, Reaches(p), NEW takes,
         AddEntry(Located(p, g).tab, Located(p, g).clu, FileName(p), takes, g),
         NEW c \in Cluster, EntryAt(DirName(p)).clu # c
  PROVE  Len(disk'[c]) = Len(disk[c])
<1>1. PICK D \in SUBSET Cluster : Holds(disk, used, root, cluster, pwd, D)
  BY DEF Whole
<1>2. g \in BOOLEAN /\ ~g
  BY ShellAssumption DEF Zeroed
<1>3. PICK at : at = Located(p, g)
  OBVIOUS
<1>4. PICK r, b : r = at.tab /\ b = at.clu
  OBVIOUS
<1>5. ReadFrom(r, root, disk, D) /\ HasHead(r, b) /\ b # c
  <2>1. ReadFrom(at.tab, root, disk, D) /\ at.clu = EntryAt(DirName(p)).clu /\ HasHead(at.tab, at.clu)
    BY <1>1, <1>2, <1>3, LocatedMem
  <2>2. QED  BY <1>4, <2>1
<1>6. PICK s : s = Traverse(r, disk, b, g)
  OBVIOUS
<1>7. PICK i : i = Find(r, b)
  OBVIOUS
<1>8. s \in Table /\ i \in DOMAIN s.heads /\ b \in Cluster
  BY <1>1, <1>2, <1>5, <1>6, <1>7, LocatedRead
<1>9. r \in Table
  BY <1>5 DEF ReadFrom, Mem
<1>10. disk \in Disks
  BY DEF TypeOK, Disks
<1>11. PICK n : n = FileName(p)
  OBVIOUS
<1>12. AddEntry(r, b, n, takes, g)
  BY <1>3, <1>4, <1>11
<1>13. \/ OnlyLooked(Aborted(r)) \/ OnlyLooked(s) \/ OnlyLooked(Reload(s, disk, b, g)) \/ RunsWild
       \/ Added(r, b, n, takes, g)
  BY <1>6, <1>7, <1>9, <1>12, AddEntryCases
<1>14. CASE Added(r, b, n, takes, g)
  <2>1. PICK e, size : disk' = [Resized(disk, s, i, 1) EXCEPT ![b] = Placed(@, size, <<e>>)]
    BY <1>6, <1>7, <1>14, Zenon DEF Added
  <2>2. PICK d \in Disks : d = Resized(disk, s, i, 1) /\ \A x \in Cluster : Len(d[x]) = Len(disk[x])
    BY <1>8, <1>10, ResizedType
  <2>3. PICK es : disk' = [d EXCEPT ![b] = es]
    BY <2>1, <2>2
  <2>4. disk'[c] = d[c]
    BY <1>5, <2>2, <2>3 DEF Disks
  <2>5. QED  BY <2>2, <2>4
<1>15. CASE OnlyLooked(Aborted(r)) \/ OnlyLooked(s) \/ OnlyLooked(Reload(s, disk, b, g)) \/ RunsWild
  BY <1>15 DEF OnlyLooked, RunsWild
<1>16. QED  BY <1>13, <1>14, <1>15

(* In careful use create and mkdir add to the directory their path names,   *)
(* and to no other, for every path whose directory is there, but for those  *)
(* of names in the root typed outside it, which the code adds to the        *)
(* current directory.                                                       *)
THEOREM MadeWhereAsked == CarefulSpec => MakesWhereAsked
<1> DEFINE Elsewhere ==
      \A c \in Cluster :
        Len(disk'[c]) > Len(disk[c]) =>
          \A p \in Paths, g \in Garbage :
            Reaches(FormatPath(p)) /\ EntryAt(DirName(FormatPath(p))).clu # c => ~(Create(p, g) \/ Mkdir(p, g))
<1> SUFFICES ASSUME Zeroed PROVE Init /\ [][CarefulNext]_vars => [][Elsewhere]_vars
  BY DEF CarefulSpec, MakesWhereAsked
<1>1. TypeOK /\ Whole => Elsewhere
  <2> SUFFICES ASSUME TypeOK, Whole, NEW c \in Cluster, Len(disk'[c]) > Len(disk[c]), NEW p \in Paths, NEW g \in Garbage,
                      Reaches(FormatPath(p)), EntryAt(DirName(FormatPath(p))).clu # c, Create(p, g) \/ Mkdir(p, g)
               PROVE  FALSE
    OBVIOUS
  <2>1. PICK path \in Seq(Name) : path = FormatPath(p)
    BY PathType
  <2>2. PICK takes \in {1, 2} : AddEntry(Located(path, g).tab, Located(path, g).clu, FileName(path), takes, g)
    BY <2>1 DEF Create, Mkdir
  <2>3. Reaches(path) /\ EntryAt(DirName(path)).clu # c
    BY <2>1
  <2>4. Len(disk'[c]) = Len(disk[c])
    BY <2>2, <2>3, MakesThere
  <2>5. Len(disk[c]) \in Nat
    BY DEF TypeOK
  <2>6. QED  BY <2>4, <2>5
<1>2. Init /\ [][CarefulNext]_vars => [](TypeOK /\ Whole /\ Shallow)
  BY CarefulInvariant DEF CarefulSpec
<1> HIDE DEF Elsewhere
<1>3. QED  BY <1>1, <1>2, PTL

(* Whatever is typed, no name is ever left without its directory, and the   *)
(* current directory is one that exists, as far as the commands of exfat.c  *)
(* that make and take names do what Namespace says.                         *)
THEOREM AlwaysRooted == Promise!Spec => []Promise!Rooted
<1>1. Promise!Init => Promise!Rooted
  BY DEF Promise!Init, Promise!Rooted, Promise!Tree
<1>2. Promise!Rooted /\ [Promise!Next]_(Promise!spaceVars) => Promise!Rooted'
  <2> SUFFICES ASSUME Promise!Rooted, [Promise!Next]_(Promise!spaceVars) PROVE Promise!Rooted'
    OBVIOUS
  <2>0. PICK S, T : S = {file.path : file \in Files} /\ T = {file.path : file \in Files}'
    OBVIOUS
  <2> USE DEF Promise!Rooted, Promise!Tree
  <2>1. ASSUME NEW p \in T \ S, Promise!Make(p) PROVE Promise!Rooted'
    <3>1. <<>> \in T /\ pwd' \in T
      BY <2>0, <2>1 DEF Promise!Make
    <3>2. ASSUME NEW q \in T, q # <<>> PROVE Promise!Parent(q) \in T
      BY <2>0, <2>1, <3>2 DEF Promise!Make
    <3> QED
      BY <2>0, <3>1, <3>2
  <2>2. ASSUME NEW p \in S \ T, Promise!Take(p) PROVE Promise!Rooted'
    <3>1. <<>> \in T /\ pwd' \in T
      BY <2>0, <2>2 DEF Promise!Take
    <3>2. ASSUME NEW q \in T, q # <<>> PROVE Promise!Parent(q) \in T
      \* q would be inside p, if p were its directory.
      BY <2>0, <2>2, <3>2 DEF Promise!Take, Promise!Inside
    <3> QED
      BY <2>0, <3>1, <3>2
  <2>3. ASSUME Promise!ChangeDir PROVE Promise!Rooted'
    BY <2>3 DEF Promise!ChangeDir
  <2>4. ASSUME UNCHANGED Promise!spaceVars PROVE Promise!Rooted'
    BY <2>4 DEF Promise!spaceVars
  <2> QED
    BY <2>0, <2>1, <2>2, <2>3, <2>4 DEF Promise!Next
<1> QED
  BY <1>1, <1>2, PTL DEF Promise!Spec

-----------------------------------------------------------------------------
(* The tree of names.                                                       *)

PathsOn(d) == {file.path : file \in FilesOn(d)}

(* And the other way round: what a directory has is in its file.            *)
LEMMA ChildIn ==
  ASSUME NEW d \in Disks, NEW u, NEW D \in SUBSET Cluster, Sound(d, u, D), NEW y \in FileSet, Kept(y, D), y.entry.dir,
         NEW b \in D, b = y.entry.clu, NEW k \in DOMAIN d[b]
  PROVE  \E x \in In(d, y) : ChildAt(x, y, d, D, k)
<1>1. y.entry.size = 1
  BY DEF Kept
<1>2. PICK es : es = Below(d, y.entry)
  OBVIOUS
<1>3. es = Listing(d[b], y.entry.size)
  BY <1>2 DEF Below
<1>4. es = d[b]
  <2>1. PICK size \in {0, 1} : size = 1
    OBVIOUS
  <2>2. Listing(d[b], size) = Held(d, D, b)
    BY <2>1, ListedIsHeld
  <2>3. QED  BY <1>1, <1>3, <2>1, <2>2 DEF Held
<1>5. PICK x : x = [path |-> Append(y.path, es[k].name), entry |-> es[k]]
  OBVIOUS
<1>6. k \in DOMAIN es
  BY <1>4
<1>7. IsIn(x, d, y, k)
  BY <1>2, <1>5, <1>6, Zenon DEF IsIn
<1>8. x \in In(d, y)
  BY <1>7, InType
<1>9. x.entry = d[b][k] /\ x.path = Append(y.path, x.entry.name)
  BY <1>4, <1>5
<1>10. ChildAt(x, y, d, D, k)
  BY <1>9 DEF ChildAt
<1>11. QED  BY <1>8, <1>10

(* The file x is among those in S, or is the entry set at k of c, that goes. *)
Met(x, S) == \E y \in S : y.path = x.path /\ SameFile(y.entry, x.entry)
Spot(x, L, m, d, D, c, k) == m # 0 /\ \E w \in L[m - 1] : w.entry.clu = c /\ ChildAt(x, w, d, D, k)

(* All that is kept of a disk has the paths it had.                         *)
LEMMA LevelsMeet ==
  ASSUME NEW d \in Disks, NEW u, NEW D \in SUBSET Cluster, Sound(d, u, D),
         NEW e \in Disks, NEW v, NEW E \in SUBSET Cluster, Sound(e, v, E),
         NEW N \in Nat,
         NEW L \in [0..N -> SUBSET FileSet], LevelsOf(L, d, N),
         NEW M \in [0..N -> SUBSET FileSet], LevelsOf(M, e, N),
         NEW c, NEW k, KeepsBut(d, D, e, E, c, k)
  PROVE  \A m \in 0..N : \A x \in L[m] : Met(x, M[m]) \/ Spot(x, L, m, d, D, c, k)
<1> DEFINE T == {m \in 0..N : \A x \in L[m] : Met(x, M[m]) \/ Spot(x, L, m, d, D, c, k)}
<1>0. /\ L[0] = {RootFile} /\ M[0] = {RootFile}
      /\ \A m \in 1..N : M[m] = UNION {In(e, file) : file \in M[m - 1]}
  BY DEF LevelsOf
<1>1. 0 \in T
  <2>1. Met(RootFile, M[0])
    BY <1>0 DEF Met, SameFile
  <2>2. QED  BY <1>0, <2>1
<1>2. ASSUME NEW n \in 0..(N - 1), n \in T PROVE n + 1 \in T
  <2>1. PICK m \in 1..N : m = n + 1 /\ m - 1 = n /\ m # 0 /\ m \in 0..N /\ n \in 0..N
    OBVIOUS
  <2>2. ASSUME NEW x \in L[m] PROVE Met(x, M[m]) \/ Spot(x, L, m, d, D, c, k)
    <3>1. Stems(x, L, m, d, D)
      BY <2>1, LevelsKept
    <3>2. PICK w \in L[n] : \E i : ChildAt(x, w, d, D, i)
      BY <2>1, <3>1 DEF Stems
    <3>3. PICK j : ChildAt(x, w, d, D, j)
      BY <3>2
    <3>4. PICK b \in D : b = w.entry.clu
      BY <3>3 DEF ChildAt
    <3>5. /\ w.entry.dir /\ j \in DOMAIN d[b] /\ x.entry = d[b][j] /\ x.path = Append(w.path, x.entry.name)
      BY <3>3, <3>4 DEF ChildAt
    <3>6. CASE b = c /\ j = k
      <4>1. w \in L[m - 1] /\ w.entry.clu = c /\ ChildAt(x, w, d, D, k)
        BY <2>1, <3>3, <3>4, <3>6
      <4>2. QED  BY <2>1, <4>1 DEF Spot
    <3>7. CASE ~(b = c /\ j = k)
      <4>1. b \in E /\ \E i \in DOMAIN e[b] : SameFile(e[b][i], d[b][j])
        BY <3>5, <3>7 DEF KeepsBut
      <4>2. PICK i \in DOMAIN e[b] : SameFile(e[b][i], x.entry)
        BY <3>5, <4>1
      <4>3. ~Spot(w, L, n, d, D, c, k)
        <5>1. SUFFICES ASSUME NEW z, z.entry.clu = c, ChildAt(w, z, d, D, k) PROVE FALSE
          BY DEF Spot
        <5>2. c \in D /\ k \in DOMAIN d[c] /\ w.entry = d[c][k]
          BY <5>1 DEF ChildAt
        <5>3. d[b] = <<>>
          BY <3>4, <5>2 DEF KeepsBut
        <5>4. QED  BY <3>5, <5>3
      <4>4. PICK y \in M[n] : y.path = w.path /\ SameFile(y.entry, w.entry)
        BY <1>2, <4>3 DEF Met
      <4>5. y \in FileSet /\ Kept(y, E)
        BY <2>1, LevelsKept
      <4>6. y.entry.dir /\ b = y.entry.clu
        BY <3>4, <3>5, <4>4 DEF SameFile
      <4>7. PICK z \in In(e, y) : ChildAt(z, y, e, E, i)
        <5>1. b \in E /\ y \in FileSet /\ Kept(y, E) /\ y.entry.dir /\ b = y.entry.clu /\ i \in DOMAIN e[b]
          BY <4>1, <4>5, <4>6
        <5>2. e \in Disks /\ E \in SUBSET Cluster /\ Sound(e, v, E)
          OBVIOUS
        <5>3. QED  BY <5>1, <5>2, ChildIn
      <4>8. z \in M[m]
        BY <1>0, <2>1, <4>7
      <4>9. z.path = x.path /\ SameFile(z.entry, x.entry)
        <5>1. z.entry = e[b][i] /\ z.path = Append(y.path, z.entry.name)
          BY <4>6, <4>7 DEF ChildAt
        <5>2. QED  BY <3>5, <4>2, <4>4, <5>1 DEF SameFile
      <4>10. QED  BY <4>8, <4>9 DEF Met
    <3>8. QED  BY <3>6, <3>7
  <2>3. QED  BY <2>1, <2>2
<1>3. 0..N \subseteq T
  <2> HIDE DEF T
  <2>1. QED  BY ONLY <1>1, <1>2, InductionUpTo, N \in Nat
<1>4. QED  BY <1>3

(* L are the files of the disk d, level by level.                           *)
Ranks(L, d, N) ==
  /\ N \in Nat /\ N = MaxDepth + 1
  /\ L \in [0..N -> SUBSET FileSet] /\ LevelsOf(L, d, N)
  /\ \A p : p \in PathsOn(d) <=> \E m \in 0..N : \E x \in L[m] : p = x.path

(* There are such levels.                                                   *)
LEMMA RanksExist ==
  ASSUME NEW d \in Disks, NEW N, N = MaxDepth + 1
  PROVE  \E L : Ranks(L, d, N)
<1>1. N \in Nat
  BY FilesLevels
<1>2. PICK L \in [0..N -> SUBSET FileSet] : LevelsOf(L, d, N) /\ FilesOn(d) = UNION {L[k] : k \in 0..N}
  BY FilesLevels
<1>3. \A p : p \in PathsOn(d) <=> \E m \in 0..N : \E x \in L[m] : p = x.path
  BY <1>2 DEF PathsOn
<1>4. QED  BY <1>1, <1>2, <1>3 DEF Ranks

(* The path of a child is its directory's, and one name more.               *)
LEMMA ChildPath ==
  ASSUME NEW d \in Disks, NEW u, NEW D \in SUBSET Cluster, Sound(d, u, D), NEW w \in FileSet, Kept(w, D),
         NEW x, NEW k, ChildAt(x, w, d, D, k)
  PROVE  x.path # <<>> /\ Promise!Parent(x.path) = w.path /\ x.path \in Seq(Name)
<1>1. PICK n \in Name \union {NoName} : x.path = Append(w.path, n)
  <2>1. x.path = Append(w.path, x.entry.name) /\ w.entry.clu \in D /\ k \in DOMAIN d[w.entry.clu] /\ x.entry = d[w.entry.clu][k]
    BY DEF ChildAt
  <2>2. d[w.entry.clu] \in Seq(Entry)
    BY <2>1 DEF Disks
  <2>3. x.entry \in Entry
    BY <2>1, <2>2
  <2>4. QED  BY <2>1, <2>3, TableType
<1>2. PICK p \in Seq(Name \union {NoName}) : p = w.path
  BY DEF FileSet
<1>3. Len(Append(p, n)) = Len(p) + 1 /\ SubSeq(Append(p, n), 1, Len(p)) = p /\ Append(p, n) # <<>>
  OBVIOUS
<1>4. Len(p) \in Nat
  OBVIOUS
<1>5. Promise!Parent(x.path) = w.path /\ x.path # <<>>
  BY <1>1, <1>2, <1>3, <1>4 DEF Promise!Parent
<1>6. x.path \in Seq(Name)
  BY ChildKept DEF Kept
<1>7. QED  BY <1>5, <1>6

(* Where an entry set is removed at most one name goes, and none was below. *)
Gone(ps, qs, q) ==
  /\ q \in ps /\ q \notin qs /\ ps \subseteq qs \union {q}
  /\ q # <<>> /\ q \in Seq(Name) /\ Promise!Parent(q) \in ps
  /\ \A z \in ps : z # <<>> => Promise!Parent(z) # q

(* Where all but one entry set is kept, all but one path is.                *)
LEMMA PathsBut ==
  ASSUME NEW d \in Disks, NEW u, NEW D \in SUBSET Cluster, Sound(d, u, D),
         NEW e \in Disks, NEW v, NEW E \in SUBSET Cluster, Sound(e, v, E),
         NEW c, NEW k, KeepsBut(d, D, e, E, c, k)
  PROVE  PathsOn(d) \subseteq PathsOn(e) \/ \E q : Gone(PathsOn(d), PathsOn(e), q)
<1>1. PICK N : N = MaxDepth + 1
  OBVIOUS
<1>2. PICK L : Ranks(L, d, N)
  BY <1>1, RanksExist
<1>3. PICK M : Ranks(M, e, N)
  BY <1>1, RanksExist
<1>4. PICK ps, qs : ps = PathsOn(d) /\ qs = PathsOn(e)
  OBVIOUS
<1>5. /\ N \in Nat
      /\ L \in [0..N -> SUBSET FileSet] /\ LevelsOf(L, d, N)
      /\ \A p : p \in ps <=> \E m \in 0..N : \E x \in L[m] : p = x.path
      /\ M \in [0..N -> SUBSET FileSet] /\ LevelsOf(M, e, N)
      /\ \A p : p \in qs <=> \E m \in 0..N : \E x \in M[m] : p = x.path
  BY <1>2, <1>3, <1>4 DEF Ranks
<1>6. \A m \in 0..N : \A x \in L[m] : Met(x, M[m]) \/ Spot(x, L, m, d, D, c, k)
  BY <1>5, LevelsMeet
<1>7. ASSUME NEW m \in 0..N, NEW x \in L[m], x.path \notin qs PROVE Spot(x, L, m, d, D, c, k)
  <2>1. ~Met(x, M[m])
    BY <1>5, <1>7 DEF Met
  <2>2. QED  BY <1>6, <2>1
<1>8. ASSUME NEW m \in 0..N, NEW x \in L[m] PROVE x \in FileSet /\ Kept(x, D) /\ Stems(x, L, m, d, D)
  BY <1>5, <1>8, LevelsKept
<1>9. CASE ps \subseteq qs
  BY <1>4, <1>9
<1>10. ASSUME NEW q \in ps, q \notin qs PROVE Gone(ps, qs, q)
  <2>1. PICK m \in 0..N : \E x \in L[m] : q = x.path
    BY <1>5
  <2>2. PICK x \in L[m] : q = x.path
    BY <2>1
  <2>3. Spot(x, L, m, d, D, c, k)
    BY <1>7, <1>10, <2>2
  <2>4. m # 0 /\ \E w \in L[m - 1] : w.entry.clu = c /\ ChildAt(x, w, d, D, k)
    BY <2>3 DEF Spot
  <2>5. PICK w \in L[m - 1] : w.entry.clu = c /\ ChildAt(x, w, d, D, k)
    BY <2>4
  <2>6. m - 1 \in 0..N
    BY <1>5, <2>4
  <2>7. w \in FileSet /\ Kept(w, D)
    BY <1>8, <2>6
  <2>8. q # <<>> /\ Promise!Parent(q) = w.path /\ q \in Seq(Name)
    BY <2>2, <2>5, <2>7, ChildPath
  <2>9. Promise!Parent(q) \in ps
    BY <1>5, <2>6, <2>8
  <2>10. c \in D /\ k \in DOMAIN d[c] /\ x.entry = d[c][k]
    BY <2>5 DEF ChildAt
  <2>11. ASSUME NEW z \in ps, z \notin qs PROVE z = q
    <3>1. PICK n \in 0..N : \E y \in L[n] : z = y.path
      BY <1>5
    <3>2. PICK y \in L[n] : z = y.path
      BY <3>1
    <3>3. Spot(y, L, n, d, D, c, k)
      BY <1>7, <2>11, <3>2
    <3>4. n # 0 /\ \E t \in L[n - 1] : t.entry.clu = c /\ ChildAt(y, t, d, D, k)
      BY <3>3 DEF Spot
    <3>5. PICK t \in L[n - 1] : t.entry.clu = c /\ ChildAt(y, t, d, D, k)
      BY <3>4
    <3>6. t = w
      <4>1. n - 1 \in 0..N /\ c # 0
        BY <1>5, <2>10, <3>4, ChainAssumption
      <4>2. \A a, b \in 0..N : \A f \in L[a], g \in L[b] : f.entry.clu = g.entry.clu /\ f.entry.clu # 0 => f = g
        BY <1>5, LevelsOnce, SMTT(40)
      <4>3. t.entry.clu = w.entry.clu /\ t.entry.clu # 0
        BY <2>5, <3>5, <4>1
      <4>4. QED  BY <2>6, <4>1, <4>2, <4>3
    <3>7. y.path = x.path
      BY <2>5, <3>5, <3>6 DEF ChildAt
    <3>8. QED  BY <2>2, <3>2, <3>7
  <2>12. ASSUME NEW z \in ps, z # <<>>, Promise!Parent(z) = q PROVE FALSE
    <3>1. PICK n \in 0..N : \E y \in L[n] : z = y.path
      BY <1>5
    <3>2. PICK y \in L[n] : z = y.path
      BY <3>1
    <3>3. Stems(y, L, n, d, D)
      BY <1>8
    <3>4. n # 0
      <4>1. SUFFICES ASSUME n = 0 PROVE FALSE
        OBVIOUS
      <4>2. y = RootFile
        BY <3>3, <4>1 DEF Stems
      <4>3. QED  BY <2>12, <3>2, <4>2 DEF RootFile
    <3>5. PICK t \in L[n - 1] : \E j : ChildAt(y, t, d, D, j)
      BY <3>3, <3>4 DEF Stems
    <3>6. PICK j : ChildAt(y, t, d, D, j)
      BY <3>5
    <3>7. n - 1 \in 0..N
      BY <1>5, <3>4
    <3>8. t \in FileSet /\ Kept(t, D)
      BY <1>8, <3>7
    <3>9. t.path = q
      BY <2>12, <3>2, <3>6, <3>8, ChildPath
    <3>10. Spot(t, L, n - 1, d, D, c, k)
      BY <1>7, <1>10, <3>7, <3>9
    <3>11. \E s : s.entry.clu = c /\ ChildAt(t, s, d, D, k)
      BY <3>10 DEF Spot
    <3>12. t.entry = d[c][k]
      BY <3>11 DEF ChildAt
    <3>13. t.entry.clu \in D /\ j \in DOMAIN d[t.entry.clu]
      BY <3>6 DEF ChildAt
    <3>14. d[t.entry.clu] = <<>>
      BY <2>10, <3>12, <3>13 DEF KeepsBut
    <3>15. QED  BY <3>13, <3>14
  <2>13. QED  BY <1>10, <2>8, <2>9, <2>11, <2>12 DEF Gone
<1>11. QED  BY <1>4, <1>9, <1>10

(* Where all are kept, no path is lost.                                     *)
LEMMA PathsKept ==
  ASSUME NEW d \in Disks, NEW u, NEW D \in SUBSET Cluster, Sound(d, u, D),
         NEW e \in Disks, NEW v, NEW E \in SUBSET Cluster, Sound(e, v, E), Keeps(d, D, e, E)
  PROVE  PathsOn(d) \subseteq PathsOn(e)
<1>1. PICK N : N = MaxDepth + 1
  OBVIOUS
<1>2. PICK L : Ranks(L, d, N)
  BY <1>1, RanksExist
<1>3. PICK M : Ranks(M, e, N)
  BY <1>1, RanksExist
<1>4. /\ N \in Nat
      /\ L \in [0..N -> SUBSET FileSet] /\ LevelsOf(L, d, N)
      /\ \A p : p \in PathsOn(d) <=> \E m \in 0..N : \E x \in L[m] : p = x.path
      /\ M \in [0..N -> SUBSET FileSet] /\ LevelsOf(M, e, N)
      /\ \A p : p \in PathsOn(e) <=> \E m \in 0..N : \E x \in M[m] : p = x.path
  BY <1>2, <1>3 DEF Ranks
<1>5. KeepsBut(d, D, e, E, 0, 0)
  BY KeepsAll
<1>6. \A m \in 0..N : \A x \in L[m] : Met(x, M[m]) \/ Spot(x, L, m, d, D, 0, 0)
  BY <1>4, <1>5, LevelsMeet
<1>7. ASSUME NEW m \in 0..N, NEW x \in L[m] PROVE ~Spot(x, L, m, d, D, 0, 0)
  <2>1. 0 \notin D
    BY ChainAssumption
  <2>2. QED  BY <2>1 DEF Spot, ChildAt
<1>8. QED  BY <1>4, <1>6, <1>7 DEF Met

(* Every directory on the way to a name is there, and so is the current one. *)
LEMMA PathsTree ==
  ASSUME NEW d \in Disks, NEW u, NEW D \in SUBSET Cluster, Sound(d, u, D)
  PROVE  /\ <<>> \in PathsOn(d)
         /\ PathsOn(d) \subseteq Seq(Name)
         /\ \A p \in PathsOn(d) : p # <<>> => Promise!Parent(p) \in PathsOn(d)
<1>1. PICK N : N = MaxDepth + 1
  OBVIOUS
<1>2. PICK L : Ranks(L, d, N)
  BY <1>1, RanksExist
<1>3. /\ N \in Nat
      /\ L \in [0..N -> SUBSET FileSet] /\ LevelsOf(L, d, N)
      /\ \A p : p \in PathsOn(d) <=> \E m \in 0..N : \E x \in L[m] : p = x.path
  BY <1>2 DEF Ranks
<1>4. ASSUME NEW m \in 0..N, NEW x \in L[m] PROVE x \in FileSet /\ Kept(x, D) /\ Stems(x, L, m, d, D)
  BY <1>3, <1>4, LevelsKept
<1>5. RootFile.path = <<>> /\ RootFile \in L[0] /\ 0 \in 0..N
  BY <1>3 DEF RootFile, LevelsOf
<1>6. <<>> \in PathsOn(d)
  BY <1>3, <1>5
<1>7. ASSUME NEW p \in PathsOn(d) PROVE p \in Seq(Name) /\ (p # <<>> => Promise!Parent(p) \in PathsOn(d))
  <2>1. PICK m \in 0..N : \E x \in L[m] : p = x.path
    BY <1>3
  <2>2. PICK x \in L[m] : p = x.path
    BY <2>1
  <2>3. Kept(x, D) /\ Stems(x, L, m, d, D)
    BY <1>4
  <2>4. p \in Seq(Name)
    BY <2>2, <2>3 DEF Kept
  <2>5. CASE m = 0
    <3>1. x = RootFile
      BY <2>3, <2>5 DEF Stems
    <3>2. QED  BY <1>5, <2>2, <2>4, <3>1
  <2>6. CASE m # 0
    <3>1. PICK w \in L[m - 1] : \E k : ChildAt(x, w, d, D, k)
      BY <2>3, <2>6 DEF Stems
    <3>2. m - 1 \in 0..N
      BY <1>3, <2>6
    <3>3. w \in FileSet /\ Kept(w, D)
      BY <1>4, <3>2
    <3>4. Promise!Parent(p) = w.path
      BY <2>2, <3>1, <3>3, ChildPath
    <3>5. QED  BY <1>3, <2>4, <3>2, <3>4
  <2>7. QED  BY <2>5, <2>6
<1>8. QED  BY <1>6, <1>7

(* What a path leads to is among the files. *)
LEMMA PathListed ==
  ASSUME NEW d \in Disks, NEW u, NEW D \in SUBSET Cluster, Sound(d, u, D), NEW p \in Seq(Name),
         EntryOn(d, p) # Nowhere, Len(p) <= MaxDepth
  PROVE  p \in PathsOn(d)
<1>1. PICK N : N = MaxDepth + 1
  OBVIOUS
<1>2. PICK L : Ranks(L, d, N)
  BY <1>1, RanksExist
<1>3. /\ N \in Nat
      /\ L \in [0..N -> SUBSET FileSet] /\ LevelsOf(L, d, N)
      /\ \A q : q \in PathsOn(d) <=> \E m \in 0..N : \E x \in L[m] : q = x.path
  BY <1>2 DEF Ranks
<1>4. PICK n \in Nat : n = Len(p)
  OBVIOUS
<1>5. n \in 0..N /\ 0..n \subseteq 0..N
  BY <1>1, <1>3, <1>4, ShellAssumption
<1>6. PICK A \in [0..n -> Places0] :
        /\ A[0] = RootEntry /\ A[n] = EntryOn(d, p)
        /\ \A m \in 1..n : Enters(A, d, D, p, m) /\ A[m].clu # Root
  BY <1>4, PathThere
<1> DEFINE T == {m \in 0..n : \E x \in L[m] : x.entry = A[m] /\ x.path = SubSeq(p, 1, m)}
<1>7. 0 \in T
  <2>1. RootFile \in L[0] /\ RootFile.entry = RootEntry /\ RootFile.path = <<>>
    BY <1>3 DEF RootFile, LevelsOf
  <2>2. SubSeq(p, 1, 0) = <<>>
    OBVIOUS
  <2>3. RootFile.entry = A[0] /\ RootFile.path = SubSeq(p, 1, 0) /\ RootFile \in L[0]
    BY <1>6, <2>1, <2>2
  <2>4. \E x \in L[0] : x.entry = A[0] /\ x.path = SubSeq(p, 1, 0)
    BY <2>3
  <2>5. 0 \in 0..n
    BY <1>4
  <2>6. QED  BY <2>4, <2>5, Zenon
<1>8. ASSUME NEW k \in 0..(n - 1), k \in T PROVE k + 1 \in T
  <2>1. PICK m \in 1..n : m = k + 1 /\ m - 1 = k /\ m \in 0..n
    BY <1>4
  <2>2. m \in 1..N /\ m \in 0..N /\ k \in 0..N
    BY <1>5, <2>1
  <2>3. PICK w \in L[k] : w.entry = A[k] /\ w.path = SubSeq(p, 1, k)
    BY <1>8
  <2>4. w \in FileSet /\ Kept(w, D)
    BY <1>3, <2>2, LevelsKept
  <2>5. Enters(A, d, D, p, m)
    BY <1>6, <2>1
  <2>6. PICK b \in D : b = A[k].clu
    BY <2>1, <2>5 DEF Enters
  <2>7. PICK i \in DOMAIN d[b] : A[m] = d[b][i] /\ A[m].name = p[m]
    BY <2>1, <2>5, <2>6 DEF Enters
  <2>8. w.entry.dir /\ b = w.entry.clu
    BY <2>1, <2>3, <2>5, <2>6 DEF Enters
  <2>9. PICK z \in In(d, w) : z.entry = d[b][i] /\ z.path = Append(w.path, d[b][i].name)
    <3>1. PICK z \in In(d, w) : ChildAt(z, w, d, D, i)
      BY <2>4, <2>8, ChildIn
    <3>2. QED  BY <2>8, <3>1 DEF ChildAt
  <2>10. z \in L[m]
    BY <1>3, <2>1, <2>2, <2>9 DEF LevelsOf
  <2>11. z.path = SubSeq(p, 1, m)
    <3>1. z.path = Append(SubSeq(p, 1, k), p[m])
      BY <2>3, <2>7, <2>9
    <3>2. SubSeq(p, 1, m) = Append(SubSeq(p, 1, k), p[m])
      BY ONLY p \in Seq(Name), <1>4, <2>1
    <3>3. QED  BY <3>1, <3>2
  <2>12. QED  BY <2>1, <2>7, <2>9, <2>10, <2>11
<1>9. n \in T
  <2> HIDE DEF T
  <2>1. 0..n \subseteq T
    BY ONLY <1>7, <1>8, InductionUpTo, n \in Nat
  <2>2. QED  BY <2>1
<1>10. SubSeq(p, 1, n) = p
  BY <1>4
<1>11. QED  BY <1>3, <1>5, <1>9, <1>10

(* qs is ps with one name less, which is none that others are below.        *)
Less(ps, qs) == qs \subseteq ps /\ \E q : Gone(ps, qs, q)

(* By a step of the disk one name appears, or one goes, or they all stay.   *)
LEMMA OneName ==
  ASSUME NEW d \in Disks, NEW u, NEW D \in SUBSET Cluster, Sound(d, u, D),
         NEW e \in Disks, NEW v, NEW E \in SUBSET Cluster, Sound(e, v, E), Becomes(d, D, e, E)
  PROVE  PathsOn(d) = PathsOn(e) \/ Less(PathsOn(d), PathsOn(e)) \/ Less(PathsOn(e), PathsOn(d))
<1>1. CASE Outgrows(d, D, e, E)
  <2>1. PathsOn(d) \subseteq PathsOn(e)
    BY <1>1, PathsKept DEF Outgrows
  <2>2. PICK c, k : KeepsBut(e, E, d, D, c, k)
    BY <1>1 DEF Outgrows
  <2>3. PathsOn(e) \subseteq PathsOn(d) \/ \E q : Gone(PathsOn(e), PathsOn(d), q)
    BY <2>2, PathsBut
  <2>4. QED  BY <2>1, <2>3 DEF Less
<1>2. CASE Outgrows(e, E, d, D)
  <2>1. PathsOn(e) \subseteq PathsOn(d)
    BY <1>2, PathsKept DEF Outgrows
  <2>2. PICK c, k : KeepsBut(d, D, e, E, c, k)
    BY <1>2 DEF Outgrows
  <2>3. PathsOn(d) \subseteq PathsOn(e) \/ \E q : Gone(PathsOn(d), PathsOn(e), q)
    BY <2>2, PathsBut
  <2>4. QED  BY <2>1, <2>3 DEF Less
<1>3. QED  BY <1>1, <1>2 DEF Becomes

(* The current directory is among the files. *)
LEMMA PwdListed ==
  ASSUME NEW d \in Disks, NEW u, NEW r, NEW c, NEW p \in Seq(Name), NEW D \in SUBSET Cluster,
         Holds(d, u, r, c, p, D), Len(p) <= MaxDepth
  PROVE  p \in PathsOn(d)
<1>1. Sound(d, u, D) /\ EntryOn(d, p).dir
  BY DEF Holds
<1>2. EntryOn(d, p) # Nowhere
  BY <1>1, NowhereType
<1>3. QED  BY <1>1, <1>2, PathListed

(* A step of the names, S to T, and of PWD, is one that Namespace allows.   *)
LEMMA StepPromised ==
  ASSUME NEW S, NEW T, S = {file.path : file \in Files}, T = {file.path : file \in Files}',
         pwd' \in T, S = T \/ (pwd' = pwd /\ (Less(S, T) \/ Less(T, S)))
  PROVE  Promise!Next
<1>1. CASE S = T
  BY <1>1 DEF Promise!Next, Promise!ChangeDir
<1>2. CASE pwd' = pwd /\ Less(S, T)
  <2>1. PICK q : Gone(S, T, q)
    BY <1>2 DEF Less
  <2>2. q \in S \ T /\ T = S \ {q} /\ q # <<>> /\ \A z \in S : z # <<>> => Promise!Parent(z) # q
    BY <1>2, <2>1 DEF Gone, Less
  <2>3. q # pwd
    BY <1>2, <2>2
  <2>4. Promise!Inside(q) = {}
    BY <2>2 DEF Promise!Inside
  <2>5. Promise!Take(q)
    BY <1>2, <2>2, <2>3, <2>4 DEF Promise!Take
  <2>6. QED  BY <2>2, <2>5 DEF Promise!Next
<1>3. CASE pwd' = pwd /\ Less(T, S)
  <2>1. PICK q : Gone(T, S, q)
    BY <1>3 DEF Less
  <2>2. q \in T \ S /\ T = S \union {q} /\ q # <<>> /\ q \in Seq(Name) /\ Promise!Parent(q) \in T
    BY <1>3, <2>1 DEF Gone, Less
  <2>3. Promise!Parent(q) # q
    BY <2>1, <2>2 DEF Gone
  <2>4. Promise!Make(q)
    BY <1>3, <2>2, <2>3 DEF Promise!Make
  <2>5. QED  BY <2>2, <2>4 DEF Promise!Next
<1>4. QED  BY <1>1, <1>2, <1>3

(* At the start the names are a tree.                                       *)
LEMMA FirstPromised ==
  ASSUME Zeroed, Init
  PROVE  Promise!Init
<1>1. TypeOK /\ Whole /\ pwd = <<>>
  BY InitType, InitWhole DEF Init
<1>2. PICK D \in SUBSET Cluster : Holds(disk, used, root, cluster, pwd, D)
  BY <1>1 DEF Whole
<1>3. disk \in Disks /\ Sound(disk, used, D)
  BY <1>1, <1>2 DEF TypeOK, Disks, Holds
<1>4. /\ <<>> \in PathsOn(disk)
      /\ PathsOn(disk) \subseteq Seq(Name)
      /\ \A p \in PathsOn(disk) : p # <<>> => Promise!Parent(p) \in PathsOn(disk)
  BY <1>3, PathsTree
<1>5. PathsOn(disk) = {file.path : file \in Files}
  BY DEF PathsOn, Files
<1>6. pwd \in Seq(Name)
  BY <1>1
<1>7. QED  BY <1>1, <1>4, <1>5, <1>6 DEF Promise!Init, Promise!TypeOK, Promise!Tree

(* A command makes one name, takes one, or moves.                           *)
LEMMA NextPromised ==
  ASSUME Zeroed, TypeOK, Whole, Shallow, CarefulNext
  PROVE  Promise!Next
<1>1. PICK D \in SUBSET Cluster : Holds(disk, used, root, cluster, pwd, D)
  BY DEF Whole
<1>2. TypeOK' /\ Steps(D)
  BY <1>1, NextSteps
<1>3. PICK E \in SUBSET Cluster : Holds(disk', used', root', cluster', pwd', E) /\ Becomes(disk, D, disk', E)
  BY <1>2 DEF Steps
<1>4. PICK d, e, v, r, c, p : d = disk /\ e = disk' /\ v = used' /\ r = root' /\ c = cluster' /\ p = pwd'
  OBVIOUS
<1>5. Shallow' /\ (disk' = disk \/ pwd' = pwd)
  BY NextMoves, MovesPwd
<1>6. d \in Disks /\ e \in Disks /\ p \in Seq(Name) /\ Len(p) <= MaxDepth
  BY <1>2, <1>4, <1>5 DEF TypeOK, Disks, Shallow
<1>7. Holds(e, v, r, c, p, E) /\ Becomes(d, D, e, E) /\ Sound(d, used, D) /\ Sound(e, v, E)
  BY <1>1, <1>3, <1>4 DEF Holds
<1>8. p \in PathsOn(e)
  BY <1>6, <1>7, PwdListed
<1>9. PathsOn(d) = PathsOn(e) \/ Less(PathsOn(d), PathsOn(e)) \/ Less(PathsOn(e), PathsOn(d))
  BY <1>6, <1>7, OneName
<1>10. PICK S, T : S = PathsOn(d) /\ T = PathsOn(e)
  OBVIOUS
<1>11. S = {file.path : file \in Files} /\ T = {file.path : file \in Files}'
  BY <1>4, <1>10 DEF PathsOn, Files
<1>12. pwd' \in T
  BY <1>4, <1>8, <1>10
<1>13. S = T \/ (pwd' = pwd /\ (Less(S, T) \/ Less(T, S)))
  BY <1>4, <1>5, <1>9, <1>10
<1>14. QED  BY <1>11, <1>12, <1>13, StepPromised

(* In careful use the shell implements Namespace: a command of exfat.c      *)
(* makes one name in a directory that is there, takes away one that has     *)
(* nothing below it, or moves to a directory that is there, and a restart   *)
(* changes no name.                                                         *)
THEOREM NamesAsPromised == CarefulSpec => ImplementsNamespace
<1> SUFFICES ASSUME Zeroed PROVE Init /\ [][CarefulNext]_vars => Promise!Spec
  BY DEF CarefulSpec, ImplementsNamespace
<1>1. Init => Promise!Init
  BY FirstPromised
<1>2. TypeOK /\ Whole /\ Shallow /\ [CarefulNext]_vars => [Promise!Next]_(Promise!spaceVars)
  <2> SUFFICES ASSUME TypeOK, Whole, Shallow, [CarefulNext]_vars PROVE [Promise!Next]_(Promise!spaceVars)
    OBVIOUS
  <2>1. CASE CarefulNext
    BY <2>1, NextPromised
  <2>2. CASE UNCHANGED vars
    BY <2>2 DEF vars, Promise!spaceVars, Files
  <2>3. QED  BY <2>1, <2>2
<1>3. Init /\ [][CarefulNext]_vars => [](TypeOK /\ Whole /\ Shallow)
  BY CarefulInvariant DEF CarefulSpec
<1>4. QED  BY <1>1, <1>2, <1>3, PTL DEF Promise!Spec

(* So in careful use, on every such volume, no name is left without its     *)
(* directory and the prompt never shows a path that leads nowhere.          *)
THEOREM PromptIsRooted == CarefulSpec => []Promise!Rooted
BY NamesAsPromised, AlwaysRooted, PTL DEF ImplementsNamespace

=============================================================================
