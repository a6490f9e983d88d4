--------------------------- MODULE ExfatNamesProofs ---------------------------
(***************************************************************************)
(* What the commands of the program do to the names in an exFAT directory, *)
(* proved for every directory that was in order, all names, and clusters   *)
(* of every size, with the program killed wherever that tears no set.      *)
(*                                                                         *)
(* traverse, and what remove marks, are recursive functions over a list of *)
(* dentries, so first comes what they compute.  Then what each command     *)
(* makes of a directory in order (Sound), and what it has on disk in       *)
(* between (Mix).  The inductive invariant is IInv: between commands the   *)
(* directory is in order, and its files are the children in memory; during *)
(* one, the disk is some of the buffer, over what was there before.        *)
(***************************************************************************)
EXTENDS ExfatNames, InductionLemmas

(* The least of a set of numbers is one of them.                           *)
LEMMA MinIsLeast ==
  ASSUME NEW S, S \subseteq Nat, S # {}
  PROVE  Min(S) \in S /\ \A y \in S : Min(S) <= y
<1>1. \E x \in S : \A y \in S : x <= y
  BY LeastExists
<1>2. QED  BY <1>1 DEF Min

FileSet(s) == {i \in DOMAIN s : IsFile(s[i])}

NamesIn(s) == [i \in DOMAIN s |-> NameAt(s, i)]

(* The names of the files are picked out of the dentries.                  *)
FileNamesBy(f, s) == Picks(f, Len(s), FileSet(s), NamesIn(s)) /\ FileNames(s) = f[1]

LEMMA FileNamesPicked ==
  ASSUME NEW s \in Seq(Dentry)
  PROVE  \E f : FileNamesBy(f, s)
<1> DEFINE B(g) == g = [i \in 1..Len(s) + 1 |->
                          IF i > Len(s) THEN <<>>
                          ELSE IF IsFile(s[i]) THEN <<NameAt(s, i)>> \o g[i + 1] ELSE g[i + 1]]
<1>1. ASSUME NEW i \in 1..Len(s) + 1, ~(i > Len(s))
      PROVE  (i \in FileSet(s) <=> IsFile(s[i])) /\ NamesIn(s)[i] = NameAt(s, i)
  <2>1. i \in DOMAIN s
    BY <1>1
  <2>2. QED  BY <2>1, Zenon DEF FileSet, NamesIn
<1>2. ASSUME NEW g PROVE Picks(g, Len(s), FileSet(s), NamesIn(s)) <=> B(g)
  <2>1. [i \in 1..Len(s) + 1 |->
           IF i > Len(s) THEN <<>>
           ELSE IF IsFile(s[i]) THEN <<NameAt(s, i)>> \o g[i + 1] ELSE g[i + 1]]
        = [i \in 1..Len(s) + 1 |->
             IF i > Len(s) THEN <<>>
             ELSE IF i \in FileSet(s) THEN <<NamesIn(s)[i]>> \o g[i + 1] ELSE g[i + 1]]
    BY <1>1, Zenon
  <2>2. QED  BY <2>1, Zenon DEF Picks
<1>3. Len(s) \in Nat
  OBVIOUS
<1>4. \E g : Picks(g, Len(s), FileSet(s), NamesIn(s))
  BY <1>3, PicksExist
<1>5. \E g : B(g)
  BY <1>2, <1>4, Zenon
<1>6. B(CHOOSE g : B(g))
  BY <1>5, Zenon
<1>7. FileNames(s) = (CHOOSE g : B(g))[1]
  BY Zenon DEF FileNames
<1> HIDE DEF B
<1>8. QED  BY <1>2, <1>6, <1>7, Zenon DEF FileNamesBy

-----------------------------------------------------------------------------
(* What is read from name dentries: the name, if each has its piece, or    *)
(* what is shown for it.  Both have the hash and the length of the stream. *)
HasPiece(s, k, n, j) ==
  Dent(s, k).type = "name" /\ Dent(s, k).name = n /\ Dent(s, k).part = j

LEMMA ReadIs ==
  ASSUME NEW s, NEW k, NEW n
  PROVE  NameRead(s, k, n) =
           IF \A j \in 1..Chunks[n] : HasPiece(s, k + j - 1, n, j) THEN n ELSE Shown[n]
BY Zenon DEF NameRead, HasPiece

(* Dentries with the same bytes read the same.                             *)
SameBytes(d, x) == d.type = x.type /\ d.name = x.name /\ d.part = x.part

LEMMA ReadSame ==
  ASSUME NEW s, NEW t, \A i : SameBytes(Dent(t, i), Dent(s, i)), NEW k, NEW n
  PROVE  NameRead(t, k, n) = NameRead(s, k, n)
<1>1. ASSUME NEW i, NEW j PROVE HasPiece(t, i, n, j) <=> HasPiece(s, i, n, j)
  BY Zenon DEF HasPiece, SameBytes
<1>2. QED  BY <1>1, ReadIs, Zenon

LEMMA ShownIsLike ==
  ASSUME NEW n \in Name
  PROVE  /\ Shown[n] \in Name /\ Hash[Shown[n]] = Hash[n] /\ Seen[Shown[n]] = Seen[n]
         /\ Chunks[n] = 1 => Shown[n] = n
BY DentriesAssumption DEF DentriesAssumption

LEMMA ReadIsLike ==
  ASSUME NEW s, NEW k, NEW n \in Name, NEW r, r = NameRead(s, k, n)
  PROVE  r \in Name /\ Hash[r] = Hash[n] /\ Seen[r] = Seen[n] /\ (r = n \/ r = Shown[n])
BY ReadIs, ShownIsLike

(* Where the jth name dentry of a set at i is.                             *)
LEMMA PieceIsInside ==
  ASSUME NEW i \in Nat \ {0}, NEW c \in Nat, NEW j \in 1..c, NEW n \in Nat, i + c + 1 <= n
  PROVE  j + 1 \in 2..c + 1 /\ (i + 2) + j - 1 = i + (j + 1) /\ i + (j + 1) \in 1..n
OBVIOUS

LEMMA NameAtSame ==
  ASSUME NEW s \in Seq(Dentry), NEW i \in DOMAIN s, NEW t \in Seq(Dentry), NEW k \in DOMAIN t,
         NEW c \in Nat, c = Chunks[s[i].name], t[k].name = s[i].name,
         i + c + 1 <= Len(s), k + c + 1 <= Len(t),
         \A j \in 2..c + 1 : SameBytes(t[k + j], s[i + j])
  PROVE  NameAt(t, k) = NameAt(s, i)
<1>1. PICK n : n = s[i].name
  OBVIOUS
<1>2. /\ i \in Nat \ {0} /\ k \in Nat \ {0} /\ Len(s) \in Nat /\ Len(t) \in Nat
      /\ DOMAIN s = 1..Len(s) /\ DOMAIN t = 1..Len(t)
  <2>1. Len(s) \in Nat /\ DOMAIN s = 1..Len(s)
    BY LenProperties, Zenon
  <2>2. Len(t) \in Nat /\ DOMAIN t = 1..Len(t)
    BY LenProperties, Zenon
  <2>3. i \in Nat \ {0}
    <3>1. i \in 1..Len(s)
      BY <2>1, Zenon
    <3>2. QED  BY ONLY <2>1, <3>1
  <2>4. k \in Nat \ {0}
    <3>1. k \in 1..Len(t)
      BY <2>2, Zenon
    <3>2. QED  BY ONLY <2>2, <3>1
  <2>5. QED  BY <2>1, <2>2, <2>3, <2>4, Zenon
<1>3. ASSUME NEW j \in 1..c PROVE HasPiece(t, (k + 2) + j - 1, n, j) <=> HasPiece(s, (i + 2) + j - 1, n, j)
  <2>a. /\ j + 1 \in 2..c + 1 /\ (k + 2) + j - 1 = k + (j + 1) /\ (i + 2) + j - 1 = i + (j + 1)
        /\ k + (j + 1) \in 1..Len(t) /\ i + (j + 1) \in 1..Len(s)
    <3>1. j + 1 \in 2..c + 1 /\ (k + 2) + j - 1 = k + (j + 1) /\ k + (j + 1) \in 1..Len(t)
      BY <1>2, PieceIsInside, ZenonT(30)
    <3>2. (i + 2) + j - 1 = i + (j + 1) /\ i + (j + 1) \in 1..Len(s)
      BY <1>2, PieceIsInside, ZenonT(30)
    <3>3. QED  BY <3>1, <3>2, Zenon
  <2>1. /\ j + 1 \in 2..c + 1 /\ (k + 2) + j - 1 = k + (j + 1) /\ (i + 2) + j - 1 = i + (j + 1)
        /\ k + (j + 1) \in DOMAIN t /\ i + (j + 1) \in DOMAIN s
    BY <1>2, <2>a, Zenon
  <2>2. SameBytes(t[k + (j + 1)], s[i + (j + 1)])
    BY <2>1
  <2>3. Dent(t, k + (j + 1)) = t[k + (j + 1)] /\ Dent(s, i + (j + 1)) = s[i + (j + 1)]
    BY <2>1, Zenon DEF Dent
  <2>4. HasPiece(t, k + (j + 1), n, j) <=> HasPiece(s, i + (j + 1), n, j)
    BY <2>2, <2>3, Zenon DEF HasPiece, SameBytes
  <2>5. QED  BY <2>1, <2>4, Zenon
<1>4. NameRead(t, k + 2, n) = NameRead(s, i + 2, n)
  BY <1>1, <1>3, ReadIs, Zenon
<1>5. QED  BY <1>1, <1>4, Zenon DEF NameAt

-----------------------------------------------------------------------------
(* Where the unused dentries begin.                                        *)
EndOf(s, e) ==
  /\ e \in 1..(Len(s) + 1)
  /\ \A k \in 1..(e - 1) : s[k].type # "unused"
  /\ e <= Len(s) => s[e].type = "unused"

LEMMA EndIsFirst ==
  ASSUME NEW s \in Seq(Dentry)
  PROVE  EndOf(s, End(s))
<1> DEFINE I == {i \in 1..Len(s) : s[i].type = "unused"}
<1>1. Len(s) \in Nat /\ I \subseteq 1..Len(s) /\ I \subseteq Nat
  OBVIOUS
<1>2. End(s) = LET i == IF I # {} THEN Min(I) ELSE 0 IN IF i = 0 THEN Len(s) + 1 ELSE i
  BY Zenon DEF End, SelectInSeq
<1>3. CASE I = {}
  <2>1. End(s) = Len(s) + 1
    BY <1>2, <1>3
  <2>2. \A k \in 1..Len(s) : s[k].type # "unused"
    BY <1>3
  <2>3. QED  BY <1>1, <2>1, <2>2 DEF EndOf
<1>4. CASE I # {}
  <2>1. Min(I) \in I /\ \A y \in I : Min(I) <= y
    BY <1>1, <1>4, MinIsLeast
  <2>2. PICK m : m = Min(I)
    OBVIOUS
  <2>3. m \in 1..Len(s) /\ s[m].type = "unused"
    BY <2>1, <2>2
  <2>4. \A k \in 1..(m - 1) : s[k].type # "unused"
    BY <2>1, <2>2, <2>3
  <2>5. End(s) = m
    <3>1. m # 0
      BY <2>3
    <3>2. QED  BY <1>2, <1>4, <2>2, <3>1, Zenon
  <2>6. QED  BY <1>1, <2>3, <2>4, <2>5 DEF EndOf
<1>5. QED  BY <1>3, <1>4

(* It is the only place with that property.                                *)
LEMMA EndIsOnly ==
  ASSUME NEW s \in Seq(Dentry), NEW e, EndOf(s, e)
  PROVE  End(s) = e
<1>1. EndOf(s, End(s))
  BY EndIsFirst
<1>2. Len(s) \in Nat
  OBVIOUS
<1>3. PICK x : x = End(s)
  OBVIOUS
<1>4. EndOf(s, x)
  BY <1>1, <1>3
<1>5. x = e
  BY <1>2, <1>4 DEF EndOf
<1>6. QED  BY <1>3, <1>5

(* The next dentry that is in use or unused.                               *)
NextOf(s, i, k) ==
  /\ k \in (i + 1)..(Len(s) + 1)
  /\ \A j \in (i + 1)..(k - 1) : ~s[j].used /\ s[j].type # "unused"
  /\ k <= Len(s) => s[k].used \/ s[k].type = "unused"

LEMMA FollowingIsNext ==
  ASSUME NEW s \in Seq(Dentry), NEW i \in 1..Len(s)
  PROVE  NextOf(s, i, Following(s, i))
<1> DEFINE K == {k \in i + 1..Len(s) : s[k].used \/ s[k].type = "unused"} \union {Len(s) + 1}
<1>1. Len(s) \in Nat /\ K \subseteq (i + 1)..(Len(s) + 1) /\ K \subseteq Nat /\ K # {}
  OBVIOUS
<1>2. Min(K) \in K /\ \A y \in K : Min(K) <= y
  BY <1>1, MinIsLeast
<1>3. Following(s, i) = Min(K)
  BY Zenon DEF Following
<1>4. PICK m : m = Min(K)
  OBVIOUS
<1>5. m \in (i + 1)..(Len(s) + 1) /\ (m <= Len(s) => s[m].used \/ s[m].type = "unused")
  BY <1>1, <1>2, <1>4
<1>6. \A j \in (i + 1)..(m - 1) : ~s[j].used /\ s[j].type # "unused"
  BY <1>1, <1>2, <1>4, <1>5
<1>7. QED  BY <1>3, <1>4, <1>5, <1>6 DEF NextOf

(* If the dentry behind is in use, it is that one.                         *)
LEMMA NextInUse ==
  ASSUME NEW s \in Seq(Dentry), NEW i \in 1..Len(s), i + 1 <= Len(s), s[i + 1].used
  PROVE  Following(s, i) = i + 1
<1>1. PICK k : k = Following(s, i)
  OBVIOUS
<1>2. NextOf(s, i, k)
  BY <1>1, FollowingIsNext
<1>3. k = i + 1
  BY <1>2 DEF NextOf
<1>4. QED  BY <1>1, <1>3

(* If none behind is in use, it is one that is unused, or past the last.   *)
LEMMA NoneInUse ==
  ASSUME NEW s \in Seq(Dentry), NEW i \in 1..Len(s), \A k \in (i + 1)..Len(s) : ~s[k].used
  PROVE  Following(s, i) \in (i + 1)..(Len(s) + 1) /\ Dent(s, Following(s, i)).type = "unused"
<1>1. PICK k : k = Following(s, i)
  OBVIOUS
<1>2. NextOf(s, i, k)
  BY <1>1, FollowingIsNext
<1>3. k \in (i + 1)..(Len(s) + 1) /\ (k <= Len(s) => s[k].type = "unused")
  BY <1>2 DEF NextOf
<1>4. Dent(s, k).type = "unused"
  <2>1. CASE k <= Len(s)
    <3>1. k \in DOMAIN s
      BY <1>3, <2>1
    <3>2. QED  BY <1>3, <2>1, <3>1 DEF Dent
  <2>2. CASE ~(k <= Len(s))
    <3>1. k \notin DOMAIN s
      BY <2>2, <1>3
    <3>2. QED  BY <3>1 DEF Dent, Unused
  <2>3. QED  BY <2>1, <2>2
<1>5. QED  BY <1>1, <1>3, <1>4

-----------------------------------------------------------------------------
(* The file dentry at p is followed by what traverse needs of its set, and *)
(* by no other file where the rest of the set should be.                   *)
HeadAt(s, p) ==
  /\ s[p].name \in Name
  /\ s[p].part = Chunks[s[p].name] + 1
  /\ p + Chunks[s[p].name] + 1 <= Len(s)
  /\ s[p + 1].type = "stream" /\ s[p + 1].used /\ s[p + 1].name = s[p].name
  /\ s[p + 2].type = "name" /\ s[p + 2].used /\ s[p + 2].name = s[p].name
  /\ \A k \in p + 1..p + Chunks[s[p].name] + 1 : ~IsFile(s[k])

(* Or its set was cut off before the name: nothing but the stream dentry   *)
(* behind it is in use.                                                    *)
CutAt(s, p) ==
  \A k \in p + 1..Len(s) : s[k].used => k = p + 1 /\ s[k].type = "stream"

Readable(s) ==
  /\ s \in Seq(Dentry)
  /\ \A p \in FileSet(s) : HeadAt(s, p) \/ CutAt(s, p)

Complete(s) == {p \in FileSet(s) : HeadAt(s, p)}

(* One step of traverse, as if the rest were read as F says.               *)
ListStep(s, F, i) ==
  LET stream == Following(s, i)
      name == Following(s, stream)
  IN  IF i > Len(s) THEN <<>>
      ELSE IF ~IsFile(s[i]) THEN F[i + 1]
      ELSE IF Dent(s, stream).type # "stream" THEN F[stream]
      ELSE IF Dent(s, name).type # "name" THEN <<>>
      ELSE <<NameRead(s, name, s[stream].name)>> \o F[name - 1 + s[i].part]

(* What is listed from each place on.                                      *)
ListFrom(s, f) == [i \in 1..(Len(s) + PerCluster) |-> IF i <= Len(s) THEN f[i] ELSE <<>>]

CompleteBy(f, s) == Picks(f, Len(s), Complete(s), NamesIn(s))

LEMMA ChunksArePositive == \A n \in Name : Chunks[n] \in Nat /\ Chunks[n] >= 1
BY DentriesAssumption DEF DentriesAssumption

LEMMA ListAtHead ==
  ASSUME NEW s \in Seq(Dentry), NEW f, CompleteBy(f, s), NEW i \in Complete(s),
         NEW F, \A j \in (i + 1)..(Len(s) + PerCluster) : F[j] = ListFrom(s, f)[j]
  PROVE  ListStep(s, F, i) = f[i]
<1>1. Len(s) \in Nat /\ i \in 1..Len(s) /\ IsFile(s[i]) /\ HeadAt(s, i) /\ PerCluster \in Nat \ {0}
  BY DentriesAssumption DEF Complete, FileSet, DentriesAssumption
<1>2. PICK c : c = Chunks[s[i].name]
  OBVIOUS
<1>3. c \in Nat /\ c >= 1 /\ i + c + 1 <= Len(s) /\ s[i].part = c + 1
  BY <1>1, <1>2, ChunksArePositive DEF HeadAt
<1>4. Following(s, i) = i + 1
  <2>1. i + 1 <= Len(s) /\ s[i + 1].used
    BY <1>1, <1>3 DEF HeadAt
  <2>2. QED  BY <1>1, <2>1, NextInUse
<1>5. Following(s, i + 1) = i + 2
  <2>1. (i + 1) + 1 <= Len(s) /\ i + 1 \in 1..Len(s) /\ (i + 1) + 1 = i + 2
    BY <1>1, <1>3
  <2>2. s[(i + 1) + 1].used
    BY <1>1, <2>1 DEF HeadAt
  <2>3. Following(s, i + 1) = (i + 1) + 1
    BY <2>1, <2>2, NextInUse
  <2>4. QED  BY <2>1, <2>3
<1>6. Dent(s, i + 1).type = "stream" /\ Dent(s, i + 2).type = "name" /\ s[i + 1].name = s[i].name
  <2>1. i + 1 \in DOMAIN s /\ i + 2 \in DOMAIN s
    BY <1>1, <1>3
  <2>2. QED  BY <1>1, <2>1 DEF HeadAt, Dent
<1>7. (i + 2) - 1 + s[i].part = i + c + 2 /\ i + c + 2 \in (i + 1)..(Len(s) + 1)
  BY <1>1, <1>3
<1>8. ListStep(s, F, i) = <<NameAt(s, i)>> \o F[i + c + 2]
  <2>1. ~(i > Len(s))
    BY <1>1
  <2>2. ListStep(s, F, i) = <<NameRead(s, i + 2, s[i + 1].name)>> \o F[(i + 2) - 1 + s[i].part]
    BY <1>1, <1>4, <1>5, <1>6, <2>1, Zenon DEF ListStep
  <2>3. QED  BY <1>6, <1>7, <2>2, Zenon DEF NameAt
<1>s. PicksByOne(f, Len(s), Complete(s), NamesIn(s))
  BY <1>1, PickSteps DEF CompleteBy
<1>9. f[i] = <<NameAt(s, i)>> \o f[i + 1]
  <2>1. NamesIn(s)[i] = NameAt(s, i)
    BY <1>1 DEF NamesIn
  <2>2. QED  BY <1>1, <1>s, <2>1, Zenon DEF PicksByOne
<1>10. f[i + 1] = f[i + c + 2]
  <2>1. \A k \in (i + 1)..((i + c + 2) - 1) : k \notin Complete(s)
    <3>1. \A k \in i + 1..i + c + 1 : ~IsFile(s[k])
      BY <1>1, <1>2 DEF HeadAt
    <3>2. (i + c + 2) - 1 = i + c + 1
      BY <1>1, <1>3
    <3>3. QED  BY <3>1, <3>2 DEF Complete, FileSet
  <2>2. i + 1 \in 1..(Len(s) + 1) /\ i + c + 2 \in (i + 1)..(Len(s) + 1)
    BY <1>1, <1>7
  <2>3. Picks(f, Len(s), Complete(s), NamesIn(s))
    BY DEF CompleteBy
  <2>4. QED  BY ONLY <1>1, <2>1, <2>2, <2>3, PicksSkip
<1>11. F[i + c + 2] = f[i + c + 2]
  <2>1. i + c + 2 \in (i + 1)..(Len(s) + PerCluster) /\ i + c + 2 \in 1..(Len(s) + PerCluster)
    BY <1>1, <1>7
  <2>2. F[i + c + 2] = ListFrom(s, f)[i + c + 2]
    BY <2>1
  <2>3. CASE i + c + 2 <= Len(s)
    BY <2>1, <2>2, <2>3 DEF ListFrom
  <2>4. CASE i + c + 2 = Len(s) + 1
    <3>1. ~(i + c + 2 <= Len(s))
      BY <2>4, <1>1
    <3>2. F[i + c + 2] = <<>>
      BY <2>1, <2>2, <3>1, Zenon DEF ListFrom
    <3>3. QED  BY <1>s, <2>4, <3>2, Zenon DEF PicksByOne
  <2>5. QED  BY <1>1, <1>7, <2>3, <2>4
<1>12. QED  BY <1>8, <1>9, <1>10, <1>11, Zenon

LEMMA ListAtCut ==
  ASSUME NEW s \in Seq(Dentry), NEW f, CompleteBy(f, s), NEW i \in FileSet(s), CutAt(s, i), ~HeadAt(s, i),
         NEW F, \A j \in (i + 1)..(Len(s) + PerCluster) : F[j] = ListFrom(s, f)[j]
  PROVE  ListStep(s, F, i) = f[i]
<1>1. Len(s) \in Nat /\ i \in 1..Len(s) /\ IsFile(s[i]) /\ PerCluster \in Nat \ {0} /\ ~(i > Len(s))
  BY DentriesAssumption DEF FileSet, DentriesAssumption
<1>2. \A k \in i..Len(s) : k \notin Complete(s)
  BY <1>1 DEF Complete, FileSet, CutAt, IsFile
<1>3. ASSUME NEW j \in i..(Len(s) + 1) PROVE f[j] = <<>>
  <2>1. j \in 1..(Len(s) + 1) /\ \A k \in j..Len(s) : k \notin Complete(s)
    BY <1>1, <1>2
  <2>2. Picks(f, Len(s), Complete(s), NamesIn(s))
    BY DEF CompleteBy
  <2>3. QED  BY ONLY <1>1, <2>1, <2>2, PicksNone
<1>4. ASSUME NEW j \in (i + 1)..(Len(s) + PerCluster) PROVE F[j] = <<>>
  <2>1. j \in 1..(Len(s) + PerCluster) /\ F[j] = ListFrom(s, f)[j]
    BY <1>1
  <2>2. CASE j <= Len(s)
    <3>1. f[j] = <<>>
      BY <1>1, <1>3, <2>2
    <3>2. QED  BY <2>1, <2>2, <3>1, Zenon DEF ListFrom
  <2>3. CASE ~(j <= Len(s))
    BY <2>1, <2>3, Zenon DEF ListFrom
  <2>4. QED  BY <2>2, <2>3
<1>5. f[i] = <<>>
  BY <1>1, <1>3
<1>6. CASE \A k \in (i + 1)..Len(s) : ~s[k].used
  <2>1. PICK k : k = Following(s, i)
    OBVIOUS
  <2>2. k \in (i + 1)..(Len(s) + 1) /\ Dent(s, k).type = "unused"
    BY <1>1, <1>6, <2>1, NoneInUse
  <2>3. Dent(s, k).type # "stream"
    BY <2>2
  <2>4. ListStep(s, F, i) = F[k]
    BY <1>1, <2>1, <2>3, Zenon DEF ListStep
  <2>5. k \in (i + 1)..(Len(s) + PerCluster)
    BY <1>1, <2>2
  <2>6. QED  BY <1>4, <1>5, <2>4, <2>5
<1>7. CASE ~(\A k \in (i + 1)..Len(s) : ~s[k].used)
  <2>1. i + 1 <= Len(s) /\ s[i + 1].used /\ s[i + 1].type = "stream" /\ \A k \in ((i + 1) + 1)..Len(s) : ~s[k].used
    BY <1>1, <1>7 DEF CutAt
  <2>2. Following(s, i) = i + 1
    BY <1>1, <2>1, NextInUse
  <2>3. i + 1 \in 1..Len(s)
    BY <1>1, <2>1
  <2>4. Dent(s, Following(s, i + 1)).type = "unused"
    BY <2>1, <2>3, NoneInUse
  <2>5. Dent(s, Following(s, i + 1)).type # "name"
    BY <2>4
  <2>6. Dent(s, i + 1).type = "stream"
    BY <2>1, <2>3 DEF Dent
  <2>7. ListStep(s, F, i) = <<>>
    BY <1>1, <2>2, <2>5, <2>6, Zenon DEF ListStep
  <2>8. QED  BY <1>5, <2>7
<1>8. QED  BY <1>6, <1>7

LEMMA ListAtOther ==
  ASSUME NEW s \in Seq(Dentry), NEW f, CompleteBy(f, s), NEW i \in 1..(Len(s) + PerCluster), i \notin FileSet(s),
         NEW F, \A j \in (i + 1)..(Len(s) + PerCluster) : F[j] = ListFrom(s, f)[j]
  PROVE  ListStep(s, F, i) = ListFrom(s, f)[i]
<1>1. Len(s) \in Nat /\ PerCluster \in Nat \ {0}
  BY DentriesAssumption DEF DentriesAssumption
<1>2. CASE i > Len(s)
  <2>1. ListStep(s, F, i) = <<>>
    BY <1>2, Zenon DEF ListStep
  <2>2. ~(i <= Len(s))
    BY <1>1, <1>2
  <2>3. ListFrom(s, f)[i] = <<>>
    BY <2>2, Zenon DEF ListFrom
  <2>4. QED  BY <2>1, <2>3
<1>3. CASE i <= Len(s)
  <2>1. i \in 1..Len(s) /\ ~(i > Len(s)) /\ i + 1 \in (i + 1)..(Len(s) + PerCluster) /\ i + 1 \in 1..(Len(s) + PerCluster)
    BY <1>1, <1>3
  <2>2. ~IsFile(s[i]) /\ i \notin Complete(s)
    BY <2>1 DEF FileSet, Complete
  <2>3. ListStep(s, F, i) = F[i + 1]
    BY <2>1, <2>2, Zenon DEF ListStep
  <2>s. PicksByOne(f, Len(s), Complete(s), NamesIn(s))
    BY <1>1, PickSteps DEF CompleteBy
  <2>4. f[i] = f[i + 1]
    BY <2>1, <2>2, <2>s, Zenon DEF PicksByOne
  <2>5. F[i + 1] = ListFrom(s, f)[i + 1]
    BY <2>1
  <2>6. ListFrom(s, f)[i + 1] = f[i + 1]
    <3>1. CASE i + 1 <= Len(s)
      BY <2>1, <3>1, Zenon DEF ListFrom
    <3>2. CASE ~(i + 1 <= Len(s))
      <4>1. i + 1 = Len(s) + 1
        BY <1>1, <2>1, <3>2
      <4>2. ListFrom(s, f)[i + 1] = <<>>
        BY <2>1, <3>2, Zenon DEF ListFrom
      <4>3. f[Len(s) + 1] = <<>>
        BY <2>s, Zenon DEF PicksByOne
      <4>4. QED  BY <4>1, <4>2, <4>3, Zenon
    <3>3. QED  BY <3>1, <3>2
  <2>7. ListFrom(s, f)[i] = f[i]
    BY <1>3, Zenon DEF ListFrom
  <2>8. QED  BY <2>3, <2>4, <2>5, <2>6, <2>7, Zenon
<1>4. QED  BY <1>1, <1>2, <1>3

(* traverse lists the files of which it finds as much as it needs.         *)
LEMMA ListedIsComplete ==
  ASSUME NEW s, Readable(s), NEW f, CompleteBy(f, s)
  PROVE  Listed(s) = f[1]
<1> DEFINE D == 1..(Len(s) + PerCluster)
           G == ListFrom(s, f)
           B(F) == F = [i \in 1..Len(s) + PerCluster |-> ListStep(s, F, i)]
<1>1. s \in Seq(Dentry) /\ Len(s) \in Nat /\ PerCluster \in Nat \ {0} /\ Len(s) + PerCluster \in Nat
  BY DentriesAssumption DEF Readable, DentriesAssumption
<1>2. ASSUME NEW F, NEW i \in D, \A j \in (i + 1)..(Len(s) + PerCluster) : F[j] = ListFrom(s, f)[j]
      PROVE  ListStep(s, F, i) = G[i]
  <2>1. CASE i \in FileSet(s)
    <3>1. G[i] = f[i]
      <4>1. i <= Len(s)
        BY <1>1, <2>1 DEF FileSet
      <4>2. QED  BY <4>1, Zenon DEF ListFrom
    <3>2. CASE HeadAt(s, i)
      <4>1. i \in Complete(s)
        BY <2>1, <3>2 DEF Complete
      <4>2. ListStep(s, F, i) = f[i]
        BY <1>1, <1>2, <4>1, ListAtHead
      <4>3. QED  BY <3>1, <4>2, Zenon
    <3>3. CASE ~HeadAt(s, i)
      <4>1. CutAt(s, i)
        BY <2>1, <3>3 DEF Readable
      <4>2. ListStep(s, F, i) = f[i]
        BY <1>1, <1>2, <2>1, <3>3, <4>1, ListAtCut
      <4>3. QED  BY <3>1, <4>2, Zenon
    <3>4. QED  BY <3>2, <3>3
  <2>2. CASE i \notin FileSet(s)
    BY <1>1, <1>2, <2>2, ListAtOther
  <2>3. QED  BY <2>1, <2>2
<1>3. ASSUME NEW i \in D PROVE ListStep(s, G, i) = G[i]
  BY <1>2
<1>4. G = [i \in D |-> G[i]]
  BY Zenon DEF ListFrom
<1>5. B(G)
  <2>1. [i \in D |-> ListStep(s, G, i)] = [i \in D |-> G[i]]
    BY <1>3, Zenon
  <2>2. QED  BY <1>4, <2>1, Zenon
<1>6. PICK F : F = CHOOSE h : B(h)
  OBVIOUS
<1>7. B(F)
  <2> HIDE DEF B
  <2>1. \E h : B(h)
    BY <1>5, Zenon
  <2>2. B(CHOOSE h : B(h))
    BY <2>1, Zenon
  <2>3. QED  BY <1>6, <2>2, Zenon
<1>8. ASSUME NEW i \in D PROVE F[i] = ListStep(s, F, i)
  BY <1>7, Zenon
<1>9. Listed(s) = F[1]
  BY <1>6, Zenon DEF Listed, ListStep
<1> HIDE DEF B, G
<1>10. PICK g : g = G
  OBVIOUS
<1>11. PICK n : n = Len(s) + PerCluster
  OBVIOUS
<1>12. ASSUME NEW i \in 1..n, \A j \in (i + 1)..n : F[j] = g[j] PROVE F[i] = g[i]
  <2>1. i \in D /\ \A j \in (i + 1)..(Len(s) + PerCluster) : F[j] = ListFrom(s, f)[j]
    BY <1>10, <1>11, <1>12 DEF G
  <2>2. ListStep(s, F, i) = G[i]
    BY <1>2, <2>1
  <2>3. QED  BY <1>8, <1>10, <2>1, <2>2
<1>13. n \in Nat
  BY <1>1, <1>11
<1>14. \A i \in 1..n : F[i] = g[i]
  BY ONLY <1>12, <1>13, AgreeDown
<1>15. 1 \in 1..n /\ 1 \in D
  BY <1>1, <1>11
<1>16. F[1] = G[1]
  BY <1>10, <1>14, <1>15
<1>17. G[1] = f[1]
  <2>1. CASE 1 <= Len(s)
    BY <1>15, <2>1, Zenon DEF G, ListFrom
  <2>2. CASE ~(1 <= Len(s))
    <3>1. Len(s) + 1 = 1
      BY <1>1, <2>2
    <3>2. PicksByOne(f, Len(s), Complete(s), NamesIn(s))
      BY <1>1, PickSteps DEF CompleteBy
    <3>3. f[1] = <<>>
      BY <3>1, <3>2, Zenon DEF PicksByOne
    <3>4. G[1] = <<>>
      BY <1>15, <2>2, Zenon DEF G, ListFrom
    <3>5. QED  BY <3>3, <3>4
  <2>3. QED  BY <2>1, <2>2
<1>18. QED  BY <1>9, <1>16, <1>17, Zenon

-----------------------------------------------------------------------------
(* In a directory in order the files are those that are listed, and all    *)
(* their dentries lie before the end.                                      *)
LEMMA SoundIsReadable ==
  ASSUME NEW s, Sound(s)
  PROVE  Readable(s) /\ Complete(s) = FileSet(s)
<1>1. s \in Seq(Dentry)
  BY DEF Sound
<1>2. ASSUME NEW p \in FileSet(s) PROVE HeadAt(s, p)
  <2>1. p \in DOMAIN s /\ IsFile(s[p]) /\ SetAt(s, p)
    BY DEF FileSet, Sound
  <2>2. PICK c : c = Chunks[s[p].name]
    OBVIOUS
  <2>3. /\ s[p].name \in Name /\ s[p].part = c + 1 /\ p + c + 1 <= Len(s)
        /\ s[p + 1].type = "stream" /\ s[p + 1].used /\ s[p + 1].name = s[p].name
        /\ s[p + 2].name = s[p].name
        /\ \A k \in p + 2..p + c + 1 : s[k].type = "name" /\ s[k].used
    BY <2>1, <2>2 DEF SetAt
  <2>4. c \in Nat /\ c >= 1
    BY <2>2, <2>3, ChunksArePositive
  <2>5. p \in Nat /\ p + 2 \in p + 2..p + c + 1
    BY <2>1, <2>4, <1>1
  <2>6. s[p + 2].type = "name" /\ s[p + 2].used
    BY <2>3, <2>5
  <2>7. ASSUME NEW k \in p + 1..p + c + 1 PROVE ~IsFile(s[k])
    <3>1. CASE k = p + 1
      BY <2>3, <3>1 DEF IsFile
    <3>2. CASE k # p + 1
      <4>1. k \in p + 2..p + c + 1
        BY <2>4, <2>5, <3>2
      <4>2. s[k].type = "name"
        BY <2>3, <4>1
      <4>3. QED  BY <4>2 DEF IsFile
    <3>3. QED  BY <3>1, <3>2
  <2>8. QED  BY <2>2, <2>3, <2>6, <2>7 DEF HeadAt
<1>3. QED  BY <1>1, <1>2 DEF Readable, Complete

LEMMA SoundEnd ==
  ASSUME NEW s, Sound(s), NEW k \in DOMAIN s, k >= End(s)
  PROVE  s[k].type = "unused" /\ ~s[k].used
<1>1. s \in Seq(Dentry)
  BY DEF Sound
<1>2. EndOf(s, End(s))
  BY <1>1, EndIsFirst
<1>3. PICK e : e = End(s)
  OBVIOUS
<1>4. e \in DOMAIN s /\ k \in e..Len(s) /\ s[e].type = "unused"
  BY <1>1, <1>2, <1>3 DEF EndOf
<1>5. QED  BY <1>4 DEF Sound

LEMMA SoundListed ==
  ASSUME NEW s, Sound(s)
  PROVE  Listed(s) = FileNames(s)
<1>1. Readable(s) /\ Complete(s) = FileSet(s) /\ s \in Seq(Dentry)
  BY SoundIsReadable DEF Sound
<1>2. PICK f : FileNamesBy(f, s)
  BY <1>1, FileNamesPicked
<1>3. CompleteBy(f, s) /\ FileNames(s) = f[1]
  BY <1>1, <1>2 DEF FileNamesBy, CompleteBy
<1>4. Listed(s) = f[1]
  BY <1>1, <1>3, ListedIsComplete
<1>5. QED  BY <1>3, <1>4

(* The name that is read of a file.                                        *)
LEMMA FileNamed ==
  ASSUME NEW s, Sound(s), NEW p \in FileSet(s), NEW n, n = NameAt(s, p)
  PROVE  /\ NamesIn(s)[p] = n /\ n \in Name /\ s[p].name \in Name
         /\ Hash[n] = Hash[s[p].name] /\ Seen[n] = Seen[s[p].name]
<1>1. p \in DOMAIN s /\ s[p].name \in Name
  BY DEF FileSet, Sound, SetAt
<1>2. n = NameRead(s, p + 2, s[p].name)
  BY Zenon DEF NameAt
<1>3. n \in Name /\ Hash[n] = Hash[s[p].name] /\ Seen[n] = Seen[s[p].name]
  BY <1>1, <1>2, ReadIsLike
<1>4. QED  BY <1>1, <1>3 DEF NamesIn

(* The names are names, and no two have one hash.                          *)
Apart(k) == \A i, j \in DOMAIN k : Hash[k[i]] = Hash[k[j]] => i = j

LEMMA FilesPlaced ==
  ASSUME NEW s, Sound(s), NEW f, FileNamesBy(f, s)
  PROVE  PlacedIn(f, Len(s), FileSet(s), NamesIn(s)) /\ f \in [1..(Len(s) + 1) -> Seq(Name)]
<1>1. s \in Seq(Dentry) /\ Len(s) \in Nat
  BY DEF Sound
<1>2. ASSUME NEW i \in 1..Len(s), i \in FileSet(s) PROVE NamesIn(s)[i] \in Name
  BY <1>2, FileNamed
<1>3. Picks(f, Len(s), FileSet(s), NamesIn(s))
  BY DEF FileNamesBy
<1>4. PlacedIn(f, Len(s), FileSet(s), NamesIn(s))
  BY ONLY <1>1, <1>2, <1>3, PicksPlaced
<1>5. f \in [1..(Len(s) + 1) -> Seq(Name)]
  BY ONLY <1>1, <1>2, <1>3, PicksAreSeqs
<1>6. QED  BY <1>4, <1>5

LEMMA FileNamesApart ==
  ASSUME NEW s, Sound(s)
  PROVE  FileNames(s) \in Seq(Name) /\ Apart(FileNames(s))
<1>1. s \in Seq(Dentry) /\ Len(s) \in Nat
  BY DEF Sound
<1>2. PICK f : FileNamesBy(f, s)
  BY <1>1, FileNamesPicked
<1>3. PlacedIn(f, Len(s), FileSet(s), NamesIn(s)) /\ f \in [1..(Len(s) + 1) -> Seq(Name)]
  BY <1>2, FilesPlaced
<1>4. f[1] \in Seq(Name) /\ FileNames(s) = f[1]
  BY <1>1, <1>2, <1>3 DEF FileNamesBy
<1>5. ASSUME NEW j \in DOMAIN f[1], NEW k \in DOMAIN f[1], Hash[f[1][j]] = Hash[f[1][k]] PROVE j = k
  <2>1. j \in 1..Len(f[1]) /\ k \in 1..Len(f[1])
    BY <1>4
  <2>2. PICK p \in 1..Len(s) : p \in FileSet(s) /\ j = PlaceOf(f, p)
    BY <1>3, <2>1 DEF PlacedIn
  <2>3. PICK q \in 1..Len(s) : q \in FileSet(s) /\ k = PlaceOf(f, q)
    BY <1>3, <2>1 DEF PlacedIn
  <2>4. f[1][j] = NamesIn(s)[p] /\ f[1][k] = NamesIn(s)[q]
    BY <1>3, <2>2, <2>3, Zenon DEF PlacedIn
  <2>5. p \in DOMAIN s /\ q \in DOMAIN s /\ IsFile(s[p]) /\ IsFile(s[q])
    BY <2>2, <2>3 DEF FileSet
  <2>6. Hash[s[p].name] = Hash[s[q].name]
    <3>1. Hash[NamesIn(s)[p]] = Hash[s[p].name] /\ Hash[NamesIn(s)[q]] = Hash[s[q].name]
      BY <2>2, <2>3, FileNamed
    <3>2. QED  BY <1>5, <2>4, <3>1
  <2>7. p = q
    BY <2>5, <2>6 DEF Sound
  <2>8. QED  BY <2>2, <2>3, <2>7
<1>6. QED  BY <1>4, <1>5 DEF Apart

-----------------------------------------------------------------------------
(* What remove finds.                                                      *)
MatchStep(s, n, F, i) ==
  LET stream == Following(s, i)
  IN  IF i >= End(s) THEN {}
      ELSE IF ~IsFile(s[i]) THEN F[i + 1]
      ELSE IF Dent(s, stream).type # "stream" THEN F[stream]
      ELSE IF Hash[s[stream].name] # Hash[n] THEN F[stream + s[i].part - 1]
      ELSE IF Dent(s, stream + 1).type # "name" THEN {}
      ELSE IF Seen[s[stream + 1].name] = Seen[n] THEN {i, stream, stream + 1}
      ELSE F[stream + s[i].part]

Alike(s, n, p) == Hash[s[p].name] = Hash[n] /\ Seen[s[p].name] = Seen[n]

Wanted(s, n) == {p \in FileSet(s) : Alike(s, n, p)}

MatchFrom(s, n) ==
  [i \in 1..(Len(s) + PerCluster) |-> {k \in Nat : \E p \in Wanted(s, n) : p >= i /\ k \in {p, p + 1, p + 2}}]

LEMMA MatchAtFile ==
  ASSUME NEW s, Sound(s), NEW n, NEW i \in FileSet(s), i < End(s),
         NEW F, \A j \in (i + 1)..(Len(s) + PerCluster) : F[j] = MatchFrom(s, n)[j]
  PROVE  MatchStep(s, n, F, i) = MatchFrom(s, n)[i]
<1>1. /\ s \in Seq(Dentry) /\ Len(s) \in Nat /\ i \in 1..Len(s) /\ IsFile(s[i]) /\ HeadAt(s, i)
      /\ PerCluster \in Nat \ {0}
  BY SoundIsReadable, DentriesAssumption DEF Sound, Complete, FileSet, DentriesAssumption
<1>2. PICK c : c = Chunks[s[i].name]
  OBVIOUS
<1>3. c \in Nat /\ c >= 1 /\ i + c + 1 <= Len(s) /\ s[i].part = c + 1
  BY <1>1, <1>2, ChunksArePositive DEF HeadAt
<1>4. Following(s, i) = i + 1
  <2>1. i + 1 <= Len(s) /\ s[i + 1].used
    BY <1>1, <1>3 DEF HeadAt
  <2>2. QED  BY <1>1, <2>1, NextInUse
<1>5. /\ Dent(s, i + 1).type = "stream" /\ Dent(s, (i + 1) + 1).type = "name"
      /\ s[i + 1].name = s[i].name /\ s[(i + 1) + 1].name = s[i].name
  <2>1. i + 1 \in DOMAIN s /\ (i + 1) + 1 \in DOMAIN s /\ (i + 1) + 1 = i + 2
    BY <1>1, <1>3
  <2>2. QED  BY <1>1, <2>1 DEF HeadAt, Dent
<1>6. ~(i >= End(s)) /\ i \in 1..(Len(s) + PerCluster)
  <2>1. EndOf(s, End(s))
    BY <1>1, EndIsFirst
  <2>2. End(s) \in Int
    BY <1>1, <2>1 DEF EndOf
  <2>3. QED  BY <1>1, <2>2
<1>7. \A k \in i + 1..i + c + 1 : k \notin Wanted(s, n)
  BY <1>1, <1>2 DEF HeadAt, Wanted, FileSet
<1>8. Wanted(s, n) \subseteq 1..Len(s)
  BY <1>1 DEF Wanted, FileSet
<1>9. ASSUME NEW j \in (i + 1)..(i + c + 2), i \notin Wanted(s, n) PROVE F[j] = MatchFrom(s, n)[i]
  <2>1. j \in (i + 1)..(Len(s) + PerCluster) /\ j \in 1..(Len(s) + PerCluster)
    BY <1>1, <1>3
  <2>2. \A p \in Wanted(s, n) : p >= j <=> p >= i
    BY <1>1, <1>3, <1>7, <1>8, <1>9
  <2>3. MatchFrom(s, n)[j] = MatchFrom(s, n)[i]
    BY <1>6, <2>1, <2>2, Zenon DEF MatchFrom
  <2>4. QED  BY <2>1, <2>3
<1>10. CASE Hash[s[i].name] # Hash[n]
  <2>1. i \notin Wanted(s, n)
    BY <1>10 DEF Wanted, Alike
  <2>2. MatchStep(s, n, F, i) = F[i + 1 + s[i].part - 1]
    BY <1>1, <1>4, <1>5, <1>6, <1>10, Zenon DEF MatchStep
  <2>3. i + 1 + s[i].part - 1 \in (i + 1)..(i + c + 2)
    BY <1>1, <1>3
  <2>4. QED  BY <1>9, <2>1, <2>2, <2>3, Zenon
<1>11. CASE Hash[s[i].name] = Hash[n]
  <2>1. ASSUME NEW p \in Wanted(s, n) PROVE p = i
    <3>1. p \in FileSet(s) /\ Hash[s[p].name] = Hash[s[i].name]
      BY <1>11 DEF Wanted, Alike
    <3>2. QED  BY <3>1 DEF FileSet, Sound
  <2>2. CASE Seen[s[i].name] = Seen[n]
    <3>1. i \in Wanted(s, n)
      BY <1>11, <2>2 DEF Wanted, Alike
    <3>2. MatchStep(s, n, F, i) = {i, i + 1, (i + 1) + 1}
      BY <1>1, <1>4, <1>5, <1>6, <1>11, <2>2, Zenon DEF MatchStep
    <3>3. MatchFrom(s, n)[i] = {k \in Nat : \E p \in Wanted(s, n) : p >= i /\ k \in {p, p + 1, p + 2}}
      BY <1>6, Zenon DEF MatchFrom
    <3>4. {k \in Nat : \E p \in Wanted(s, n) : p >= i /\ k \in {p, p + 1, p + 2}} = {i, i + 1, (i + 1) + 1}
      BY <1>1, <2>1, <3>1
    <3>5. QED  BY <3>2, <3>3, <3>4
  <2>3. CASE Seen[s[i].name] # Seen[n]
    <3>1. i \notin Wanted(s, n)
      BY <2>3 DEF Wanted, Alike
    <3>2. MatchStep(s, n, F, i) = F[i + 1 + s[i].part]
      BY <1>1, <1>4, <1>5, <1>6, <1>11, <2>3, Zenon DEF MatchStep
    <3>3. i + 1 + s[i].part \in (i + 1)..(i + c + 2)
      BY <1>1, <1>3
    <3>4. QED  BY <1>9, <3>1, <3>2, <3>3, Zenon
  <2>4. QED  BY <2>2, <2>3
<1>12. QED  BY <1>10, <1>11

LEMMA MatchAtOther ==
  ASSUME NEW s, Sound(s), NEW n, NEW i \in 1..(Len(s) + PerCluster), i \notin FileSet(s) \/ i >= End(s),
         NEW F, \A j \in (i + 1)..(Len(s) + PerCluster) : F[j] = MatchFrom(s, n)[j]
  PROVE  MatchStep(s, n, F, i) = MatchFrom(s, n)[i]
<1>1. s \in Seq(Dentry) /\ Len(s) \in Nat /\ PerCluster \in Nat \ {0} /\ Wanted(s, n) \subseteq 1..Len(s)
  BY DentriesAssumption DEF Sound, DentriesAssumption, Wanted, FileSet
<1>2. EndOf(s, End(s))
  BY <1>1, EndIsFirst
<1>3. CASE i >= End(s)
  <2>1. MatchStep(s, n, F, i) = {}
    BY <1>3, Zenon DEF MatchStep
  <2>2. ASSUME NEW p \in Wanted(s, n), p >= i PROVE FALSE
    <3>1. End(s) \in Int
      BY <1>1, <1>2 DEF EndOf
    <3>2. p \in DOMAIN s /\ p >= End(s) /\ IsFile(s[p])
      BY <1>1, <1>3, <2>2, <3>1 DEF Wanted, FileSet
    <3>3. ~s[p].used
      BY <3>2, SoundEnd
    <3>4. QED  BY <3>2, <3>3 DEF IsFile
  <2>3. MatchFrom(s, n)[i] = {k \in Nat : \E p \in Wanted(s, n) : p >= i /\ k \in {p, p + 1, p + 2}}
    BY Zenon DEF MatchFrom
  <2>4. QED  BY <2>1, <2>2, <2>3
<1>4. CASE ~(i >= End(s))
  <2>1. i <= Len(s)
    BY <1>1, <1>2, <1>4 DEF EndOf
  <2>2. i \in DOMAIN s /\ ~IsFile(s[i]) /\ i \notin Wanted(s, n)
    BY <1>1, <1>4, <2>1 DEF FileSet, Wanted
  <2>3. MatchStep(s, n, F, i) = F[i + 1]
    BY <1>4, <2>2, Zenon DEF MatchStep
  <2>4. i + 1 \in (i + 1)..(Len(s) + PerCluster) /\ i + 1 \in 1..(Len(s) + PerCluster)
    BY <1>1, <2>1
  <2>5. \A p \in Wanted(s, n) : p >= i + 1 <=> p >= i
    BY <1>1, <2>2
  <2>6. MatchFrom(s, n)[i + 1] = MatchFrom(s, n)[i]
    BY <2>4, <2>5, Zenon DEF MatchFrom
  <2>7. QED  BY <2>3, <2>4, <2>6, Zenon
<1>5. QED  BY <1>3, <1>4

MatchIs(s, n) == Match(s, n) = {k \in Nat : \E p \in Wanted(s, n) : k \in {p, p + 1, p + 2}}

(* remove goes through the dentries one by one, and marks the set of the   *)
(* first file with the name.                                               *)
LEMMA MatchIsWanted ==
  ASSUME NEW s, Sound(s), NEW n
  PROVE  MatchIs(s, n)
<1> DEFINE D == 1..(Len(s) + PerCluster)
           G == MatchFrom(s, n)
           B(F) == F = [i \in 1..Len(s) + PerCluster |-> MatchStep(s, n, F, i)]
<1>1. s \in Seq(Dentry) /\ Len(s) \in Nat /\ PerCluster \in Nat \ {0}
  BY DentriesAssumption DEF Sound, DentriesAssumption
<1>2. ASSUME NEW F, NEW i \in D, \A j \in (i + 1)..(Len(s) + PerCluster) : F[j] = MatchFrom(s, n)[j]
      PROVE  MatchStep(s, n, F, i) = G[i]
  <2>1. EndOf(s, End(s))
    BY <1>1, EndIsFirst
  <2>2. End(s) \in Int /\ i \in Int
    BY <1>1, <2>1 DEF EndOf
  <2>3. CASE i \in FileSet(s) /\ i < End(s)
    BY <1>2, <2>3, MatchAtFile
  <2>4. CASE ~(i \in FileSet(s) /\ i < End(s))
    <3>1. i \notin FileSet(s) \/ i >= End(s)
      BY <2>2, <2>4
    <3>2. QED  BY <1>2, <3>1, MatchAtOther
  <2>5. QED  BY <2>3, <2>4
<1>3. ASSUME NEW i \in D PROVE MatchStep(s, n, G, i) = G[i]
  BY <1>2
<1>4. G = [i \in D |-> G[i]]
  BY Zenon DEF MatchFrom
<1>5. B(G)
  <2>1. [i \in D |-> MatchStep(s, n, G, i)] = [i \in D |-> G[i]]
    BY <1>3, Zenon
  <2>2. QED  BY <1>4, <2>1, Zenon
<1>6. PICK F : F = CHOOSE h : B(h)
  OBVIOUS
<1>7. B(F)
  <2> HIDE DEF B
  <2>1. \E h : B(h)
    BY <1>5, Zenon
  <2>2. B(CHOOSE h : B(h))
    BY <2>1, Zenon
  <2>3. QED  BY <1>6, <2>2, Zenon
<1>8. ASSUME NEW i \in D PROVE F[i] = MatchStep(s, n, F, i)
  BY <1>7, Zenon
<1>9. Match(s, n) = F[1]
  BY <1>6, Zenon DEF Match, MatchStep
<1> HIDE DEF B, G
<1>10. PICK g : g = G
  OBVIOUS
<1>11. PICK m : m = Len(s) + PerCluster
  OBVIOUS
<1>12. ASSUME NEW i \in 1..m, \A j \in (i + 1)..m : F[j] = g[j] PROVE F[i] = g[i]
  <2>1. i \in D /\ \A j \in (i + 1)..(Len(s) + PerCluster) : F[j] = MatchFrom(s, n)[j]
    BY <1>10, <1>11, <1>12 DEF G
  <2>2. MatchStep(s, n, F, i) = G[i]
    BY <1>2, <2>1
  <2>3. QED  BY <1>8, <1>10, <2>1, <2>2
<1>13. m \in Nat
  BY <1>1, <1>11
<1>14. \A i \in 1..m : F[i] = g[i]
  BY ONLY <1>12, <1>13, AgreeDown
<1>15. 1 \in 1..m /\ 1 \in D
  BY <1>1, <1>11
<1>16. F[1] = G[1]
  BY <1>10, <1>14, <1>15
<1>17. G[1] = {k \in Nat : \E p \in Wanted(s, n) : p >= 1 /\ k \in {p, p + 1, p + 2}}
  BY <1>15, Zenon DEF G, MatchFrom
<1>18. \A p \in Wanted(s, n) : p >= 1
  BY <1>1 DEF Wanted, FileSet
<1>19. QED  BY <1>9, <1>16, <1>17, <1>18, Zenon DEF MatchIs

-----------------------------------------------------------------------------
(* A list with one element left out.                                       *)
IsRemoved(u, t, k, V) ==
  /\ u \in Seq(V) /\ Len(u) = Len(t) - 1
  /\ \A m \in 1..Len(u) : u[m] = IF m < k THEN t[m] ELSE t[m + 1]

LEMMA Removing ==
  ASSUME NEW V, NEW t \in Seq(V), NEW k \in 1..Len(t)
  PROVE  IsRemoved(RemoveAt(t, k), t, k, V)
<1>1. PICK a, b : a = SubSeq(t, 1, k - 1) /\ b = SubSeq(t, k + 1, Len(t))
  OBVIOUS
<1>n. PICK n : n = Len(t)
  OBVIOUS
<1>l. Len(t) \in Nat /\ n \in Nat /\ k \in 1..n
  BY <1>n
<1>2. /\ a \in Seq(V) /\ Len(a) = k - 1
      /\ \A i \in 1..(k - 1) : a[i] = t[i]
  <2>1. \A i \in 1..(k - 1) : t[i] \in V
    OBVIOUS
  <2>2. 1 \in Int /\ k - 1 \in Int
    OBVIOUS
  <2>3. /\ SubSeq(t, 1, k - 1) \in Seq(V)
        /\ Len(SubSeq(t, 1, k - 1)) = IF 1 <= k - 1 THEN (k - 1) - 1 + 1 ELSE 0
        /\ \A i \in 1..((k - 1) - 1 + 1) : SubSeq(t, 1, k - 1)[i] = t[1 + i - 1]
    BY ONLY <2>1, <2>2, SubSeqProperties
  <2>4. (IF 1 <= k - 1 THEN (k - 1) - 1 + 1 ELSE 0) = k - 1 /\ (k - 1) - 1 + 1 = k - 1
    OBVIOUS
  <2>5. \A i \in 1..(k - 1) : 1 + i - 1 = i
    OBVIOUS
  <2>6. QED  BY <1>1, <2>3, <2>4, <2>5, Zenon
<1>3. /\ b \in Seq(V) /\ Len(b) = n - k
      /\ \A i \in 1..(n - k) : b[i] = t[k + i]
  <2>1. \A i \in (k + 1)..Len(t) : t[i] \in V
    OBVIOUS
  <2>2. k + 1 \in Int /\ Len(t) \in Int
    BY <1>l
  <2>3. /\ SubSeq(t, k + 1, Len(t)) \in Seq(V)
        /\ Len(SubSeq(t, k + 1, Len(t))) = IF k + 1 <= Len(t) THEN Len(t) - (k + 1) + 1 ELSE 0
        /\ \A i \in 1..(Len(t) - (k + 1) + 1) : SubSeq(t, k + 1, Len(t))[i] = t[k + 1 + i - 1]
    BY ONLY <2>1, <2>2, SubSeqProperties
  <2>4. (IF k + 1 <= n THEN n - (k + 1) + 1 ELSE 0) = n - k /\ n - (k + 1) + 1 = n - k
    BY <1>l
  <2>5. \A i \in 1..(n - k) : k + 1 + i - 1 = k + i
    BY <1>l
  <2>6. QED  BY <1>1, <1>n, <2>3, <2>4, <2>5, Zenon
<1>4. PICK u : u = a \o b
  OBVIOUS
<1>5. /\ u \in Seq(V) /\ Len(u) = Len(a) + Len(b)
      /\ \A i \in 1..Len(a) + Len(b) : u[i] = IF i <= Len(a) THEN a[i] ELSE b[i - Len(a)]
  BY <1>2, <1>3, <1>4, ConcatProperties
<1>6. Len(u) = n - 1
  BY ONLY <1>l, <1>2, <1>3, <1>5
<1>7. ASSUME NEW m \in 1..(n - 1) PROVE u[m] = IF m < k THEN t[m] ELSE t[m + 1]
  <2>1. m \in 1..Len(a) + Len(b)
    BY <1>l, <1>2, <1>3
  <2>2. CASE m < k
    <3>1. m <= Len(a) /\ m \in 1..(k - 1)
      BY <1>l, <1>2, <2>2
    <3>2. QED  BY <1>2, <1>5, <2>1, <2>2, <3>1
  <2>3. CASE ~(m < k)
    <3>1. ~(m <= Len(a)) /\ m - Len(a) = m + 1 - k /\ m + 1 - k \in 1..(n - k) /\ k + (m + 1 - k) = m + 1
      BY <1>l, <1>2, <2>3
    <3>2. u[m] = b[m + 1 - k]
      BY <1>5, <2>1, <3>1, Zenon
    <3>3. b[m + 1 - k] = t[k + (m + 1 - k)]
      BY <1>3, <3>1
    <3>4. QED  BY <2>3, <3>1, <3>2, <3>3, Zenon
  <2>4. QED  BY <2>2, <2>3
<1>8. RemoveAt(t, k) = u
  BY <1>1, <1>4, Zenon DEF RemoveAt
<1>9. IsRemoved(u, t, k, V)
  BY <1>n, <1>5, <1>6, <1>7 DEF IsRemoved
<1>10. QED  BY <1>8, <1>9

LEMMA RemovingFirst ==
  ASSUME NEW V, NEW x \in V, NEW t \in Seq(V)
  PROVE  RemoveAt(<<x>> \o t, 1) = t
<1>1. PICK w : w = <<x>> \o t
  OBVIOUS
<1>2. IsPrefixed(x, t, w, V)
  BY <1>1, Prefixed
<1>3. Len(t) \in Nat /\ w \in Seq(V) /\ Len(w) = Len(t) + 1 /\ \A m \in 1..Len(t) : w[m + 1] = t[m]
  BY <1>2 DEF IsPrefixed
<1>4. PICK u : u = RemoveAt(w, 1)
  OBVIOUS
<1>5. IsRemoved(u, w, 1, V)
  <2>1. 1 \in 1..Len(w)
    BY <1>3
  <2>2. QED  BY <1>3, <1>4, <2>1, Removing
<1>6. u \in Seq(V) /\ Len(u) = Len(t) /\ \A m \in 1..Len(u) : u[m] = w[m + 1]
  BY <1>3, <1>5 DEF IsRemoved
<1>7. u = t
  BY <1>3, <1>6, SeqEqual
<1>8. QED  BY <1>1, <1>4, <1>7

LEMMA RemovingLater ==
  ASSUME NEW V, NEW x \in V, NEW t \in Seq(V), NEW k \in 1..Len(t)
  PROVE  RemoveAt(<<x>> \o t, k + 1) = <<x>> \o RemoveAt(t, k)
<1>1. PICK w, r, n : w = <<x>> \o t /\ r = RemoveAt(t, k) /\ n = Len(t)
  OBVIOUS
<1>2. IsPrefixed(x, t, w, V)
  BY <1>1, Prefixed
<1>3. n \in Nat /\ k \in 1..n /\ w \in Seq(V) /\ Len(w) = n + 1 /\ w[1] = x /\ \A m \in 1..n : w[m + 1] = t[m]
  BY <1>1, <1>2 DEF IsPrefixed
<1>4. IsRemoved(r, t, k, V)
  BY <1>1, Removing
<1>5. r \in Seq(V) /\ Len(r) = n - 1 /\ \A m \in 1..(n - 1) : r[m] = IF m < k THEN t[m] ELSE t[m + 1]
  BY <1>1, <1>4 DEF IsRemoved
<1>6. PICK y : y = <<x>> \o r
  OBVIOUS
<1>7. IsPrefixed(x, r, y, V)
  BY <1>5, <1>6, Prefixed
<1>8. y \in Seq(V) /\ Len(y) = n /\ y[1] = x /\ \A m \in 1..(n - 1) : y[m + 1] = r[m]
  BY <1>3, <1>5, <1>7 DEF IsPrefixed
<1>9. PICK u : u = RemoveAt(w, k + 1)
  OBVIOUS
<1>10. IsRemoved(u, w, k + 1, V)
  <2>1. k + 1 \in 1..Len(w)
    BY <1>3
  <2>2. QED  BY <1>3, <1>9, <2>1, Removing
<1>11. u \in Seq(V) /\ Len(u) = n /\ \A m \in 1..n : u[m] = IF m < k + 1 THEN w[m] ELSE w[m + 1]
  BY <1>3, <1>10 DEF IsRemoved
<1>12. ASSUME NEW m \in 1..n PROVE u[m] = y[m]
  <2>1. CASE m = 1
    BY <1>3, <1>8, <1>11, <2>1
  <2>2. CASE m # 1
    <3>1. PICK j : j = m - 1
      OBVIOUS
    <3>2. j \in 1..(n - 1) /\ m = j + 1 /\ j \in 1..n
      BY <1>3, <2>2, <3>1
    <3>3. y[m] = r[j] /\ w[m] = t[j]
      BY <1>3, <1>8, <3>2
    <3>4. CASE j < k
      BY <1>3, <1>5, <1>11, <3>2, <3>3, <3>4
    <3>5. CASE ~(j < k)
      <4>1. ~(m < k + 1)
        BY <1>3, <3>2, <3>5
      <4>2. u[m] = w[m + 1] /\ w[m + 1] = t[m] /\ r[j] = t[j + 1]
        BY <1>3, <1>5, <1>11, <3>2, <3>5, <4>1
      <4>3. QED  BY <3>2, <3>3, <4>2
    <3>6. QED  BY <3>4, <3>5
  <2>3. QED  BY <2>1, <2>2
<1>13. u = y
  BY <1>8, <1>11, <1>12, SeqEqual
<1>14. QED  BY <1>1, <1>6, <1>9, <1>13

(* What is picked when one place is left out.                              *)
LEMMA PicksWithout ==
  ASSUME NEW N \in Nat, NEW S, NEW v, NEW f, Picks(f, N, S, v), NEW V, \A i \in 1..N : i \in S => v[i] \in V,
         NEW p \in 1..N, p \in S, NEW g, Picks(g, N, S \ {p}, v)
  PROVE  g[1] = RemoveAt(f[1], PlaceOf(f, p))
<1>s. PicksByOne(f, N, S, v) /\ PicksByOne(g, N, S \ {p}, v)
  BY PickSteps
<1>f. f \in [1..(N + 1) -> Seq(V)]
  BY PicksAreSeqs
<1>g. PlacedIn(f, N, S, v)
  BY PicksPlaced
<1>1. f[p + 1] = g[p + 1]
  <2>1. p + 1 \in 1..(N + 1) /\ N <= N /\ \A i \in (N + 1)..N : i \notin S \ {p}
    OBVIOUS
  <2>2. \A i \in (p + 1)..N : (i \in S <=> i \in S \ {p}) /\ (i \in S => v[i] = v[i])
    OBVIOUS
  <2>3. Picks(f, N, S, v) /\ Picks(g, N, S \ {p}, v)
    OBVIOUS
  <2>4. QED  BY ONLY <2>1, <2>2, <2>3, N \in Nat, PicksAgree
<1> DEFINE Pos(i) == Len(f[i]) - Len(f[p]) + 1
           T == {i \in 1..p : Len(f[i]) >= Len(f[p]) /\ g[i] = RemoveAt(f[i], Pos(i))}
<1>l. \A i \in 1..(N + 1) : f[i] \in Seq(V) /\ Len(f[i]) \in Nat
  BY <1>f
<1>2. p \in T
  <2>1. f[p] = <<v[p]>> \o f[p + 1] /\ p \notin S \ {p}
    BY <1>s, Zenon DEF PicksByOne
  <2>2. g[p] = f[p + 1]
    BY <1>1, <1>s, <2>1, Zenon DEF PicksByOne
  <2>3. p + 1 \in 1..(N + 1) /\ p \in 1..(N + 1)
    OBVIOUS
  <2>4. RemoveAt(<<v[p]>> \o f[p + 1], 1) = f[p + 1]
    BY <1>l, <2>3, RemovingFirst
  <2>5. Pos(p) = 1 /\ Len(f[p]) >= Len(f[p]) /\ p \in 1..p
    BY <1>l, <2>3
  <2>6. QED  BY <2>1, <2>2, <2>4, <2>5, Zenon
<1>3. ASSUME NEW i \in 1..(p - 1), i + 1 \in T PROVE i \in T
  <2>1. i \in 1..N /\ i + 1 \in 1..(N + 1) /\ i \in 1..(N + 1) /\ i # p /\ p \in 1..(N + 1) /\ i \in 1..p
    OBVIOUS
  <2>2. PICK a, b, c : a = Len(f[i]) /\ b = Len(f[i + 1]) /\ c = Len(f[p])
    OBVIOUS
  <2>3. a \in Nat /\ b \in Nat /\ c \in Nat /\ b >= c /\ g[i + 1] = RemoveAt(f[i + 1], b - c + 1)
    BY <1>l, <1>3, <2>1, <2>2
  <2>c. c >= 1
    <3>1. Len(f[p]) = Len(f[p + 1]) + 1
      BY <1>g DEF PlacedIn
    <3>2. p + 1 \in 1..(N + 1)
      OBVIOUS
    <3>3. QED  BY <1>l, <2>2, <3>1, <3>2
  <2>4. CASE i \in S
    <3>1. f[i] = <<v[i]>> \o f[i + 1] /\ g[i] = <<v[i]>> \o g[i + 1] /\ v[i] \in V
      BY <1>s, <2>1, <2>4, Zenon DEF PicksByOne
    <3>2. a = b + 1
      BY <1>g, <2>1, <2>2, <2>4 DEF PlacedIn
    <3>3. b - c + 1 \in 1..b /\ a - c + 1 = (b - c + 1) + 1 /\ a >= c
      BY ONLY <2>3, <2>c, <3>2
    <3>4. RemoveAt(<<v[i]>> \o f[i + 1], (b - c + 1) + 1) = <<v[i]>> \o RemoveAt(f[i + 1], b - c + 1)
      <4>1. f[i + 1] \in Seq(V) /\ b - c + 1 \in 1..Len(f[i + 1])
        BY <1>l, <2>1, <2>2, <3>3, Zenon
      <4>2. PICK t, x, k : t = f[i + 1] /\ x = v[i] /\ k = b - c + 1
        OBVIOUS
      <4>3. t \in Seq(V) /\ x \in V /\ k \in 1..Len(t)
        BY <3>1, <4>1, <4>2
      <4>4. RemoveAt(<<x>> \o t, k + 1) = <<x>> \o RemoveAt(t, k)
        BY ONLY <4>3, RemovingLater
      <4>5. QED  BY <4>2, <4>4, Zenon
    <3>5. g[i] = RemoveAt(f[i], a - c + 1)
      BY <2>3, <3>1, <3>3, <3>4, Zenon
    <3>6. QED  BY <2>1, <2>2, <3>3, <3>5
  <2>5. CASE i \notin S
    <3>1. f[i] = f[i + 1] /\ g[i] = g[i + 1]
      BY <1>s, <2>1, <2>5, Zenon DEF PicksByOne
    <3>2. QED  BY <2>1, <2>2, <2>3, <3>1
  <2>6. QED  BY <2>4, <2>5
<1> HIDE DEF T
<1>4. p - 1 \in Nat /\ (p - 1) + 1 = p
  OBVIOUS
<1>5. 1..((p - 1) + 1) \subseteq T
  BY ONLY <1>2, <1>3, <1>4, InductionDown
<1>6. 1 \in T
  BY <1>4, <1>5
<1>7. QED  BY <1>6 DEF T, PlaceOf

-----------------------------------------------------------------------------
(* The dentries of one set lie before those of the next.                   *)
LEMMA SetsApart ==
  ASSUME NEW s, Sound(s), NEW p \in FileSet(s), NEW q \in FileSet(s), q < p
  PROVE  q + Chunks[s[q].name] + 1 < p
<1>1. s \in Seq(Dentry) /\ p \in DOMAIN s /\ q \in DOMAIN s /\ SetAt(s, q) /\ IsFile(s[p])
  BY DEF Sound, FileSet
<1>2. PICK c : c = Chunks[s[q].name]
  OBVIOUS
<1>3. c \in Nat /\ c >= 1 /\ q + c + 1 <= Len(s) /\ s[q + 1].type = "stream"
      /\ \A k \in q + 2..q + c + 1 : s[k].type = "name"
  BY <1>1, <1>2, ChunksArePositive DEF SetAt
<1>4. p \in Nat /\ q \in Nat /\ s[p].type = "file"
  BY <1>1 DEF IsFile
<1>5. ASSUME ~(q + c + 1 < p) PROVE FALSE
  <2>1. p = q + 1 \/ p \in q + 2..q + c + 1
    BY <1>3, <1>4, <1>5
  <2>2. QED  BY <1>3, <1>4, <2>1
<1>6. QED  BY <1>2, <1>5

(* What delete makes of the dentries.                                      *)
DeletedBy(d, s, S) ==
  /\ d \in Seq(Dentry) /\ Len(d) = Len(s)
  /\ \A k \in 1..Len(s) :
       /\ d[k].type = s[k].type /\ d[k].name = s[k].name /\ d[k].part = s[k].part
       /\ d[k].used <=> s[k].used /\ k \notin S

LEMMA Deleting ==
  ASSUME NEW s \in Seq(Dentry), NEW S
  PROVE  DeletedBy(Deleted(s, S), s, S)
<1>1. ASSUME NEW x \in Dentry
      PROVE  /\ [x EXCEPT !.used = FALSE] \in Dentry /\ [x EXCEPT !.used = FALSE].type = x.type
             /\ [x EXCEPT !.used = FALSE].name = x.name /\ [x EXCEPT !.used = FALSE].part = x.part
             /\ ~[x EXCEPT !.used = FALSE].used
  BY DEF Dentry
<1>2. Len(s) \in Nat /\ DOMAIN s = 1..Len(s) /\ \A k \in 1..Len(s) : s[k] \in Dentry
  OBVIOUS
<1>3. PICK d : d = Deleted(s, S)
  OBVIOUS
<1>4. d = [k \in 1..Len(s) |-> IF k \in S THEN [s[k] EXCEPT !.used = FALSE] ELSE s[k]]
  BY <1>2, <1>3, Zenon DEF Deleted
<1>5. ASSUME NEW k \in 1..Len(s)
      PROVE  /\ d[k] \in Dentry
             /\ d[k].type = s[k].type /\ d[k].name = s[k].name /\ d[k].part = s[k].part
             /\ d[k].used <=> s[k].used /\ k \notin S
  <2>1. d[k] = IF k \in S THEN [s[k] EXCEPT !.used = FALSE] ELSE s[k]
    BY <1>4
  <2>2. s[k] \in Dentry
    BY <1>2
  <2>3. CASE k \in S
    BY <1>1, <2>1, <2>2, <2>3, Zenon
  <2>4. CASE k \notin S
    BY <2>1, <2>2, <2>4, Zenon
  <2>5. QED  BY <2>3, <2>4
<1>6. d \in [1..Len(s) -> Dentry]
  <2>1. d = [k \in 1..Len(s) |-> d[k]]
    BY <1>4, Zenon
  <2>2. QED  BY <1>5, <2>1
<1>7. d \in Seq(Dentry) /\ Len(d) = Len(s)
  BY <1>2, <1>6
<1>8. QED  BY <1>3, <1>5, <1>7 DEF DeletedBy

(* A file taken out of a directory in order leaves it in order, and        *)
(* nothing changes for the others.                                         *)
LEMMA DeletedSound ==
  ASSUME NEW s, Sound(s), NEW p \in FileSet(s), NEW d, DeletedBy(d, s, {p, p + 1, p + 2})
  PROVE  Sound(d) /\ FileSet(d) = FileSet(s) \ {p} /\ NamesIn(d) = NamesIn(s)
<1>1. s \in Seq(Dentry) /\ Len(s) \in Nat /\ p \in 1..Len(s) /\ SetAt(s, p) /\ IsFile(s[p])
  BY DEF Sound, FileSet
<1>2. d \in Seq(Dentry) /\ Len(d) = Len(s) /\ DOMAIN d = 1..Len(s) /\ DOMAIN s = 1..Len(s)
  BY <1>1 DEF DeletedBy
<1>3. \A k \in 1..Len(s) : /\ d[k].type = s[k].type /\ d[k].name = s[k].name /\ d[k].part = s[k].part
                           /\ d[k].used <=> s[k].used /\ k \notin {p, p + 1, p + 2}
  BY DEF DeletedBy
<1>4. PICK b : b = Chunks[s[p].name]
  OBVIOUS
<1>5. /\ b \in Nat /\ b >= 1 /\ p + b + 1 <= Len(s) /\ s[p].type = "file"
      /\ s[p + 1].type = "stream" /\ \A k \in p + 2..p + b + 1 : s[k].type = "name"
  BY <1>1, <1>4, ChunksArePositive DEF SetAt, IsFile
<1>6. s[p + 2].type = "name"
  <2>1. p + 2 \in p + 2..p + b + 1
    BY <1>1, <1>5
  <2>2. QED  BY <1>5, <2>1
<1>7. FileSet(d) = FileSet(s) \ {p}
  <2>1. ASSUME NEW k \in 1..Len(s), s[k].type = "file" PROVE k \notin {p + 1, p + 2}
    BY <1>1, <1>5, <1>6, <2>1
  <2>2. ASSUME NEW k \in 1..Len(s) PROVE IsFile(d[k]) <=> IsFile(s[k]) /\ k # p
    BY <1>3, <2>1 DEF IsFile
  <2>3. QED  BY <1>2, <2>2 DEF FileSet
<1>8. NamesIn(d) = NamesIn(s)
  <2>1. ASSUME NEW k PROVE SameBytes(Dent(d, k), Dent(s, k))
    <3>1. CASE k \in 1..Len(s)
      <4>1. Dent(d, k) = d[k] /\ Dent(s, k) = s[k]
        BY <1>2, <3>1, Zenon DEF Dent
      <4>2. d[k].type = s[k].type /\ d[k].name = s[k].name /\ d[k].part = s[k].part
        BY ONLY <1>3, <3>1
      <4>3. SameBytes(d[k], s[k])
        BY ONLY <4>2, Zenon DEF SameBytes
      <4>4. QED  BY ONLY <4>1, <4>3, Zenon
    <3>2. CASE k \notin 1..Len(s)
      <4>1. Dent(d, k) = Unused /\ Dent(s, k) = Unused
        BY <1>2, <3>2, Zenon DEF Dent
      <4>2. QED  BY <4>1, Zenon DEF SameBytes
    <3>3. QED  BY <3>1, <3>2
  <2>2. ASSUME NEW k \in 1..Len(s) PROVE NameAt(d, k) = NameAt(s, k)
    <3>1. NameRead(d, k + 2, s[k].name) = NameRead(s, k + 2, s[k].name) /\ d[k].name = s[k].name
      BY <1>3, <2>1, ReadSame
    <3>2. QED  BY <3>1, Zenon DEF NameAt
  <2>3. QED  BY <1>2, <2>2, Zenon DEF NamesIn
<1>9. ASSUME NEW q \in DOMAIN d, IsFile(d[q]) PROVE SetAt(d, q)
  <2>1. q \in FileSet(s) /\ q # p /\ q \in 1..Len(s)
    BY <1>2, <1>7, <1>9 DEF FileSet
  <2>2. PICK c : c = Chunks[s[q].name]
    OBVIOUS
  <2>3. SetAt(s, q)
    BY <2>1 DEF Sound, FileSet
  <2>4. c \in Nat /\ c >= 1 /\ q + c + 1 <= Len(s)
    BY <2>2, <2>3, ChunksArePositive DEF SetAt
  <2>5. \A k \in q..q + c + 1 : k \in 1..Len(s) /\ k \notin {p, p + 1, p + 2}
    <3>1. CASE q < p
      <4>1. q + c + 1 < p
        BY <2>1, <2>2, <3>1, SetsApart
      <4>2. QED  BY <1>1, <2>1, <2>4, <4>1, SMTT(40)
    <3>2. CASE p < q
      <4>1. p + b + 1 < q
        BY <1>4, <2>1, <3>2, SetsApart
      <4>2. QED  BY <1>1, <1>5, <2>1, <2>4, <4>1, SMTT(40)
    <3>3. QED  BY <1>1, <2>1, <3>1, <3>2
  <2>6. \A k \in q..q + c + 1 : /\ d[k].type = s[k].type /\ d[k].name = s[k].name /\ d[k].part = s[k].part
                               /\ d[k].used <=> s[k].used
    BY <1>3, <2>5
  <2>a. d[q].name = s[q].name /\ d[q].part = s[q].part
    BY <1>3, <2>1
  <2>b. q + 1 \in 1..Len(s) /\ q + 1 \notin {p, p + 1, p + 2}
    BY <2>1, <2>4, <2>5
  <2>c. d[q + 1].name = s[q + 1].name /\ d[q + 1].type = s[q + 1].type /\ (d[q + 1].used <=> s[q + 1].used)
    BY <1>3, <2>b
  <2>7. q \in q..q + c + 1 /\ q + 1 \in q..q + c + 1 /\ q + 2..q + c + 1 \subseteq q..q + c + 1
        /\ q + 2 \in 1..Len(s)
    BY <2>1, <2>4
  <2>d. d[q + 2].name = s[q + 2].name /\ d[q + 2].part = s[q + 2].part
    BY <1>3, <2>7
  <2>8. s[q].name \in Name /\ s[q].part = c + 1
        /\ s[q + 1].type = "stream" /\ s[q + 1].used /\ s[q + 1].name = s[q].name
        /\ s[q + 2].name = s[q].name /\ s[q + 2].part = 1
        /\ \A k \in q + 2..q + c + 1 : s[k].type = "name" /\ s[k].used
    BY <2>2, <2>3 DEF SetAt
  <2>10. d[q].name \in Name /\ d[q].part = c + 1
         /\ d[q + 1].type = "stream" /\ d[q + 1].used /\ d[q + 1].name = d[q].name
         /\ d[q + 2].name = d[q].name /\ d[q + 2].part = 1
    BY <2>a, <2>c, <2>d, <2>8
  <2>11. \A k \in q + 2..q + c + 1 : d[k].type = "name" /\ d[k].used
    BY <2>6, <2>7, <2>8
  <2>12. c = Chunks[d[q].name] /\ q + c + 1 <= Len(d)
    BY <1>2, <2>2, <2>4, <2>a
  <2>13. QED  BY <2>10, <2>11, <2>12 DEF SetAt
<1>10. ASSUME NEW i \in DOMAIN d, d[i].type = "unused", NEW j \in i..Len(d)
       PROVE  d[j].type = "unused" /\ ~d[j].used
  <2>1. i \in 1..Len(s) /\ j \in 1..Len(s) /\ s[i].type = "unused" /\ j \in i..Len(s) /\ i \in DOMAIN s
    BY <1>2, <1>3, <1>10
  <2>2. s[j].type = "unused" /\ ~s[j].used
    BY <2>1 DEF Sound
  <2>3. QED  BY <1>3, <2>1, <2>2
<1>11. ASSUME NEW i \in DOMAIN d, NEW j \in DOMAIN d, IsFile(d[i]), IsFile(d[j]), Hash[d[i].name] = Hash[d[j].name]
       PROVE  i = j
  <2>1. i \in FileSet(s) /\ j \in FileSet(s)
    BY <1>7, <1>11 DEF FileSet
  <2>2. d[i].name = s[i].name /\ d[j].name = s[j].name
    BY <1>2, <1>3, <1>11
  <2>3. i \in DOMAIN s /\ j \in DOMAIN s /\ IsFile(s[i]) /\ IsFile(s[j]) /\ Hash[s[i].name] = Hash[s[j].name]
    BY <1>11, <2>1, <2>2 DEF FileSet
  <2>4. QED  BY <2>3 DEF Sound
<1>12. Sound(d)
  BY <1>2, <1>9, <1>10, <1>11 DEF Sound
<1>13. QED  BY <1>7, <1>8, <1>12

(* What remove makes of a directory in order: it takes the file it was     *)
(* asked for, and nothing if there is none.                                *)
Took(d, s, n) ==
  \/ \E p \in Wanted(s, n) : DeletedBy(d, s, {p, p + 1, p + 2})
  \/ Wanted(s, n) = {} /\ d = s

LEMMA WantedIsOne ==
  ASSUME NEW s, Sound(s), NEW n, NEW p \in Wanted(s, n)
  PROVE  Wanted(s, n) = {p}
<1>1. ASSUME NEW q \in Wanted(s, n) PROVE q = p
  <2>1. /\ p \in DOMAIN s /\ q \in DOMAIN s /\ IsFile(s[p]) /\ IsFile(s[q]) /\ Hash[s[q].name] = Hash[s[p].name]
    BY DEF Wanted, FileSet, Alike
  <2>2. QED  BY <2>1 DEF Sound
<1>2. QED  BY <1>1

(* So what it leaves is the directory without that set.                    *)
LEMMA RemoveTakes ==
  ASSUME NEW s, Sound(s), NEW n
  PROVE  Took(Deleted(s, Match(s, n)), s, n)
<1>1. s \in Seq(Dentry) /\ Wanted(s, n) \subseteq Nat
  BY DEF Sound, Wanted, FileSet
<1>2. Match(s, n) = {k \in Nat : \E p \in Wanted(s, n) : k \in {p, p + 1, p + 2}}
  BY MatchIsWanted DEF MatchIs
<1>3. DeletedBy(Deleted(s, Match(s, n)), s, Match(s, n))
  BY <1>1, Deleting
<1>4. CASE Wanted(s, n) = {}
  <2>1. Match(s, n) = {}
    BY <1>2, <1>4
  <2>2. Deleted(s, {}) = [k \in DOMAIN s |-> s[k]]
    BY DEF Deleted
  <2>3. s = [k \in DOMAIN s |-> s[k]]
    BY <1>1
  <2>4. Deleted(s, Match(s, n)) = s
    BY <2>1, <2>2, <2>3, Zenon
  <2>5. QED  BY <1>4, <2>4, Zenon DEF Took
<1>5. ASSUME NEW p \in Wanted(s, n) PROVE Took(Deleted(s, Match(s, n)), s, n)
  <2>1. Wanted(s, n) = {p}
    BY WantedIsOne
  <2>2. Match(s, n) = {k \in Nat : k \in {p, p + 1, p + 2}}
    BY <1>2, <2>1
  <2>3. p \in Nat
    BY <1>1
  <2>4. Match(s, n) = {p, p + 1, p + 2}
    BY <2>2, <2>3
  <2>5. QED  BY <1>3, <2>4, Zenon DEF Took
<1>6. QED  BY <1>4, <1>5

-----------------------------------------------------------------------------
(* How many clusters a number of dentries takes.                           *)
LEMMA PerClusterIsPositive == PerCluster \in Nat \ {0}
BY DentriesAssumption DEF DentriesAssumption

LEMMA ClustersOf ==
  ASSUME NEW n \in Nat
  PROVE  /\ Clusters(n) \in Nat
         /\ n <= Clusters(n) * PerCluster
         /\ Clusters(n) * PerCluster < n + PerCluster
         /\ n >= 1 => Clusters(n) >= 1
<1>1. PICK p, m, q : p = PerCluster /\ m = n + PerCluster - 1 /\ q = m \div p
  OBVIOUS
<1>2. p \in Nat \ {0} /\ m \in Nat /\ m = n + p - 1 /\ q = m \div p
  BY <1>1, PerClusterIsPositive
<1>3. q \in Int /\ m = p * q + (m % p) /\ m % p \in 0..(p - 1)
  BY ONLY <1>2
<1>4. q >= 0
  <2>1. p * q > -p
    BY <1>2, <1>3
  <2>2. p * q = q * p /\ 0 * p < q * p + p
    BY <1>2, <1>3, <2>1
  <2>3. QED  BY <1>2, <1>3, <2>2, Products
<1>5. q * p <= m /\ m < q * p + p
  BY <1>2, <1>3
<1>6. n <= q * p /\ q * p < n + p
  BY <1>2, <1>3, <1>5
<1>7. n >= 1 => q >= 1
  <2>1. ASSUME q = 0 PROVE n <= 0
    <3>1. q * p = 0
      BY ONLY <1>2, <2>1
    <3>2. QED  BY <1>6, <3>1
  <2>2. QED  BY <1>3, <1>4, <2>1
<1>8. Clusters(n) = q
  BY <1>1 DEF Clusters
<1>9. QED  BY <1>1, <1>3, <1>4, <1>6, <1>7, <1>8

LEMMA ClustersMonotone ==
  ASSUME NEW m \in Nat, NEW n \in Nat, m <= n
  PROVE  Clusters(m) <= Clusters(n)
<1>1. PICK a, b, p : a = Clusters(m) /\ b = Clusters(n) /\ p = PerCluster
  OBVIOUS
<1>2. a \in Nat /\ b \in Nat /\ p \in Nat \ {0} /\ a * p < m + p /\ n <= b * p
  BY <1>1, ClustersOf, PerClusterIsPositive
<1>3. a * p \in Int /\ b * p \in Int
  BY <1>2
<1>4. a * p < b * p + p
  BY <1>2, <1>3
<1>5. a <= b
  BY ONLY <1>2, <1>4, Products
<1>6. QED  BY <1>1, <1>5

LEMMA ClustersExact ==
  ASSUME NEW q \in Nat
  PROVE  q * PerCluster \in Nat /\ Clusters(q * PerCluster) = q
<1>1. PICK p, n, c : p = PerCluster /\ n = q * PerCluster /\ c = Clusters(n)
  OBVIOUS
<1>2. p \in Nat \ {0} /\ n \in Nat /\ n = q * p
  BY <1>1, PerClusterIsPositive
<1>3. c \in Nat /\ n <= c * p /\ c * p < n + p
  BY <1>1, <1>2, ClustersOf
<1>4. c * p \in Int
  BY <1>2, <1>3
<1>5. q * p < c * p + p /\ c * p < q * p + p
  BY <1>2, <1>3, <1>4
<1>6. c <= q /\ q <= c
  BY ONLY <1>2, <1>3, <1>5, Products, q \in Nat
<1>7. QED  BY <1>1, <1>2, <1>3, <1>6

LEMMA ClustersWhole ==
  ASSUME NEW n \in Nat, n % PerCluster = 0
  PROVE  Clusters(n) * PerCluster = n
<1>1. PICK p, q : p = PerCluster /\ q = n \div PerCluster
  OBVIOUS
<1>2. p \in Nat \ {0} /\ n % p = 0 /\ q = n \div p
  BY <1>1, PerClusterIsPositive
<1>3. q \in Nat /\ n = q * p
  BY ONLY <1>2, n \in Nat
<1>4. Clusters(q * PerCluster) = q
  BY <1>3, ClustersExact
<1>5. QED  BY <1>1, <1>3, <1>4

-----------------------------------------------------------------------------
(* What a directory grows by.                                              *)
AllUnused(n) == [k \in 1..n |-> Unused]

LEMMA UnusedIsDentry == Unused \in Dentry /\ Unused.type = "unused" /\ ~Unused.used
BY DEF Unused, Dentry

LEMMA AllUnusedLonger ==
  ASSUME NEW n \in Nat, NEW c, c \in [1..PerCluster -> Dentry], \A k \in DOMAIN c : c[k] = Unused
  PROVE  AllUnused(n) \o c = AllUnused(n + PerCluster)
<1>1. PICK p, a, z : p = PerCluster /\ a = AllUnused(n) /\ z = AllUnused(n + PerCluster)
  OBVIOUS
<1>2. p \in Nat /\ c \in Seq(Dentry) /\ Len(c) = p /\ \A k \in 1..p : c[k] = Unused
  BY <1>1, PerClusterIsPositive
<1>3. a \in Seq(Dentry) /\ Len(a) = n /\ \A k \in 1..n : a[k] = Unused
  BY <1>1, UnusedIsDentry DEF AllUnused
<1>4. z \in Seq(Dentry) /\ Len(z) = n + p /\ \A k \in 1..(n + p) : z[k] = Unused
  BY <1>1, <1>2, UnusedIsDentry DEF AllUnused
<1>5. PICK w : w = a \o c
  OBVIOUS
<1>6. /\ w \in Seq(Dentry) /\ Len(w) = Len(a) + Len(c)
      /\ \A i \in 1..Len(a) + Len(c) : w[i] = IF i <= Len(a) THEN a[i] ELSE c[i - Len(a)]
  BY <1>2, <1>3, <1>5, ConcatProperties
<1>7. ASSUME NEW i \in 1..(n + p) PROVE w[i] = Unused
  <2>1. i \in 1..Len(a) + Len(c)
    BY <1>2, <1>3
  <2>2. CASE i <= n
    BY <1>3, <1>6, <2>1, <2>2
  <2>3. CASE ~(i <= n)
    <3>1. i - n \in 1..p
      BY <1>2, <2>3
    <3>2. QED  BY <1>2, <1>3, <1>6, <2>1, <2>3, <3>1
  <2>4. QED  BY <2>2, <2>3
<1>8. Len(w) = Len(z) /\ \A i \in 1..Len(w) : w[i] = z[i]
  BY <1>2, <1>3, <1>4, <1>6, <1>7
<1>9. w = z
  BY <1>4, <1>6, <1>8, SeqEqual
<1>10. QED  BY <1>1, <1>5, <1>9

LEMMA FlatUnused ==
  ASSUME Zeroed, NEW m \in Nat \ {0}, NEW new \in [1..m -> Stale]
  PROVE  FlattenSeq(new) = AllUnused(m * PerCluster)
<1> DEFINE Step(F, i) == IF i = 1 THEN new[i] ELSE F[i - 1] \o new[i]
           B(F) == F = [i \in 1..Len(new) |-> Step(F, i)]
           G == [i \in 1..m |-> AllUnused(i * PerCluster)]
<1>1. Len(new) = m /\ ~(Len(new) = 0)
  OBVIOUS
<1>2. ASSUME NEW i \in 1..m
      PROVE  new[i] \in [1..PerCluster -> Dentry] /\ \A k \in DOMAIN new[i] : new[i][k] = Unused
  BY DentriesAssumption DEF DentriesAssumption, Zeroed
<1>3. ASSUME NEW i \in 1..m, NEW F, i > 1 => F[i - 1] = G[i - 1] PROVE Step(F, i) = G[i]
  <2>1. G[i] = AllUnused(i * PerCluster)
    OBVIOUS
  <2>2. CASE i = 1
    <3>1. new[i] = AllUnused(PerCluster)
      BY <1>2, Zenon DEF AllUnused
    <3>2. i * PerCluster = PerCluster
      BY <2>2, PerClusterIsPositive
    <3>3. Step(F, i) = new[i]
      BY <2>2
    <3>4. QED  BY <2>1, <3>1, <3>2, <3>3, Zenon
  <2>3. CASE i # 1
    <3>1. PICK j : j = i - 1
      OBVIOUS
    <3>2. j \in 1..m /\ i > 1 /\ j \in Nat /\ i = j + 1
      BY <2>3, <3>1
    <3>3. F[j] = G[j] /\ G[j] = AllUnused(j * PerCluster)
      BY <1>3, <3>1, <3>2
    <3>4. j * PerCluster \in Nat /\ i * PerCluster = j * PerCluster + PerCluster
      BY <3>2, PerClusterIsPositive
    <3>5. AllUnused(j * PerCluster) \o new[i] = AllUnused(j * PerCluster + PerCluster)
      BY <1>2, <3>4, AllUnusedLonger
    <3>6. Step(F, i) = F[j] \o new[i]
      BY <2>3, <3>1
    <3>7. QED  BY <2>1, <3>3, <3>4, <3>5, <3>6, Zenon
  <2>4. QED  BY <2>2, <2>3
<1>4. G = [i \in 1..Len(new) |-> G[i]]
  BY <1>1, Zenon
<1>5. B(G)
  <2>1. ASSUME NEW i \in 1..Len(new) PROVE Step(G, i) = G[i]
    <3>1. i \in 1..m
      BY <1>1
    <3> HIDE DEF Step, G
    <3>2. QED  BY <1>3, <3>1
  <2> HIDE DEF Step, G
  <2>2. [i \in 1..Len(new) |-> Step(G, i)] = [i \in 1..Len(new) |-> G[i]]
    BY <2>1, Zenon
  <2>3. QED  BY <1>4, <2>2, Zenon
<1>6. PICK F : F = CHOOSE h : B(h)
  OBVIOUS
<1>7. B(F)
  <2> HIDE DEF B
  <2>1. \E h : B(h)
    BY <1>5, Zenon
  <2>2. B(CHOOSE h : B(h))
    BY <2>1, Zenon
  <2>3. QED  BY <1>6, <2>2, Zenon
<1>8. ASSUME NEW i \in 1..m PROVE F[i] = Step(F, i)
  <2>1. i \in 1..Len(new)
    BY <1>1
  <2> HIDE DEF Step
  <2>2. QED  BY <1>7, <2>1, Zenon
<1>9. FlattenSeq(new) = F[Len(new)]
  BY <1>1, <1>6, Zenon DEF FlattenSeq
<1> HIDE DEF B, G, Step
<1> DEFINE T == {i \in 0..m : i >= 1 => F[i] = G[i]}
<1>10. 0 \in T
  OBVIOUS
<1>11. ASSUME NEW i \in 0..(m - 1), i \in T PROVE i + 1 \in T
  <2>1. i + 1 \in 1..m /\ (i + 1) - 1 = i /\ i + 1 \in 0..m
    OBVIOUS
  <2>2. i + 1 > 1 => F[(i + 1) - 1] = G[(i + 1) - 1]
    BY <1>11, <2>1
  <2>3. F[i + 1] = G[i + 1]
    BY <1>3, <1>8, <2>1, <2>2
  <2>4. QED  BY <2>1, <2>3
<1> HIDE DEF T
<1>12. m \in Nat
  OBVIOUS
<1>13. 0..m \subseteq T
  BY ONLY <1>10, <1>11, <1>12, InductionUpTo
<1>14. m \in 0..m /\ m >= 1 /\ m \in 1..m
  OBVIOUS
<1>15. F[m] = G[m]
  BY <1>13, <1>14 DEF T
<1>16. G[m] = AllUnused(m * PerCluster)
  BY <1>14, Zenon DEF G
<1>17. QED  BY <1>1, <1>9, <1>15, <1>16, Zenon

(* A directory with more unused dentries at the end.                       *)
Extends(g, s) ==
  /\ s \in Seq(Dentry) /\ g \in Seq(Dentry) /\ Len(s) <= Len(g)
  /\ \A k \in 1..Len(s) : g[k] = s[k]
  /\ \A k \in Len(s) + 1..Len(g) : g[k] = Unused

LEMMA GrownExtends ==
  ASSUME Zeroed, slots \in Seq(Dentry), Len(slots) % PerCluster = 0, NEW n \in Nat, NEW g \in Grown(n)
  PROVE  /\ Extends(g, slots) /\ Len(g) % PerCluster = 0
         /\ Len(g) >= n * PerCluster
         /\ Len(g) = Len(slots) \/ Len(g) = n * PerCluster
<1>1. PICK p, l, c : p = PerCluster /\ l = Len(slots) /\ c = Clusters(Len(slots))
  OBVIOUS
<1>2. p \in Nat \ {0} /\ l \in Nat /\ l % p = 0 /\ c \in Nat /\ c * p = l /\ Size = c
  BY <1>1, PerClusterIsPositive, ClustersOf, ClustersWhole DEF Size
<1>3. CASE n <= c
  <2>1. g = slots
    BY <1>2, <1>3 DEF Grown
  <2>2. n * p <= c * p
    BY ONLY <1>2, <1>3, Products, n \in Nat
  <2>3. Extends(slots, slots)
    BY <1>1, <1>2 DEF Extends
  <2>4. n * p \in Int /\ l >= n * p
    BY <1>2, <2>2
  <2>5. QED  BY <1>1, <1>2, <2>1, <2>3, <2>4
<1>4. CASE ~(n <= c)
  <2>1. PICK m : m = n - c
    OBVIOUS
  <2>2. m \in Nat \ {0} /\ n = c + m
    BY <1>2, <1>4, <2>1
  <2>3. PICK new \in [1..m -> Stale] : g = slots \o FlattenSeq(new)
    BY <1>2, <1>4, <2>1, Zenon DEF Grown
  <2>4. PICK x, w : x = m * p /\ w = AllUnused(x)
    OBVIOUS
  <2>5. g = slots \o w
    BY <1>1, <2>2, <2>3, <2>4, FlatUnused
  <2>6. x \in Nat /\ n * p = l + x
    BY <1>2, <2>2, <2>4
  <2>7. w \in Seq(Dentry) /\ Len(w) = x /\ \A k \in 1..x : w[k] = Unused
    BY <2>4, <2>6, UnusedIsDentry DEF AllUnused
  <2>8. /\ g \in Seq(Dentry) /\ Len(g) = l + x
        /\ \A i \in 1..l + x : g[i] = IF i <= l THEN slots[i] ELSE w[i - l]
    BY <1>1, <2>5, <2>7, ConcatProperties
  <2>9. \A i \in l + 1..l + x : g[i] = Unused
    <3> TAKE i \in l + 1..l + x
    <3>1. i \in 1..l + x /\ ~(i <= l) /\ i - l \in 1..x
      BY <1>2, <2>6
    <3>2. QED  BY <2>7, <2>8, <3>1
  <2>10. \A i \in 1..l : g[i] = slots[i]
    BY <1>2, <2>6, <2>8
  <2>11. Extends(g, slots)
    BY <1>1, <1>2, <2>6, <2>8, <2>9, <2>10, SMTT(40) DEF Extends
  <2>12. (n * p) % p = 0
    BY <1>2
  <2>13. QED  BY <1>1, <1>2, <2>6, <2>8, <2>11, <2>12
<1>5. QED  BY <1>2, <1>3, <1>4

-----------------------------------------------------------------------------
LEMMA ExtendedSame ==
  ASSUME NEW g, NEW s, Extends(g, s)
  PROVE  FileSet(g) = FileSet(s) /\ FileNames(g) = FileNames(s) /\ End(g) = End(s)
<1>1. /\ s \in Seq(Dentry) /\ g \in Seq(Dentry) /\ Len(s) <= Len(g)
      /\ \A k \in 1..Len(s) : g[k] = s[k]
      /\ \A k \in Len(s) + 1..Len(g) : ~g[k].used /\ g[k].type = "unused"
  BY UnusedIsDentry DEF Extends
<1>2. Len(s) \in Nat /\ Len(g) \in Nat /\ DOMAIN s = 1..Len(s) /\ DOMAIN g = 1..Len(g)
  BY <1>1
<1>3. ASSUME NEW i \in 1..Len(g) PROVE i \in FileSet(g) <=> i \in FileSet(s)
  <2>1. CASE i <= Len(s)
    <3>1. i \in 1..Len(s) /\ g[i] = s[i]
      BY <1>1, <1>2, <2>1
    <3>2. QED  BY <1>2, <3>1 DEF FileSet
  <2>2. CASE ~(i <= Len(s))
    <3>1. ~g[i].used /\ i \notin 1..Len(s)
      BY <1>1, <1>2, <2>2
    <3>2. QED  BY <1>2, <3>1 DEF FileSet, IsFile
  <2>3. QED  BY <2>1, <2>2
<1>4. FileSet(g) \subseteq 1..Len(g) /\ FileSet(s) \subseteq 1..Len(s)
  BY <1>2 DEF FileSet
<1>5. FileSet(g) = FileSet(s)
  <2>1. FileSet(s) \subseteq 1..Len(g)
    <3>1. 1..Len(s) \subseteq 1..Len(g)
      BY <1>1, <1>2
    <3>2. QED  BY <1>4, <3>1
  <2> HIDE DEF FileSet
  <2>2. QED  BY <1>3, <1>4, <2>1, Zenon
<1>d. ASSUME NEW k PROVE SameBytes(Dent(g, k), Dent(s, k))
  <2>1. CASE k \in 1..Len(s)
    <3>1. k \in 1..Len(g) /\ g[k] = s[k]
      BY <1>1, <1>2, <2>1
    <3>2. QED  BY <1>2, <2>1, <3>1, Zenon DEF Dent, SameBytes
  <2>2. CASE k \notin 1..Len(s)
    <3>1. k \in 1..Len(g) => k \in Len(s) + 1..Len(g)
      BY <1>1, <1>2, <2>2
    <3>2. k \in 1..Len(g) => g[k] = Unused
      BY <3>1 DEF Extends
    <3>3. QED  BY <1>2, <2>2, <3>2, Zenon DEF Dent, SameBytes
  <2>3. QED  BY <2>1, <2>2
<1>6. PICK f : FileNamesBy(f, s)
  BY <1>1, FileNamesPicked
<1>7. PICK h : FileNamesBy(h, g)
  BY <1>1, FileNamesPicked
<1>8. f[1] = h[1]
  <2>1. Picks(f, Len(s), FileSet(s), NamesIn(s)) /\ Picks(h, Len(g), FileSet(g), NamesIn(g))
    BY <1>6, <1>7 DEF FileNamesBy
  <2>2. \A i \in 1..Len(s) : (i \in FileSet(s) <=> i \in FileSet(g)) /\ (i \in FileSet(s) => NamesIn(s)[i] = NamesIn(g)[i])
    <3> TAKE i \in 1..Len(s)
    <3>1. g[i] = s[i] /\ i \in 1..Len(g)
      BY <1>1, <1>2
    <3>2. NameRead(g, i + 2, s[i].name) = NameRead(s, i + 2, s[i].name)
      BY <1>d, ReadSame
    <3>3. NamesIn(s)[i] = NameAt(s, i) /\ NamesIn(g)[i] = NameAt(g, i)
      BY <1>2, <3>1, Zenon DEF NamesIn
    <3>4. NameAt(g, i) = NameAt(s, i)
      BY <3>1, <3>2, Zenon DEF NameAt
    <3>5. QED  BY <1>5, <3>3, <3>4, Zenon
  <2>3. \A i \in (Len(s) + 1)..Len(g) : i \notin FileSet(g)
    BY <1>2, <1>4, <1>5
  <2>4. 1 \in 1..(Len(s) + 1)
    BY <1>2
  <2>5. QED  BY ONLY <1>1, <1>2, <2>1, <2>2, <2>3, <2>4, PicksAgree
<1>9. FileNames(s) = FileNames(g)
  BY <1>6, <1>7, <1>8 DEF FileNamesBy
<1>10. PICK e : e = End(s)
  OBVIOUS
<1>11. EndOf(s, e)
  BY <1>1, <1>10, EndIsFirst
<1>12. EndOf(g, e)
  BY <1>1, <1>2, <1>11 DEF EndOf
<1>13. End(g) = e
  BY <1>1, <1>12, EndIsOnly
<1>14. QED  BY <1>5, <1>9, <1>10, <1>13

LEMMA ExtendedSound ==
  ASSUME NEW g, NEW s, Extends(g, s), Sound(s)
  PROVE  Sound(g)
<1>1. /\ s \in Seq(Dentry) /\ g \in Seq(Dentry) /\ Len(s) <= Len(g)
      /\ \A k \in 1..Len(s) : g[k] = s[k]
      /\ \A k \in Len(s) + 1..Len(g) : ~g[k].used /\ g[k].type = "unused"
  BY UnusedIsDentry DEF Extends
<1>2. Len(s) \in Nat /\ Len(g) \in Nat /\ DOMAIN s = 1..Len(s) /\ DOMAIN g = 1..Len(g)
  BY <1>1
<1>3. ASSUME NEW i \in DOMAIN g, g[i].used PROVE i \in DOMAIN s /\ g[i] = s[i]
  BY <1>1, <1>2, <1>3
<1>4. ASSUME NEW i \in DOMAIN g, IsFile(g[i]) PROVE SetAt(g, i)
  <2>1. i \in DOMAIN s /\ g[i] = s[i] /\ SetAt(s, i)
    BY <1>3, <1>4 DEF IsFile, Sound
  <2>2. PICK c : c = Chunks[s[i].name]
    OBVIOUS
  <2>3. /\ s[i].name \in Name /\ s[i].part = c + 1 /\ i + c + 1 <= Len(s)
        /\ s[i + 1].type = "stream" /\ s[i + 1].used /\ s[i + 1].name = s[i].name
        /\ s[i + 2].name = s[i].name /\ s[i + 2].part = 1
        /\ \A k \in i + 2..i + c + 1 : s[k].type = "name" /\ s[k].used
    BY <2>1, <2>2 DEF SetAt
  <2>4. c \in Nat /\ c >= 1
    BY <2>2, <2>3, ChunksArePositive
  <2>a. i \in 1..Len(s) /\ i + c + 1 <= Len(s)
    BY <1>2, <2>1, <2>3, Zenon
  <2>5. i + 1 \in 1..Len(s) /\ i + 2 \in 1..Len(s) /\ \A k \in i + 2..i + c + 1 : k \in 1..Len(s)
    BY ONLY <1>2, <2>a, <2>4
  <2>6. g[i + 1] = s[i + 1] /\ g[i + 2] = s[i + 2] /\ \A k \in i + 2..i + c + 1 : g[k] = s[k]
    BY <1>1, <2>5
  <2>b. Len(s) <= Len(g)
    BY <1>1, Zenon
  <2>7. i + c + 1 <= Len(g)
    BY ONLY <1>2, <2>a, <2>b, <2>4
  <2>8. QED  BY <2>1, <2>2, <2>3, <2>6, <2>7 DEF SetAt
<1>5. ASSUME NEW i \in DOMAIN g, g[i].type = "unused", NEW j \in i..Len(g)
      PROVE  g[j].type = "unused" /\ ~g[j].used
  <2>1. CASE j \in 1..Len(s)
    <3>1. i \in DOMAIN s /\ g[i] = s[i] /\ j \in i..Len(s) /\ g[j] = s[j]
      BY <1>1, <1>2, <2>1
    <3>2. QED  BY <1>5, <3>1 DEF Sound
  <2>2. CASE j \notin 1..Len(s)
    <3>1. j \in Len(s) + 1..Len(g)
      BY <1>2, <2>2
    <3>2. QED  BY <1>1, <3>1
  <2>3. QED  BY <2>1, <2>2
<1>6. ASSUME NEW i \in DOMAIN g, NEW j \in DOMAIN g, IsFile(g[i]), IsFile(g[j]), Hash[g[i].name] = Hash[g[j].name]
      PROVE  i = j
  <2>1. i \in DOMAIN s /\ g[i] = s[i] /\ j \in DOMAIN s /\ g[j] = s[j]
    BY <1>3, <1>6 DEF IsFile
  <2>2. QED  BY <1>6, <2>1 DEF Sound
<1>7. QED  BY <1>1, <1>4, <1>5, <1>6 DEF Sound

(* The unused dentries at the end may be taken away as well.               *)
LEMMA CutSound ==
  ASSUME NEW g, NEW s, Extends(g, s), Sound(g)
  PROVE  Sound(s)
<1>1. /\ s \in Seq(Dentry) /\ g \in Seq(Dentry) /\ Len(s) <= Len(g)
      /\ \A k \in 1..Len(s) : g[k] = s[k]
      /\ \A k \in Len(s) + 1..Len(g) : ~g[k].used /\ g[k].type = "unused"
  BY UnusedIsDentry DEF Extends
<1>2. Len(s) \in Nat /\ Len(g) \in Nat /\ DOMAIN s = 1..Len(s) /\ DOMAIN g = 1..Len(g)
  BY <1>1
<1>3. \A i \in DOMAIN s : i \in DOMAIN g /\ g[i] = s[i]
  BY <1>1, <1>2
<1>4. ASSUME NEW i \in DOMAIN s, IsFile(s[i]) PROVE SetAt(s, i)
  <2>1. i \in DOMAIN g /\ g[i] = s[i] /\ SetAt(g, i)
    BY <1>3, <1>4 DEF Sound
  <2>2. PICK c : c = Chunks[s[i].name]
    OBVIOUS
  <2>3. /\ g[i].name \in Name /\ g[i].part = c + 1 /\ i + c + 1 <= Len(g)
        /\ g[i + 1].type = "stream" /\ g[i + 1].used /\ g[i + 1].name = g[i].name
        /\ g[i + 2].name = g[i].name /\ g[i + 2].part = 1
        /\ \A k \in i + 2..i + c + 1 : g[k].type = "name" /\ g[k].used
    BY <2>1, <2>2 DEF SetAt
  <2>4. c \in Nat /\ c >= 1 /\ i \in Nat
    BY <1>2, <2>1, <2>2, <2>3, ChunksArePositive
  <2>5. i + c + 1 <= Len(s)
    <3>1. i + c + 1 \in i + 2..i + c + 1
      BY <2>4
    <3>2. g[i + c + 1].used
      BY <2>3, <3>1
    <3>3. ASSUME ~(i + c + 1 <= Len(s)) PROVE i + c + 1 \in Len(s) + 1..Len(g)
      BY <1>2, <2>3, <2>4, <3>3
    <3>4. QED  BY <1>1, <3>2, <3>3
  <2>6. i + 1 \in 1..Len(s) /\ i + 2 \in 1..Len(s) /\ \A k \in i + 2..i + c + 1 : k \in 1..Len(s)
    BY <1>2, <2>1, <2>4, <2>5
  <2>7. g[i + 1] = s[i + 1] /\ g[i + 2] = s[i + 2] /\ \A k \in i + 2..i + c + 1 : g[k] = s[k]
    BY <1>1, <2>6
  <2>8. QED  BY <2>1, <2>2, <2>3, <2>5, <2>7 DEF SetAt
<1>5. ASSUME NEW i \in DOMAIN s, s[i].type = "unused", NEW j \in i..Len(s)
      PROVE  s[j].type = "unused" /\ ~s[j].used
  <2>1. i \in DOMAIN g /\ g[i].type = "unused" /\ j \in i..Len(g) /\ g[j] = s[j]
    BY <1>1, <1>2, <1>3, <1>5
  <2>2. QED  BY <2>1 DEF Sound
<1>6. ASSUME NEW i \in DOMAIN s, NEW j \in DOMAIN s, IsFile(s[i]), IsFile(s[j]), Hash[s[i].name] = Hash[s[j].name]
      PROVE  i = j
  BY <1>3, <1>6 DEF Sound
<1>7. QED  BY <1>1, <1>4, <1>5, <1>6 DEF Sound

-----------------------------------------------------------------------------
(* The set of the file dentry at k has one name dentry, or its last one    *)
(* does not go with the name, which is then read back as it is shown.      *)
Made(b, k) ==
  LET n == b[k].name
  IN  Chunks[n] = 1 \/ b[k + Chunks[n] + 1].name # n

(* What create and fill put behind the end: whole sets that are read back  *)
(* as the names, which the directory does not have.                        *)
Added(b, g, names) ==
  /\ b \in Seq(Dentry) /\ Len(b) = Len(g)
  /\ \A k \in 1..(End(g) - 1) : b[k] = g[k]
  /\ \A k \in End(g)..Len(g) :
       IsFile(b[k]) => SetAt(b, k) /\ Made(b, k) /\ Shown[b[k].name] \in names
  /\ \A i \in End(g)..Len(g) : b[i].type = "unused" =>
       \A j \in i..Len(g) : b[j].type = "unused" /\ ~b[j].used
  /\ \A i, j \in End(g)..Len(g) :
       IsFile(b[i]) /\ IsFile(b[j]) /\ Hash[b[i].name] = Hash[b[j].name] => i = j
  /\ \A n \in names : n \in Name /\ \A q \in FileSet(g) : Hash[g[q].name] # Hash[n]
  /\ \A n \in names : \E k \in End(g)..Len(g) : IsFile(b[k]) /\ Shown[b[k].name] = n

(* A name is read back as it is shown where its last name dentry is not a  *)
(* piece of it.                                                            *)
LEMMA ReadAsShown ==
  ASSUME NEW m \in Seq(Dentry), NEW k \in DOMAIN m, NEW n \in Name, n = m[k].name,
         NEW c \in Nat \ {0}, c = Chunks[n], k + c + 1 <= Len(m),
         c = 1 \/ m[k + c + 1].type # "name" \/ m[k + c + 1].name # n
  PROVE  NameAt(m, k) = Shown[n]
<1>1. NameAt(m, k) =
        IF \A j \in 1..c : HasPiece(m, k + 2 + j - 1, n, j) THEN n ELSE Shown[n]
  BY ReadIs, Zenon DEF NameAt
<1>2. CASE c = 1
  <2>1. Shown[n] = n
    BY <1>2, ShownIsLike
  <2>2. QED  BY <1>1, <2>1, Zenon
<1>3. CASE c # 1
  <2>1. k + 2 + c - 1 = k + c + 1 /\ c \in 1..c /\ k + c + 1 \in DOMAIN m
    OBVIOUS
  <2>2. ~HasPiece(m, k + 2 + c - 1, n, c)
    BY <1>3, <2>1, Zenon DEF HasPiece, Dent
  <2>3. QED  BY <1>1, <2>1, <2>2, Zenon
<1>4. QED  BY <1>2, <1>3

LEMMA MadeIsShown ==
  ASSUME NEW b \in Seq(Dentry), NEW k \in DOMAIN b, SetAt(b, k), Made(b, k)
  PROVE  NameAt(b, k) = Shown[b[k].name]
<1>1. PICK n, c : n = b[k].name /\ c = Chunks[n]
  OBVIOUS
<1>2. n \in Name /\ c \in Nat \ {0} /\ k + c + 1 <= Len(b)
  BY <1>1, ChunksArePositive DEF SetAt
<1>3. c = 1 \/ b[k + c + 1].name # n
  BY <1>1, Zenon DEF Made
<1>4. NameAt(b, k) = Shown[n]
  BY <1>1, <1>2, <1>3, ReadAsShown
<1>5. QED  BY <1>1, <1>4

LEMMA AddedSound ==
  ASSUME NEW g, Sound(g), NEW b, NEW names, Added(b, g, names)
  PROVE  Sound(b)
<1>1. g \in Seq(Dentry) /\ Len(g) \in Nat /\ DOMAIN g = 1..Len(g)
  BY DEF Sound
<1>2. PICK e : e = End(g)
  OBVIOUS
<1>3. EndOf(g, e)
  BY <1>1, <1>2, EndIsFirst
<1>4. e \in 1..(Len(g) + 1) /\ \A k \in 1..(e - 1) : g[k].type # "unused"
  BY <1>3 DEF EndOf
<1>5. /\ b \in Seq(Dentry) /\ Len(b) = Len(g) /\ DOMAIN b = 1..Len(g)
      /\ \A k \in 1..(e - 1) : b[k] = g[k]
      /\ \A k \in e..Len(g) : IsFile(b[k]) => SetAt(b, k) /\ Shown[b[k].name] \in names
      /\ \A i \in e..Len(g) : b[i].type = "unused" =>
           \A j \in i..Len(g) : b[j].type = "unused" /\ ~b[j].used
  BY <1>1, <1>2 DEF Added
<1>6. /\ \A i, j \in e..Len(g) : IsFile(b[i]) /\ IsFile(b[j]) /\ Hash[b[i].name] = Hash[b[j].name] => i = j
      /\ \A n \in names : \A q \in FileSet(g) : Hash[g[q].name] # Hash[n]
  BY <1>2 DEF Added
<1>7. \A k \in 1..Len(g) : k \in 1..(e - 1) \/ k \in e..Len(g)
  BY <1>1, <1>4
<1>8. ASSUME NEW i \in DOMAIN b, IsFile(b[i]) PROVE SetAt(b, i)
  <2>1. CASE i \in e..Len(g)
    BY <1>5, <1>8, <2>1
  <2>2. CASE i \in 1..(e - 1)
    <3>1. i \in DOMAIN g /\ b[i] = g[i] /\ SetAt(g, i)
      BY <1>1, <1>4, <1>5, <1>8, <2>2 DEF Sound
    <3>2. PICK c : c = Chunks[g[i].name]
      OBVIOUS
    <3>3. /\ g[i].name \in Name /\ g[i].part = c + 1 /\ i + c + 1 <= Len(g)
          /\ g[i + 1].type = "stream" /\ g[i + 1].used /\ g[i + 1].name = g[i].name
          /\ g[i + 2].name = g[i].name /\ g[i + 2].part = 1
          /\ \A k \in i + 2..i + c + 1 : g[k].type = "name" /\ g[k].used
      BY <3>1, <3>2 DEF SetAt
    <3>4. c \in Nat /\ c >= 1 /\ i \in Nat
      BY <1>1, <3>1, <3>2, <3>3, ChunksArePositive
    <3>5. i + c + 1 < e
      <4>1. i + c + 1 \in i + 2..i + c + 1 /\ i + c + 1 \in DOMAIN g
        BY <1>1, <3>3, <3>4
      <4>2. g[i + c + 1].used
        BY <3>3, <4>1
      <4>3. ~(i + c + 1 >= e)
        BY <1>2, <4>1, <4>2, SoundEnd
      <4>4. QED  BY <1>1, <1>4, <3>4, <4>3
    <3>6. i + 1 \in 1..(e - 1) /\ i + 2 \in 1..(e - 1) /\ \A k \in i + 2..i + c + 1 : k \in 1..(e - 1)
      BY <1>4, <3>4, <3>5
    <3>7. b[i + 1] = g[i + 1] /\ b[i + 2] = g[i + 2] /\ \A k \in i + 2..i + c + 1 : b[k] = g[k]
      BY <1>5, <3>6
    <3>8. QED  BY <1>5, <3>1, <3>2, <3>3, <3>7 DEF SetAt
  <2>3. QED  BY <1>5, <1>7, <2>1, <2>2
<1>9. ASSUME NEW i \in DOMAIN b, b[i].type = "unused", NEW j \in i..Len(b)
      PROVE  b[j].type = "unused" /\ ~b[j].used
  <2>1. i \notin 1..(e - 1)
    BY <1>4, <1>5, <1>9
  <2>2. i \in e..Len(g) /\ j \in i..Len(g)
    BY <1>5, <1>7, <2>1
  <2>3. QED  BY <1>5, <1>9, <2>2
<1>10. ASSUME NEW i \in DOMAIN b, NEW j \in DOMAIN b, IsFile(b[i]), IsFile(b[j]), Hash[b[i].name] = Hash[b[j].name]
       PROVE  i = j
  <2>1. ASSUME NEW k \in DOMAIN b, k \in 1..(e - 1), IsFile(b[k]) PROVE k \in FileSet(g) /\ b[k] = g[k]
    BY <1>1, <1>5, <2>1 DEF FileSet
  <2>2. CASE i \in e..Len(g) /\ j \in e..Len(g)
    BY <1>6, <1>10, <2>2
  <2>3. CASE i \in 1..(e - 1) /\ j \in 1..(e - 1)
    <3>1. i \in FileSet(g) /\ b[i] = g[i] /\ j \in FileSet(g) /\ b[j] = g[j]
      BY <1>10, <2>1, <2>3
    <3>2. QED  BY <1>10, <3>1 DEF Sound, FileSet
  <2>4. CASE i \in 1..(e - 1) /\ j \in e..Len(g)
    <3>1. i \in FileSet(g) /\ b[i] = g[i]
      BY <1>10, <2>1, <2>4
    <3>2. SetAt(b, j) /\ Shown[b[j].name] \in names
      BY <1>5, <1>10, <2>4
    <3>3. Hash[Shown[b[j].name]] = Hash[b[j].name]
      BY <3>2, ShownIsLike DEF SetAt
    <3>4. QED  BY <1>6, <1>10, <3>1, <3>2, <3>3
  <2>5. CASE j \in 1..(e - 1) /\ i \in e..Len(g)
    <3>1. j \in FileSet(g) /\ b[j] = g[j]
      BY <1>10, <2>1, <2>5
    <3>2. SetAt(b, i) /\ Shown[b[i].name] \in names
      BY <1>5, <1>10, <2>5
    <3>3. Hash[Shown[b[i].name]] = Hash[b[i].name]
      BY <3>2, ShownIsLike DEF SetAt
    <3>4. QED  BY <1>6, <1>10, <3>1, <3>2, <3>3
  <2>6. QED  BY <1>5, <1>7, <2>2, <2>3, <2>4, <2>5
<1>11. QED  BY <1>5, <1>8, <1>9, <1>10 DEF Sound

(* What is written over a part of the buffer.                              *)
Written(b, s, i, new) ==
  /\ b \in Seq(Dentry) /\ Len(b) = Len(s)
  /\ \A k \in 1..Len(s) : k \notin i..i + Len(new) - 1 => b[k] = s[k]
  /\ \A m \in 1..Len(new) : b[i + m - 1] = new[m]

LEMMA Overwriting ==
  ASSUME NEW s \in Seq(Dentry), NEW i \in Nat \ {0}, NEW new \in Seq(Dentry), i + Len(new) - 1 <= Len(s)
  PROVE  Written(Over(s, i, new), s, i, new)
<1>1. PICK b, l : b = Over(s, i, new) /\ l = Len(new)
  OBVIOUS
<1>2. l \in Nat /\ Len(s) \in Nat /\ DOMAIN s = 1..Len(s)
  BY <1>1
<1>3. b = [k \in 1..Len(s) |-> IF k \in i..i + l - 1 THEN new[k - i + 1] ELSE s[k]]
  BY <1>1, <1>2 DEF Over
<1>4. ASSUME NEW k \in 1..Len(s) PROVE b[k] \in Dentry
  <2>1. CASE k \in i..i + l - 1
    <3>1. k - i + 1 \in 1..l
      BY <1>2, <2>1
    <3>2. QED  BY <1>1, <1>3, <2>1, <3>1
  <2>2. CASE k \notin i..i + l - 1
    BY <1>3, <2>2
  <2>3. QED  BY <2>1, <2>2
<1>5. b \in [1..Len(s) -> Dentry]
  <2>1. b = [k \in 1..Len(s) |-> b[k]]
    BY <1>3, Zenon
  <2>2. QED  BY <1>4, <2>1
<1>6. b \in Seq(Dentry) /\ Len(b) = Len(s)
  BY <1>2, <1>5
<1>7. ASSUME NEW m \in 1..l PROVE b[i + m - 1] = new[m]
  <2>1. i + m - 1 \in 1..Len(s) /\ i + m - 1 \in i..i + l - 1 /\ (i + m - 1) - i + 1 = m
    BY <1>1, <1>2
  <2>2. b[i + m - 1] = new[(i + m - 1) - i + 1]
    BY <1>3, <2>1, Zenon
  <2>3. QED  BY <2>1, <2>2
<1>8. \A k \in 1..Len(s) : k \notin i..i + l - 1 => b[k] = s[k]
  BY <1>3
<1>9. QED  BY <1>1, <1>6, <1>7, <1>8 DEF Written

-----------------------------------------------------------------------------
LEMMA MadeDentries ==
  ASSUME NEW n \in Name
  PROVE  /\ File(n) \in Dentry /\ Stream(n) \in Dentry /\ Piece(n) \in Dentry /\ Blank \in Dentry
         /\ IsFile(File(n)) /\ File(n).name = n /\ File(n).part = Chunks[n] + 1 /\ File(n).type = "file"
         /\ Stream(n).type = "stream" /\ Stream(n).used /\ Stream(n).name = n
         /\ Piece(n).type = "name" /\ Piece(n).used /\ Piece(n).name = n /\ Piece(n).part = 1
         /\ Blank.type = "file" /\ ~Blank.used
<1>1. Chunks[n] + 1 \in Nat
  BY ChunksArePositive
<1>2. QED  BY <1>1 DEF File, Stream, Piece, Blank, Dentry, IsFile

LEMMA RetypedIsName ==
  ASSUME NEW d \in Dentry
  PROVE  /\ Retyped(d) \in Dentry /\ Retyped(d).type = "name" /\ Retyped(d).used
         /\ d.type = "unused" => Retyped(d).name = NoName
<1>1. [d EXCEPT !.used = TRUE] \in Dentry /\ [d EXCEPT !.used = TRUE].type = d.type /\ [d EXCEPT !.used = TRUE].used
  BY DEF Dentry
<1>2. LET x == [type |-> "name", used |-> TRUE, name |-> NoName, part |-> 0]
      IN  x \in Dentry /\ x.type = "name" /\ x.used /\ x.name = NoName
  BY DEF Dentry
<1>3. CASE d.type = "name"
  BY <1>1, <1>3 DEF Retyped
<1>4. CASE d.type # "name"
  BY <1>2, <1>4 DEF Retyped
<1>5. QED  BY <1>3, <1>4

(* The entry set of a name.                                                *)
IsEntrySet(x, n) ==
  /\ x \in Seq(Dentry) /\ Len(x) = Chunks[n] + 2
  /\ x[1] = File(n) /\ x[2] = Stream(n) /\ x[3] = Piece(n)
  /\ \A k \in 3..Chunks[n] + 2 : x[k].type = "name" /\ x[k].used
  /\ Chunks[n] # 1 => x[Chunks[n] + 2].name # n

LEMMA EntrySetIs ==
  ASSUME NEW g \in Seq(Dentry), NEW e \in Nat \ {0}, NEW n \in Name, e + Chunks[n] + 1 <= Len(g),
         \A k \in e..Len(g) : g[k].type = "unused"
  PROVE  IsEntrySet(EntrySet(g, e, n), n)
<1>1. PICK c, h, t : /\ c = Chunks[n] /\ h = <<File(n), Stream(n), Piece(n)>>
                     /\ t = [k \in 1..Chunks[n] - 1 |->
                               IF k < Chunks[n] - 1 THEN Piece(n) ELSE Retyped(g[e + 2 + k])]
  OBVIOUS
<1>2. c \in Nat /\ c >= 1 /\ c - 1 \in Nat /\ Len(g) \in Nat
  BY <1>1, ChunksArePositive
<1>3. h \in Seq(Dentry) /\ Len(h) = 3 /\ h[1] = File(n) /\ h[2] = Stream(n) /\ h[3] = Piece(n)
  BY <1>1, MadeDentries
<1>4. ASSUME NEW k \in 1..c - 1
      PROVE  t[k] \in Dentry /\ t[k].type = "name" /\ t[k].used /\ (k = c - 1 => t[k].name # n)
  <2>1. e + 2 + k \in 1..Len(g) /\ e + 2 + k \in e..Len(g)
    BY <1>1, <1>2, SMTT(40)
  <2>2. t[k] = IF k < c - 1 THEN Piece(n) ELSE Retyped(g[e + 2 + k])
    BY <1>1
  <2>3. g[e + 2 + k] \in Dentry /\ g[e + 2 + k].type = "unused"
    BY <2>1
  <2>4. CASE k < c - 1
    <3>1. t[k] = Piece(n) /\ k # c - 1
      BY <1>2, <2>2, <2>4
    <3>2. QED  BY <3>1, MadeDentries
  <2>5. CASE ~(k < c - 1)
    <3>1. t[k] = Retyped(g[e + 2 + k])
      BY <2>2, <2>5
    <3>2. NoName # n
      BY DentriesAssumption DEF DentriesAssumption
    <3>3. QED  BY <2>3, <3>1, <3>2, RetypedIsName
  <2>6. QED  BY <2>4, <2>5
<1>5. t \in Seq(Dentry) /\ Len(t) = c - 1
  <2>1. t = [k \in 1..c - 1 |-> t[k]]
    BY <1>1, Zenon
  <2>2. t \in [1..c - 1 -> Dentry]
    BY <1>4, <2>1
  <2>3. QED  BY <1>2, <2>2
<1>6. PICK x : x = h \o t
  OBVIOUS
<1>7. /\ x \in Seq(Dentry) /\ Len(x) = Len(h) + Len(t)
      /\ \A i \in 1..Len(h) + Len(t) : x[i] = IF i <= Len(h) THEN h[i] ELSE t[i - Len(h)]
  BY <1>3, <1>5, <1>6, ConcatProperties
<1>8. Len(x) = c + 2
  BY <1>2, <1>3, <1>5, <1>7
<1>9. x[1] = File(n) /\ x[2] = Stream(n) /\ x[3] = Piece(n)
  BY <1>2, <1>3, <1>5, <1>7
<1>10. ASSUME NEW k \in 3..c + 2 PROVE x[k].type = "name" /\ x[k].used
  <2>1. CASE k = 3
    BY <1>9, <2>1, MadeDentries
  <2>2. CASE k # 3
    <3>1. k - 3 \in 1..c - 1 /\ k \in 1..Len(h) + Len(t) /\ ~(k <= 3)
      BY <1>2, <1>3, <1>5, <2>2
    <3>2. x[k] = t[k - 3]
      BY <1>3, <1>7, <3>1
    <3>3. QED  BY <1>4, <3>1, <3>2
  <2>3. QED  BY <2>1, <2>2
<1>l. ASSUME c # 1 PROVE x[c + 2].name # n
  <2>1. c - 1 \in 1..c - 1 /\ c + 2 \in 1..Len(h) + Len(t) /\ ~(c + 2 <= 3) /\ (c + 2) - 3 = c - 1
    BY <1>2, <1>3, <1>5, <1>l
  <2>2. x[c + 2] = t[c - 1]
    BY <1>3, <1>7, <2>1
  <2>3. QED  BY <1>4, <2>1, <2>2
<1>11. EntrySet(g, e, n) = x
  BY <1>1, <1>6, Zenon DEF EntrySet
<1>12. IsEntrySet(x, n)
  BY <1>1, <1>7, <1>8, <1>9, <1>10, <1>l DEF IsEntrySet
<1>13. QED  BY <1>11, <1>12

(* No file has the hash of the name.                                       *)
IsNew(g, n) == n \in Name /\ \A q \in FileSet(g) : Hash[g[q].name] # Hash[n]

(* create leaves the directory with one more file, whole and with what the *)
(* name is shown as.                                                       *)
LEMMA CreateAdds ==
  ASSUME NEW g, Sound(g), NEW n, IsNew(g, n), End(g) + Chunks[n] + 1 <= Len(g)
  PROVE  Added(Over(g, End(g), EntrySet(g, End(g), n)), g, {Shown[n]})
<1>1. PICK e, c, l : e = End(g) /\ c = Chunks[n] /\ l = Len(g)
  OBVIOUS
<1>2. g \in Seq(Dentry) /\ l \in Nat /\ DOMAIN g = 1..l /\ n \in Name /\ c \in Nat /\ c >= 1
  BY <1>1, ChunksArePositive DEF Sound, IsNew
<1>3. e \in 1..(l + 1) /\ e + c + 1 <= l
  <2>1. EndOf(g, e)
    BY <1>1, <1>2, EndIsFirst
  <2>2. QED  BY <1>1, <2>1 DEF EndOf
<1>4. PICK x, b : x = EntrySet(g, e, n) /\ b = Over(g, e, x)
  OBVIOUS
<1>5. IsEntrySet(x, n)
  <2>1. e \in Nat \ {0}
    BY <1>2, <1>3
  <2>2. e + Chunks[n] + 1 <= Len(g)
    BY <1>1, <1>3
  <2>u. ASSUME NEW k \in e..Len(g) PROVE g[k].type = "unused"
    <3>1. k \in DOMAIN g /\ k >= End(g)
      BY <1>1, <1>2, <1>3
    <3>2. QED  BY <3>1, SoundEnd
  <2>3. IsEntrySet(EntrySet(g, e, n), n)
    BY <1>2, <2>1, <2>2, <2>u, EntrySetIs
  <2>4. QED  BY <1>4, <2>3
<1>6. x \in Seq(Dentry) /\ Len(x) = c + 2 /\ x[1] = File(n) /\ x[2] = Stream(n) /\ x[3] = Piece(n)
      /\ (c # 1 => x[c + 2].name # n)
      /\ \A k \in 3..c + 2 : x[k].type = "name" /\ x[k].used
  BY <1>1, <1>5 DEF IsEntrySet
<1>7. Written(b, g, e, x)
  <2>1. e \in Nat \ {0}
    BY <1>2, <1>3
  <2>2. e + Len(x) - 1 <= Len(g)
    BY <1>1, <1>2, <1>3, <1>6, SMTT(40)
  <2>3. Written(Over(g, e, x), g, e, x)
    BY <1>2, <1>6, <2>1, <2>2, Overwriting
  <2>4. QED  BY <1>4, <2>3
<1>8. /\ b \in Seq(Dentry) /\ Len(b) = l
      /\ \A k \in 1..l : k \notin e..e + c + 1 => b[k] = g[k]
      /\ \A m \in 1..c + 2 : b[e + m - 1] = x[m]
  <2>1. e + Len(x) - 1 = e + c + 1
    BY <1>2, <1>3, <1>6
  <2>2. QED  BY <1>1, <1>6, <1>7, <2>1 DEF Written
<1>9. b[e] = File(n) /\ b[e + 1] = Stream(n) /\ b[e + 2] = Piece(n) /\ b[e + c + 1] = x[c + 2]
  <2>1. 1 \in 1..c + 2 /\ 2 \in 1..c + 2 /\ 3 \in 1..c + 2 /\ c + 2 \in 1..c + 2
        /\ e + 1 - 1 = e /\ e + 2 - 1 = e + 1 /\ e + 3 - 1 = e + 2 /\ e + (c + 2) - 1 = e + c + 1
    BY <1>2, <1>3
  <2>2. /\ b[e + 1 - 1] = x[1] /\ b[e + 2 - 1] = x[2] /\ b[e + 3 - 1] = x[3]
        /\ b[e + (c + 2) - 1] = x[c + 2]
    BY <1>8, <2>1, Zenon
  <2>3. QED  BY <1>6, <2>1, <2>2
<1>10. \A k \in e + 2..e + c + 1 : b[k].type = "name" /\ b[k].used
  <2> TAKE k \in e + 2..e + c + 1
  <2>1. PICK m : m = k - e + 1
    OBVIOUS
  <2>2. m \in 3..c + 2 /\ m \in 1..c + 2 /\ e + m - 1 = k
    BY <1>2, <1>3, <2>1
  <2>3. b[e + m - 1] = x[m]
    BY <1>8, <2>2
  <2>4. QED  BY <1>6, <2>2, <2>3
<1>11. \A k \in e + c + 2..l : b[k].type = "unused" /\ ~b[k].used
  <2> TAKE k \in e + c + 2..l
  <2>1. k \in DOMAIN g /\ k >= End(g) /\ k \notin e..e + c + 1
    BY <1>1, <1>2, <1>3
  <2>2. b[k] = g[k]
    BY <1>2, <1>8, <2>1
  <2>3. QED  BY <2>1, <2>2, SoundEnd
<1>12. \A k \in e..l : k = e \/ k = e + 1 \/ k \in e + 2..e + c + 1 \/ k \in e + c + 2..l
  BY <1>2, <1>3
<1>13. ASSUME NEW k \in e..l, IsFile(b[k]) PROVE k = e
  <2>1. k # e + 1
    BY <1>9, <1>13, <1>2, MadeDentries DEF IsFile
  <2>2. k \notin e + 2..e + c + 1
    BY <1>10, <1>13 DEF IsFile
  <2>3. k \notin e + c + 2..l
    BY <1>11, <1>13 DEF IsFile
  <2>4. QED  BY <1>12, <2>1, <2>2, <2>3
<1>14. IsFile(b[e]) /\ b[e].name = n /\ SetAt(b, e) /\ Made(b, e)
  <2>1. IsFile(b[e]) /\ b[e].name = n /\ b[e].part = c + 1
    BY <1>1, <1>2, <1>9, MadeDentries
  <2>2. b[e + 1].type = "stream" /\ b[e + 1].used /\ b[e + 1].name = n
    BY <1>2, <1>9, MadeDentries
  <2>3. c = Chunks[b[e].name] /\ e + c + 1 <= Len(b)
    BY <1>1, <1>3, <1>8, <2>1
  <2>m. b[e + 2].name = n /\ b[e + 2].part = 1
    BY <1>2, <1>9, MadeDentries
  <2>4. SetAt(b, e)
    BY <1>2, <1>10, <2>1, <2>2, <2>3, <2>m DEF SetAt
  <2>5. Made(b, e)
    BY <1>6, <1>9, <2>1, <2>3, Zenon DEF Made
  <2>6. QED  BY <2>1, <2>4, <2>5
<1>15. ASSUME NEW i \in e..l, b[i].type = "unused", NEW j \in i..l
       PROVE  b[j].type = "unused" /\ ~b[j].used
  <2>1. i # e /\ i # e + 1
    BY <1>2, <1>9, <1>15, MadeDentries
  <2>2. i \notin e + 2..e + c + 1
    BY <1>10, <1>15
  <2>3. i \in e + c + 2..l
    BY <1>12, <2>1, <2>2
  <2>4. j \in e + c + 2..l
    BY <1>2, <1>3, <2>3
  <2>5. QED  BY <1>11, <2>4
<1>16. \A k \in 1..(e - 1) : b[k] = g[k]
  BY <1>2, <1>3, <1>8
<1>17. e \in e..l
  BY <1>2, <1>3
<1>18. Added(b, g, {Shown[n]})
  <2>1. \A k \in e..l : IsFile(b[k]) => SetAt(b, k) /\ Made(b, k) /\ Shown[b[k].name] \in {Shown[n]}
    BY <1>13, <1>14
  <2>2. \A i, j \in e..l : IsFile(b[i]) /\ IsFile(b[j]) /\ Hash[b[i].name] = Hash[b[j].name] => i = j
    BY <1>13
  <2>3. \A m \in {Shown[n]} : m \in Name /\ \A q \in FileSet(g) : Hash[g[q].name] # Hash[m]
    BY <1>2, ShownIsLike DEF IsNew
  <2>4. \A m \in {Shown[n]} : \E k \in e..l : IsFile(b[k]) /\ Shown[b[k].name] = m
    BY <1>14, <1>17
  <2>5. \A i \in e..l : b[i].type = "unused" => \A j \in i..l : b[j].type = "unused" /\ ~b[j].used
    BY <1>15
  <2>6. QED  BY <1>1, <1>8, <1>16, <2>1, <2>2, <2>3, <2>4, <2>5 DEF Added
<1>19. QED  BY <1>1, <1>4, <1>18

-----------------------------------------------------------------------------
(* What fill writes: blanks, then three dentries for each name.            *)
Third(new, x) ==
  LET n == new[(x - 1) \div 3 + 1]
  IN  IF x % 3 = 1 THEN File(n) ELSE IF x % 3 = 2 THEN Stream(n) ELSE Piece(n)

Filling(new, r, k) == [j \in 1..(r + 3 * k) |-> IF j <= r THEN Blank ELSE Third(new, j - r)]

LEMMA FillingLonger ==
  ASSUME NEW m \in Nat, NEW new \in [1..m -> Name], NEW r \in Nat, NEW k \in 1..m
  PROVE  Filling(new, r, k - 1) \o <<File(new[k]), Stream(new[k]), Piece(new[k])>> = Filling(new, r, k)
<1>1. PICK a, h, z, l : /\ a = Filling(new, r, k - 1) /\ z = Filling(new, r, k) /\ l = r + 3 * (k - 1)
                        /\ h = <<File(new[k]), Stream(new[k]), Piece(new[k])>>
  OBVIOUS
<1>2. l \in Nat /\ r + 3 * k = l + 3 /\ l >= r /\ new[k] \in Name
  BY <1>1
<1>3. ASSUME NEW x \in 1..(3 * m) PROVE Third(new, x) \in Dentry
  <2>1. (x - 1) \div 3 + 1 \in 1..m
    OBVIOUS
  <2>2. new[(x - 1) \div 3 + 1] \in Name
    BY <2>1
  <2>3. QED  BY <2>2, MadeDentries DEF Third
<1>4. a = [j \in 1..l |-> IF j <= r THEN Blank ELSE Third(new, j - r)]
  BY <1>1, Zenon DEF Filling
<1>5. z = [j \in 1..(l + 3) |-> IF j <= r THEN Blank ELSE Third(new, j - r)]
  BY <1>1, <1>2, Zenon DEF Filling
<1>6. ASSUME NEW j \in 1..(l + 3) PROVE (IF j <= r THEN Blank ELSE Third(new, j - r)) \in Dentry
  <2>1. CASE j <= r
    BY <2>1, <1>2, MadeDentries
  <2>2. CASE ~(j <= r)
    <3>1. j - r \in 1..(3 * m)
      BY <1>1, <1>2, <2>2
    <3>2. QED  BY <1>3, <2>2, <3>1
  <2>3. QED  BY <2>1, <2>2
<1>7. a \in Seq(Dentry) /\ Len(a) = l
  <2>1. \A j \in 1..l : j \in 1..(l + 3)
    BY <1>2
  <2>2. a \in [1..l -> Dentry]
    BY <1>4, <1>6, <2>1
  <2>3. QED  BY <1>2, <2>2
<1>8. z \in Seq(Dentry) /\ Len(z) = l + 3
  <2>1. z \in [1..(l + 3) -> Dentry]
    BY <1>5, <1>6
  <2>2. l + 3 \in Nat
    BY <1>2
  <2>3. QED  BY <2>1, <2>2
<1>9. h \in Seq(Dentry) /\ Len(h) = 3 /\ h[1] = File(new[k]) /\ h[2] = Stream(new[k]) /\ h[3] = Piece(new[k])
  BY <1>1, <1>2, MadeDentries
<1>10. PICK w : w = a \o h
  OBVIOUS
<1>11. /\ w \in Seq(Dentry) /\ Len(w) = l + 3
       /\ \A i \in 1..l + 3 : w[i] = IF i <= l THEN a[i] ELSE h[i - l]
  <2>1. /\ a \o h \in Seq(Dentry) /\ Len(a \o h) = Len(a) + Len(h)
        /\ \A i \in 1..Len(a) + Len(h) : (a \o h)[i] = IF i <= Len(a) THEN a[i] ELSE h[i - Len(a)]
    BY <1>7, <1>9, ConcatProperties
  <2>2. QED  BY <1>7, <1>9, <1>10, <2>1, Zenon
<1>12. ASSUME NEW i \in 1..l + 3 PROVE w[i] = z[i]
  <2>1. CASE i <= l
    <3>1. i \in 1..l
      BY <1>2, <2>1
    <3>2. QED  BY <1>4, <1>5, <1>11, <2>1, <3>1
  <2>2. CASE ~(i <= l)
    <3>1. w[i] = h[i - l] /\ i \in {l + 1, l + 2, l + 3} /\ ~(i <= r)
      <4>1. w[i] = h[i - l]
        BY <1>11, <2>2
      <4>2. i \in {l + 1, l + 2, l + 3} /\ ~(i <= r)
        BY <1>2, <2>2
      <4>3. QED  BY <4>1, <4>2
    <3>2. z[i] = Third(new, i - r)
      BY <1>5, <3>1
    <3>3. (i - r - 1) \div 3 + 1 = k /\ (i - r) % 3 = (IF i = l + 3 THEN 0 ELSE i - l)
      BY <1>1, <3>1
    <3>4. CASE i = l + 1
      <4>1. (i - r) % 3 = 1
        BY <1>2, <3>3, <3>4
      <4>2. Third(new, i - r) = File(new[k])
        BY <3>3, <4>1 DEF Third
      <4>3. i - l = 1
        BY <1>2, <3>4
      <4>4. QED  BY <1>9, <3>1, <3>2, <4>2, <4>3
    <3>5. CASE i = l + 2
      <4>1. (i - r) % 3 = 2
        BY <1>2, <3>3, <3>5
      <4>2. Third(new, i - r) = Stream(new[k])
        BY <3>3, <4>1 DEF Third
      <4>3. i - l = 2
        BY <1>2, <3>5
      <4>4. QED  BY <1>9, <3>1, <3>2, <4>2, <4>3
    <3>6. CASE i = l + 3
      <4>1. (i - r) % 3 = 0
        BY <1>2, <3>3, <3>6
      <4>2. Third(new, i - r) = Piece(new[k])
        BY <3>3, <4>1 DEF Third
      <4>3. i - l = 3
        BY <1>2, <3>6
      <4>4. QED  BY <1>9, <3>1, <3>2, <4>2, <4>3
    <3>7. QED  BY <3>1, <3>4, <3>5, <3>6
  <2>3. QED  BY <2>1, <2>2
<1>13. Len(w) = Len(z) /\ \A i \in 1..Len(w) : w[i] = z[i]
  BY <1>8, <1>11, <1>12
<1>14. w = z
  BY <1>8, <1>11, <1>13, SeqEqual
<1>15. QED  BY <1>1, <1>10, <1>14

(* fill writes such a list.                                                *)
LEMMA FilledIs ==
  ASSUME NEW s, NEW i, NEW need \in Nat, NEW m \in Nat, NEW new \in [1..m -> Name]
  PROVE  Filled(s, i, new, need) = Over(s, i, Filling(new, need % 3, m))
<1> DEFINE r == need % 3
           Step(F, k) == IF k = 0 THEN Blanks(need % 3)
                         ELSE F[k - 1] \o <<File(new[k]), Stream(new[k]), Piece(new[k])>>
           B(F) == F = [k \in 0..Len(new) |-> Step(F, k)]
           G == [k \in 0..m |-> Filling(new, r, k)]
<1>1. Len(new) = m /\ r \in Nat
  OBVIOUS
<1>2. ASSUME NEW k \in 0..m, NEW F, k > 0 => F[k - 1] = G[k - 1] PROVE Step(F, k) = G[k]
  <2>1. G[k] = Filling(new, r, k)
    OBVIOUS
  <2>2. CASE k = 0
    <3>1. Step(F, k) = [j \in 1..r |-> Blank]
      BY <2>2 DEF Blanks
    <3>2. r + 3 * k = r
      BY <1>1, <2>2
    <3>3. Filling(new, r, k) = [j \in 1..r |-> IF j <= r THEN Blank ELSE Third(new, j - r)]
      BY <3>2, Zenon DEF Filling
    <3>4. \A j \in 1..r : j <= r
      BY <1>1
    <3>5. [j \in 1..r |-> IF j <= r THEN Blank ELSE Third(new, j - r)] = [j \in 1..r |-> Blank]
      BY <3>4, Zenon
    <3>6. QED  BY <2>1, <3>1, <3>3, <3>5, Zenon
  <2>3. CASE k # 0
    <3>1. k \in 1..m /\ k > 0 /\ k - 1 \in 0..m
      BY <2>3
    <3>2. F[k - 1] = Filling(new, r, k - 1)
      BY <1>2, <3>1
    <3>3. Filling(new, r, k - 1) \o <<File(new[k]), Stream(new[k]), Piece(new[k])>> = Filling(new, r, k)
      <4>1. r \in Nat /\ k \in 1..m
        BY <1>1, <3>1
      <4> HIDE DEF r
      <4>2. QED  BY ONLY <4>1, m \in Nat, new \in [1..m -> Name], FillingLonger
    <3>4. Step(F, k) = F[k - 1] \o <<File(new[k]), Stream(new[k]), Piece(new[k])>>
      BY <2>3
    <3>5. QED  BY <2>1, <3>2, <3>3, <3>4, Zenon
  <2>4. QED  BY <2>2, <2>3
<1>3. G = [k \in 0..Len(new) |-> G[k]]
  BY <1>1, Zenon
<1>4. B(G)
  <2>1. ASSUME NEW k \in 0..Len(new) PROVE Step(G, k) = G[k]
    <3>1. k \in 0..m
      BY <1>1
    <3> HIDE DEF Step, G
    <3>2. QED  BY <1>2, <3>1
  <2> HIDE DEF Step, G
  <2>2. [k \in 0..Len(new) |-> Step(G, k)] = [k \in 0..Len(new) |-> G[k]]
    BY <2>1, Zenon
  <2>3. QED  BY <1>3, <2>2, Zenon
<1>5. PICK F : F = CHOOSE h : B(h)
  OBVIOUS
<1>6. B(F)
  <2> HIDE DEF B
  <2>1. \E h : B(h)
    BY <1>4, Zenon
  <2>2. B(CHOOSE h : B(h))
    BY <2>1, Zenon
  <2>3. QED  BY <1>5, <2>2, Zenon
<1>7. ASSUME NEW k \in 0..m PROVE F[k] = Step(F, k)
  <2>1. k \in 0..Len(new)
    BY <1>1
  <2> HIDE DEF Step
  <2>2. QED  BY <1>6, <2>1, Zenon
<1>8. Filled(s, i, new, need) = Over(s, i, F[Len(new)])
  BY <1>5, Zenon DEF Filled
<1> HIDE DEF B, G, Step
<1> DEFINE T == {k \in 0..m : F[k] = G[k]}
<1>9. 0 \in T
  <2>1. 0 \in 0..m /\ ~(0 > 0)
    OBVIOUS
  <2>2. QED  BY <1>2, <1>7, <2>1
<1>10. ASSUME NEW k \in 0..(m - 1), k \in T PROVE k + 1 \in T
  <2>1. k + 1 \in 0..m /\ (k + 1) - 1 = k
    OBVIOUS
  <2>2. F[k + 1] = G[k + 1]
    BY <1>2, <1>7, <1>10, <2>1
  <2>3. QED  BY <2>1, <2>2
<1> HIDE DEF T
<1>11. 0..m \subseteq T
  BY ONLY <1>9, <1>10, m \in Nat, InductionUpTo
<1>12. m \in 0..m
  OBVIOUS
<1>13. F[m] = G[m]
  BY <1>11, <1>12 DEF T
<1>14. G[m] = Filling(new, need % 3, m)
  BY <1>12, Zenon DEF G
<1>15. QED  BY <1>1, <1>8, <1>13, <1>14, Zenon

-----------------------------------------------------------------------------
LEMMA Thirds ==
  ASSUME NEW new, NEW q \in Nat \ {0}
  PROVE  /\ Third(new, 3 * q - 2) = File(new[q])
         /\ Third(new, 3 * q - 1) = Stream(new[q])
         /\ Third(new, 3 * q) = Piece(new[q])
<1>1. (3 * q - 2) % 3 = 1 /\ ((3 * q - 2) - 1) \div 3 + 1 = q
  OBVIOUS
<1>2. (3 * q - 1) % 3 = 2 /\ ((3 * q - 1) - 1) \div 3 + 1 = q
  OBVIOUS
<1>3. (3 * q) % 3 = 0 /\ (3 * q - 1) \div 3 + 1 = q
  OBVIOUS
<1>4. 2 # 1 /\ 0 # 1 /\ 0 # 2
  OBVIOUS
<1>5. QED  BY <1>1, <1>2, <1>3, <1>4, Zenon DEF Third

(* What lies behind the end when fill has changed the buffer: a blank, or  *)
(* one of the three dentries of one of the names.                          *)
FilledAt(b, e, r, new, m) ==
  /\ \A j \in 1..r : b[e + j - 1] = Blank
  /\ \A q \in 1..m : /\ b[e + r + 3 * q - 3] = File(new[q])
                     /\ b[e + r + 3 * q - 2] = Stream(new[q])
                     /\ b[e + r + 3 * q - 1] = Piece(new[q])

IsFilling(x, r, new, m) ==
  /\ x \in Seq(Dentry) /\ Len(x) = r + 3 * m
  /\ \A j \in 1..r : x[j] = Blank
  /\ \A q \in 1..m : /\ x[r + 3 * q - 2] = File(new[q])
                     /\ x[r + 3 * q - 1] = Stream(new[q])
                     /\ x[r + 3 * q] = Piece(new[q])

LEMMA Fillings ==
  ASSUME NEW m \in Nat, NEW new \in [1..m -> Name], NEW r \in Nat
  PROVE  IsFilling(Filling(new, r, m), r, new, m)
<1>1. PICK x, l : x = Filling(new, r, m) /\ l = r + 3 * m
  OBVIOUS
<1>2. x = [j \in 1..l |-> IF j <= r THEN Blank ELSE Third(new, j - r)]
  BY <1>1, Zenon DEF Filling
<1>3. l \in Nat
  BY <1>1
<1>4. ASSUME NEW j \in 1..l PROVE x[j] \in Dentry
  <2>1. CASE j <= r
    BY <1>2, <2>1, MadeDentries DEF Blank, Dentry
  <2>2. CASE ~(j <= r)
    <3>1. ((j - r) - 1) \div 3 + 1 \in 1..m
      BY <1>1, <2>2
    <3>2. new[((j - r) - 1) \div 3 + 1] \in Name
      BY <3>1
    <3>3. Third(new, j - r) \in Dentry
      BY <3>2, MadeDentries DEF Third
    <3>4. QED  BY <1>2, <2>2, <3>3
  <2>3. QED  BY <2>1, <2>2
<1>5. x \in Seq(Dentry) /\ Len(x) = l
  <2>1. x = [j \in 1..l |-> x[j]]
    BY <1>2, Zenon
  <2>2. x \in [1..l -> Dentry]
    BY <1>4, <2>1
  <2>3. QED  BY <1>3, <2>2
<1>6. \A j \in 1..r : x[j] = Blank
  BY <1>1, <1>2
<1>7. ASSUME NEW q \in 1..m
      PROVE  x[r + 3 * q - 2] = File(new[q]) /\ x[r + 3 * q - 1] = Stream(new[q]) /\ x[r + 3 * q] = Piece(new[q])
  <2>1. ASSUME NEW d \in 0..2 PROVE x[r + 3 * q - d] = Third(new, 3 * q - d)
    <3>1. r + 3 * q - d \in 1..l /\ ~(r + 3 * q - d <= r) /\ (r + 3 * q - d) - r = 3 * q - d
      BY <1>1
    <3>2. x[r + 3 * q - d] = Third(new, (r + 3 * q - d) - r)
      BY <1>2, <3>1, Zenon
    <3>3. QED  BY <3>1, <3>2
  <2>2. r + 3 * q - 0 = r + 3 * q /\ 3 * q - 0 = 3 * q /\ q \in Nat \ {0} /\ 0 \in 0..2 /\ 1 \in 0..2 /\ 2 \in 0..2
    OBVIOUS
  <2>3. /\ x[r + 3 * q - 2] = Third(new, 3 * q - 2)
        /\ x[r + 3 * q - 1] = Third(new, 3 * q - 1)
        /\ x[r + 3 * q - 0] = Third(new, 3 * q - 0)
    BY <2>1, <2>2, Zenon
  <2>4. QED  BY <2>2, <2>3, Thirds, Zenon
<1>8. QED  BY <1>1, <1>5, <1>6, <1>7 DEF IsFilling

(* The names that fill makes up differ, and are not in the directory.      *)
MadeUp(g, new) ==
  /\ \A j, k \in DOMAIN new : Hash[new[j]] = Hash[new[k]] => j = k
  /\ \A k \in DOMAIN new : IsNew(g, new[k])

FillIsAdded(g, new, need) ==
  Added(Filled(g, End(g), new, need), g, {new[k] : k \in DOMAIN new})

(* fill does with as many files as fit.                                    *)
LEMMA FillAdds ==
  ASSUME NEW g, Sound(g), NEW count \in Nat, End(g) <= count, count <= Len(g),
         NEW m \in Nat, m = (count - End(g) + 1) \div 3, NEW new \in [1..m -> Random], MadeUp(g, new)
  PROVE  FillIsAdded(g, new, count - End(g) + 1)
<1>u. /\ \A j, k \in DOMAIN new : Hash[new[j]] = Hash[new[k]] => j = k
      /\ \A k \in DOMAIN new : IsNew(g, new[k])
  BY DEF MadeUp
<1>1. PICK e, l, need, r : e = End(g) /\ l = Len(g) /\ need = count - End(g) + 1 /\ r = need % 3
  OBVIOUS
<1>2. g \in Seq(Dentry) /\ l \in Nat /\ DOMAIN g = 1..l
  BY <1>1 DEF Sound
<1>3. e \in 1..(l + 1) /\ e <= count /\ count <= l
  BY <1>1, <1>2, EndIsFirst DEF EndOf
<1>4. need \in Nat /\ r \in Nat /\ need = r + 3 * m /\ count = e + need - 1
  <2>1. need = count - e + 1 /\ m = need \div 3 /\ r = need % 3
    BY <1>1
  <2>2. need \in Nat /\ e \in Nat /\ count \in Nat /\ m \in Nat
    BY <1>2, <1>3, <2>1
  <2>3. QED  BY ONLY <2>1, <2>2
<1>5. \A q \in 1..m : new[q] \in Name /\ Chunks[new[q]] = 1 /\ Shown[new[q]] = new[q]
  BY DentriesAssumption DEF DentriesAssumption
<1>6. m \in Nat /\ new \in [1..m -> Name]
  BY <1>5
<1>7. PICK x, b, names : /\ x = Filling(new, r, m) /\ b = Filled(g, e, new, need)
                         /\ names = {new[k] : k \in DOMAIN new}
  OBVIOUS
<1>8. b = Over(g, e, x)
  <2>1. Filled(g, e, new, need) = Over(g, e, Filling(new, need % 3, m))
    <3>1. need \in Nat
      BY <1>4
    <3>2. QED  BY ONLY <1>6, <3>1, FilledIs
  <2>2. QED  BY <1>1, <1>7, <2>1, Zenon
<1>9. /\ x \in Seq(Dentry) /\ Len(x) = need
      /\ \A j \in 1..r : x[j] = Blank
      /\ \A q \in 1..m : x[r + 3 * q - 2] = File(new[q]) /\ x[r + 3 * q - 1] = Stream(new[q]) /\ x[r + 3 * q] = Piece(new[q])
  <2>1. IsFilling(Filling(new, r, m), r, new, m)
    BY <1>4, <1>6, Fillings
  <2>2. IsFilling(x, r, new, m)
    BY <1>7, <2>1, Zenon
  <2>3. QED  BY <1>4, <2>2, Zenon DEF IsFilling
<1>10. e + Len(x) - 1 = count
  BY <1>3, <1>4, <1>9
<1>11. Written(b, g, e, x)
  <2>1. e \in Nat \ {0} /\ e + Len(x) - 1 <= Len(g)
    <3>1. e \in Nat \ {0}
      BY <1>2, <1>3
    <3>2. QED  BY <1>1, <1>3, <1>10, <3>1, Zenon
  <2>2. Written(Over(g, e, x), g, e, x)
    BY <1>2, <1>9, <2>1, Overwriting
  <2>3. QED  BY <1>8, <2>2, Zenon
<1>12. /\ b \in Seq(Dentry) /\ Len(b) = l
       /\ \A k \in 1..l : k \notin e..count => b[k] = g[k]
       /\ \A k \in 1..need : b[e + k - 1] = x[k]
  BY <1>1, <1>9, <1>10, <1>11 DEF Written
<1>13. FilledAt(b, e, r, new, m)
  <2>1. ASSUME NEW j \in 1..r PROVE b[e + j - 1] = Blank
    <3>1. j \in 1..need
      BY <1>4, SMTT(40)
    <3>2. QED  BY <1>9, <1>12, <3>1
  <2>2. ASSUME NEW q \in 1..m
        PROVE  /\ b[e + r + 3 * q - 3] = File(new[q])
               /\ b[e + r + 3 * q - 2] = Stream(new[q])
               /\ b[e + r + 3 * q - 1] = Piece(new[q])
    <3>1. /\ r + 3 * q - 2 \in 1..need /\ e + (r + 3 * q - 2) - 1 = e + r + 3 * q - 3
          /\ r + 3 * q - 1 \in 1..need /\ e + (r + 3 * q - 1) - 1 = e + r + 3 * q - 2
          /\ r + 3 * q \in 1..need /\ e + (r + 3 * q) - 1 = e + r + 3 * q - 1
      <4>1. e \in Nat /\ r \in Nat /\ m \in Nat /\ q \in 1..m /\ need = r + 3 * m
        BY <1>2, <1>3, <1>4
      <4>2. QED  BY ONLY <4>1
    <3>2. /\ b[e + (r + 3 * q - 2) - 1] = x[r + 3 * q - 2]
          /\ b[e + (r + 3 * q - 1) - 1] = x[r + 3 * q - 1]
          /\ b[e + (r + 3 * q) - 1] = x[r + 3 * q]
      BY <1>12, <3>1, Zenon
    <3>3. QED  BY <1>9, <3>1, <3>2, Zenon
  <2>3. QED  BY <2>1, <2>2 DEF FilledAt
<1>14. ASSUME NEW k \in e..l
       PROVE  \/ b[k] = Blank
              \/ \E q \in 1..m : k = e + r + 3 * q - 3 \/ k = e + r + 3 * q - 2 \/ k = e + r + 3 * q - 1
              \/ k > count
  <2>1. CASE k < e + r
    <3>1. PICK j : j = k - e + 1
      OBVIOUS
    <3>2. j \in 1..r /\ k = e + j - 1
      BY <1>3, <1>4, <2>1, <3>1
    <3>3. QED  BY <1>13, <3>2 DEF FilledAt
  <2>2. CASE k >= e + r /\ k <= count
    <3>1. PICK q : q = (k - e - r) \div 3 + 1
      OBVIOUS
    <3>2. q \in 1..m /\ (k = e + r + 3 * q - 3 \/ k = e + r + 3 * q - 2 \/ k = e + r + 3 * q - 1)
      <4>1. /\ e \in Nat /\ r \in Nat /\ m \in Nat /\ k \in Nat /\ count = e + (r + 3 * m) - 1
            /\ k >= e + r /\ k <= count
        BY <1>2, <1>3, <1>4, <2>2
      <4>2. QED  BY ONLY <3>1, <4>1
    <3>3. QED  BY <3>2
  <2>3. QED  BY <1>3, <1>4, <2>1, <2>2, SMTT(40)
<1>15. \A k \in count + 1..l : b[k].type = "unused" /\ ~b[k].used
  <2> TAKE k \in count + 1..l
  <2>1. k \in DOMAIN g /\ k >= End(g) /\ k \notin e..count
    BY <1>1, <1>2, <1>3
  <2>2. b[k] = g[k]
    BY <1>2, <1>12, <2>1
  <2>3. QED  BY <2>1, <2>2, SoundEnd
<1>16. \A q \in 1..m : /\ b[e + r + 3 * q - 3] = File(new[q])
                       /\ b[e + r + 3 * q - 2] = Stream(new[q])
                       /\ b[e + r + 3 * q - 1] = Piece(new[q])
  BY <1>13 DEF FilledAt
<1>17. ASSUME NEW k \in e..l, IsFile(b[k]) PROVE \E q \in 1..m : k = e + r + 3 * q - 3
  <2>1. b[k] # Blank
    BY <1>17 DEF IsFile, Blank
  <2>2. ~(k > count)
    BY <1>3, <1>15, <1>17 DEF IsFile
  <2>3. PICK q \in 1..m : k = e + r + 3 * q - 3 \/ k = e + r + 3 * q - 2 \/ k = e + r + 3 * q - 1
    BY <1>14, <2>1, <2>2
  <2>4. Stream(new[q]).type = "stream" /\ Piece(new[q]).type = "name"
    BY DEF Stream, Piece
  <2>5. k = e + r + 3 * q - 3
    BY <1>16, <1>17, <2>3, <2>4 DEF IsFile
  <2>6. QED  BY <2>5
<1>18. ASSUME NEW q \in 1..m
       PROVE  LET k == e + r + 3 * q - 3
              IN  k \in e..l /\ IsFile(b[k]) /\ b[k].name = new[q] /\ SetAt(b, k) /\ Made(b, k)
  <2>1. PICK k : k = e + r + 3 * q - 3
    OBVIOUS
  <2>a. /\ e \in Nat /\ r \in Nat /\ m \in Nat /\ q \in 1..m /\ l \in Nat
        /\ count = e + (r + 3 * m) - 1 /\ count <= l
    BY <1>2, <1>3, <1>4
  <2>2. k \in e..l /\ k \in Nat /\ k + 1 = e + r + 3 * q - 2 /\ k + 2 = e + r + 3 * q - 1 /\ k + 2 <= l
    BY ONLY <2>1, <2>a
  <2>3. b[k] = File(new[q]) /\ b[k + 1] = Stream(new[q]) /\ b[k + 2] = Piece(new[q])
    BY <1>16, <2>1, <2>2
  <2>4. new[q] \in Name /\ Chunks[new[q]] = 1
    BY <1>5
  <2>5. /\ IsFile(b[k]) /\ b[k].name = new[q] /\ b[k].part = 1 + 1
        /\ b[k + 1].type = "stream" /\ b[k + 1].used /\ b[k + 1].name = new[q]
        /\ b[k + 2].type = "name" /\ b[k + 2].used /\ b[k + 2].name = new[q] /\ b[k + 2].part = 1
    BY <2>3, <2>4, MadeDentries
  <2>6. \A i \in k + 2..k + 1 + 1 : b[i].type = "name" /\ b[i].used
    BY <2>2, <2>5
  <2>7. k + 1 + 1 <= Len(b)
    BY <1>12, <2>2
  <2>8. SetAt(b, k)
    BY <2>4, <2>5, <2>6, <2>7 DEF SetAt
  <2>9. Made(b, k)
    BY <2>4, <2>5, Zenon DEF Made
  <2>10. QED  BY <2>1, <2>2, <2>5, <2>8, <2>9
<1>19. ASSUME NEW i \in e..l, b[i].type = "unused", NEW j \in i..l
       PROVE  b[j].type = "unused" /\ ~b[j].used
  <2>1. b[i] # Blank
    BY <1>19 DEF Blank
  <2>2. ASSUME NEW q \in 1..m PROVE ~(i = e + r + 3 * q - 3 \/ i = e + r + 3 * q - 2 \/ i = e + r + 3 * q - 1)
    <3>1. File(new[q]).type # "unused" /\ Stream(new[q]).type # "unused" /\ Piece(new[q]).type # "unused"
      BY DEF File, Stream, Piece
    <3>2. /\ b[e + r + 3 * q - 3].type # "unused"
          /\ b[e + r + 3 * q - 2].type # "unused"
          /\ b[e + r + 3 * q - 1].type # "unused"
      BY <1>16, <3>1, Zenon
    <3>3. QED  BY <1>19, <3>2
  <2>3. i > count
    BY <1>14, <2>1, <2>2
  <2>4. j \in count + 1..l
    BY <1>3, <2>3
  <2>5. QED  BY <1>15, <2>4
<1>20. \A k \in 1..(e - 1) : b[k] = g[k]
  BY <1>2, <1>3, <1>12
<1>21. ASSUME NEW k \in e..l, IsFile(b[k]) PROVE SetAt(b, k) /\ Made(b, k) /\ Shown[b[k].name] \in names
  <2>1. PICK q \in 1..m : k = e + r + 3 * q - 3
    BY <1>17, <1>21
  <2>2. QED  BY <1>5, <1>7, <1>18, <2>1
<1>22. ASSUME NEW i \in e..l, NEW j \in e..l, IsFile(b[i]), IsFile(b[j]), Hash[b[i].name] = Hash[b[j].name]
       PROVE  i = j
  <2>1. PICK q \in 1..m : i = e + r + 3 * q - 3
    BY <1>17, <1>22
  <2>2. PICK p \in 1..m : j = e + r + 3 * p - 3
    BY <1>17, <1>22
  <2>3. b[i].name = new[q] /\ b[j].name = new[p]
    BY <1>18, <2>1, <2>2
  <2>4. q = p
    BY <1>u, <1>22, <2>3
  <2>5. QED  BY <2>1, <2>2, <2>4
<1>23. \A n \in names : n \in Name /\ \A q \in FileSet(g) : Hash[g[q].name] # Hash[n]
  BY <1>u, <1>7 DEF IsNew
<1>24. ASSUME NEW n \in names PROVE \E k \in e..l : IsFile(b[k]) /\ Shown[b[k].name] = n
  <2>1. PICK q \in 1..m : n = new[q]
    BY <1>7
  <2>2. QED  BY <1>5, <1>18, <2>1
<1>25. Added(b, g, names)
  BY <1>1, <1>12, <1>19, <1>20, <1>21, <1>22, <1>23, <1>24 DEF Added
<1>26. QED  BY <1>1, <1>7, <1>25, Zenon DEF FillIsAdded

-----------------------------------------------------------------------------
(* The dentries in use.                                                    *)
UsedSet(s) == {k \in DOMAIN s : s[k].used}

InUseBy(f, s) == Picks(f, End(s) - 1, UsedSet(s), s) /\ InUse(s) = f[1]

LEMMA InUsePicked ==
  ASSUME NEW s \in Seq(Dentry)
  PROVE  \E f : InUseBy(f, s) /\ PlacedIn(f, End(s) - 1, UsedSet(s), s) /\ f[1] \in Seq(Dentry)
<1> DEFINE B(g) == g = [i \in 1..End(s) |->
                          IF i = End(s) THEN <<>>
                          ELSE IF s[i].used THEN <<s[i]>> \o g[i + 1] ELSE g[i + 1]]
<1>1. EndOf(s, End(s))
  BY EndIsFirst
<1>2. End(s) - 1 \in Nat /\ (End(s) - 1) + 1 = End(s) /\ End(s) \in Int /\ \A i \in 1..(End(s) - 1) : i \in DOMAIN s /\ s[i] \in Dentry
  <2>1. PICK e : e = End(s)
    OBVIOUS
  <2>2. e \in 1..(Len(s) + 1)
    BY <1>1, <2>1 DEF EndOf
  <2>3. e - 1 \in Nat /\ (e - 1) + 1 = e /\ e \in Int /\ \A i \in 1..(e - 1) : i \in DOMAIN s /\ s[i] \in Dentry
    BY <2>2
  <2>4. QED  BY <2>1, <2>3
<1>3. ASSUME NEW i \in 1..End(s)
      PROVE  (i > End(s) - 1 <=> i = End(s)) /\ (i # End(s) => (i \in UsedSet(s) <=> s[i].used))
  <2>1. PICK e : e = End(s)
    OBVIOUS
  <2>2. e - 1 \in Nat
    BY <1>2, <2>1
  <2>3. i \in 1..e /\ (i > e - 1 <=> i = e) /\ (i # e => i \in 1..(e - 1))
    <3>1. i \in 1..e /\ e \in Int
      BY <1>2, <2>1
    <3>2. QED  BY ONLY <2>2, <3>1
  <2>4. i # e => i \in DOMAIN s
    BY <1>2, <2>1, <2>3
  <2>5. QED  BY <2>1, <2>3, <2>4 DEF UsedSet
<1>4. ASSUME NEW g PROVE Picks(g, End(s) - 1, UsedSet(s), s) <=> B(g)
  <2>1. [i \in 1..End(s) |->
           IF i = End(s) THEN <<>>
           ELSE IF s[i].used THEN <<s[i]>> \o g[i + 1] ELSE g[i + 1]]
        = [i \in 1..End(s) |->
             IF i > End(s) - 1 THEN <<>>
             ELSE IF i \in UsedSet(s) THEN <<s[i]>> \o g[i + 1] ELSE g[i + 1]]
    BY <1>3, Zenon
  <2>2. QED  BY <1>2, <2>1, Zenon DEF Picks
<1>5. \E g : Picks(g, End(s) - 1, UsedSet(s), s)
  BY <1>2, PicksExist
<1>6. \E g : B(g)
  BY <1>4, <1>5, Zenon
<1>7. B(CHOOSE g : B(g))
  BY <1>6, Zenon
<1>8. InUse(s) = (CHOOSE g : B(g))[1]
  BY Zenon DEF InUse
<1> HIDE DEF B
<1>9. PICK f : f = CHOOSE g : B(g)
  OBVIOUS
<1>10. InUseBy(f, s)
  BY <1>4, <1>7, <1>8, <1>9, Zenon DEF InUseBy
<1>11. Picks(f, End(s) - 1, UsedSet(s), s)
  BY <1>10 DEF InUseBy
<1>12. \A i \in 1..(End(s) - 1) : i \in UsedSet(s) => s[i] \in Dentry
  BY <1>2
<1>13. PICK N : N = End(s) - 1
  OBVIOUS
<1>14. PlacedIn(f, N, UsedSet(s), s) /\ f \in [1..(N + 1) -> Seq(Dentry)]
  <2>1. N \in Nat /\ Picks(f, N, UsedSet(s), s) /\ \A i \in 1..N : i \in UsedSet(s) => s[i] \in Dentry
    BY <1>2, <1>11, <1>12, <1>13, Zenon
  <2>2. QED  BY ONLY <2>1, PicksPlaced, PicksAreSeqs
<1>15. 1 \in 1..(N + 1)
  BY <1>2, <1>13
<1>16. f[1] \in Seq(Dentry)
  BY <1>14, <1>15
<1>17. QED  BY <1>10, <1>13, <1>14, <1>16, Zenon

(* Dentries that come first and have nothing but unused ones behind them.  *)
Packed(t, L) ==
  /\ L \in 0..Len(t)
  /\ \A k \in 1..L : t[k].used /\ t[k].type # "unused"
  /\ \A k \in L + 1..Len(t) : t[k] = Unused

LEMMA PackedEnd ==
  ASSUME NEW t \in Seq(Dentry), NEW L, Packed(t, L)
  PROVE  End(t) = L + 1
<1>1. L \in 0..Len(t) /\ Len(t) \in Nat /\ (\A k \in 1..L : t[k].type # "unused")
      /\ \A k \in L + 1..Len(t) : t[k].type = "unused"
  BY UnusedIsDentry DEF Packed
<1>2. EndOf(t, L + 1)
  BY <1>1 DEF EndOf
<1>3. QED  BY <1>2, EndIsOnly

LEMMA PackedInUse ==
  ASSUME NEW t \in Seq(Dentry), NEW L, Packed(t, L)
  PROVE  InUse(t) \in Seq(Dentry) /\ Len(InUse(t)) = L /\ \A k \in 1..L : InUse(t)[k] = t[k]
<1>1. PICK f : InUseBy(f, t) /\ PlacedIn(f, End(t) - 1, UsedSet(t), t) /\ f[1] \in Seq(Dentry)
  BY InUsePicked
<1>2. End(t) = L + 1 /\ L \in Nat /\ L <= Len(t) /\ Len(t) \in Nat
  BY PackedEnd DEF Packed
<1>3. End(t) - 1 = L
  BY <1>2
<1>4. Picks(f, L, UsedSet(t), t) /\ PlacedIn(f, L, UsedSet(t), t) /\ InUse(t) = f[1]
  BY <1>1, <1>3 DEF InUseBy
<1>5. \A k \in 1..L : k \in UsedSet(t)
  BY <1>2 DEF Packed, UsedSet
<1>s. PicksByOne(f, L, UsedSet(t), t)
  BY <1>2, <1>4, PickSteps
<1> DEFINE T == {i \in 1..(L + 1) : Len(f[i]) = L + 1 - i}
<1>6. L + 1 \in T
  <2>1. f[L + 1] = <<>>
    BY <1>s DEF PicksByOne
  <2>2. Len(f[L + 1]) = 0 /\ 0 = L + 1 - (L + 1) /\ L + 1 \in 1..(L + 1)
    BY <1>2, <2>1
  <2>3. QED  BY <2>2
<1>7. ASSUME NEW i \in 1..L, i + 1 \in T PROVE i \in T
  <2>1. Len(f[i]) = Len(f[i + 1]) + 1
    BY <1>4, <1>5 DEF PlacedIn
  <2>2. Len(f[i + 1]) = L + 1 - (i + 1) /\ (L + 1 - (i + 1)) + 1 = L + 1 - i /\ i \in 1..(L + 1)
    BY <1>2, <1>7
  <2>3. QED  BY <2>1, <2>2
<1> HIDE DEF T
<1>8. 1..(L + 1) \subseteq T
  BY ONLY <1>2, <1>6, <1>7, InductionDown
<1>9. ASSUME NEW i \in 1..(L + 1) PROVE Len(f[i]) = L + 1 - i
  BY <1>8 DEF T
<1>10. Len(f[1]) = L
  <2>1. 1 \in 1..(L + 1) /\ L + 1 - 1 = L
    BY <1>2
  <2>2. QED  BY <1>9, <2>1
<1>11. ASSUME NEW k \in 1..L PROVE f[1][k] = t[k]
  <2>1. k \in 1..(L + 1) /\ L - (L + 1 - k) + 1 = k
    BY <1>2
  <2>2. PlaceOf(f, k) = k
    BY <1>9, <1>10, <2>1, Zenon DEF PlaceOf
  <2>3. f[1][PlaceOf(f, k)] = t[k]
    BY <1>4, <1>5 DEF PlacedIn
  <2>4. QED  BY <2>2, <2>3
<1>12. QED  BY <1>1, <1>4, <1>10, <1>11

-----------------------------------------------------------------------------
(* Where the dentries in use before the end go when trim packs them.       *)
MovedBy(f, t, s, E, L) ==
  /\ E = End(s) /\ L = Len(f[1])
  /\ Picks(f, E - 1, UsedSet(s), s)
  /\ PlacedIn(f, E - 1, UsedSet(s), s)
  /\ t \in Seq(Dentry) /\ Len(t) = Len(s)
  /\ Packed(t, L)
  /\ \A k \in 1..L : t[k] = f[1][k]

LEMMA TrimMoves ==
  ASSUME NEW s \in Seq(Dentry)
  PROVE  \E f, E, L : MovedBy(f, Trimmed(s), s, E, L)
<1>1. PICK f : InUseBy(f, s) /\ PlacedIn(f, End(s) - 1, UsedSet(s), s) /\ f[1] \in Seq(Dentry)
  BY InUsePicked
<1>2. PICK E, L, n, t : E = End(s) /\ L = Len(f[1]) /\ n = Len(s) /\ t = Trimmed(s)
  OBVIOUS
<1>3. EndOf(s, E)
  BY <1>2, EndIsFirst
<1>4. n \in Nat /\ DOMAIN s = 1..n /\ E \in 1..(n + 1) /\ L \in Nat /\ \A k \in 1..(E - 1) : s[k].type # "unused"
  BY <1>1, <1>2, <1>3 DEF EndOf
<1>5. Picks(f, E - 1, UsedSet(s), s) /\ PlacedIn(f, E - 1, UsedSet(s), s) /\ InUse(s) = f[1]
  BY <1>1, <1>2, Zenon DEF InUseBy
<1>6. L <= n
  <2>1. E - 1 \in Nat /\ 1 \in 1..((E - 1) + 1) /\ (E - 1) + 1 - 1 = E - 1 /\ E - 1 <= n
    BY <1>4
  <2>2. Len(f[1]) <= (E - 1) + 1 - 1
    BY <1>5, <2>1, PicksShort
  <2>3. QED  BY <1>2, <1>4, <2>1, <2>2
<1>7. t = [k \in 1..n |-> IF k \in 1..L THEN f[1][k] ELSE Unused]
  <2>1. DOMAIN f[1] = 1..L
    BY <1>1, <1>2
  <2>2. QED  BY <1>2, <1>4, <1>5, <2>1, Zenon DEF Trimmed, Dent
<1>8. ASSUME NEW k \in 1..L PROVE f[1][k] \in Dentry /\ f[1][k].used /\ f[1][k].type # "unused"
  <2>1. PICK i \in 1..(E - 1) : i \in UsedSet(s) /\ k = PlaceOf(f, i)
    BY <1>2, <1>5 DEF PlacedIn
  <2>2. f[1][k] = s[i]
    BY <1>5, <2>1 DEF PlacedIn
  <2>3. f[1][k] \in Dentry
    BY <1>1, <1>2
  <2>4. QED  BY <1>4, <2>1, <2>2, <2>3 DEF UsedSet
<1>9. ASSUME NEW k \in 1..n PROVE t[k] \in Dentry
  BY <1>7, <1>8, UnusedIsDentry
<1>10. t \in Seq(Dentry) /\ Len(t) = n
  <2>1. t = [k \in 1..n |-> t[k]]
    BY <1>7, Zenon
  <2>2. t \in [1..n -> Dentry]
    BY <1>9, <2>1
  <2>3. QED  BY <1>4, <2>2
<1>11. \A k \in 1..L : t[k] = f[1][k]
  <2> TAKE k \in 1..L
  <2>1. k \in 1..n
    BY <1>4, <1>6
  <2>2. QED  BY <1>7, <2>1
<1>12. Packed(t, L)
  <2>1. \A k \in 1..L : t[k].used /\ t[k].type # "unused"
    BY <1>8, <1>11
  <2>2. \A k \in L + 1..Len(t) : t[k] = Unused
    <3> TAKE k \in L + 1..Len(t)
    <3>1. k \in 1..n /\ k \notin 1..L
      BY <1>4, <1>10
    <3>2. QED  BY <1>7, <3>1
  <2>3. L \in 0..Len(t)
    BY <1>4, <1>6, <1>10
  <2>4. QED  BY <2>1, <2>2, <2>3 DEF Packed
<1>13. MovedBy(f, t, s, E, L)
  BY <1>2, <1>5, <1>10, <1>11, <1>12 DEF MovedBy
<1>14. QED  BY <1>2, <1>13

LEMMA MovedFile ==
  ASSUME NEW s, Sound(s), NEW f, NEW t, NEW E, NEW L, MovedBy(f, t, s, E, L),
         NEW k \in DOMAIN t, IsFile(t[k])
  PROVE  /\ SetAt(t, k)
         /\ \E i \in FileSet(s) : k = PlaceOf(f, i) /\ t[k] = s[i] /\ NameAt(t, k) = NameAt(s, i)
<1>1. s \in Seq(Dentry) /\ Len(s) \in Nat /\ DOMAIN s = 1..Len(s)
  BY DEF Sound
<1>2. /\ t \in Seq(Dentry) /\ Len(t) = Len(s) /\ DOMAIN t = 1..Len(s) /\ E = End(s) /\ L \in 0..Len(s)
      /\ \A j \in 1..L : t[j] = f[1][j]
      /\ \A j \in L + 1..Len(s) : t[j] = Unused
  BY <1>1 DEF MovedBy, Packed
<1>3. PlacedIn(f, E - 1, UsedSet(s), s) /\ L = Len(f[1])
  BY DEF MovedBy
<1>4. E \in 1..(Len(s) + 1)
  BY <1>1, <1>2, EndIsFirst DEF EndOf
<1>5. k \in 1..L
  <2>1. t[k] # Unused
    BY UnusedIsDentry DEF IsFile
  <2>2. k \notin L + 1..Len(s)
    BY <1>2, <2>1
  <2>3. QED  BY <1>1, <1>2, <2>2
<1>6. PICK i \in 1..(E - 1) : i \in UsedSet(s) /\ k = PlaceOf(f, i)
  BY <1>3, <1>5 DEF PlacedIn
<1>7. t[k] = s[i]
  BY <1>2, <1>3, <1>5, <1>6 DEF PlacedIn
<1>8. i \in FileSet(s) /\ SetAt(s, i)
  BY <1>6, <1>7 DEF FileSet, UsedSet, Sound
<1>9. PICK c : c = Chunks[s[i].name]
  OBVIOUS
<1>10. /\ s[i].name \in Name /\ s[i].part = c + 1 /\ i + c + 1 <= Len(s)
       /\ s[i + 1].type = "stream" /\ s[i + 1].used /\ s[i + 1].name = s[i].name
       /\ s[i + 2].name = s[i].name /\ s[i + 2].part = 1
       /\ \A j \in i + 2..i + c + 1 : s[j].type = "name" /\ s[j].used
  BY <1>8, <1>9 DEF SetAt
<1>11. c \in Nat /\ c >= 1 /\ i \in Nat
  BY <1>1, <1>4, <1>6, <1>9, <1>10, ChunksArePositive
<1>12. \A j \in i..i + c + 1 : j \in DOMAIN s /\ s[j].used
  <2> TAKE j \in i..i + c + 1
  <2>1. j \in DOMAIN s
    BY <1>1, <1>4, <1>10, <1>11
  <2>2. j = i \/ j = i + 1 \/ j \in i + 2..i + c + 1
    BY <1>11
  <2>3. QED  BY <1>6, <1>10, <2>1, <2>2 DEF UsedSet
<1>13. i + c + 1 <= E - 1
  <2>1. i + c + 1 \in i..i + c + 1
    BY <1>11
  <2>2. ~(i + c + 1 >= End(s))
    BY <1>12, <2>1, SoundEnd
  <2>3. PICK e : e = End(s)
    OBVIOUS
  <2>4. e = E /\ E \in Int /\ ~(i + c + 1 >= e)
    BY <1>2, <1>4, <2>2, <2>3
  <2>5. QED  BY ONLY <1>11, <2>4
<1>14. \A j \in 0..(c + 1) : PlaceOf(f, i + j) = k + j
  <2>1. E - 1 \in Nat /\ i \in 1..(E - 1) /\ c + 1 \in Nat /\ i + (c + 1) <= E - 1
    BY <1>4, <1>11, <1>13
  <2>2. \A j \in i..i + (c + 1) : j \in UsedSet(s)
    BY <1>11, <1>12 DEF UsedSet
  <2>3. \A j \in 0..(c + 1) : PlaceOf(f, i + j) = PlaceOf(f, i) + j
    BY ONLY <1>3, <2>1, <2>2, RunPlaced, SMTT(40)
  <2>4. QED  BY <1>6, <2>3
<1>15. ASSUME NEW j \in 0..(c + 1) PROVE k + j \in 1..L /\ t[k + j] = s[i + j]
  <2>1. i + j \in 1..(E - 1) /\ i + j \in i..i + c + 1
    BY <1>4, <1>11, <1>13
  <2>2. i + j \in UsedSet(s)
    BY <1>12, <2>1 DEF UsedSet
  <2>3. PlaceOf(f, i + j) \in 1..L /\ f[1][PlaceOf(f, i + j)] = s[i + j]
    BY <1>3, <2>1, <2>2 DEF PlacedIn
  <2>4. PlaceOf(f, i + j) = k + j
    BY <1>14
  <2>5. QED  BY <1>2, <2>3, <2>4
<1>16. k + 1 \in 1..L /\ t[k + 1] = s[i + 1] /\ t[k + 2] = s[i + 2]
  <2>1. 1 \in 0..(c + 1) /\ 2 \in 0..(c + 1)
    BY <1>11
  <2>2. QED  BY <1>15, <2>1
<1>17. k + c + 1 <= Len(t)
  <2>1. c + 1 \in 0..(c + 1)
    BY <1>11
  <2>2. k + (c + 1) \in 1..L
    BY <1>15, <2>1
  <2>3. QED  BY <1>1, <1>2, <1>5, <1>11, <2>2
<1>18. \A m \in k + 2..k + c + 1 : t[m].type = "name" /\ t[m].used
  <2> TAKE m \in k + 2..k + c + 1
  <2>1. PICK j : j = m - k
    OBVIOUS
  <2>2. j \in 0..(c + 1) /\ m = k + j /\ i + j \in i + 2..i + c + 1
    BY <1>5, <1>11, <2>1
  <2>3. t[k + j] = s[i + j]
    BY <1>15, <2>2
  <2>4. QED  BY <1>10, <2>2, <2>3
<1>19. SetAt(t, k)
  BY <1>7, <1>9, <1>10, <1>16, <1>17, <1>18 DEF SetAt
<1>20. NameAt(t, k) = NameAt(s, i)
  <2>1. \A j \in 2..c + 1 : SameBytes(t[k + j], s[i + j])
    BY <1>11, <1>15 DEF SameBytes
  <2>2. i \in DOMAIN s /\ t[k].name = s[i].name
    BY <1>7, <1>8 DEF FileSet
  <2>3. s \in Seq(Dentry) /\ t \in Seq(Dentry) /\ k \in DOMAIN t /\ i + c + 1 <= Len(s)
    BY <1>1, <1>2, <1>10
  <2>4. QED  BY ONLY <1>9, <1>11, <1>17, <2>1, <2>2, <2>3, NameAtSame, ZenonT(40)
<1>21. QED  BY <1>6, <1>7, <1>8, <1>19, <1>20

(* trim leaves the directory in order ...                                  *)
LEMMA MovedSound ==
  ASSUME NEW s, Sound(s), NEW f, NEW t, NEW E, NEW L, MovedBy(f, t, s, E, L)
  PROVE  Sound(t)
<1>1. s \in Seq(Dentry) /\ Len(s) \in Nat
  BY DEF Sound
<1>2. /\ t \in Seq(Dentry) /\ Len(t) = Len(s) /\ DOMAIN t = 1..Len(s) /\ L \in 0..Len(s)
      /\ \A j \in 1..L : t[j].type # "unused"
      /\ \A j \in L + 1..Len(s) : t[j] = Unused
  BY <1>1 DEF MovedBy, Packed
<1>3. ASSUME NEW i \in DOMAIN t, t[i].type = "unused", NEW j \in i..Len(t)
      PROVE  t[j].type = "unused" /\ ~t[j].used
  <2>1. i \notin 1..L
    BY <1>2, <1>3
  <2>2. j \in L + 1..Len(s)
    BY <1>1, <1>2, <2>1
  <2>3. QED  BY <1>2, <2>2, UnusedIsDentry
<1>4. ASSUME NEW i \in DOMAIN t, NEW j \in DOMAIN t, IsFile(t[i]), IsFile(t[j]), Hash[t[i].name] = Hash[t[j].name]
      PROVE  i = j
  <2>1. PICK p \in FileSet(s) : i = PlaceOf(f, p) /\ t[i] = s[p]
    BY <1>4, MovedFile
  <2>2. PICK q \in FileSet(s) : j = PlaceOf(f, q) /\ t[j] = s[q]
    BY <1>4, MovedFile
  <2>3. p = q
    BY <1>4, <2>1, <2>2 DEF FileSet, Sound
  <2>4. QED  BY <2>1, <2>2, <2>3
<1>5. \A i \in DOMAIN t : IsFile(t[i]) => SetAt(t, i)
  BY MovedFile
<1>6. QED  BY <1>2, <1>3, <1>4, <1>5 DEF Sound

(* ... with the same files in the same order.                              *)
LEMMA MovedNames ==
  ASSUME NEW s, Sound(s), NEW f, NEW t, NEW E, NEW L, MovedBy(f, t, s, E, L)
  PROVE  FileNames(t) = FileNames(s)
<1>1. PICK n : n = Len(s)
  OBVIOUS
<1>2. s \in Seq(Dentry) /\ n \in Nat /\ DOMAIN s = 1..n
  BY <1>1 DEF Sound
<1>3. /\ t \in Seq(Dentry) /\ Len(t) = n /\ DOMAIN t = 1..n /\ E = End(s) /\ L \in 0..n
      /\ \A j \in 1..L : t[j] = f[1][j]
      /\ \A j \in L + 1..n : t[j] = Unused
  BY <1>1, <1>2 DEF MovedBy, Packed
<1>4. /\ PlacedIn(f, E - 1, UsedSet(s), s) /\ L = Len(f[1])
      /\ Picks(f, E - 1, UsedSet(s), s)
  BY DEF MovedBy
<1>5. E \in 1..(n + 1) /\ E - 1 \in Nat /\ (E - 1) + 1 = E
  BY <1>1, <1>2, <1>3, EndIsFirst DEF EndOf
<1>6. PICK h : FileNamesBy(h, s)
  BY <1>2, FileNamesPicked
<1>7. PICK u : FileNamesBy(u, t)
  BY <1>3, FileNamesPicked
<1>8. Picks(h, n, FileSet(s), NamesIn(s)) /\ Picks(u, n, FileSet(t), NamesIn(t))
      /\ FileNames(s) = h[1] /\ FileNames(t) = u[1]
  BY <1>1, <1>3, <1>6, <1>7, Zenon DEF FileNamesBy
<1>9. PicksByOne(h, n, FileSet(s), NamesIn(s)) /\ PicksByOne(u, n, FileSet(t), NamesIn(t))
  BY <1>2, <1>8, PickSteps
<1> DEFINE T == {i \in 1..((E - 1) + 1) : u[PlaceOf(f, i)] = h[i]}
<1>l. \A i \in 1..((E - 1) + 1) : Len(f[i]) \in Nat
  BY <1>4 DEF PlacedIn
<1>10. (E - 1) + 1 \in T
  <2>1. h[E] = <<>>
    <3>1. \A i \in E..n : i \notin FileSet(s)
      <4> TAKE i \in E..n
      <4>1. i \in DOMAIN s /\ i >= End(s)
        BY <1>2, <1>3, <1>5
      <4>2. QED  BY <4>1, SoundEnd DEF FileSet, IsFile
    <3>2. QED  BY ONLY <1>2, <1>5, <1>8, <3>1, PicksNone
  <2>2. u[L + 1] = <<>>
    <3>1. \A i \in (L + 1)..n : i \notin FileSet(t)
      BY <1>3, UnusedIsDentry DEF FileSet, IsFile
    <3>2. L + 1 \in 1..(n + 1)
      BY <1>2, <1>3
    <3>3. PICK a : a = L + 1
      OBVIOUS
    <3>4. a \in 1..(n + 1) /\ \A i \in a..n : i \notin FileSet(t)
      BY <3>1, <3>2, <3>3
    <3>5. u[a] = <<>>
      BY ONLY <1>2, <1>8, <3>4, PicksNone
    <3>6. QED  BY <3>3, <3>5
  <2>3. PlaceOf(f, E) = L + 1
    <3>1. PicksByOne(f, E - 1, UsedSet(s), s)
      BY <1>4, <1>5, PickSteps
    <3>2. f[(E - 1) + 1] = <<>>
      BY <3>1 DEF PicksByOne
    <3>3. Len(f[E]) = 0
      BY <1>5, <3>2
    <3>4. L - 0 + 1 = L + 1
      BY <1>3
    <3>5. QED  BY <1>4, <3>3, <3>4, Zenon DEF PlaceOf
  <2>4. E \in 1..((E - 1) + 1)
    BY <1>5
  <2>5. QED  BY <1>5, <2>1, <2>2, <2>3, <2>4
<1>11. ASSUME NEW i \in 1..(E - 1), i + 1 \in T PROVE i \in T
  <2>1. i \in 1..n /\ i \in 1..((E - 1) + 1) /\ i + 1 \in 1..((E - 1) + 1) /\ i \in DOMAIN s
    BY <1>2, <1>5
  <2>2. PICK a, b, c : a = Len(f[i]) /\ b = Len(f[i + 1]) /\ c = PlaceOf(f, i)
    OBVIOUS
  <2>3. a \in Nat /\ b \in Nat /\ c = L - a + 1 /\ PlaceOf(f, i + 1) = L - b + 1
    BY <1>l, <1>4, <2>1, <2>2, Zenon DEF PlaceOf
  <2>4. u[L - b + 1] = h[i + 1]
    BY <1>11, <2>3
  <2>5. CASE i \in UsedSet(s)
    <3>1. a = b + 1
      BY <1>4, <2>2, <2>5 DEF PlacedIn
    <3>2. c \in 1..L /\ f[1][c] = s[i]
      BY <1>4, <2>2, <2>5 DEF PlacedIn
    <3>3. c + 1 = L - b + 1 /\ c \in 1..n
      BY <1>2, <1>3, <2>3, <3>1, <3>2, SMTT(40)
    <3>4. t[c] = s[i]
      BY <1>3, <3>2
    <3>d. c \in DOMAIN t /\ (c \in FileSet(t) <=> i \in FileSet(s))
      BY <1>3, <2>1, <3>3, <3>4 DEF FileSet
    <3>5. i \in FileSet(s) => NamesIn(t)[c] = NamesIn(s)[i]
      <4>1. SUFFICES ASSUME i \in FileSet(s) PROVE NamesIn(t)[c] = NamesIn(s)[i]
        OBVIOUS
      <4>2. IsFile(s[i]) /\ IsFile(t[c])
        BY <3>4, <4>1 DEF FileSet
      <4>3. PICK q \in FileSet(s) : t[c] = s[q] /\ NameAt(t, c) = NameAt(s, q)
        BY <3>d, <4>2, MovedFile
      <4>4. q \in DOMAIN s /\ IsFile(s[q]) /\ Hash[s[q].name] = Hash[s[i].name]
        BY <3>4, <4>3 DEF FileSet
      <4>5. q = i
        BY <2>1, <4>2, <4>4 DEF Sound
      <4>6. NamesIn(t)[c] = NameAt(t, c) /\ NamesIn(s)[i] = NameAt(s, i)
        BY <2>1, <3>d, Zenon DEF NamesIn
      <4>7. QED  BY <4>3, <4>5, <4>6, Zenon
    <3>6. u[c + 1] = h[i + 1]
      BY <2>4, <3>3
    <3>7. CASE i \in FileSet(s)
      <4>1. h[i] = <<NamesIn(s)[i]>> \o h[i + 1] /\ u[c] = <<NamesIn(t)[c]>> \o u[c + 1]
        BY <1>9, <2>1, <3>3, <3>d, <3>7, Zenon DEF PicksByOne
      <4>2. u[c] = h[i]
        BY <3>5, <3>6, <3>7, <4>1, Zenon
      <4>3. QED  BY <2>1, <2>2, <4>2
    <3>8. CASE i \notin FileSet(s)
      <4>1. h[i] = h[i + 1] /\ u[c] = u[c + 1]
        BY <1>9, <2>1, <3>3, <3>d, <3>8, Zenon DEF PicksByOne
      <4>2. u[c] = h[i]
        BY <3>6, <4>1, Zenon
      <4>3. QED  BY <2>1, <2>2, <4>2
    <3>9. QED  BY <3>7, <3>8
  <2>6. CASE i \notin UsedSet(s)
    <3>1. a = b
      BY <1>4, <2>2, <2>6 DEF PlacedIn
    <3>2. i \notin FileSet(s)
      BY <2>6 DEF FileSet, UsedSet, IsFile
    <3>3. h[i] = h[i + 1]
      BY <1>9, <2>1, <3>2, Zenon DEF PicksByOne
    <3>4. u[c] = h[i]
      BY <2>3, <2>4, <3>1, <3>3
    <3>5. QED  BY <2>1, <2>2, <3>4
  <2>7. QED  BY <2>5, <2>6
<1> HIDE DEF T
<1>12. 1..((E - 1) + 1) \subseteq T
  BY ONLY <1>5, <1>10, <1>11, InductionDown
<1>13. 1 \in T
  BY <1>5, <1>12
<1>14. u[PlaceOf(f, 1)] = h[1]
  BY <1>13 DEF T
<1>15. PlaceOf(f, 1) = 1
  <2>1. L - L + 1 = 1
    BY <1>3
  <2>2. QED  BY <1>4, <2>1, Zenon DEF PlaceOf
<1>16. QED  BY <1>8, <1>14, <1>15

-----------------------------------------------------------------------------
(* What is on disk while the buffer is written: the clusters before at are *)
(* the buffer's, the others as they were.                                  *)
Mix(old, new, c) == [k \in DOMAIN new |-> IF Clusters(k) < c THEN new[k] ELSE old[k]]

(* What the command makes of the directory. *)
Change(old, new, a) ==
  /\ a.op \in {"create", "fill"} => Added(new, old, a.names)
  /\ a.op = "remove" => \E n \in Name : a.names = {n} /\ Took(new, old, n)
  /\ a.op = "trim" => FileNames(new) = FileNames(old) /\ \E L : Packed(new, L)

(* Between commands the directory is in order, and known. *)
Resting == Sound(slots) /\ kids = FileNames(slots)

(* During one it is between what it was, which is known, and the buffer.   *)
Working(old) ==
  /\ Sound(old) /\ Sound(buf) /\ Len(old) = Len(buf)
  /\ kids = FileNames(old)
  /\ Change(old, buf, asked)
  /\ slots = Mix(old, buf, at)

IInv ==
  /\ TypeOK
  /\ Idle => Resting
  /\ ~Idle => \E old : Working(old)

LEMMA MixIsSeq ==
  ASSUME NEW old, NEW new, Sound(old), Sound(new), Len(old) = Len(new), NEW c
  PROVE  /\ Mix(old, new, c) \in Seq(Dentry) /\ Len(Mix(old, new, c)) = Len(new)
         /\ \A k \in 1..Len(new) : Mix(old, new, c)[k] = IF Clusters(k) < c THEN new[k] ELSE old[k]
<1>1. PICK n, m : n = Len(new) /\ m = Mix(old, new, c)
  OBVIOUS
<1>2. /\ n \in Nat /\ old \in Seq(Dentry) /\ new \in Seq(Dentry) /\ Len(old) = n /\ DOMAIN new = 1..n
      /\ \A k \in 1..n : old[k] \in Dentry /\ new[k] \in Dentry
  BY <1>1 DEF Sound
<1>3. m = [k \in 1..n |-> IF Clusters(k) < c THEN new[k] ELSE old[k]]
  BY <1>1, <1>2, Zenon DEF Mix
<1>4. m \in [1..n -> Dentry]
  BY <1>2, <1>3
<1>5. m \in Seq(Dentry) /\ Len(m) = n
  BY <1>2, <1>4
<1>6. QED  BY <1>1, <1>3, <1>5

LEMMA MixBegins ==
  ASSUME NEW old, NEW new, Sound(old), Sound(new), Len(old) = Len(new)
  PROVE  Mix(old, new, 1) = old
<1>1. PICK n, m : n = Len(new) /\ m = Mix(old, new, 1)
  OBVIOUS
<1>2. n \in Nat /\ old \in Seq(Dentry) /\ Len(old) = n
  BY <1>1 DEF Sound
<1>3. m \in Seq(Dentry) /\ Len(m) = n /\ \A k \in 1..n : m[k] = IF Clusters(k) < 1 THEN new[k] ELSE old[k]
  BY <1>1, MixIsSeq
<1>4. ASSUME NEW k \in 1..n PROVE m[k] = old[k]
  <2>1. Clusters(k) \in Nat /\ Clusters(k) >= 1
    BY ClustersOf
  <2>2. ~(Clusters(k) < 1)
    BY <2>1
  <2>3. QED  BY <1>3, <2>2
<1>5. m = old
  BY <1>2, <1>3, <1>4, SeqEqual
<1>6. QED  BY <1>1, <1>5

LEMMA MixEnds ==
  ASSUME NEW old, NEW new, Sound(old), Sound(new), Len(old) = Len(new), NEW c,
         \A k \in 1..Len(new) : Clusters(k) < c \/ old[k] = new[k]
  PROVE  Mix(old, new, c) = new
<1>1. PICK n, m : n = Len(new) /\ m = Mix(old, new, c)
  OBVIOUS
<1>2. n \in Nat /\ new \in Seq(Dentry)
  BY <1>1 DEF Sound
<1>3. m \in Seq(Dentry) /\ Len(m) = n /\ \A k \in 1..n : m[k] = IF Clusters(k) < c THEN new[k] ELSE old[k]
  BY <1>1, MixIsSeq
<1>4. \A k \in 1..n : m[k] = new[k]
  BY <1>1, <1>3
<1>5. m = new
  BY <1>1, <1>2, <1>3, <1>4, SeqEqual
<1>6. QED  BY <1>1, <1>5

(* The children in memory are asked instead of the dentries.               *)
LEMMA KnownIs ==
  ASSUME NEW s, Sound(s), kids = FileNames(s), NEW n \in Name, ~Known(n)
  PROVE  IsNew(s, n)
<1>1. s \in Seq(Dentry) /\ Len(s) \in Nat
  BY DEF Sound
<1>2. PICK f : FileNamesBy(f, s)
  BY <1>1, FileNamesPicked
<1>3. PlacedIn(f, Len(s), FileSet(s), NamesIn(s)) /\ f \in [1..(Len(s) + 1) -> Seq(Name)] /\ kids = f[1]
  BY <1>2, FilesPlaced DEF FileNamesBy
<1>4. ASSUME NEW q \in FileSet(s), Hash[s[q].name] = Hash[n] PROVE FALSE
  <2>1. q \in 1..Len(s) /\ q \in DOMAIN s
    BY <1>1 DEF FileSet
  <2>2. PlaceOf(f, q) \in 1..Len(f[1]) /\ f[1][PlaceOf(f, q)] = NamesIn(s)[q]
    BY <1>3, <2>1 DEF PlacedIn
  <2>3. Hash[NamesIn(s)[q]] = Hash[s[q].name]
    BY <1>4, FileNamed
  <2>4. f[1] \in Seq(Name)
    BY <1>1, <1>3
  <2>5. PlaceOf(f, q) \in DOMAIN kids /\ Hash[kids[PlaceOf(f, q)]] = Hash[n]
    BY <1>3, <1>4, <2>2, <2>3, <2>4
  <2>6. QED  BY <2>5 DEF Known
<1>5. QED  BY <1>4 DEF IsNew

LEMMA RestingIsListed ==
  ASSUME NEW s, Sound(s)
  PROVE  Listed(s) = FileNames(s) /\ Listed(s) \in Seq(Name)
BY SoundListed, FileNamesApart

(* A command that writes nothing, and a restart between commands.          *)
LEMMA RefuseKeeps ==
  ASSUME IInv, Idle, Refuse
  PROVE  IInv'
<1>1. Resting /\ TypeOK
  BY DEF IInv
<1>2. Listed(slots) = FileNames(slots) /\ Listed(slots) \in Seq(Name)
  BY <1>1, RestingIsListed DEF Resting
<1>3. kids' = Listed(slots) /\ slots' = slots /\ buf' = buf /\ at' = at /\ asked' = asked
  BY DEF Refuse
<1>4. TypeOK'
  BY <1>1, <1>2, <1>3 DEF TypeOK
<1>5. Idle' /\ Resting'
  BY <1>1, <1>2, <1>3 DEF Resting, Idle
<1>6. QED  BY <1>4, <1>5 DEF IInv

(* A command that begins, on a directory that was in order.                *)
LEMMA BeginKeeps ==
  ASSUME IInv, Idle, NEW op \in Commands \ {"none"}, NEW names \in SUBSET Name, NEW b, Begin(op, names, b),
         Sound(slots'), Len(slots') % PerCluster = 0, Len(slots') <= MaxClusters * PerCluster,
         FileNames(slots') = FileNames(slots),
         Sound(b), Len(b) = Len(slots'), Change(slots', b, [op |-> op, names |-> names])
  PROVE  IInv'
<1>1. Resting /\ TypeOK
  BY DEF IInv
<1>2. asked' = [op |-> op, names |-> names] /\ buf' = b /\ at' = 1 /\ kids' = kids
  BY DEF Begin
<1>3. asked'.op = op /\ op # "none" /\ asked' \in [op : Commands, names : SUBSET Name]
  BY <1>2
<1>4. b \in Seq(Dentry) /\ slots' \in Seq(Dentry)
  BY DEF Sound
<1>5. at' \in 0..MaxClusters + 1 /\ at' # 0
  BY <1>2, DentriesAssumption DEF DentriesAssumption
<1>6. TypeOK'
  BY <1>1, <1>2, <1>3, <1>4, <1>5 DEF TypeOK
<1>7. ~Idle'
  BY <1>3 DEF Idle
<1>8. PICK old : old = slots'
  OBVIOUS
<1>9. Working(old)'
  <2>1. kids' = FileNames(old)
    BY <1>1, <1>2, <1>8 DEF Resting
  <2>2. slots' = Mix(old, buf', at')
    BY <1>2, <1>8, MixBegins
  <2>3. Change(old, buf', asked')
    BY <1>2, <1>8
  <2>4. Sound(old) /\ Sound(buf') /\ Len(old) = Len(buf')
    BY <1>2, <1>8
  <2>5. QED  BY <2>1, <2>2, <2>3, <2>4 DEF Working
<1>10. QED  BY <1>6, <1>7, <1>9 DEF IInv

-----------------------------------------------------------------------------
(* Growing keeps the directory in order, and within its bound.             *)
LEMMA GrowingKeeps ==
  ASSUME Zeroed, IInv, Idle, NEW n \in Nat, n <= MaxClusters, NEW g \in Grown(n)
  PROVE  /\ Sound(g) /\ Extends(g, slots) /\ FileNames(g) = FileNames(slots) /\ End(g) = End(slots)
         /\ FileSet(g) = FileSet(slots)
         /\ Len(g) % PerCluster = 0 /\ Len(g) <= MaxClusters * PerCluster /\ n * PerCluster <= Len(g)
<1>1. Resting /\ TypeOK
  BY DEF IInv
<1>2. slots \in Seq(Dentry) /\ Len(slots) % PerCluster = 0 /\ Len(slots) <= MaxClusters * PerCluster
  BY <1>1 DEF TypeOK
<1>3. /\ Extends(g, slots) /\ Len(g) % PerCluster = 0 /\ Len(g) >= n * PerCluster
      /\ Len(g) = Len(slots) \/ Len(g) = n * PerCluster
  BY <1>2, GrownExtends
<1>4. Sound(g) /\ FileNames(g) = FileNames(slots) /\ End(g) = End(slots) /\ FileSet(g) = FileSet(slots)
  BY <1>1, <1>3, ExtendedSame, ExtendedSound DEF Resting
<1>5. n * PerCluster <= MaxClusters * PerCluster
  <2>1. PICK p, m : p = PerCluster /\ m = MaxClusters
    OBVIOUS
  <2>2. p \in Nat \ {0} /\ m \in Nat /\ n <= m
    BY <2>1, DentriesAssumption DEF DentriesAssumption
  <2>3. n * p <= m * p
    BY ONLY <2>2, n \in Nat, Products
  <2>4. QED  BY <2>1, <2>3
<1>6. Len(g) <= MaxClusters * PerCluster
  BY <1>2, <1>3, <1>5
<1>7. n * PerCluster <= Len(g)
  <2>1. n * PerCluster \in Int /\ Len(g) \in Int
    BY <1>3, PerClusterIsPositive DEF Extends
  <2>2. QED  BY <1>3, <2>1
<1>8. QED  BY <1>3, <1>4, <1>6, <1>7

(* What no file of the directory has before it grows, none has after.      *)
LEMMA NewAfterGrowing ==
  ASSUME IInv, Idle, NEW g, Extends(g, slots), FileSet(g) = FileSet(slots), NEW n \in Name, ~Known(n)
  PROVE  IsNew(g, n)
<1>1. Sound(slots) /\ kids = FileNames(slots)
  BY DEF IInv, Resting
<1>2. IsNew(slots, n)
  BY <1>1, KnownIs
<1>3. ASSUME NEW q \in FileSet(g) PROVE g[q] = slots[q]
  <2>1. q \in 1..Len(slots)
    BY <1>1 DEF FileSet, Sound
  <2>2. QED  BY <2>1 DEF Extends
<1>4. QED  BY <1>2, <1>3 DEF IsNew

(* Each command begins on a directory in order, and has a buffer in order. *)
LEMMA CreateKeeps ==
  ASSUME Zeroed, IInv, NEW n \in Name, Create(n)
  PROVE  IInv'
<1>1. Idle
  BY DEF Create
<1>2. CASE Known(n)
  <2>1. Refuse
    BY <1>2 DEF Create
  <2>2. QED  BY <1>1, <2>1, RefuseKeeps
<1>3. CASE ~Known(n)
  <2>1. PICK i, room : i = End(slots) /\ room = Clusters(i + Chunks[n] + 2)
    OBVIOUS
  <2>2. /\ room <= MaxClusters
        /\ \E s \in Grown(room) : slots' = s /\ Begin("create", {Shown[n]}, Over(s, i, EntrySet(s, i, n)))
    BY <1>3, <2>1, Zenon DEF Create
  <2>3. PICK s \in Grown(room) : slots' = s /\ Begin("create", {Shown[n]}, Over(s, i, EntrySet(s, i, n)))
    BY <2>2
  <2>4. Sound(slots) /\ slots \in Seq(Dentry)
    BY <1>1 DEF IInv, Resting, Sound
  <2>5. i \in Nat /\ i >= 1 /\ Chunks[n] \in Nat
    BY <2>1, <2>4, EndIsFirst, ChunksArePositive DEF EndOf
  <2>6. PICK m : m = i + Chunks[n] + 2
    OBVIOUS
  <2>7. m \in Nat /\ room = Clusters(m)
    BY <2>1, <2>5, <2>6
  <2>8. room \in Nat /\ m <= room * PerCluster
    BY <2>7, ClustersOf
  <2>9. /\ Sound(s) /\ Extends(s, slots) /\ FileNames(s) = FileNames(slots) /\ End(s) = i
        /\ FileSet(s) = FileSet(slots)
        /\ Len(s) % PerCluster = 0 /\ Len(s) <= MaxClusters * PerCluster /\ room * PerCluster <= Len(s)
    BY <1>1, <2>1, <2>2, <2>8, GrowingKeeps
  <2>10. IsNew(s, n)
    BY <1>1, <1>3, <2>9, NewAfterGrowing
  <2>11. i + Chunks[n] + 1 <= Len(s)
    <3>1. PICK r, l : r = room * PerCluster /\ l = Len(s)
      OBVIOUS
    <3>2. r \in Int /\ l \in Int /\ m <= r /\ r <= l
      BY <2>8, <2>9, <3>1, PerClusterIsPositive DEF Sound
    <3>3. QED  BY <2>5, <2>6, <3>1, <3>2
  <2>12. PICK b : b = Over(s, i, EntrySet(s, i, n))
    OBVIOUS
  <2>13. Added(b, s, {Shown[n]})
    BY <2>9, <2>10, <2>11, <2>12, CreateAdds
  <2>14. Sound(b) /\ Len(b) = Len(s)
    <3>1. Sound(b)
      BY <2>9, <2>13, AddedSound
    <3>2. QED  BY <2>13, <3>1 DEF Added
  <2>15. Change(s, b, [op |-> "create", names |-> {Shown[n]}])
    BY <2>13 DEF Change
  <2>16. "create" \in Commands \ {"none"} /\ {Shown[n]} \in SUBSET Name
    BY ShownIsLike DEF Commands
  <2>17. QED  BY <1>1, <2>3, <2>9, <2>12, <2>14, <2>15, <2>16, BeginKeeps
<1>4. QED  BY <1>2, <1>3

LEMMA FillKeeps ==
  ASSUME Zeroed, IInv, NEW count \in Counts, Fill(count)
  PROVE  IInv'
<1>1. Idle
  BY DEF Fill
<1>2. PICK i, need : i = End(slots) /\ need = count - i + 1
  OBVIOUS
<1>3. CASE i > count
  <2>1. Refuse
    BY <1>2, <1>3 DEF Fill
  <2>2. QED  BY <1>1, <2>1, RefuseKeeps
<1>4. CASE ~(i > count)
  <2>1. /\ Clusters(count) <= MaxClusters
        /\ \E s \in Grown(Clusters(count)), new \in [1..need \div 3 -> Random] :
             /\ \A j, k \in DOMAIN new : Hash[new[j]] = Hash[new[k]] => j = k
             /\ \A k \in DOMAIN new : ~Known(new[k])
             /\ slots' = s
             /\ Begin("fill", {new[k] : k \in DOMAIN new}, Filled(s, i, new, need))
    BY <1>2, <1>4, Zenon DEF Fill
  <2>2. PICK s \in Grown(Clusters(count)), new \in [1..need \div 3 -> Random] :
             /\ \A j, k \in DOMAIN new : Hash[new[j]] = Hash[new[k]] => j = k
             /\ \A k \in DOMAIN new : ~Known(new[k])
             /\ slots' = s
             /\ Begin("fill", {new[k] : k \in DOMAIN new}, Filled(s, i, new, need))
    BY <2>1, Zenon
  <2>3. Sound(slots) /\ slots \in Seq(Dentry)
    BY <1>1 DEF IInv, Resting, Sound
  <2>4. count \in Nat /\ i \in Nat /\ i >= 1 /\ i <= count
    BY <1>2, <1>4, <2>3, EndIsFirst, DentriesAssumption DEF EndOf, DentriesAssumption
  <2>5. Clusters(count) \in Nat /\ count <= Clusters(count) * PerCluster
    BY <2>4, ClustersOf
  <2>6. /\ Sound(s) /\ Extends(s, slots) /\ FileNames(s) = FileNames(slots) /\ End(s) = i
        /\ FileSet(s) = FileSet(slots)
        /\ Len(s) % PerCluster = 0 /\ Len(s) <= MaxClusters * PerCluster
        /\ Clusters(count) * PerCluster <= Len(s)
    BY <1>1, <1>2, <2>1, <2>5, GrowingKeeps
  <2>7. count <= Len(s)
    <3>1. PICK r, l : r = Clusters(count) * PerCluster /\ l = Len(s)
      OBVIOUS
    <3>2. r \in Int /\ l \in Int /\ count <= r /\ r <= l
      BY <2>5, <2>6, <3>1, PerClusterIsPositive DEF Sound
    <3>3. QED  BY <2>4, <3>1, <3>2
  <2>8. PICK m : m = need \div 3
    OBVIOUS
  <2>9. m \in Nat /\ m = (count - End(s) + 1) \div 3 /\ new \in [1..m -> Random]
    BY <1>2, <2>4, <2>6, <2>8
  <2>10. \A k \in DOMAIN new : new[k] \in Name
    BY <2>9, DentriesAssumption DEF DentriesAssumption
  <2>11. \A k \in DOMAIN new : IsNew(s, new[k])
    BY <1>1, <2>2, <2>6, <2>10, NewAfterGrowing
  <2>12. PICK b, names : b = Filled(s, i, new, need) /\ names = {new[k] : k \in DOMAIN new}
    OBVIOUS
  <2>13. Added(b, s, names)
    <3>1. FillIsAdded(s, new, count - End(s) + 1)
      <4>1. MadeUp(s, new)
        <5>1. \A j, k \in DOMAIN new : Hash[new[j]] = Hash[new[k]] => j = k
          BY <2>2, Zenon
        <5>2. QED  BY <2>11, <5>1, Zenon DEF MadeUp
      <4>2. End(s) <= count
        BY <2>4, <2>6
      <4>3. QED  BY ONLY <2>4, <2>6, <2>7, <2>9, <4>1, <4>2, FillAdds
    <3>2. QED  BY <1>2, <2>6, <2>12, <3>1, Zenon DEF FillIsAdded
  <2>14. Sound(b) /\ Len(b) = Len(s)
    <3>1. Sound(b)
      BY <2>6, <2>13, AddedSound
    <3>2. QED  BY <2>13, <3>1 DEF Added
  <2>15. Change(s, b, [op |-> "fill", names |-> names])
    BY <2>13 DEF Change
  <2>16. "fill" \in Commands \ {"none"} /\ names \in SUBSET Name
    BY <2>10, <2>12 DEF Commands
  <2>17. slots' = s /\ Begin("fill", names, b)
    BY <2>2, <2>12
  <2>18. QED  BY <1>1, <2>6, <2>14, <2>15, <2>16, <2>17, BeginKeeps
<1>5. QED  BY <1>3, <1>4

(* remove changes nothing but the one entry set.                           *)
LEMMA TookSound ==
  ASSUME NEW s, Sound(s), NEW n, NEW d, Took(d, s, n)
  PROVE  Sound(d) /\ Len(d) = Len(s)
<1>1. CASE Wanted(s, n) = {} /\ d = s
  BY <1>1
<1>2. ASSUME NEW p \in Wanted(s, n), DeletedBy(d, s, {p, p + 1, p + 2}) PROVE Sound(d) /\ Len(d) = Len(s)
  <2>1. p \in FileSet(s)
    BY DEF Wanted
  <2>2. Sound(d)
    BY <1>2, <2>1, DeletedSound
  <2>3. QED  BY <1>2, <2>2 DEF DeletedBy
<1>3. QED  BY <1>1, <1>2 DEF Took

LEMMA RemoveKeeps ==
  ASSUME IInv, NEW n \in Name, RemoveName(n)
  PROVE  IInv'
<1>1. Idle
  BY DEF RemoveName
<1>2. CASE ~Known(n)
  <2>1. Refuse
    BY <1>2 DEF RemoveName
  <2>2. QED  BY <1>1, <2>1, RefuseKeeps
<1>3. CASE Known(n)
  <2>1. PICK b : b = Deleted(slots, Match(slots, n))
    OBVIOUS
  <2>2. Begin("remove", {n}, b) /\ slots' = slots
    BY <1>3, <2>1 DEF RemoveName
  <2>3. Sound(slots) /\ TypeOK
    BY <1>1 DEF IInv, Resting
  <2>4. Took(b, slots, n)
    BY <2>1, <2>3, RemoveTakes
  <2>5. Sound(b) /\ Len(b) = Len(slots)
    BY <2>3, <2>4, TookSound
  <2>6. Change(slots, b, [op |-> "remove", names |-> {n}])
    BY <2>4 DEF Change
  <2>7. "remove" \in Commands \ {"none"} /\ {n} \in SUBSET Name
    BY DEF Commands
  <2>8. Len(slots) % PerCluster = 0 /\ Len(slots) <= MaxClusters * PerCluster
    BY <2>3 DEF TypeOK
  <2>9. QED  BY <1>1, <2>2, <2>3, <2>5, <2>6, <2>7, <2>8, BeginKeeps
<1>4. QED  BY <1>2, <1>3

LEMMA TrimKeeps ==
  ASSUME IInv, Trim
  PROVE  IInv'
<1>1. Idle
  BY DEF Trim
<1>2. PICK b : b = Trimmed(slots)
  OBVIOUS
<1>3. Begin("trim", {}, b) /\ slots' = slots
  BY <1>2 DEF Trim
<1>4. Sound(slots) /\ TypeOK /\ slots \in Seq(Dentry)
  BY <1>1 DEF IInv, Resting, Sound
<1>5. PICK f, E, L : MovedBy(f, b, slots, E, L)
  BY <1>2, <1>4, TrimMoves
<1>6. Sound(b) /\ FileNames(b) = FileNames(slots)
  BY <1>4, <1>5, MovedSound, MovedNames
<1>7. Len(b) = Len(slots) /\ Packed(b, L)
  BY <1>5 DEF MovedBy
<1>8. Change(slots, b, [op |-> "trim", names |-> {}])
  BY <1>6, <1>7 DEF Change
<1>9. "trim" \in Commands \ {"none"} /\ {} \in SUBSET Name
  BY DEF Commands
<1>10. Len(slots) % PerCluster = 0 /\ Len(slots) <= MaxClusters * PerCluster
  BY <1>4 DEF TypeOK
<1>11. QED  BY <1>1, <1>3, <1>4, <1>6, <1>7, <1>8, <1>9, <1>10, BeginKeeps

-----------------------------------------------------------------------------
(* How many clusters there are to write.                                   *)
LEMMA SizeIs ==
  ASSUME TypeOK
  PROVE  Size \in 0..MaxClusters /\ Size * PerCluster = Len(slots)
<1>1. PICK l, m : l = Len(slots) /\ m = MaxClusters
  OBVIOUS
<1>2. l \in Nat /\ l % PerCluster = 0 /\ l <= m * PerCluster /\ m \in Nat
  BY <1>1, DentriesAssumption DEF TypeOK, DentriesAssumption
<1>3. Clusters(l) \in Nat /\ Clusters(l) * PerCluster = l
  BY <1>2, ClustersOf, ClustersWhole
<1>4. m * PerCluster \in Nat /\ Clusters(m * PerCluster) = m
  BY <1>2, ClustersExact
<1>5. Clusters(l) <= m
  BY <1>2, <1>4, ClustersMonotone
<1>6. QED  BY <1>1, <1>2, <1>3, <1>5 DEF Size

(* A write puts one more cluster of the buffer on disk.                    *)
LEMMA WriteMixes ==
  ASSUME TypeOK, ~Idle, NEW old, Working(old), Write
  PROVE  slots' = Mix(old, buf, at + 1)
<1>1. PICK n, c : n = Len(buf) /\ c = at
  OBVIOUS
<1>2. /\ Sound(old) /\ Sound(buf) /\ Len(old) = Len(buf) /\ slots = Mix(old, buf, c)
      /\ n \in Nat /\ DOMAIN buf = 1..n /\ c \in Nat
  BY <1>1 DEF Working, TypeOK, Sound
<1>3. slots \in Seq(Dentry) /\ Len(slots) = n /\ \A k \in 1..n : slots[k] = IF Clusters(k) < c THEN buf[k] ELSE old[k]
  BY <1>1, <1>2, MixIsSeq
<1>4. slots' = [k \in 1..n |-> IF Clusters(k) = c THEN buf[k] ELSE slots[k]]
  <2>1. DOMAIN slots = 1..n
    BY <1>3
  <2>2. QED  BY <1>1, <2>1, Zenon DEF Write
<1>5. ASSUME NEW k \in 1..n
      PROVE  (IF Clusters(k) = c THEN buf[k] ELSE slots[k]) = IF Clusters(k) < c + 1 THEN buf[k] ELSE old[k]
  <2>1. PICK x : x = Clusters(k)
    OBVIOUS
  <2>2. x \in Nat
    BY <2>1, ClustersOf
  <2>3. x < c + 1 <=> x < c \/ x = c
    BY <1>2, <2>2
  <2>4. QED  BY <1>3, <2>1, <2>3, Zenon
<1>6. slots' = [k \in 1..n |-> IF Clusters(k) < c + 1 THEN buf[k] ELSE old[k]]
  BY <1>4, <1>5, Zenon
<1>7. QED  BY <1>1, <1>2, <1>6, Zenon DEF Mix

LEMMA WriteKeeps ==
  ASSUME IInv, Write
  PROVE  IInv'
<1>1. TypeOK /\ ~Idle /\ at <= Size
  BY DEF IInv, Write
<1>2. PICK old : Working(old)
  BY <1>1 DEF IInv
<1>3. PICK n, c : n = Len(buf) /\ c = at
  OBVIOUS
<1>4. /\ Sound(old) /\ Sound(buf) /\ Len(old) = Len(buf) /\ slots = Mix(old, buf, c)
      /\ n \in Nat /\ c \in Nat
  BY <1>1, <1>2, <1>3 DEF Working, TypeOK, Sound
<1>5. slots \in Seq(Dentry) /\ Len(slots) = n
  BY <1>3, <1>4, MixIsSeq
<1>9. at' = c + 1 /\ kids' = kids /\ buf' = buf /\ asked' = asked
  BY <1>3 DEF Write
<1>10. slots' = Mix(old, buf', at')
  BY <1>1, <1>2, <1>3, <1>9, WriteMixes
<1>11. Working(old)'
  BY <1>2, <1>9, <1>10 DEF Working
<1>12. ~Idle'
  BY <1>1, <1>9 DEF Idle
<1>13. slots' \in Seq(Dentry) /\ Len(slots') = Len(slots)
  <2>1. Sound(buf')
    BY <1>4, <1>9
  <2>2. Mix(old, buf', at') \in Seq(Dentry) /\ Len(Mix(old, buf', at')) = Len(buf')
    BY <1>4, <1>9, <2>1, MixIsSeq
  <2>3. QED  BY <1>3, <1>5, <1>9, <1>10, <2>2
<1>14. at' \in 0..MaxClusters + 1 /\ at' # 0
  BY <1>1, <1>3, <1>4, <1>9, SizeIs, DentriesAssumption DEF DentriesAssumption
<1>15. TypeOK'
  <2>1. asked'.op # "none"
    BY <1>12 DEF Idle
  <2>2. QED  BY <1>1, <1>9, <1>13, <1>14, <2>1 DEF TypeOK
<1>16. QED  BY <1>11, <1>12, <1>15 DEF IInv

(* When all is written the directory is what the buffer is.                *)
LEMMA AllWritten ==
  ASSUME TypeOK, NEW old, Working(old), at > Size
  PROVE  slots = buf
<1>1. PICK n : n = Len(buf)
  OBVIOUS
<1>2. Sound(old) /\ Sound(buf) /\ Len(old) = Len(buf) /\ slots = Mix(old, buf, at) /\ n \in Nat /\ at \in Int
  BY <1>1 DEF Working, TypeOK, Sound
<1>3. Len(slots) = n
  BY <1>1, <1>2, MixIsSeq
<1>4. ASSUME NEW k \in 1..n PROVE Clusters(k) < at
  <2>1. PICK x, y : x = Clusters(k) /\ y = Clusters(n)
    OBVIOUS
  <2>2. x <= y /\ x \in Nat /\ y \in Nat
    BY <1>2, <2>1, ClustersMonotone, ClustersOf
  <2>3. y < at
    BY <1>2, <1>3, <2>1, <2>2 DEF Size
  <2>4. QED  BY <1>2, <2>1, <2>2, <2>3
<1>5. QED  BY <1>1, <1>2, <1>4, MixEnds

(* What trim leaves of the directory.                                      *)
LEMMA TrimCuts ==
  ASSUME TypeOK, Sound(slots), NEW L, Packed(slots, L), NEW t, t = SubSeq(slots, 1, Kept(slots) * PerCluster)
  PROVE  /\ Kept(slots) = Clusters(L) /\ Extends(slots, t) /\ Len(t) = Clusters(L) * PerCluster
         /\ Packed(t, L) /\ Sound(t)
<1>1. PICK n, c, K, p : n = Len(slots) /\ c = Clusters(L) /\ p = PerCluster /\ K = Clusters(L) * PerCluster
  OBVIOUS
<1>2. slots \in Seq(Dentry) /\ n \in Nat /\ n % p = 0 /\ L \in 0..n /\ DOMAIN slots = 1..n
  BY <1>1 DEF TypeOK, Packed
<1>3. Len(InUse(slots)) = L
  BY <1>2, PackedInUse
<1>4. Kept(slots) = c
  BY <1>1, <1>3 DEF Kept
<1>5. c \in Nat /\ K \in Nat /\ L <= K
  <2>1. L \in Nat
    BY <1>2
  <2>2. c \in Nat /\ K >= L /\ p \in Nat
    BY <1>1, <2>1, ClustersOf, PerClusterIsPositive
  <2>3. K = c * p
    BY <1>1
  <2>4. QED  BY ONLY <2>1, <2>2, <2>3
<1>6. K <= n
  <2>1. PICK d : d = Clusters(n)
    OBVIOUS
  <2>2. L \in Nat /\ L <= n /\ n % PerCluster = 0
    BY <1>1, <1>2
  <2>3. c <= d
    BY <1>1, <1>2, <2>2, <2>1, ClustersMonotone
  <2>4. d \in Nat
    BY <1>2, <2>1, ClustersOf
  <2>5. Clusters(n) * PerCluster = n
    BY <1>2, <2>2, ClustersWhole
  <2>6. c <= d /\ d \in Nat /\ d * p = n /\ p \in Nat \ {0}
    BY <1>1, <2>1, <2>3, <2>4, <2>5, PerClusterIsPositive
  <2>7. c * p <= d * p
    BY ONLY <1>5, <2>6, Products
  <2>8. QED  BY <1>1, <2>6, <2>7
<1>7. t = SubSeq(slots, 1, K)
  BY <1>1, <1>4
<1>8. t \in Seq(Dentry) /\ Len(t) = K /\ \A k \in 1..K : t[k] = slots[k]
  <2>1. \A i \in 1..K : slots[i] \in Dentry
    BY <1>2, <1>5, <1>6
  <2>2. 1 \in Int /\ K \in Int
    BY <1>5
  <2>3. /\ SubSeq(slots, 1, K) \in Seq(Dentry)
        /\ Len(SubSeq(slots, 1, K)) = IF 1 <= K THEN K - 1 + 1 ELSE 0
        /\ \A i \in 1..(K - 1 + 1) : SubSeq(slots, 1, K)[i] = slots[1 + i - 1]
    BY ONLY <2>1, <2>2, SubSeqProperties
  <2>4. (IF 1 <= K THEN K - 1 + 1 ELSE 0) = K /\ K - 1 + 1 = K /\ \A i \in 1..K : 1 + i - 1 = i
    BY <1>5
  <2>5. QED  BY <1>7, <2>3, <2>4, Zenon
<1>9. \A k \in L + 1..n : slots[k] = Unused
  BY <1>1 DEF Packed
<1>10. Extends(slots, t)
  <2>1. \A k \in K + 1..n : slots[k] = Unused
    BY <1>2, <1>5, <1>9
  <2>2. QED  BY <1>1, <1>2, <1>6, <1>8, <2>1 DEF Extends
<1>11. Packed(t, L)
  <2>1. \A k \in 1..L : t[k].used /\ t[k].type # "unused"
    <3> TAKE k \in 1..L
    <3>1. k \in 1..K
      BY <1>2, <1>5
    <3>2. QED  BY <1>8, <3>1 DEF Packed
  <2>2. \A k \in L + 1..K : t[k] = Unused
    <3> TAKE k \in L + 1..K
    <3>1. k \in 1..K /\ k \in L + 1..n
      BY <1>2, <1>5, <1>6
    <3>2. QED  BY <1>8, <1>9, <3>1
  <2>3. L \in 0..K
    BY <1>2, <1>5
  <2>4. QED  BY <1>8, <2>1, <2>2, <2>3 DEF Packed
<1>12. Sound(t)
  BY <1>10, CutSound
<1>13. QED  BY <1>1, <1>4, <1>8, <1>10, <1>11, <1>12

(* trim gives back clusters that hold nothing, and the others change       *)
(* nothing when they return.                                               *)
LEMMA ReturnKeeps ==
  ASSUME IInv, Return
  PROVE  IInv'
<1>1. TypeOK /\ ~Idle /\ at > Size
  BY DEF IInv, Return
<1>2. PICK old : Working(old)
  BY <1>1 DEF IInv
<1>3. slots = buf
  BY <1>1, <1>2, AllWritten
<1>4. Sound(slots) /\ Sound(old) /\ kids = FileNames(old) /\ Change(old, slots, asked)
  BY <1>2, <1>3 DEF Working
<1>5. buf' = <<>> /\ at' = 0 /\ asked' = Nothing /\ Idle'
  BY DEF Return, Nothing, Idle
<1>6. CASE asked.op = "trim"
  <2>1. kids' = kids /\ slots' = SubSeq(slots, 1, Kept(slots) * PerCluster)
    BY <1>6 DEF Return
  <2>2. PICK L : Packed(slots, L) /\ FileNames(slots) = FileNames(old)
    BY <1>4, <1>6 DEF Change
  <2>3. Extends(slots, slots') /\ Len(slots') = Clusters(L) * PerCluster /\ Sound(slots')
    BY <1>1, <1>4, <2>1, <2>2, TrimCuts
  <2>4. FileNames(slots') = FileNames(slots)
    BY <2>3, ExtendedSame
  <2>5. Resting'
    BY <1>4, <2>1, <2>2, <2>3, <2>4 DEF Resting
  <2>6. Len(slots') % PerCluster = 0 /\ Len(slots') <= MaxClusters * PerCluster
    <3>1. L \in Nat /\ Clusters(L) \in Nat
      BY <1>4, <2>2, ClustersOf DEF Packed, Sound
    <3>2. (Clusters(L) * PerCluster) % PerCluster = 0
      BY <3>1, PerClusterIsPositive
    <3>3. Len(slots') \in Int /\ Len(slots) \in Int /\ MaxClusters * PerCluster \in Int
      BY <2>3, PerClusterIsPositive, DentriesAssumption DEF Extends, DentriesAssumption
    <3>4. Len(slots') <= Len(slots) /\ Len(slots) <= MaxClusters * PerCluster
      BY <1>1, <2>3 DEF Extends, TypeOK
    <3>5. QED  BY <2>3, <3>2, <3>3, <3>4
  <2>7. slots' \in Seq(Dentry) /\ kids' \in Seq(Name)
    BY <1>1, <2>1, <2>3 DEF Sound, TypeOK
  <2>8. TypeOK'
    BY <1>5, <2>6, <2>7, DentriesAssumption DEF TypeOK, Nothing, Commands, DentriesAssumption
  <2>9. QED  BY <1>5, <2>5, <2>8 DEF IInv
<1>7. CASE asked.op # "trim"
  <2>1. kids' = Listed(slots) /\ slots' = slots
    BY <1>7 DEF Return
  <2>2. Listed(slots) = FileNames(slots) /\ Listed(slots) \in Seq(Name)
    BY <1>4, RestingIsListed
  <2>3. Resting'
    BY <1>4, <2>1, <2>2 DEF Resting
  <2>4. TypeOK'
    BY <1>1, <1>5, <2>1, <2>2, DentriesAssumption DEF TypeOK, Nothing, Commands, DentriesAssumption
  <2>5. QED  BY <1>5, <2>3, <2>4 DEF IInv
<1>8. QED  BY <1>6, <1>7

(* A kill that comes before the first write, or when what is left to write *)
(* is there already, finds the directory in order.                         *)
LEMMA WholeIsSound ==
  ASSUME IInv, Whole
  PROVE  Sound(slots)
<1>1. TypeOK
  BY DEF IInv
<1>2. CASE Idle
  BY <1>2 DEF IInv, Resting
<1>3. CASE ~Idle
  <2>1. PICK old : Working(old)
    BY <1>3 DEF IInv
  <2>2. PICK n, c : n = Len(buf) /\ c = at
    OBVIOUS
  <2>3. Sound(old) /\ Sound(buf) /\ Len(old) = Len(buf) /\ slots = Mix(old, buf, c) /\ n \in Nat /\ c \in Nat
    BY <1>1, <2>1, <2>2 DEF Working, TypeOK, Sound
  <2>4. c # 0
    BY <1>1, <1>3, <2>2 DEF TypeOK, Idle
  <2>5. CASE c = 1
    BY <2>3, <2>5, MixBegins
  <2>6. CASE c > 1
    <3>1. Len(slots) = n /\ DOMAIN slots = 1..n /\ \A k \in 1..n : slots[k] = IF Clusters(k) < c THEN buf[k] ELSE old[k]
      BY <2>2, <2>3, MixIsSeq
    <3>2. ASSUME NEW k \in 1..n PROVE Clusters(k) < c \/ old[k] = buf[k]
      <4>1. Clusters(k) \in Nat
        BY ClustersOf
      <4>2. CASE Clusters(k) >= c
        BY <2>2, <2>3, <2>6, <3>1, <4>1, <4>2 DEF Whole
      <4>3. QED  BY <2>3, <4>1, <4>2
    <3>3. slots = buf
      BY <2>2, <2>3, <3>2, MixEnds
    <3>4. QED  BY <2>3, <3>3
  <2>7. QED  BY <2>3, <2>4, <2>5, <2>6
<1>4. QED  BY <1>2, <1>3

LEMMA KillKeeps ==
  ASSUME IInv, Whole, Kill
  PROVE  IInv'
<1>1. Sound(slots) /\ TypeOK
  BY WholeIsSound DEF IInv
<1>2. Listed(slots) = FileNames(slots) /\ Listed(slots) \in Seq(Name)
  BY <1>1, RestingIsListed
<1>3. kids' = Listed(slots) /\ slots' = slots /\ buf' = <<>> /\ at' = 0 /\ asked' = Nothing /\ Idle'
  BY DEF Kill, Nothing, Idle
<1>4. Resting'
  BY <1>1, <1>2, <1>3 DEF Resting
<1>5. TypeOK'
  BY <1>1, <1>2, <1>3, DentriesAssumption DEF TypeOK, Nothing, Commands, DentriesAssumption
<1>6. QED  BY <1>3, <1>4, <1>5 DEF IInv

LEMMA StuttersKeep ==
  ASSUME IInv, UNCHANGED vars
  PROVE  IInv'
<1>1. slots' = slots /\ kids' = kids /\ buf' = buf /\ at' = at /\ asked' = asked
  BY DEF vars
<1>2. TypeOK' /\ (Idle' <=> Idle)
  BY <1>1 DEF IInv, TypeOK, Idle
<1>3. CASE Idle
  <2>1. Resting'
    BY <1>1, <1>3 DEF IInv, Resting
  <2>2. QED  BY <1>2, <1>3, <2>1 DEF IInv
<1>4. CASE ~Idle
  <2>1. PICK old : Working(old)
    BY <1>4 DEF IInv
  <2>2. Working(old)'
    BY <1>1, <2>1 DEF Working
  <2>3. QED  BY <1>2, <1>4, <2>2 DEF IInv
<1>5. QED  BY <1>3, <1>4

LEMMA InitHolds ==
  ASSUME Init
  PROVE  IInv
<1>1. slots \in Images /\ kids = Listed(slots) /\ buf = <<>> /\ at = 0 /\ asked = Nothing
  BY DEF Init
<1>2. Sound(slots) /\ Len(slots) % PerCluster = 0 /\ Len(slots) <= MaxClusters * PerCluster
  BY <1>1, SoundImages DEF SoundImages
<1>3. Listed(slots) = FileNames(slots) /\ Listed(slots) \in Seq(Name) /\ slots \in Seq(Dentry)
  BY <1>2, RestingIsListed DEF Sound
<1>4. TypeOK /\ Idle
  BY <1>1, <1>2, <1>3, DentriesAssumption DEF TypeOK, Nothing, Commands, Idle, DentriesAssumption
<1>5. Resting
  BY <1>1, <1>2, <1>3 DEF Resting
<1>6. QED  BY <1>4, <1>5 DEF IInv

(* No careful step breaks the invariant.                                   *)
LEMMA NextKeeps ==
  ASSUME Zeroed, IInv, [CarefulNext]_vars
  PROVE  IInv'
<1>a. Given \subseteq Name
  BY DentriesAssumption DEF DentriesAssumption
<1>1. ASSUME NEW n \in Given, Create(n) PROVE IInv'
  BY <1>a, <1>1, CreateKeeps
<1>2. ASSUME NEW n \in Given, RemoveName(n) PROVE IInv'
  BY <1>a, <1>2, RemoveKeeps
<1>3. CASE Trim
  BY <1>3, TrimKeeps
<1>4. ASSUME NEW count \in Counts, Fill(count) PROVE IInv'
  BY <1>4, FillKeeps
<1>5. CASE Write
  BY <1>5, WriteKeeps
<1>6. CASE Return
  BY <1>6, ReturnKeeps
<1>7. CASE Whole /\ Kill
  BY <1>7, KillKeeps
<1>8. CASE UNCHANGED vars
  BY <1>8, StuttersKeep
<1>9. QED  BY <1>1, <1>2, <1>3, <1>4, <1>5, <1>6, <1>7, <1>8, Zenon DEF CarefulNext, Command

(* Between commands the directory is in order and known; during one it is  *)
(* what it was in the clusters not written yet, and what the command makes *)
(* of it in those that are.                                                *)
THEOREM NamesInvariant == CarefulSpec => [](IInv /\ Zeroed)
<1>1. Zeroed /\ Init => IInv
  BY InitHolds
<1>2. Zeroed /\ IInv /\ [CarefulNext]_vars => IInv'
  BY NextKeeps
<1>3. SUFFICES ASSUME Zeroed PROVE CarefulSpec => [](IInv /\ Zeroed)
  BY DEF CarefulSpec
<1>4. QED  BY <1>1, <1>2, <1>3, PTL DEF CarefulSpec

-----------------------------------------------------------------------------
(* The directory on disk and the buffer are lists of dentries, in whole    *)
(* clusters and no more of them than a directory has.                      *)
THEOREM TypesHold == CarefulSpec => []TypeOK
<1>1. IInv => TypeOK
  BY DEF IInv
<1>2. QED  BY <1>1, NamesInvariant, PTL

(* The children in memory are the files on disk, in their order, after     *)
(* every command and every restart.                                        *)
THEOREM KidsAreAlwaysFiles == CarefulSpec => []KidsAreFiles
<1>1. IInv => KidsAreFiles
  BY DEF IInv, Resting, KidsAreFiles
<1>2. QED  BY <1>1, NamesInvariant, PTL

LEMMA NamesStayApart ==
  ASSUME IInv
  PROVE  NoNameTwice
<1>1. \E s : Sound(s) /\ kids = FileNames(s)
  BY DEF IInv, Resting, Working
<1>2. PICK s : Sound(s) /\ kids = FileNames(s)
  BY <1>1
<1>3. Apart(kids) /\ kids \in Seq(Name)
  BY <1>2, FileNamesApart
<1>4. QED  BY <1>3 DEF Apart, NoNameTwice

(* No two files of a directory ever have names that are one name to the    *)
(* program: create looks before it writes.                                 *)
THEOREM NoNameIsTwice == CarefulSpec => []NoNameTwice
BY NamesStayApart, NamesInvariant, PTL

LEMMA EndIsLast ==
  ASSUME IInv
  PROVE  UnusedIsLast
<1>1. SUFFICES ASSUME Idle, NEW k \in End(slots)..Len(slots)
               PROVE  ~slots[k].used
  BY DEF UnusedIsLast
<1>2. Sound(slots)
  BY <1>1 DEF IInv, Resting
<1>3. slots \in Seq(Dentry) /\ EndOf(slots, End(slots))
  BY <1>2, EndIsFirst DEF Sound
<1>4. End(slots) \in 1..Len(slots) + 1
  BY <1>3 DEF EndOf
<1>5. k \in DOMAIN slots /\ k >= End(slots)
  BY <1>1, <1>3, <1>4
<1>6. QED  BY <1>2, <1>5, SoundEnd

(* No file is ever left behind a free dentry, where traverse would stop    *)
(* before it or create write over it.                                      *)
THEOREM UnusedIsAlwaysLast == CarefulSpec => []UnusedIsLast
BY EndIsLast, NamesInvariant, PTL

(* Of the children, remove takes the one it was asked for.                 *)
LEMMA RemovalOf ==
  ASSUME NEW s, Sound(s), NEW f, FileNamesBy(f, s), NEW p \in FileSet(s), NEW n, n = NameAt(s, p)
  PROVE  Listed(Deleted(s, Match(s, n))) = RemoveAt(FileNames(s), PlaceOf(f, p))
<1>1. PICK d : d = Deleted(s, Match(s, n))
  OBVIOUS
<1>2. p \in Wanted(s, n)
  BY FileNamed DEF Wanted, Alike
<1>3. Wanted(s, n) = {p}
  BY <1>2, WantedIsOne
<1>4. Took(d, s, n)
  BY <1>1, RemoveTakes
<1>5. DeletedBy(d, s, {p, p + 1, p + 2})
  BY <1>3, <1>4, Zenon DEF Took
<1>6. Sound(d) /\ FileSet(d) = FileSet(s) \ {p} /\ NamesIn(d) = NamesIn(s)
  BY <1>5, DeletedSound
<1>7. Len(d) = Len(s)
  BY <1>5 DEF DeletedBy
<1>8. d \in Seq(Dentry) /\ s \in Seq(Dentry) /\ Len(s) \in Nat
  BY <1>6 DEF Sound
<1>9. PICK g : FileNamesBy(g, d)
  BY <1>8, FileNamesPicked
<1>10. Picks(g, Len(s), FileSet(s) \ {p}, NamesIn(s)) /\ FileNames(d) = g[1]
  BY <1>6, <1>7, <1>9 DEF FileNamesBy
<1>11. Picks(f, Len(s), FileSet(s), NamesIn(s)) /\ FileNames(s) = f[1]
  BY DEF FileNamesBy
<1>12. \A i \in 1..Len(s) : i \in FileSet(s) => NamesIn(s)[i] \in Name
  BY FileNamed
<1>13. p \in 1..Len(s)
  BY <1>8 DEF FileSet
<1>14. g[1] = RemoveAt(f[1], PlaceOf(f, p))
  <2>1. PICK N, S, v : N = Len(s) /\ S = FileSet(s) /\ v = NamesIn(s)
    OBVIOUS
  <2>2. /\ N \in Nat /\ Picks(f, N, S, v) /\ Picks(g, N, S \ {p}, v) /\ p \in 1..N /\ p \in S
        /\ \A i \in 1..N : i \in S => v[i] \in Name
    BY <1>8, <1>10, <1>11, <1>12, <1>13, <2>1
  <2>3. QED  BY ONLY <2>2, PicksWithout
<1>15. Listed(d) = FileNames(d)
  BY <1>6, SoundListed
<1>16. QED  BY <1>1, <1>10, <1>11, <1>14, <1>15

LEMMA RemovalIsOwn ==
  ASSUME IInv
  PROVE  RemovesItsOwn
<1>1. SUFFICES ASSUME Idle, NEW k \in DOMAIN kids
               PROVE  Listed(Deleted(slots, Match(slots, kids[k]))) = RemoveAt(kids, k)
  BY Zenon DEF RemovesItsOwn
<1>2. Sound(slots) /\ kids = FileNames(slots)
  BY <1>1 DEF IInv, Resting
<1>3. slots \in Seq(Dentry) /\ kids \in Seq(Name)
  BY <1>2, FileNamesApart DEF Sound
<1>4. PICK f : FileNamesBy(f, slots)
  BY <1>3, FileNamesPicked
<1>5. PlacedIn(f, Len(slots), FileSet(slots), NamesIn(slots)) /\ kids = f[1]
  BY <1>2, <1>4, FilesPlaced DEF FileNamesBy
<1>6. k \in 1..Len(f[1])
  BY <1>1, <1>3, <1>5
<1>7. PICK p \in 1..Len(slots) : p \in FileSet(slots) /\ k = PlaceOf(f, p)
  BY <1>5, <1>6 DEF PlacedIn
<1>8. kids[k] = NameAt(slots, p)
  <2>1. f[1][PlaceOf(f, p)] = NamesIn(slots)[p]
    BY <1>5, <1>7 DEF PlacedIn
  <2>2. NamesIn(slots)[p] = NameAt(slots, p)
    BY <1>2, <1>7, FileNamed
  <2>3. QED  BY <1>5, <1>7, <2>1, <2>2
<1>9. QED  BY <1>2, <1>4, <1>7, <1>8, RemovalOf

(* What remove would mark is the entry set of the child that was named,    *)
(* and of no other, whatever hashes collide with it.                       *)
THEOREM RemoveTakesItsOwn == CarefulSpec => []RemovesItsOwn
BY RemovalIsOwn, NamesInvariant, PTL

(* What is left by a trim.                                                 *)
Tight(t, b) ==
  /\ \A k \in DOMAIN t : t[k].used <=> k < End(t)
  /\ InUse(t) = InUse(b)
  /\ Len(t) - Len(InUse(t)) < PerCluster

LEMMA PackedIsTight ==
  ASSUME NEW b \in Seq(Dentry), NEW L, Packed(b, L), NEW t \in Seq(Dentry), Packed(t, L),
         Len(t) = Clusters(L) * PerCluster, Extends(b, t)
  PROVE  Tight(t, b)
<1>1. PICK n, m, p : n = Len(t) /\ m = Len(b) /\ p = PerCluster
  OBVIOUS
<1>2. L \in Nat /\ n \in Nat /\ L <= n /\ DOMAIN t = 1..n /\ p \in Nat \ {0}
  BY <1>1, PerClusterIsPositive DEF Packed
<1>3. \A k \in DOMAIN t : t[k].used <=> k < End(t)
  <2>1. End(t) = L + 1
    BY PackedEnd
  <2>2. TAKE k \in DOMAIN t
  <2>3. CASE k <= L
    <3>1. k \in 1..L
      BY <1>2, <2>2, <2>3
    <3>2. QED  BY <1>2, <2>1, <2>3, <3>1 DEF Packed
  <2>4. CASE k > L
    <3>1. k \in L + 1..Len(t)
      BY <1>1, <1>2, <2>2, <2>4
    <3>2. ~t[k].used
      BY <3>1, UnusedIsDentry DEF Packed
    <3>3. QED  BY <1>2, <2>1, <2>2, <2>4, <3>2
  <2>5. QED  BY <1>2, <2>2, <2>3, <2>4
<1>4. InUse(t) = InUse(b)
  <2>1. InUse(t) \in Seq(Dentry) /\ Len(InUse(t)) = L /\ \A k \in 1..L : InUse(t)[k] = t[k]
    BY PackedInUse
  <2>2. InUse(b) \in Seq(Dentry) /\ Len(InUse(b)) = L /\ \A k \in 1..L : InUse(b)[k] = b[k]
    BY PackedInUse
  <2>3. \A k \in 1..L : t[k] = b[k]
    <3> TAKE k \in 1..L
    <3>1. k \in 1..Len(t)
      BY <1>1, <1>2
    <3>2. QED  BY <3>1 DEF Extends
  <2>4. QED  BY <2>1, <2>2, <2>3, SeqEqual
<1>5. Len(InUse(t)) = L
  BY PackedInUse
<1>6. n < L + p
  BY <1>1, <1>2, ClustersOf
<1>7. QED  BY <1>1, <1>2, <1>3, <1>4, <1>5, <1>6 DEF Tight

LEMMA TrimReturns ==
  ASSUME IInv, asked.op = "trim", Return
  PROVE  /\ \A k \in DOMAIN slots' : slots'[k].used <=> k < End(slots')
         /\ InUse(slots') = InUse(buf)
         /\ Len(slots') - Len(InUse(slots')) < PerCluster
<1>1. TypeOK /\ ~Idle /\ at > Size
  BY DEF IInv, Return
<1>2. PICK old : Working(old)
  BY <1>1 DEF IInv
<1>3. slots = buf
  BY <1>1, <1>2, AllWritten
<1>4. Sound(slots) /\ slots \in Seq(Dentry)
  BY <1>2, <1>3 DEF Working, Sound
<1>5. PICK L : Packed(slots, L)
  BY <1>2, <1>3 DEF Working, Change
<1>6. slots' = SubSeq(slots, 1, Kept(slots) * PerCluster)
  BY DEF Return
<1>7. PICK t : t = slots'
  OBVIOUS
<1>8. Len(t) = Clusters(L) * PerCluster /\ Packed(t, L) /\ Sound(t) /\ Extends(slots, t)
  BY <1>1, <1>4, <1>5, <1>6, <1>7, TrimCuts
<1>9. Tight(t, slots)
  BY <1>4, <1>5, <1>8, PackedIsTight DEF Sound
<1>10. QED  BY <1>3, <1>7, <1>9 DEF Tight

(* When trim has returned the dentries in use come first, those of its     *)
(* buffer are all on disk, and no cluster is without one.                  *)
THEOREM TrimLeavesItTight == CarefulSpec => TrimIsTight
<1>1. IInv /\ [CarefulNext]_vars =>
        [asked.op = "trim" /\ Return =>
           /\ \A k \in DOMAIN slots' : slots'[k].used <=> k < End(slots')
           /\ InUse(slots') = InUse(buf)
           /\ Len(slots') - Len(InUse(slots')) < PerCluster]_vars
  BY TrimReturns, Zenon
<1>2. SUFFICES ASSUME Zeroed PROVE CarefulSpec => TrimIsTight
  BY DEF CarefulSpec
<1>3. QED  BY <1>1, NamesInvariant, PTL DEF CarefulSpec, TrimIsTight

-----------------------------------------------------------------------------
(* The names that are read of a directory.                                 *)
LEMMA NamesRead ==
  ASSUME NEW s, Readable(s)
  PROVE  NamesOn(s) = {NameAt(s, p) : p \in Complete(s)}
<1>1. s \in Seq(Dentry) /\ Len(s) \in Nat /\ DOMAIN s = 1..Len(s)
  BY DEF Readable
<1>2. PICK N, S, v : N = Len(s) /\ S = Complete(s) /\ v = NamesIn(s)
  OBVIOUS
<1>3. ASSUME NEW i \in 1..N, i \in S PROVE v[i] \in Name /\ v[i] = NameAt(s, i)
  <2>1. s[i].name \in Name
    BY <1>2, <1>3 DEF Complete, HeadAt
  <2>2. NameAt(s, i) \in Name
    BY <2>1, ReadIsLike DEF NameAt
  <2>3. v[i] = NameAt(s, i)
    BY <1>1, <1>2, <1>3, Zenon DEF NamesIn
  <2>4. QED  BY <2>2, <2>3
<1>4. PICK f : Picks(f, N, S, v)
  BY <1>1, <1>2, PicksExist
<1>5. N \in Nat /\ Picks(f, N, S, v) /\ \A i \in 1..N : i \in S => v[i] \in Name
  BY <1>1, <1>2, <1>3, <1>4
<1>6. PlacedIn(f, N, S, v)
  BY ONLY <1>5, PicksPlaced
<1>7. f \in [1..N + 1 -> Seq(Name)]
  BY ONLY <1>5, PicksAreSeqs
<1>8. Listed(s) = f[1]
  BY <1>2, <1>4, ListedIsComplete DEF CompleteBy
<1>9. DOMAIN f[1] = 1..Len(f[1])
  BY <1>5, <1>7
<1>10. S \subseteq 1..N
  BY <1>1, <1>2 DEF Complete, FileSet
<1>11. ASSUME NEW k \in DOMAIN f[1] PROVE \E p \in S : f[1][k] = NameAt(s, p)
  <2>1. PICK i \in 1..N : i \in S /\ k = PlaceOf(f, i)
    BY <1>6, <1>9 DEF PlacedIn
  <2>2. f[1][k] = v[i]
    BY <1>6, <2>1 DEF PlacedIn
  <2>3. QED  BY <1>3, <2>1, <2>2
<1>12. ASSUME NEW p \in S PROVE \E k \in DOMAIN f[1] : f[1][k] = NameAt(s, p)
  <2>1. p \in 1..N
    BY <1>10
  <2>2. PlaceOf(f, p) \in 1..Len(f[1]) /\ f[1][PlaceOf(f, p)] = v[p]
    BY <1>6, <2>1 DEF PlacedIn
  <2>3. QED  BY <1>3, <1>9, <2>1, <2>2
<1>13. {f[1][k] : k \in DOMAIN f[1]} = {NameAt(s, p) : p \in S}
  BY <1>11, <1>12
<1>14. QED  BY <1>2, <1>8, <1>13, Zenon DEF NamesOn

LEMMA SoundNames ==
  ASSUME NEW s, Sound(s)
  PROVE  NamesOn(s) = {NameAt(s, p) : p \in FileSet(s)} /\ NamesOn(s) \subseteq Name
<1>1. Readable(s) /\ Complete(s) = FileSet(s)
  BY SoundIsReadable
<1>2. NamesOn(s) = {NameAt(s, p) : p \in FileSet(s)}
  BY <1>1, NamesRead
<1>3. \A p \in FileSet(s) : NameAt(s, p) \in Name
  BY FileNamed
<1>4. QED  BY <1>2, <1>3

(* The same names are listed where the files have the same names.          *)
LEMMA SameNames ==
  ASSUME NEW s, Sound(s), NEW t, Sound(t), FileNames(s) = FileNames(t)
  PROVE  NamesOn(s) = NamesOn(t)
BY SoundListed DEF NamesOn

(* The directory with the first w dentries of the buffer written.          *)
Half(m, old, new, w) ==
  /\ m \in Seq(Dentry) /\ Len(m) = Len(new) /\ Len(old) = Len(new)
  /\ w \in Nat
  /\ \A k \in 1..Len(new) : m[k] = IF k <= w THEN new[k] ELSE old[k]

LEMMA MixIsHalf ==
  ASSUME NEW old, NEW new, Sound(old), Sound(new), Len(old) = Len(new), NEW c \in Nat \ {0}
  PROVE  Half(Mix(old, new, c), old, new, (c - 1) * PerCluster)
<1>1. PICK p, w : p = PerCluster /\ w = (c - 1) * PerCluster
  OBVIOUS
<1>2. p \in Nat \ {0} /\ c - 1 \in Nat /\ w = (c - 1) * p
  BY <1>1, PerClusterIsPositive
<1>3. w \in Nat
  BY <1>1, <1>2, ClustersExact
<1>4. ASSUME NEW k \in 1..Len(new) PROVE Clusters(k) < c <=> k <= w
  <2>1. k \in Nat /\ Len(new) \in Nat
    BY DEF Sound
  <2>2. PICK x : x = Clusters(k)
    OBVIOUS
  <2>3. x \in Nat /\ k <= x * p /\ x * p < k + p
    BY <1>1, <2>1, <2>2, ClustersOf
  <2>4. Clusters(w) = c - 1
    BY <1>1, <1>2, ClustersExact
  <2>5. ASSUME k <= w PROVE x <= c - 1
    BY <1>3, <2>1, <2>2, <2>4, <2>5, ClustersMonotone
  <2>6. ASSUME x <= c - 1 PROVE k <= w
    <3>1. x * p <= (c - 1) * p
      BY ONLY <1>2, <2>3, <2>6, Products
    <3>2. x * p \in Int
      BY ONLY <1>2, <2>3
    <3>3. QED  BY ONLY <1>2, <1>3, <2>1, <2>3, <3>1, <3>2
  <2>7. x < c <=> x <= c - 1
    BY <1>2, <2>3
  <2>8. QED  BY <2>2, <2>5, <2>6, <2>7
<1>5. /\ Mix(old, new, c) \in Seq(Dentry) /\ Len(Mix(old, new, c)) = Len(new)
      /\ \A k \in 1..Len(new) : Mix(old, new, c)[k] = IF Clusters(k) < c THEN new[k] ELSE old[k]
  BY MixIsSeq
<1>6. QED  BY <1>1, <1>3, <1>4, <1>5, Zenon DEF Half

-----------------------------------------------------------------------------
(* The set of a file dentry of a directory in order ends before the unused *)
(* dentries begin.                                                         *)
LEMMA SetsInside ==
  ASSUME NEW s, Sound(s), NEW p \in FileSet(s)
  PROVE  p \in Nat \ {0} /\ p + Chunks[s[p].name] + 1 < End(s) /\ End(s) <= Len(s) + 1 /\ Chunks[s[p].name] \in Nat \ {0}
<1>1. PICK n, c, e : n = Len(s) /\ c = Chunks[s[p].name] /\ e = End(s)
  OBVIOUS
<1>2. s \in Seq(Dentry) /\ n \in Nat /\ DOMAIN s = 1..n /\ p \in 1..n /\ SetAt(s, p)
  BY <1>1 DEF Sound, FileSet
<1>3. c \in Nat /\ c >= 1 /\ p + c + 1 <= n
  BY <1>1, <1>2, ChunksArePositive DEF SetAt
<1>4. s[p + c + 1].used
  <2>1. p + c + 1 \in p + 2..p + c + 1
    BY <1>2, <1>3
  <2>2. QED  BY <1>1, <1>2, <2>1 DEF SetAt
<1>5. e \in 1..n + 1
  BY <1>1, <1>2, EndIsFirst DEF EndOf
<1>6. p + c + 1 \in 1..n
  BY <1>2, <1>3
<1>7. ~(p + c + 1 >= e)
  BY <1>1, <1>2, <1>4, <1>6, SoundEnd
<1>8. QED  BY <1>1, <1>2, <1>3, <1>5, <1>6, <1>7

(* A whole set is a head, and stays one wherever its dentries are.         *)
LEMMA SetIsHead ==
  ASSUME NEW s, Sound(s), NEW p \in FileSet(s), NEW m \in Seq(Dentry), Len(m) = Len(s),
         m[p] = s[p], m[p + 1] = s[p + 1], m[p + 2] = s[p + 2],
         \A k \in p + 1..p + Chunks[s[p].name] + 1 : ~IsFile(m[k])
  PROVE  HeadAt(m, p)
<1>1. PICK c : c = Chunks[s[p].name]
  OBVIOUS
<1>2. SetAt(s, p) /\ c \in Nat \ {0} /\ p \in Nat
  BY <1>1, SetsInside DEF Sound, FileSet
<1>3. s[p + 2].type = "name" /\ s[p + 2].used
  <2>1. p + 2 \in p + 2..p + c + 1
    BY <1>2
  <2>2. QED  BY <1>1, <1>2, <2>1 DEF SetAt
<1>4. QED  BY <1>1, <1>2, <1>3 DEF HeadAt, SetAt

(* What is behind a file dentry is none.                                   *)
LEMMA NoFileInSet ==
  ASSUME NEW s, Sound(s), NEW p \in FileSet(s), NEW k \in p + 1..p + Chunks[s[p].name] + 1
  PROVE  ~IsFile(s[k])
<1>1. PICK c : c = Chunks[s[p].name]
  OBVIOUS
<1>2. SetAt(s, p) /\ c \in Nat \ {0} /\ p \in Nat
  BY <1>1, SetsInside DEF Sound, FileSet
<1>3. CASE k = p + 1
  BY <1>2, <1>3 DEF SetAt, IsFile
<1>4. CASE k # p + 1
  <2>1. k \in p + 2..p + c + 1
    BY <1>1, <1>2, <1>4
  <2>2. QED  BY <1>1, <1>2, <2>1 DEF SetAt, IsFile
<1>5. QED  BY <1>3, <1>4

-----------------------------------------------------------------------------
(* While create or fill writes: of the old files all are read, of the new  *)
(* ones those whose first three dentries are written.                      *)
AddedUpTo(b, g, w) == {p \in FileSet(b) : p >= End(g) /\ p + 2 <= w}

LEMMA OldHeads ==
  ASSUME NEW g, Sound(g), NEW b, NEW names, Added(b, g, names), NEW w, NEW m, Half(m, g, b, w), NEW p \in FileSet(g)
  PROVE  p \in FileSet(m) /\ HeadAt(m, p) /\ NameAt(m, p) = NameAt(g, p)
<1>1. PICK n, c, e : n = Len(g) /\ c = Chunks[g[p].name] /\ e = End(g)
  OBVIOUS
<1>2. p \in Nat \ {0} /\ c \in Nat \ {0} /\ p + c + 1 < e /\ e <= n + 1 /\ n \in Nat /\ e \in Nat
  <2>1. p \in Nat \ {0} /\ p + c + 1 < e /\ e <= n + 1 /\ c \in Nat \ {0}
    BY <1>1, SetsInside
  <2>2. n \in Nat /\ e \in Nat
    BY <1>1, EndIsFirst DEF Sound, EndOf
  <2>3. QED  BY <2>1, <2>2
<1>3. m \in Seq(Dentry) /\ Len(m) = n /\ Len(b) = n
  BY <1>1 DEF Half
<1>4. ASSUME NEW k \in 1..e - 1 PROVE m[k] = g[k]
  <2>1. k \in 1..Len(b) /\ k \in 1..End(g) - 1
    BY <1>1, <1>2, <1>3
  <2>2. b[k] = g[k]
    BY <2>1 DEF Added
  <2>3. QED  BY <2>1, <2>2 DEF Half
<1>5. p \in 1..e - 1 /\ p + 1 \in 1..e - 1 /\ p + 2 \in 1..e - 1 /\ p \in 1..n
  BY <1>2
<1>6. ASSUME NEW k \in p + 1..p + c + 1 PROVE ~IsFile(m[k])
  <2>1. k \in 1..e - 1
    BY <1>2
  <2>2. ~IsFile(g[k])
    BY <1>1, NoFileInSet
  <2>3. QED  BY <1>4, <2>1, <2>2
<1>7. HeadAt(m, p)
  <2>1. m[p] = g[p] /\ m[p + 1] = g[p + 1] /\ m[p + 2] = g[p + 2]
    BY <1>4, <1>5, Zenon
  <2>2. \A k \in p + 1..p + Chunks[g[p].name] + 1 : ~IsFile(m[k])
    BY <1>1, <1>6, Zenon
  <2>3. Len(m) = Len(g)
    BY <1>1, <1>3, Zenon
  <2>4. QED  BY <1>3, <2>1, <2>2, <2>3, SetIsHead, Zenon
<1>8. NameAt(m, p) = NameAt(g, p)
  <2>1. \A j \in 2..c + 1 : SameBytes(m[p + j], g[p + j])
    <3> TAKE j \in 2..c + 1
    <3>1. p + j \in 1..e - 1
      BY <1>2
    <3>2. QED  BY <1>4, <3>1 DEF SameBytes
  <2>2. p \in DOMAIN g /\ g \in Seq(Dentry) /\ p \in DOMAIN m /\ m[p].name = g[p].name
    BY <1>1, <1>3, <1>4, <1>5 DEF Sound
  <2>3. p + c + 1 <= Len(g) /\ p + c + 1 <= Len(m) /\ c \in Nat
    BY <1>1, <1>2, <1>3
  <2>4. QED  BY ONLY <1>1, <1>3, <2>1, <2>2, <2>3, NameAtSame, ZenonT(40)
<1>9. QED  BY <1>3, <1>4, <1>5, <1>7, <1>8 DEF FileSet

LEMMA NewHeads ==
  ASSUME NEW g, Sound(g), NEW b, Sound(b), NEW names, Added(b, g, names), NEW w, NEW m, Half(m, g, b, w),
         NEW p \in AddedUpTo(b, g, w)
  PROVE  p \in FileSet(m) /\ HeadAt(m, p) /\ NameAt(m, p) = Shown[b[p].name]
<1>1. PICK n, c, e : n = Len(g) /\ c = Chunks[b[p].name] /\ e = End(g)
  OBVIOUS
<1>2. n \in Nat /\ e \in Nat \ {0} /\ e <= n + 1 /\ w \in Nat /\ p >= e /\ p + 2 <= w /\ p \in FileSet(b)
  BY <1>1, EndIsFirst DEF Sound, EndOf, AddedUpTo, Half
<1>3. m \in Seq(Dentry) /\ Len(m) = n /\ Len(b) = n
  BY <1>1 DEF Half
<1>4. p \in Nat \ {0} /\ c \in Nat \ {0} /\ p + c + 1 <= n
  <2>1. p \in Nat \ {0} /\ p + c + 1 < End(b) /\ End(b) <= n + 1 /\ c \in Nat \ {0}
    BY <1>1, <1>2, <1>3, SetsInside
  <2>2. End(b) \in Nat
    BY <1>3, EndIsFirst DEF Sound, EndOf
  <2>3. QED  BY <1>2, <2>1, <2>2
<1>5. p \in 1..Len(b) /\ p + 1 \in 1..Len(b) /\ p + 2 \in 1..Len(b) /\ p <= w /\ p + 1 <= w
  BY <1>2, <1>3, <1>4
<1>6. m[p] = b[p] /\ m[p + 1] = b[p + 1] /\ m[p + 2] = b[p + 2]
  BY <1>2, <1>5 DEF Half
<1>7. ASSUME NEW k \in p + 1..p + c + 1 PROVE ~IsFile(m[k])
  <2>1. k \in 1..Len(b) /\ k \in DOMAIN g /\ k >= End(g)
    BY <1>1, <1>2, <1>3, <1>4, SMTT(40) DEF Sound
  <2>2. ~IsFile(b[k])
    BY <1>1, <1>2, NoFileInSet
  <2>3. ~g[k].used
    BY <2>1, SoundEnd
  <2>4. QED  BY <2>1, <2>2, <2>3 DEF Half, IsFile
<1>8. HeadAt(m, p)
  BY <1>1, <1>2, <1>3, <1>6, <1>7, SetIsHead
<1>9. IsFile(m[p])
  BY <1>2, <1>6 DEF FileSet
<1>10. NameAt(m, p) = Shown[b[p].name]
  <2>1. PICK a, l : a = b[p].name /\ l = p + c + 1
    OBVIOUS
  <2>2. a \in Name /\ m[p].name = a /\ c = Chunks[a]
    BY <1>1, <1>2, <1>6, <2>1 DEF FileSet, Sound, SetAt
  <2>3. Made(b, p)
    <3>1. p \in End(g)..Len(g) /\ IsFile(b[p])
      BY <1>1, <1>2, <1>3, <1>5 DEF FileSet
    <3>2. QED  BY <3>1 DEF Added
  <2>4. c = 1 \/ b[l].name # a
    BY <1>1, <2>1, <2>3, Zenon DEF Made
  <2>5. l \in 1..Len(b) /\ l \in DOMAIN g /\ l >= End(g)
    <3>1. p \in Nat /\ e \in Nat /\ c \in Nat /\ n \in Nat /\ p >= e /\ p + c + 1 <= n /\ l = p + c + 1 /\ p # 0
      BY <1>2, <1>4, <2>1
    <3>2. l \in 1..n /\ l >= e
      BY ONLY <3>1
    <3>3. DOMAIN g = 1..n
      BY <1>1 DEF Sound
    <3>4. QED  BY <1>1, <1>3, <3>2, <3>3
  <2>6. g[l].type = "unused"
    BY <2>5, SoundEnd
  <2>7. m[l] = b[l] \/ m[l] = g[l]
    BY <2>5 DEF Half
  <2>8. c = 1 \/ m[l].type # "name" \/ m[l].name # a
    BY <2>4, <2>6, <2>7
  <2>9. p \in DOMAIN m /\ p + c + 1 <= Len(m)
    BY <1>3, <1>4, <1>5
  <2>10. NameAt(m, p) = Shown[a]
    BY <1>3, <1>4, <2>1, <2>2, <2>8, <2>9, ReadAsShown
  <2>11. QED  BY <2>1, <2>10
<1>11. QED  BY <1>3, <1>5, <1>8, <1>9, <1>10 DEF FileSet

(* Any other file dentry is one whose set is cut off.                      *)
LEMMA OtherFiles ==
  ASSUME NEW g, Sound(g), NEW b, Sound(b), NEW names, Added(b, g, names), NEW w, NEW m, Half(m, g, b, w),
         NEW p \in FileSet(m), p \notin FileSet(g), p \notin AddedUpTo(b, g, w)
  PROVE  CutAt(m, p) /\ ~HeadAt(m, p)
<1>1. PICK n, e : n = Len(g) /\ e = End(g)
  OBVIOUS
<1>2. n \in Nat /\ e \in Nat \ {0} /\ e <= n + 1 /\ w \in Nat /\ g \in Seq(Dentry) /\ DOMAIN g = 1..n
  BY <1>1, EndIsFirst DEF Sound, EndOf, Half
<1>3. m \in Seq(Dentry) /\ Len(m) = n /\ Len(b) = n /\ b \in Seq(Dentry) /\ DOMAIN b = 1..n /\ DOMAIN m = 1..n
  BY <1>1 DEF Half, Sound
<1>4. p \in 1..n /\ IsFile(m[p])
  BY <1>3 DEF FileSet
<1>5. ~IsFile(g[p])
  BY <1>2, <1>4 DEF FileSet
<1>6. p <= w /\ m[p] = b[p]
  BY <1>1, <1>3, <1>4, <1>5 DEF Half
<1>7. p >= e
  <2>1. ASSUME p < e PROVE FALSE
    <3>1. p \in 1..End(g) - 1
      BY <1>1, <1>2, <1>4, <2>1
    <3>2. b[p] = g[p]
      BY <3>1 DEF Added
    <3>3. QED  BY <1>4, <1>5, <1>6, <3>2
  <2>2. QED  BY <1>2, <1>4, <2>1
<1>8. p \in FileSet(b)
  BY <1>3, <1>4, <1>6 DEF FileSet
<1>9. w < p + 2
  BY <1>1, <1>2, <1>4, <1>7, <1>8 DEF AddedUpTo
<1>10. ASSUME NEW k \in 1..n, k > w, k >= e PROVE ~m[k].used
  <2>1. ~g[k].used
    BY <1>1, <1>2, <1>10, SoundEnd
  <2>2. k \in 1..Len(b) /\ ~(k <= w)
    BY <1>2, <1>3, <1>10
  <2>3. QED  BY <2>1, <2>2 DEF Half
<1>11. CutAt(m, p)
  <2>1. SUFFICES ASSUME NEW k \in p + 1..n, m[k].used
                 PROVE  k = p + 1 /\ m[k].type = "stream"
    BY <1>3 DEF CutAt
  <2>2. k \in 1..n /\ k >= e
    BY <1>2, <1>4, <1>7
  <2>3. k <= w
    BY <1>2, <1>10, <2>1, <2>2
  <2>4. k = p + 1
    BY <1>2, <1>4, <1>9, <2>1, <2>3
  <2>5. m[k] = b[k]
    BY <1>3, <2>2, <2>3 DEF Half
  <2>6. b[p + 1].type = "stream"
    BY <1>8 DEF FileSet, Sound, SetAt
  <2>7. QED  BY <2>4, <2>5, <2>6
<1>12. ASSUME HeadAt(m, p) PROVE FALSE
  <2>1. p + 2 \in 1..n
    <3>1. m[p].name \in Name /\ p + Chunks[m[p].name] + 1 <= n
      BY <1>3, <1>12 DEF HeadAt
    <3>2. Chunks[m[p].name] \in Nat /\ Chunks[m[p].name] >= 1
      BY <3>1, ChunksArePositive
    <3>3. QED  BY <1>2, <1>4, <3>1, <3>2
  <2>2. ~m[p + 2].used
    BY <1>2, <1>4, <1>7, <1>9, <1>10, <2>1
  <2>3. QED  BY <1>12, <2>2 DEF HeadAt
<1>13. QED  BY <1>11, <1>12

(* So of the new files those are read whose heads are written.             *)
LEMMA HalfAdded ==
  ASSUME NEW g, Sound(g), NEW b, Sound(b), NEW names, Added(b, g, names), NEW w, NEW m, Half(m, g, b, w)
  PROVE  NamesOn(m) = {NameAt(g, p) : p \in FileSet(g)} \union {Shown[b[p].name] : p \in AddedUpTo(b, g, w)}
<1>1. Readable(m)
  <2>1. m \in Seq(Dentry)
    BY DEF Half
  <2>2. \A p \in FileSet(m) : HeadAt(m, p) \/ CutAt(m, p)
    BY OldHeads, NewHeads, OtherFiles
  <2>3. QED  BY <2>1, <2>2 DEF Readable
<1>2. Complete(m) = FileSet(g) \union AddedUpTo(b, g, w)
  BY OldHeads, NewHeads, OtherFiles DEF Complete
<1>3. NamesOn(m) = {NameAt(m, p) : p \in Complete(m)}
  BY <1>1, NamesRead
<1>4. \A p \in FileSet(g) : NameAt(m, p) = NameAt(g, p)
  BY OldHeads
<1>5. \A p \in AddedUpTo(b, g, w) : NameAt(m, p) = Shown[b[p].name]
  BY NewHeads
<1>6. QED  BY <1>2, <1>3, <1>4, <1>5

-----------------------------------------------------------------------------
(* While remove writes, the file it takes is read until its file dentry is *)
(* marked, and all the others are.                                         *)
SameDentry(d, x) == d.type = x.type /\ d.used = x.used /\ d.name = x.name /\ d.part = x.part

LEMMA SetStaysHead ==
  ASSUME NEW s, Sound(s), NEW q \in FileSet(s), NEW m \in Seq(Dentry), Len(m) = Len(s),
         SameDentry(m[q], s[q]), SameDentry(m[q + 1], s[q + 1]), SameDentry(m[q + 2], s[q + 2]),
         \A k \in q + 1..q + Chunks[s[q].name] + 1 : ~IsFile(m[k])
  PROVE  HeadAt(m, q)
<1>1. PICK c : c = Chunks[s[q].name]
  OBVIOUS
<1>2. SetAt(s, q) /\ c \in Nat \ {0} /\ q \in Nat
  BY <1>1, SetsInside DEF Sound, FileSet
<1>3. s[q + 2].type = "name" /\ s[q + 2].used
  <2>1. q + 2 \in q + 2..q + c + 1
    BY <1>2
  <2>2. QED  BY <1>1, <1>2, <2>1 DEF SetAt
<1>4. QED  BY <1>1, <1>2, <1>3 DEF HeadAt, SetAt, SameDentry

(* What is marked on disk by then.                                         *)
MarkedAt(m, g, p, w, k) ==
  /\ m[k].type = g[k].type /\ m[k].name = g[k].name /\ m[k].part = g[k].part
  /\ m[k].used => g[k].used
  /\ k \notin {p, p + 1, p + 2} \/ k > w => SameDentry(m[k], g[k])
  /\ IsFile(m[k]) <=> IsFile(g[k]) /\ ~(k = p /\ p <= w)

LEMMA HalfMarks ==
  ASSUME NEW g, Sound(g), NEW p \in FileSet(g), NEW b, DeletedBy(b, g, {p, p + 1, p + 2}),
         NEW w, NEW m, Half(m, g, b, w), NEW k \in 1..Len(g)
  PROVE  MarkedAt(m, g, p, w, k)
<1>1. PICK n, c : n = Len(g) /\ c = Chunks[g[p].name]
  OBVIOUS
<1>2. g \in Seq(Dentry) /\ n \in Nat /\ Len(b) = n /\ b \in Seq(Dentry) /\ w \in Nat /\ k \in Nat
      /\ p \in Nat /\ c \in Nat \ {0} /\ k \in 1..Len(b) /\ k \in 1..n
  <2>1. p \in Nat /\ c \in Nat \ {0}
    BY <1>1, SetsInside
  <2>2. g \in Seq(Dentry) /\ n \in Nat
    BY <1>1 DEF Sound
  <2>3. Len(b) = n /\ b \in Seq(Dentry) /\ w \in Nat
    BY <1>1 DEF DeletedBy, Half
  <2>4. QED  BY <1>1, <2>1, <2>2, <2>3
<1>3. m[k] = IF k <= w THEN b[k] ELSE g[k]
  BY <1>2 DEF Half
<1>4. /\ b[k].type = g[k].type /\ b[k].name = g[k].name /\ b[k].part = g[k].part
      /\ b[k].used <=> g[k].used /\ k \notin {p, p + 1, p + 2}
  BY DEF DeletedBy
<1>5. b[k].used \in BOOLEAN /\ g[k].used \in BOOLEAN
  <2>1. b[k] \in Dentry /\ g[k] \in Dentry
    BY <1>1, <1>2
  <2>2. QED  BY <2>1 DEF Dentry
<1>6. k \in {p + 1, p + 2} => ~IsFile(g[k])
  <2>1. ASSUME k \in {p + 1, p + 2} PROVE k \in p + 1..p + c + 1
    BY <1>2, <2>1
  <2>2. QED  BY <1>1, <2>1, NoFileInSet
<1>7. CASE k <= w
  <2>1. m[k] = b[k]
    BY <1>3, <1>7
  <2>2. /\ m[k].type = g[k].type /\ m[k].name = g[k].name /\ m[k].part = g[k].part
        /\ m[k].used => g[k].used
    BY <1>4, <2>1
  <2>3. k \notin {p, p + 1, p + 2} \/ k > w => SameDentry(m[k], g[k])
    <3>1. ~(k > w)
      BY <1>2, <1>7
    <3>2. ASSUME k \notin {p, p + 1, p + 2} PROVE SameDentry(m[k], g[k])
      BY <1>4, <1>5, <2>1, <3>2 DEF SameDentry
    <3>3. QED  BY <3>1, <3>2
  <2>4. IsFile(m[k]) <=> IsFile(g[k]) /\ k \notin {p, p + 1, p + 2}
    BY <1>4, <2>1 DEF IsFile
  <2>5. IsFile(m[k]) <=> IsFile(g[k]) /\ ~(k = p /\ p <= w)
    BY <1>6, <1>7, <2>4
  <2>6. QED  BY <2>2, <2>3, <2>5 DEF MarkedAt
<1>8. CASE ~(k <= w)
  <2>1. m[k] = g[k]
    BY <1>3, <1>8
  <2>2. ~(k = p /\ p <= w)
    BY <1>8
  <2>3. QED  BY <2>1, <2>2 DEF SameDentry, MarkedAt
<1>9. QED  BY <1>7, <1>8

(* The files there are by then.                                            *)
NotTaken(g, p, w) == {q \in FileSet(g) : ~(q = p /\ p <= w)}

LEMMA HalfFiles ==
  ASSUME NEW g, Sound(g), NEW p \in FileSet(g), NEW b, DeletedBy(b, g, {p, p + 1, p + 2}),
         NEW w, NEW m, Half(m, g, b, w)
  PROVE  FileSet(m) = NotTaken(g, p, w) /\ \A q \in FileSet(m) : NameAt(m, q) = NameAt(g, q)
<1>1. PICK n : n = Len(g)
  OBVIOUS
<1>2. DOMAIN m = 1..n /\ DOMAIN g = 1..n
  <2>1. Len(m) = n /\ m \in Seq(Dentry) /\ g \in Seq(Dentry)
    BY <1>1 DEF Half, DeletedBy, Sound
  <2>2. QED  BY <1>1, <2>1
<1>3. \A k \in 1..n : SameBytes(m[k], g[k]) /\ (IsFile(m[k]) <=> IsFile(g[k]) /\ ~(k = p /\ p <= w))
  <2>1. TAKE k \in 1..n
  <2>2. k \in 1..Len(g)
    BY <1>1
  <2>3. MarkedAt(m, g, p, w, k)
    BY <2>2, HalfMarks
  <2>4. QED  BY <2>3 DEF MarkedAt, SameBytes
<1>4. FileSet(m) = NotTaken(g, p, w)
  BY <1>2, <1>3 DEF FileSet, NotTaken
<1>5. ASSUME NEW k PROVE SameBytes(Dent(m, k), Dent(g, k))
  <2>1. CASE k \in 1..n
    BY <1>2, <1>3, <2>1, Zenon DEF Dent
  <2>2. CASE k \notin 1..n
    BY <1>2, <2>2, Zenon DEF Dent, SameBytes
  <2>3. QED  BY <2>1, <2>2
<1>6. ASSUME NEW q \in FileSet(m) PROVE NameAt(m, q) = NameAt(g, q)
  <2>1. m[q].name = g[q].name
    BY <1>2, <1>3 DEF FileSet, SameBytes
  <2>2. NameRead(m, q + 2, g[q].name) = NameRead(g, q + 2, g[q].name)
    BY <1>5, ReadSame
  <2>3. QED  BY <2>1, <2>2, Zenon DEF NameAt
<1>7. QED  BY <1>4, <1>6

LEMMA HalfHeads ==
  ASSUME NEW g, Sound(g), NEW p \in FileSet(g), NEW b, DeletedBy(b, g, {p, p + 1, p + 2}),
         NEW w, NEW m, Half(m, g, b, w), NEW q \in FileSet(m)
  PROVE  HeadAt(m, q)
<1>1. PICK n, c, x : n = Len(g) /\ c = Chunks[g[q].name] /\ x = Chunks[g[p].name]
  OBVIOUS
<1>2. q \in FileSet(g) /\ ~(q = p /\ p <= w)
  <2>1. q \in NotTaken(g, p, w)
    BY HalfFiles
  <2>2. QED  BY <2>1 DEF NotTaken
<1>3. m \in Seq(Dentry) /\ Len(m) = n /\ w \in Nat /\ n \in Nat
  BY <1>1 DEF Half, Sound
<1>4. q \in Nat \ {0} /\ c \in Nat \ {0} /\ p \in Nat \ {0} /\ x \in Nat \ {0}
  BY <1>1, <1>2, SetsInside
<1>5. q + c + 1 <= n
  <2>1. SetAt(g, q)
    BY <1>2 DEF FileSet, Sound
  <2>2. QED  BY <1>1, <2>1 DEF SetAt
<1>6. ASSUME NEW k \in {q, q + 1, q + 2} PROVE SameDentry(m[k], g[k])
  <2>1. k \in 1..n
    BY <1>3, <1>4, <1>5
  <2>2. k \notin {p, p + 1, p + 2} \/ k > w
    <3>1. CASE q < p
      <4>1. q + c + 1 < p
        BY <1>1, <1>2, <3>1, SetsApart
      <4>2. QED  BY <1>4, <4>1
    <3>2. CASE q = p
      BY <1>2, <1>3, <1>4, <3>2
    <3>3. CASE q > p
      <4>1. p + x + 1 < q
        BY <1>1, <1>2, <3>3, SetsApart
      <4>2. QED  BY <1>4, <4>1
    <3>4. QED  BY <1>4, <3>1, <3>2, <3>3
  <2>3. MarkedAt(m, g, p, w, k)
    BY <1>1, <2>1, HalfMarks
  <2>4. QED  BY <2>2, <2>3 DEF MarkedAt
<1>7. ASSUME NEW k \in q + 1..q + c + 1 PROVE ~IsFile(m[k])
  <2>1. k \in 1..n
    BY <1>3, <1>4, <1>5
  <2>2. ~IsFile(g[k])
    BY <1>1, <1>2, NoFileInSet
  <2>3. MarkedAt(m, g, p, w, k)
    BY <1>1, <2>1, HalfMarks
  <2>4. QED  BY <2>2, <2>3 DEF MarkedAt
<1>8. QED  BY <1>1, <1>2, <1>3, <1>6, <1>7, SetStaysHead

(* The names read while remove writes.                                     *)
LEMMA HalfTook ==
  ASSUME NEW g, Sound(g), NEW p \in FileSet(g), NEW b, DeletedBy(b, g, {p, p + 1, p + 2}),
         NEW w, NEW m, Half(m, g, b, w)
  PROVE  NamesOn(m) = {NameAt(g, q) : q \in NotTaken(g, p, w)}
<1>1. Readable(m)
  BY HalfHeads DEF Readable, Half
<1>2. Complete(m) = FileSet(m)
  BY HalfHeads DEF Complete
<1>3. NamesOn(m) = {NameAt(m, q) : q \in FileSet(m)}
  BY <1>1, <1>2, NamesRead
<1>4. FileSet(m) = NotTaken(g, p, w) /\ \A q \in FileSet(m) : NameAt(m, q) = NameAt(g, q)
  BY HalfFiles
<1>5. QED  BY <1>3, <1>4

(* Of a remove that finds no file there is nothing to write.               *)
LEMMA HalfNothing ==
  ASSUME NEW g, Sound(g), NEW w, NEW m, Half(m, g, g, w)
  PROVE  m = g
<1>1. g \in Seq(Dentry) /\ m \in Seq(Dentry) /\ Len(m) = Len(g) /\ \A k \in 1..Len(m) : m[k] = g[k]
  BY DEF Half, Sound
<1>2. QED  BY <1>1, SeqEqual

-----------------------------------------------------------------------------
(* What the abstract directory's variables are.                            *)
NamesNow == NamesOn(IF asked.op = "trim" THEN buf ELSE slots)
AddsNow == IF asked.op \in {"create", "fill"} THEN asked.names ELSE {}
TakesNow == IF asked.op = "remove" THEN UNION {Like(n) : n \in asked.names} ELSE {}

PromiseStep == [Promise!Next]_(Promise!dirVars)

LEMMA AskIs ==
  ASSUME AddsNow = {}, TakesNow = {}, AddsNow' \in SUBSET (Name \ NamesNow), TakesNow' \in SUBSET Name,
         AddsNow' = {} \/ TakesNow' = {}, NamesNow' = NamesNow
  PROVE  PromiseStep
<1>1. Promise!Ask
  BY Zenon DEF Promise!Ask, NamesNow, AddsNow, TakesNow
<1>2. QED  BY <1>1, Zenon DEF PromiseStep, Promise!Next

LEMMA WorkIs ==
  ASSUME NamesNow' \ NamesNow \subseteq AddsNow, NamesNow \ NamesNow' \subseteq TakesNow,
         AddsNow' = AddsNow, TakesNow' = TakesNow
  PROVE  PromiseStep
<1>1. Promise!Work
  BY Zenon DEF Promise!Work, NamesNow, AddsNow, TakesNow
<1>2. QED  BY <1>1, Zenon DEF PromiseStep, Promise!Next

LEMMA AnswerIs ==
  ASSUME AddsNow \subseteq NamesNow, TakesNow \intersect NamesNow = {}, AddsNow' = {}, TakesNow' = {},
         NamesNow' = NamesNow
  PROVE  PromiseStep
<1>1. Promise!Answer
  BY Zenon DEF Promise!Answer, NamesNow, AddsNow, TakesNow
<1>2. QED  BY <1>1, Zenon DEF PromiseStep, Promise!Next

LEMMA KillIs ==
  ASSUME AddsNow' = {}, TakesNow' = {}, NamesNow' = NamesNow
  PROVE  PromiseStep
<1>1. Promise!Kill
  BY Zenon DEF Promise!Kill, NamesNow, AddsNow, TakesNow
<1>2. QED  BY <1>1, Zenon DEF PromiseStep, Promise!Next

LEMMA IdleIsNothing ==
  ASSUME Idle
  PROVE  AddsNow = {} /\ TakesNow = {} /\ NamesNow = NamesOn(slots)
BY DEF Idle, AddsNow, TakesNow, NamesNow

LEMMA NextIsNothing ==
  ASSUME asked' = Nothing
  PROVE  AddsNow' = {} /\ TakesNow' = {} /\ NamesNow' = NamesOn(slots')
BY DEF Nothing, AddsNow, TakesNow, NamesNow

-----------------------------------------------------------------------------
LEMMA RefuseStutters ==
  ASSUME IInv, Idle, Refuse
  PROVE  PromiseStep
<1>1. slots' = slots /\ asked' = asked
  BY DEF Refuse
<1>2. AddsNow' = AddsNow /\ TakesNow' = TakesNow
  BY <1>1 DEF AddsNow, TakesNow
<1>3. asked.op # "trim"
  BY DEF Idle
<1>4. NamesNow' = NamesNow
  BY <1>1, <1>3 DEF NamesNow
<1>5. QED  BY <1>2, <1>4, WorkIs

(* The names that no file of the directory has the hash of are not there.  *)
LEMMA NewIsAbsent ==
  ASSUME IInv, Idle, NEW names, names \subseteq Name, \A n \in names : ~Known(n)
  PROVE  names \in SUBSET (Name \ NamesOn(slots))
<1>1. Sound(slots) /\ kids = FileNames(slots)
  BY DEF IInv, Resting
<1>2. \A n \in names : IsNew(slots, n)
  BY <1>1, KnownIs
<1>3. NamesOn(slots) = {NameAt(slots, p) : p \in FileSet(slots)}
  BY <1>1, SoundNames
<1>4. \A p \in FileSet(slots) : Hash[NameAt(slots, p)] = Hash[slots[p].name]
  BY <1>1, FileNamed
<1>5. QED  BY <1>2, <1>3, <1>4 DEF IsNew

LEMMA AddingAsks ==
  ASSUME IInv, Idle, NEW op \in {"create", "fill"}, NEW names, names \subseteq Name, \A n \in names : ~Known(n),
         NEW b, Begin(op, names, b), Sound(slots'), FileNames(slots') = FileNames(slots)
  PROVE  PromiseStep
<1>1. AddsNow = {} /\ TakesNow = {} /\ NamesNow = NamesOn(slots)
  BY IdleIsNothing
<1>2. asked' = [op |-> op, names |-> names]
  BY DEF Begin
<1>3. AddsNow' = names /\ TakesNow' = {} /\ NamesNow' = NamesOn(slots')
  BY <1>2 DEF AddsNow, TakesNow, NamesNow
<1>4. Sound(slots)
  BY DEF IInv, Resting
<1>5. NamesOn(slots') = NamesOn(slots)
  <2>1. PICK s : s = slots'
    OBVIOUS
  <2>2. Sound(s) /\ FileNames(s) = FileNames(slots)
    BY <2>1
  <2>3. QED  BY <1>4, <2>1, <2>2, SameNames
<1>6. names \in SUBSET (Name \ NamesNow)
  BY <1>1, NewIsAbsent
<1>7. QED  BY <1>1, <1>3, <1>5, <1>6, AskIs

-----------------------------------------------------------------------------
(* A command that begins changes no name on disk.                          *)
LEMMA BeginLeaves ==
  ASSUME IInv, Idle, IInv', NEW op \in Commands \ {"none"}, NEW names, NEW b, Begin(op, names, b)
  PROVE  /\ Sound(slots') /\ FileNames(slots') = FileNames(slots)
         /\ Sound(buf') /\ (op = "trim" => FileNames(buf') = FileNames(slots))
<1>1. kids = FileNames(slots)
  BY DEF IInv, Resting
<1>2. asked' = [op |-> op, names |-> names] /\ at' = 1 /\ kids' = kids
  BY DEF Begin
<1>3. asked'.op = op /\ ~Idle'
  BY <1>2 DEF Idle
<1>4. PICK old : Working(old)'
  BY <1>3 DEF IInv
<1>5. /\ Sound(old) /\ Sound(buf') /\ Len(old) = Len(buf') /\ kids' = FileNames(old)
      /\ Change(old, buf', asked') /\ slots' = Mix(old, buf', at')
  BY <1>4 DEF Working
<1>6. slots' = old
  BY <1>2, <1>5, MixBegins
<1>7. op = "trim" => FileNames(buf') = FileNames(old)
  BY <1>3, <1>5 DEF Change
<1>8. QED  BY <1>1, <1>2, <1>5, <1>6, <1>7

LEMMA CreateAsks ==
  ASSUME IInv, IInv', NEW n \in Name, Create(n)
  PROVE  PromiseStep
<1>1. Idle
  BY DEF Create
<1>2. CASE Known(n)
  <2>1. Refuse
    BY <1>2 DEF Create
  <2>2. QED  BY <1>1, <2>1, RefuseStutters
<1>3. CASE ~Known(n)
  <2>1. \E b : Begin("create", {Shown[n]}, b)
    BY <1>3, Zenon DEF Create
  <2>2. PICK b : Begin("create", {Shown[n]}, b)
    BY <2>1
  <2>3. "create" \in Commands \ {"none"} /\ "create" \in {"create", "fill"} /\ {Shown[n]} \subseteq Name
    BY ShownIsLike DEF Commands
  <2>4. Sound(slots') /\ FileNames(slots') = FileNames(slots)
    BY <1>1, <2>2, <2>3, BeginLeaves
  <2>5. \A m \in {Shown[n]} : ~Known(m)
    BY <1>3, ShownIsLike DEF Known
  <2>6. QED  BY <1>1, <2>2, <2>3, <2>4, <2>5, AddingAsks
<1>4. QED  BY <1>2, <1>3

LEMMA FillAsks ==
  ASSUME IInv, IInv', NEW count \in Counts, Fill(count)
  PROVE  PromiseStep
<1>1. Idle
  BY DEF Fill
<1>2. PICK i, need : i = End(slots) /\ need = count - i + 1
  OBVIOUS
<1>3. CASE i > count
  <2>1. Refuse
    BY <1>2, <1>3 DEF Fill
  <2>2. QED  BY <1>1, <2>1, RefuseStutters
<1>4. CASE ~(i > count)
  <2>1. \E s \in Grown(Clusters(count)), new \in [1..need \div 3 -> Random] :
             /\ \A j, k \in DOMAIN new : Hash[new[j]] = Hash[new[k]] => j = k
             /\ \A k \in DOMAIN new : ~Known(new[k])
             /\ slots' = s
             /\ Begin("fill", {new[k] : k \in DOMAIN new}, Filled(s, i, new, need))
    BY <1>2, <1>4, Zenon DEF Fill
  <2>2. PICK s \in Grown(Clusters(count)), new \in [1..need \div 3 -> Random] :
             /\ \A k \in DOMAIN new : ~Known(new[k])
             /\ Begin("fill", {new[k] : k \in DOMAIN new}, Filled(s, i, new, need))
    BY <2>1, Zenon
  <2>3. PICK names, b : names = {new[k] : k \in DOMAIN new} /\ b = Filled(s, i, new, need)
    OBVIOUS
  <2>4. Begin("fill", names, b)
    BY <2>2, <2>3
  <2>5. \A k \in DOMAIN new : new[k] \in Name
    BY DentriesAssumption DEF DentriesAssumption
  <2>6. names \subseteq Name /\ \A m \in names : ~Known(m)
    BY <2>2, <2>3, <2>5
  <2>7. "fill" \in Commands \ {"none"} /\ "fill" \in {"create", "fill"}
    BY DEF Commands
  <2>8. Sound(slots') /\ FileNames(slots') = FileNames(slots)
    BY <1>1, <2>4, <2>7, BeginLeaves
  <2>9. QED  BY <1>1, <2>4, <2>6, <2>7, <2>8, AddingAsks
<1>5. QED  BY <1>3, <1>4

LEMMA RemoveAsks ==
  ASSUME IInv, IInv', NEW n \in Name, RemoveName(n)
  PROVE  PromiseStep
<1>1. Idle
  BY DEF RemoveName
<1>2. CASE ~Known(n)
  <2>1. Refuse
    BY <1>2 DEF RemoveName
  <2>2. QED  BY <1>1, <2>1, RefuseStutters
<1>3. CASE Known(n)
  <2>1. \E b : Begin("remove", {n}, b) /\ slots' = slots
    BY <1>3, Zenon DEF RemoveName
  <2>2. asked' = [op |-> "remove", names |-> {n}] /\ slots' = slots
    BY <2>1 DEF Begin
  <2>3. AddsNow = {} /\ TakesNow = {} /\ NamesNow = NamesOn(slots)
    BY <1>1, IdleIsNothing
  <2>4. AddsNow' = {} /\ NamesNow' = NamesOn(slots) /\ TakesNow' = UNION {Like(m) : m \in {n}}
    BY <2>2 DEF AddsNow, NamesNow, TakesNow
  <2>5. TakesNow' \in SUBSET Name
    BY <2>4 DEF Like
  <2>6. QED  BY <2>3, <2>4, <2>5, AskIs
<1>4. QED  BY <1>2, <1>3

(* From here on the names are those of the buffer.                         *)
LEMMA TrimStutters ==
  ASSUME IInv, IInv', Trim
  PROVE  PromiseStep
<1>1. Idle /\ \E b : Begin("trim", {}, b)
  BY Zenon DEF Trim
<1>2. PICK b : Begin("trim", {}, b)
  BY <1>1
<1>3. "trim" \in Commands \ {"none"}
  BY DEF Commands
<1>4. Sound(buf') /\ FileNames(buf') = FileNames(slots)
  BY <1>1, <1>2, <1>3, BeginLeaves
<1>5. Sound(slots)
  BY <1>1 DEF IInv, Resting
<1>6. NamesOn(buf') = NamesOn(slots)
  <2>1. PICK s : s = buf'
    OBVIOUS
  <2>2. Sound(s) /\ FileNames(s) = FileNames(slots)
    BY <1>4, <2>1
  <2>3. QED  BY <1>5, <2>1, <2>2, SameNames
<1>7. asked'.op = "trim"
  BY <1>2 DEF Begin
<1>8. AddsNow' = {} /\ TakesNow' = {} /\ NamesNow' = NamesOn(buf')
  BY <1>7 DEF AddsNow, TakesNow, NamesNow
<1>9. AddsNow = {} /\ TakesNow = {} /\ NamesNow = NamesOn(slots)
  BY <1>1, IdleIsNothing
<1>10. QED  BY <1>6, <1>8, <1>9, WorkIs

-----------------------------------------------------------------------------
(* Each cluster that is written does a part of what was asked.             *)
LEMMA HalvesAdd ==
  ASSUME NEW g, Sound(g), NEW b, Sound(b), NEW names, Added(b, g, names),
         NEW w \in Nat, NEW x \in Nat, w <= x, NEW m, Half(m, g, b, w), NEW z, Half(z, g, b, x)
  PROVE  NamesOn(z) \ NamesOn(m) \subseteq names /\ NamesOn(m) \subseteq NamesOn(z)
<1>1. NamesOn(m) = {NameAt(g, p) : p \in FileSet(g)} \union {Shown[b[p].name] : p \in AddedUpTo(b, g, w)}
  BY HalfAdded
<1>2. NamesOn(z) = {NameAt(g, p) : p \in FileSet(g)} \union {Shown[b[p].name] : p \in AddedUpTo(b, g, x)}
  BY HalfAdded
<1>3. AddedUpTo(b, g, w) \subseteq AddedUpTo(b, g, x)
  <2>1. \A p \in FileSet(b) : p \in Nat
    BY SetsInside
  <2>2. QED  BY <2>1 DEF AddedUpTo
<1>4. \A p \in AddedUpTo(b, g, x) : Shown[b[p].name] \in names
  <2>1. TAKE p \in AddedUpTo(b, g, x)
  <2>2. p \in FileSet(b) /\ p >= End(g) /\ IsFile(b[p]) /\ p \in 1..Len(g)
    BY DEF AddedUpTo, FileSet, Added, Sound
  <2>3. End(g) \in Nat
    BY EndIsFirst DEF Sound, EndOf
  <2>4. p \in End(g)..Len(g)
    BY <2>2, <2>3
  <2>5. QED  BY <2>2, <2>4 DEF Added
<1>5. QED  BY <1>1, <1>2, <1>3, <1>4

LEMMA HalvesTake ==
  ASSUME NEW g, Sound(g), NEW b, NEW n, Took(b, g, n),
         NEW w \in Nat, NEW x \in Nat, w <= x, NEW m, Half(m, g, b, w), NEW z, Half(z, g, b, x)
  PROVE  NamesOn(m) \ NamesOn(z) \subseteq Like(n) /\ NamesOn(z) \subseteq NamesOn(m)
<1>1. ASSUME Wanted(g, n) = {}, b = g PROVE m = z
  BY <1>1, HalfNothing
<1>2. ASSUME NEW p \in Wanted(g, n), DeletedBy(b, g, {p, p + 1, p + 2})
      PROVE  NamesOn(m) \ NamesOn(z) \subseteq Like(n) /\ NamesOn(z) \subseteq NamesOn(m)
  <2>1. p \in FileSet(g) /\ Alike(g, n, p)
    BY DEF Wanted
  <2>2. p \in Nat
    BY <2>1, SetsInside
  <2>3. NamesOn(m) = {NameAt(g, q) : q \in NotTaken(g, p, w)}
    BY <1>2, <2>1, HalfTook
  <2>4. NamesOn(z) = {NameAt(g, q) : q \in NotTaken(g, p, x)}
    BY <1>2, <2>1, HalfTook
  <2>5. NotTaken(g, p, x) \subseteq NotTaken(g, p, w)
    BY <2>2 DEF NotTaken
  <2>6. NotTaken(g, p, w) \subseteq NotTaken(g, p, x) \union {p}
    BY DEF NotTaken
  <2>7. NameAt(g, p) \in Like(n)
    BY <2>1, FileNamed DEF Like, Alike
  <2>8. QED  BY <2>3, <2>4, <2>5, <2>6, <2>7
<1>3. QED  BY <1>1, <1>2 DEF Took

-----------------------------------------------------------------------------
LEMMA WriteWorks ==
  ASSUME IInv, Write
  PROVE  PromiseStep
<1>1. TypeOK /\ ~Idle
  BY DEF IInv, Write
<1>2. PICK old : Working(old)
  BY <1>1 DEF IInv
<1>3. at' = at + 1 /\ buf' = buf /\ asked' = asked /\ slots' = Mix(old, buf, at + 1)
  BY <1>1, <1>2, WriteMixes DEF Write
<1>4. Sound(old) /\ Sound(buf) /\ Len(old) = Len(buf) /\ slots = Mix(old, buf, at) /\ Change(old, buf, asked)
  BY <1>2 DEF Working
<1>5. AddsNow' = AddsNow /\ TakesNow' = TakesNow
  BY <1>3 DEF AddsNow, TakesNow
<1>6. asked.op \in {"create", "remove", "trim", "fill"}
  BY <1>1 DEF TypeOK, Idle, Commands
<1>7. at \in Nat \ {0} /\ at + 1 \in Nat \ {0}
  BY <1>1 DEF TypeOK, Idle
<1>8. PICK c, w, x : c = at /\ w = (at - 1) * PerCluster /\ x = at * PerCluster
  OBVIOUS
<1>9. Half(slots, old, buf, w)
  BY <1>4, <1>7, <1>8, MixIsHalf
<1>10. Half(slots', old, buf, x)
  <2>1. c + 1 \in Nat \ {0} /\ (c + 1) - 1 = c
    BY <1>7, <1>8
  <2>2. Half(Mix(old, buf, c + 1), old, buf, ((c + 1) - 1) * PerCluster)
    BY <1>4, <2>1, MixIsHalf
  <2>3. QED  BY <1>3, <1>8, <2>1, <2>2
<1>11. w \in Nat /\ x \in Nat /\ w <= x
  <2>1. w \in Nat /\ x \in Nat
    BY <1>9, <1>10 DEF Half
  <2>2. PICK p, d : p = PerCluster /\ d = c - 1
    OBVIOUS
  <2>3. p \in Nat \ {0} /\ c \in Int /\ d \in Int /\ d <= c
    BY <1>7, <1>8, <2>2, PerClusterIsPositive
  <2>4. d * p <= c * p
    BY ONLY <2>3, Products
  <2>5. QED  BY <1>8, <2>1, <2>2, <2>4
<1>12. PICK z : z = slots'
  OBVIOUS
<1>13. Half(z, old, buf, x)
  BY <1>10, <1>12
<1>14. CASE asked.op \in {"create", "fill"}
  <2>1. Added(buf, old, asked.names)
    BY <1>4, <1>14 DEF Change
  <2>2. NamesOn(z) \ NamesOn(slots) \subseteq asked.names /\ NamesOn(slots) \subseteq NamesOn(z)
    BY <1>4, <1>9, <1>11, <1>13, <2>1, HalvesAdd
  <2>3. AddsNow = asked.names /\ NamesNow = NamesOn(slots) /\ NamesNow' = NamesOn(z)
    BY <1>3, <1>12, <1>14 DEF AddsNow, NamesNow
  <2>4. NamesNow' \ NamesNow \subseteq AddsNow /\ NamesNow \ NamesNow' \subseteq TakesNow
    BY <2>2, <2>3
  <2>5. QED  BY <1>5, <2>4, WorkIs
<1>15. CASE asked.op = "remove"
  <2>1. PICK n \in Name : asked.names = {n} /\ Took(buf, old, n)
    BY <1>4, <1>15 DEF Change
  <2>2. NamesOn(slots) \ NamesOn(z) \subseteq Like(n) /\ NamesOn(z) \subseteq NamesOn(slots)
    BY <1>4, <1>9, <1>11, <1>13, <2>1, HalvesTake
  <2>3. TakesNow = Like(n) /\ NamesNow = NamesOn(slots) /\ NamesNow' = NamesOn(z)
    BY <1>3, <1>12, <1>15, <2>1 DEF TakesNow, NamesNow
  <2>4. NamesNow' \ NamesNow \subseteq AddsNow /\ NamesNow \ NamesNow' \subseteq TakesNow
    BY <2>2, <2>3
  <2>5. QED  BY <1>5, <2>4, WorkIs
<1>16. CASE asked.op = "trim"
  <2>1. NamesNow' = NamesNow
    BY <1>3, <1>16 DEF NamesNow
  <2>2. QED  BY <1>5, <2>1, WorkIs
<1>17. QED  BY <1>6, <1>14, <1>15, <1>16

-----------------------------------------------------------------------------
(* A directory to which names were added has them.                         *)
LEMMA AddedThere ==
  ASSUME NEW g, Sound(g), NEW b, Sound(b), NEW names, Added(b, g, names)
  PROVE  names \subseteq NamesOn(b)
<1>1. NamesOn(b) = {NameAt(b, p) : p \in FileSet(b)}
  BY SoundNames
<1>2. SUFFICES ASSUME NEW n \in names PROVE n \in NamesOn(b)
  OBVIOUS
<1>3. PICK k \in End(g)..Len(g) : IsFile(b[k]) /\ Shown[b[k].name] = n
  BY DEF Added
<1>4. k \in DOMAIN b
  <2>1. End(g) \in 1..Len(g) + 1 /\ Len(g) \in Nat
    BY EndIsFirst DEF Sound, EndOf
  <2>2. DOMAIN b = 1..Len(g)
    BY DEF Added
  <2>3. QED  BY <2>1, <2>2
<1>5. NameAt(b, k) = n
  <2>1. SetAt(b, k) /\ Made(b, k) /\ b \in Seq(Dentry)
    BY <1>3 DEF Added
  <2>2. QED  BY <1>3, <1>4, <2>1, MadeIsShown
<1>6. QED  BY <1>1, <1>3, <1>4, <1>5 DEF FileSet

(* One from which a name was taken has none like it.                       *)
LEMMA TakenGone ==
  ASSUME NEW g, Sound(g), NEW b, Sound(b), NEW n \in Name, Took(b, g, n)
  PROVE  Like(n) \intersect NamesOn(b) = {}
<1>1. NamesOn(b) = {NameAt(b, p) : p \in FileSet(b)}
  BY SoundNames
<1>2. SUFFICES ASSUME NEW q \in FileSet(b), NameAt(b, q) \in Like(n) PROVE FALSE
  BY <1>1
<1>3. Hash[b[q].name] = Hash[n] /\ Seen[b[q].name] = Seen[n]
  BY <1>2, FileNamed DEF Like
<1>4. ASSUME Wanted(g, n) = {}, b = g PROVE FALSE
  BY <1>3, <1>4 DEF Wanted, Alike
<1>5. ASSUME NEW p \in Wanted(g, n), DeletedBy(b, g, {p, p + 1, p + 2}) PROVE FALSE
  <2>1. p \in FileSet(g)
    BY DEF Wanted
  <2>2. FileSet(b) = FileSet(g) \ {p}
    BY <1>5, <2>1, DeletedSound
  <2>3. q \in FileSet(g) /\ q # p /\ q \in 1..Len(g)
    BY <2>2 DEF FileSet, Sound
  <2>4. b[q].name = g[q].name
    BY <1>5, <2>3 DEF DeletedBy
  <2>5. q \in Wanted(g, n)
    BY <1>3, <2>3, <2>4 DEF Wanted, Alike
  <2>6. Wanted(g, n) = {p}
    BY <1>5, WantedIsOne
  <2>7. QED  BY <2>3, <2>5, <2>6
<1>6. QED  BY <1>4, <1>5 DEF Took

LEMMA ReturnAnswers ==
  ASSUME IInv, Return
  PROVE  PromiseStep
<1>1. TypeOK /\ ~Idle /\ at > Size /\ asked' = Nothing
  BY DEF IInv, Return, Nothing
<1>2. PICK old : Working(old)
  BY <1>1 DEF IInv
<1>3. slots = buf
  BY <1>1, <1>2, AllWritten
<1>4. Sound(old) /\ Sound(buf) /\ Change(old, buf, asked)
  BY <1>2 DEF Working
<1>5. AddsNow' = {} /\ TakesNow' = {} /\ NamesNow' = NamesOn(slots')
  BY <1>1, NextIsNothing
<1>6. NamesNow = NamesOn(buf)
  BY <1>3 DEF NamesNow
<1>7. asked.op \in {"create", "remove", "trim", "fill"}
  BY <1>1 DEF TypeOK, Idle, Commands
<1>8. CASE asked.op \in {"create", "fill"}
  <2>1. slots' = slots
    BY <1>8 DEF Return
  <2>2. asked.names \subseteq NamesOn(buf)
    BY <1>4, <1>8, AddedThere DEF Change
  <2>3. AddsNow = asked.names /\ TakesNow = {}
    BY <1>8 DEF AddsNow, TakesNow
  <2>4. QED  BY <1>3, <1>5, <1>6, <2>1, <2>2, <2>3, AnswerIs
<1>9. CASE asked.op = "remove"
  <2>1. slots' = slots
    BY <1>9 DEF Return
  <2>2. PICK n \in Name : asked.names = {n} /\ Took(buf, old, n)
    BY <1>4, <1>9 DEF Change
  <2>3. Like(n) \intersect NamesOn(buf) = {}
    BY <1>4, <2>2, TakenGone
  <2>4. AddsNow = {} /\ TakesNow = Like(n)
    BY <1>9, <2>2 DEF AddsNow, TakesNow
  <2>5. QED  BY <1>3, <1>5, <1>6, <2>1, <2>3, <2>4, AnswerIs
<1>10. CASE asked.op = "trim"
  <2>1. slots' = SubSeq(slots, 1, Kept(slots) * PerCluster)
    BY <1>10 DEF Return
  <2>2. PICK L : Packed(slots, L)
    BY <1>3, <1>4, <1>10 DEF Change
  <2>3. PICK t : t = slots'
    OBVIOUS
  <2>4. Extends(slots, t) /\ Sound(t) /\ Sound(slots)
    BY <1>1, <1>3, <1>4, <2>1, <2>2, <2>3, TrimCuts
  <2>5. FileNames(slots) = FileNames(t)
    BY <2>4, ExtendedSame
  <2>6. NamesOn(slots) = NamesOn(t)
    BY <2>4, <2>5, SameNames
  <2>7. AddsNow = {} /\ TakesNow = {}
    BY <1>10 DEF AddsNow, TakesNow
  <2>8. QED  BY <1>3, <1>5, <1>6, <2>3, <2>6, <2>7, AnswerIs
<1>11. QED  BY <1>7, <1>8, <1>9, <1>10

(* A kill ends the command, and what was done of it stays.                 *)
LEMMA WholeIsNamed ==
  ASSUME IInv, Whole
  PROVE  NamesNow = NamesOn(slots)
<1>1. CASE asked.op # "trim"
  BY <1>1 DEF NamesNow
<1>2. CASE asked.op = "trim"
  <2>1. TypeOK /\ ~Idle
    BY <1>2 DEF IInv, Idle
  <2>2. PICK old : Working(old)
    BY <2>1 DEF IInv
  <2>3. /\ Sound(old) /\ Sound(buf) /\ Len(old) = Len(buf) /\ slots = Mix(old, buf, at)
        /\ FileNames(buf) = FileNames(old)
    BY <1>2, <2>2 DEF Working, Change
  <2>4. NamesNow = NamesOn(buf)
    BY <1>2 DEF NamesNow
  <2>5. at \in Nat \ {0}
    BY <2>1 DEF TypeOK, Idle
  <2>6. CASE at = 1
    <3>1. slots = old
      BY <2>3, <2>6, MixBegins
    <3>2. NamesOn(buf) = NamesOn(old)
      BY <2>3, SameNames
    <3>3. QED  BY <2>4, <3>1, <3>2
  <2>7. CASE at > 1
    <3>1. PICK n, c : n = Len(buf) /\ c = at
      OBVIOUS
    <3>2. n \in Nat /\ Len(slots) = n /\ DOMAIN slots = 1..n
          /\ \A k \in 1..n : slots[k] = IF Clusters(k) < c THEN buf[k] ELSE old[k]
      <4>1. n \in Nat /\ slots = Mix(old, buf, c)
        BY <2>3, <3>1 DEF Sound
      <4>2. Len(slots) = n /\ slots \in Seq(Dentry)
            /\ \A k \in 1..n : slots[k] = IF Clusters(k) < c THEN buf[k] ELSE old[k]
        BY <2>3, <3>1, <4>1, MixIsSeq
      <4>3. QED  BY <4>1, <4>2
    <3>3. ASSUME NEW k \in 1..n PROVE Clusters(k) < c \/ old[k] = buf[k]
      <4>1. Clusters(k) \in Nat
        BY ClustersOf
      <4>2. CASE Clusters(k) >= c
        BY <2>5, <2>7, <3>1, <3>2, <4>1, <4>2 DEF Whole
      <4>3. QED  BY <2>5, <3>1, <4>1, <4>2
    <3>4. slots = buf
      BY <2>3, <3>1, <3>3, MixEnds
    <3>5. QED  BY <2>4, <3>4
  <2>8. QED  BY <2>5, <2>6, <2>7
<1>3. QED  BY <1>1, <1>2

LEMMA KillStops ==
  ASSUME IInv, Whole, Kill
  PROVE  PromiseStep
<1>1. asked' = Nothing /\ slots' = slots
  BY DEF Kill, Nothing
<1>2. AddsNow' = {} /\ TakesNow' = {} /\ NamesNow' = NamesOn(slots')
  BY <1>1, NextIsNothing
<1>3. NamesNow' = NamesNow
  BY <1>1, <1>2, WholeIsNamed
<1>4. QED  BY <1>2, <1>3, KillIs

LEMMA NothingDone ==
  ASSUME UNCHANGED vars
  PROVE  PromiseStep
<1>1. slots' = slots /\ buf' = buf /\ asked' = asked
  BY DEF vars
<1>2. AddsNow' = AddsNow /\ TakesNow' = TakesNow /\ NamesNow' = NamesNow
  BY <1>1 DEF AddsNow, TakesNow, NamesNow
<1>3. QED  BY <1>2, WorkIs

LEMMA BeginsAsPromised ==
  ASSUME Init
  PROVE  Promise!Init
<1>1. IInv /\ Idle
  BY InitHolds DEF Init, Idle, Nothing
<1>2. AddsNow = {} /\ TakesNow = {} /\ NamesNow = NamesOn(slots)
  BY <1>1, IdleIsNothing
<1>3. NamesNow \subseteq Name
  BY <1>1, <1>2, SoundNames DEF IInv, Resting
<1>4. QED  BY <1>2, <1>3, Zenon DEF Promise!Init, Promise!TypeOK, AddsNow, TakesNow, NamesNow

(* Each careful step is one of the abstract directory, or changes no name. *)
LEMMA StepsAsPromised ==
  ASSUME Zeroed, IInv, [CarefulNext]_vars
  PROVE  PromiseStep
<1>1. IInv'
  BY NextKeeps
<1>a. Given \subseteq Name
  BY DentriesAssumption DEF DentriesAssumption
<1>2. ASSUME NEW n \in Given, Create(n) PROVE PromiseStep
  BY <1>a, <1>1, <1>2, CreateAsks
<1>3. ASSUME NEW n \in Given, RemoveName(n) PROVE PromiseStep
  BY <1>a, <1>1, <1>3, RemoveAsks
<1>4. CASE Trim
  BY <1>1, <1>4, TrimStutters
<1>5. ASSUME NEW count \in Counts, Fill(count) PROVE PromiseStep
  BY <1>1, <1>5, FillAsks
<1>6. CASE Write
  BY <1>6, WriteWorks
<1>7. CASE Return
  BY <1>7, ReturnAnswers
<1>8. CASE Whole /\ Kill
  BY <1>8, KillStops
<1>9. CASE UNCHANGED vars
  BY <1>9, NothingDone
<1>10. QED
  BY <1>2, <1>3, <1>4, <1>5, <1>6, <1>7, <1>8, <1>9, Zenon DEF CarefulNext, Command

(* The commands add and take the names they were asked for, and no others, *)
(* cluster by cluster; a kill leaves what was done.  A name of more than   *)
(* 15 letters is added as the one it is read back as (Shown), because only *)
(* the first of its name dentries gets text of it.                         *)
THEOREM DirectoryImplemented == CarefulSpec => ImplementsDirectory
<1>1. Init => Promise!Init
  BY BeginsAsPromised
<1>2. Zeroed /\ IInv /\ [CarefulNext]_vars => [Promise!Next]_(Promise!dirVars)
  BY StepsAsPromised DEF PromiseStep
<1>3. SUFFICES ASSUME Zeroed PROVE CarefulSpec => Promise!Spec
  BY DEF CarefulSpec, ImplementsDirectory
<1>4. QED  BY <1>1, <1>2, <1>3, NamesInvariant, PTL DEF CarefulSpec, Promise!Spec

===============================================================================
