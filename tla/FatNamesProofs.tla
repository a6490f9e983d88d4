---------------------------- MODULE FatNamesProofs ----------------------------
(***************************************************************************)
(* What the commands of the program do to the names in a FAT directory, in *)
(* clusters or in the fixed root, proved for every directory that was in   *)
(* order, all names whose short forms and checksums tell them apart, and   *)
(* clusters of every size, with the program killed wherever that tears no  *)
(* set.                                                                    *)
(*                                                                         *)
(* First what traverse reads and remove marks in a directory in order.     *)
(* Then what each command makes of one: create, fill and remove a          *)
(* directory in order with the names they were asked for, or without, and  *)
(* trim one with the same names in the same order, since it moves a long   *)
(* name together with its file.  The inductive invariant is IInv.          *)
(***************************************************************************)
EXTENDS FatNames, InductionLemmas

(* The least of a set of numbers is one of them.                           *)
LEMMA MinIsLeast ==
  ASSUME NEW S, S \subseteq Nat, S # {}
  PROVE  Min(S) \in S /\ \A y \in S : Min(S) <= y
<1>1. \E x \in S : \A y \in S : x <= y
  BY LeastExists
<1>2. QED  BY <1>1 DEF Min

(* Where the unused dentries begin.                                        *)
EndOf(s, e) ==
  /\ e \in 1..(Len(s) + 1)
  /\ \A k \in 1..(e - 1) : s[k].type # "unused"
  /\ e <= Len(s) => s[e].type = "unused"

LEMMA EndIsFirst ==
  ASSUME NEW s \in Seq(Dentry)
  PROVE  EndOf(s, End(s))
<1> DEFINE I == {i \in 1..Len(s) : s[i].type = "unused"}
<1>1. Len(s) \in Nat /\ I \subseteq 1..Len(s) /\ I \subseteq Nat
  OBVIOUS
<1>2. End(s) = LET i == IF I # {} THEN Min(I) ELSE 0 IN IF i = 0 THEN Len(s) + 1 ELSE i
  BY Zenon DEF End, SelectInSeq
<1>3. CASE I = {}
  <2>1. End(s) = Len(s) + 1
    BY <1>2, <1>3
  <2>2. \A k \in 1..Len(s) : s[k].type # "unused"
    BY <1>3
  <2>3. QED  BY <1>1, <2>1, <2>2 DEF EndOf
<1>4. CASE I # {}
  <2>1. Min(I) \in I /\ \A y \in I : Min(I) <= y
    BY <1>1, <1>4, MinIsLeast
  <2>2. PICK m : m = Min(I)
    OBVIOUS
  <2>3. m \in 1..Len(s) /\ s[m].type = "unused"
    BY <2>1, <2>2
  <2>4. \A k \in 1..(m - 1) : s[k].type # "unused"
    BY <2>1, <2>2, <2>3
  <2>5. End(s) = m
    <3>1. m # 0
      BY <2>3
    <3>2. QED  BY <1>2, <1>4, <2>2, <3>1, Zenon
  <2>6. QED  BY <1>1, <2>3, <2>4, <2>5 DEF EndOf
<1>5. QED  BY <1>3, <1>4

(* It is the only place with that property.                                *)
LEMMA EndIsOnly ==
  ASSUME NEW s \in Seq(Dentry), NEW e, EndOf(s, e)
  PROVE  End(s) = e
<1>1. EndOf(s, End(s))
  BY EndIsFirst
<1>2. Len(s) \in Nat
  OBVIOUS
<1>3. PICK x : x = End(s)
  OBVIOUS
<1>4. EndOf(s, x)
  BY <1>1, <1>3
<1>5. x = e
  BY <1>2, <1>4 DEF EndOf
<1>6. QED  BY <1>3, <1>5

-----------------------------------------------------------------------------
(* What it is for a directory to be in order, place by place.              *)
LinkedAt(s, k) ==
  /\ k + 1 \in DOMAIN s
  /\ s[k].ord \in Nat \ {0}
  /\ s[k].ord = 1 => s[k + 1].type = "short"
  /\ s[k].ord # 1 => /\ s[k + 1].type = "long" /\ s[k + 1].name = s[k].name
                     /\ s[k + 1].ord = s[k].ord - 1 /\ s[k + 1].sum = s[k].sum

SoundBy(s) ==
  /\ s \in Seq(Dentry)
  /\ \A k \in DOMAIN s : s[k].type = "long" => LinkedAt(s, k)
  /\ \A k, j \in DOMAIN s : k <= j /\ s[k].type = "unused" => s[j].type = "unused"
  /\ \A k \in DOMAIN s : s[k].type \in {"short", "long"} => s[k].name \in Name

LEMMA UnusedIsDentry == Unused \in Dentry /\ Unused.type = "unused" /\ Unused.ord = 0
BY DEF Unused, Dentry

LEMMA FollowedIsLinked ==
  ASSUME NEW s \in Seq(Dentry), NEW k \in DOMAIN s, s[k].type = "long"
  PROVE  Followed(s, k) <=> LinkedAt(s, k)
<1>1. PICK d, n, o : d = s[k] /\ n = Dent(s, k + 1) /\ o = s[k].ord
  OBVIOUS
<1>2. d \in Dentry /\ o = d.ord /\ o \in Nat /\ d.type = "long"
  <2>1. s[k] \in Dentry
    OBVIOUS
  <2>2. QED  BY <1>1, <2>1 DEF Dentry
<1>3. Followed(s, k) <=> IF o = 1 THEN n.type = "short" ELSE n = [d EXCEPT !.ord = o - 1]
  BY <1>1 DEF Followed
<1>4. CASE k + 1 \in DOMAIN s
  <2>1. n = s[k + 1] /\ n \in Dentry
    BY <1>1, <1>4 DEF Dent
  <2>2. CASE o = 1
    BY <1>1, <1>3, <1>4, <2>1, <2>2 DEF LinkedAt
  <2>3. CASE o # 1
    <3>1. ASSUME n = [d EXCEPT !.ord = o - 1]
          PROVE  o # 0 /\ n.type = "long" /\ n.name = d.name /\ n.ord = o - 1 /\ n.sum = d.sum
      <4>1. n.type = d.type /\ n.name = d.name /\ n.ord = o - 1 /\ n.sum = d.sum
        BY <1>2, <3>1 DEF Dentry
      <4>2. n.ord \in Nat
        BY <2>1 DEF Dentry
      <4>3. QED  BY <1>2, <4>1, <4>2
    <3>2. ASSUME n.type = "long", n.name = d.name, n.ord = o - 1, n.sum = d.sum
          PROVE  n = [d EXCEPT !.ord = o - 1]
      <4>1. n = [type |-> n.type, name |-> n.name, ord |-> n.ord, sum |-> n.sum]
        BY <2>1 DEF Dentry
      <4>2. [d EXCEPT !.ord = o - 1] = [type |-> d.type, name |-> d.name, ord |-> o - 1, sum |-> d.sum]
        BY <1>2, SMTT(40) DEF Dentry
      <4>3. n.type = d.type
        BY <1>2, <3>2
      <4>4. [type |-> n.type, name |-> n.name, ord |-> n.ord, sum |-> n.sum]
              = [type |-> d.type, name |-> d.name, ord |-> o - 1, sum |-> d.sum]
        BY ONLY <3>2, <4>3, Zenon
      <4>5. QED  BY ONLY <4>1, <4>2, <4>4, Zenon
    <3>3. Followed(s, k) <=> o # 0 /\ n.type = "long" /\ n.name = d.name /\ n.ord = o - 1 /\ n.sum = d.sum
      BY <1>3, <2>3, <3>1, <3>2
    <3>4. QED  BY <1>1, <1>2, <1>4, <2>1, <2>3, <3>3 DEF LinkedAt
  <2>4. QED  BY <2>2, <2>3
<1>5. CASE k + 1 \notin DOMAIN s
  <2>1. n = Unused
    BY <1>1, <1>5 DEF Dent
  <2>2. n.type = "unused"
    BY <2>1, UnusedIsDentry
  <2>3. n # [d EXCEPT !.ord = o - 1]
    <3>1. [d EXCEPT !.ord = o - 1].type = "long"
      BY <1>2 DEF Dentry
    <3>2. QED  BY <2>2, <3>1
  <2>4. ~Followed(s, k)
    BY <1>3, <2>2, <2>3
  <2>5. QED  BY <1>5, <2>4 DEF LinkedAt
<1>6. QED  BY <1>4, <1>5

(* The two say the same.                                                   *)
LEMMA SoundIs ==
  ASSUME NEW s
  PROVE  Sound(s) <=> SoundBy(s)
<1>1. ASSUME Sound(s) PROVE SoundBy(s)
  <2>1. s \in Seq(Dentry) /\ Len(s) \in Nat /\ DOMAIN s = 1..Len(s)
    BY <1>1 DEF Sound
  <2>2. PICK e : e = End(s)
    OBVIOUS
  <2>3. EndOf(s, e)
    BY <2>1, <2>2, EndIsFirst
  <2>4. \A k \in e..Len(s) : s[k].type = "unused"
    BY <1>1, <2>2 DEF Sound, NothingBehind
  <2>5. ASSUME NEW k \in DOMAIN s, s[k].type = "long" PROVE LinkedAt(s, k)
    <3>1. k \in 1..e - 1
      BY <2>1, <2>3, <2>4, <2>5 DEF EndOf
    <3>2. Followed(s, k)
      BY <1>1, <2>2, <2>5, <3>1 DEF Sound, WholeSets
    <3>3. QED  BY <2>1, <2>5, <3>2, FollowedIsLinked
  <2>6. ASSUME NEW k \in DOMAIN s, NEW j \in DOMAIN s, k <= j, s[k].type = "unused" PROVE s[j].type = "unused"
    <3>1. j \in e..Len(s)
      BY <2>1, <2>3, <2>6 DEF EndOf
    <3>2. QED  BY <2>4, <3>1
  <2>7. QED  BY <1>1, <2>1, <2>5, <2>6 DEF SoundBy, Sound
<1>2. ASSUME SoundBy(s) PROVE Sound(s)
  <2>1. s \in Seq(Dentry) /\ Len(s) \in Nat /\ DOMAIN s = 1..Len(s)
    BY <1>2 DEF SoundBy
  <2>2. PICK e : e = End(s)
    OBVIOUS
  <2>3. EndOf(s, e)
    BY <2>1, <2>2, EndIsFirst
  <2>4. WholeSets(s)
    <3>1. SUFFICES ASSUME NEW k \in 1..e - 1, s[k].type = "long" PROVE Followed(s, k)
      BY <2>2 DEF WholeSets
    <3>2. k \in DOMAIN s
      BY <2>1, <2>3, <3>1 DEF EndOf
    <3>3. LinkedAt(s, k)
      BY <1>2, <3>1, <3>2 DEF SoundBy
    <3>4. QED  BY <2>1, <3>1, <3>2, <3>3, FollowedIsLinked
  <2>5. NothingBehind(s)
    <3>1. SUFFICES ASSUME NEW k \in e..Len(s) PROVE s[k].type = "unused"
      BY <2>2 DEF NothingBehind
    <3>2. e \in DOMAIN s /\ k \in DOMAIN s /\ e <= k /\ s[e].type = "unused"
      BY <2>1, <2>3, <3>1 DEF EndOf
    <3>3. QED  BY <1>2, <3>2 DEF SoundBy
  <2>6. QED  BY <1>2, <2>1, <2>4, <2>5 DEF SoundBy, Sound
<1>3. QED  BY <1>1, <1>2

-----------------------------------------------------------------------------
(* The files of a directory, and what stands before each.                  *)
Shorts(s) == {k \in DOMAIN s : s[k].type = "short"}

NamesAt(s) == [k \in DOMAIN s |-> NameAt(s, k)]

LEMMA FilesAre ==
  ASSUME NEW s, SoundBy(s)
  PROVE  FilesOn(s) = Shorts(s)
<1>1. PICK n, e : n = Len(s) /\ e = End(s)
  OBVIOUS
<1>2. s \in Seq(Dentry) /\ n \in Nat /\ DOMAIN s = 1..n
  BY <1>1 DEF SoundBy
<1>3. EndOf(s, e)
  BY <1>1, <1>2, EndIsFirst
<1>4. ASSUME NEW k \in 1..n, s[k].type = "short" PROVE k \in 1..e - 1
  <2>1. e <= k => s[k].type = "unused"
    BY <1>1, <1>2, <1>3 DEF EndOf, SoundBy
  <2>2. QED  BY <1>1, <1>2, <1>3, <1>4, <2>1 DEF EndOf
<1>5. 1..e - 1 \subseteq 1..n
  BY <1>1, <1>2, <1>3 DEF EndOf
<1>6. QED  BY <1>1, <1>2, <1>4, <1>5 DEF FilesOn, Shorts

(* A long name's pieces all say the same of it, and lead to the file.      *)
RunAt(s, i, o) ==
  \A j \in 0..o - 1 :
    /\ i + j \in DOMAIN s /\ s[i + j].type = "long" /\ s[i + j].name = s[i].name
    /\ s[i + j].ord = o - j /\ s[i + j].sum = s[i].sum

(* A long name ends at its file, whose name it gives.                      *)
LEMMA RunIs ==
  ASSUME NEW s, SoundBy(s), NEW i \in DOMAIN s, s[i].type = "long", NEW o, o = s[i].ord
  PROVE  /\ o \in Nat \ {0} /\ RunAt(s, i, o)
         /\ i + o \in DOMAIN s /\ s[i + o].type = "short" /\ NameAt(s, i + o) = s[i].name
<1>1. s \in Seq(Dentry) /\ DOMAIN s = 1..Len(s) /\ Len(s) \in Nat /\ i \in Nat \ {0}
  BY DEF SoundBy
<1>2. o \in Nat \ {0}
  BY DEF SoundBy, LinkedAt
<1> DEFINE T == {j \in 0..o - 1 : /\ i + j \in DOMAIN s /\ s[i + j].type = "long" /\ s[i + j].name = s[i].name
                                  /\ s[i + j].ord = o - j /\ s[i + j].sum = s[i].sum}
<1>3. 0 \in T
  <2>1. i + 0 = i /\ o - 0 = o /\ 0 \in 0..o - 1
    BY <1>1, <1>2
  <2>2. QED  BY <2>1
<1>4. ASSUME NEW j \in 0..(o - 1) - 1, j \in T PROVE j + 1 \in T
  <2>1. PICK k : k = i + j
    OBVIOUS
  <2>2. k \in DOMAIN s /\ s[k].type = "long" /\ s[k].name = s[i].name /\ s[k].ord = o - j /\ s[k].sum = s[i].sum
    BY <1>4, <2>1
  <2>3. LinkedAt(s, k) /\ s[k].ord # 1
    BY <1>2, <2>2 DEF SoundBy
  <2>4. i + (j + 1) = k + 1 /\ o - (j + 1) = (o - j) - 1 /\ j + 1 \in 0..o - 1
    <3>1. i \in Nat /\ o \in Nat /\ j \in Nat /\ j <= (o - 1) - 1 /\ k = i + j
      BY <1>1, <1>2, <1>4, <2>1
    <3>2. QED  BY ONLY <3>1
  <2>5. /\ k + 1 \in DOMAIN s /\ s[k + 1].type = "long" /\ s[k + 1].name = s[k].name
        /\ s[k + 1].ord = s[k].ord - 1 /\ s[k + 1].sum = s[k].sum
    BY <2>3 DEF LinkedAt
  <2>6. QED  BY <2>2, <2>4, <2>5
<1> HIDE DEF T
<1>5. 0..(o - 1) \subseteq T
  <2>1. o - 1 \in Nat
    BY <1>2
  <2>2. QED  BY <1>3, <1>4, <2>1, InductionUpTo
<1>6. RunAt(s, i, o)
  BY <1>5 DEF T, RunAt
<1>7. PICK k : k = i + (o - 1)
  OBVIOUS
<1>8. k \in DOMAIN s /\ s[k].type = "long" /\ s[k].name = s[i].name /\ s[k].ord = 1
  <2>1. o - 1 \in 0..o - 1 /\ o - (o - 1) = 1
    BY <1>2
  <2>2. QED  BY <1>6, <1>7, <2>1 DEF RunAt
<1>9. k + 1 = i + o /\ k + 1 > 1 /\ (k + 1) - 1 = k
  BY <1>1, <1>2, <1>7, <1>8
<1>10. k + 1 \in DOMAIN s /\ s[k + 1].type = "short"
  BY <1>8 DEF SoundBy, LinkedAt
<1>11. NameAt(s, k + 1) = s[k].name
  BY <1>8, <1>9 DEF NameAt
<1>12. QED  BY <1>2, <1>6, <1>8, <1>9, <1>10, <1>11

LEMMA NamesAreNames ==
  ASSUME NEW s, SoundBy(s), NEW k \in Shorts(s)
  PROVE  NameAt(s, k) \in Name /\ k \in DOMAIN s
<1>1. s \in Seq(Dentry) /\ DOMAIN s = 1..Len(s) /\ Len(s) \in Nat
  BY DEF SoundBy
<1>2. k \in DOMAIN s /\ s[k].type = "short"
  BY DEF Shorts
<1>3. s[k].name \in Name
  BY <1>2 DEF SoundBy
<1>4. CASE k > 1 /\ s[k - 1].type = "long"
  <2>1. k - 1 \in DOMAIN s
    BY <1>1, <1>2, <1>4
  <2>2. s[k - 1].name \in Name
    BY <1>4, <2>1 DEF SoundBy
  <2>3. QED  BY <1>2, <1>4, <2>2 DEF NameAt
<1>5. CASE ~(k > 1 /\ s[k - 1].type = "long")
  BY <1>2, <1>3, <1>5, Zenon DEF NameAt
<1>6. QED  BY <1>4, <1>5

(* The names of the files are picked out of the dentries.                  *)
FileNamesBy(f, s) == Picks(f, Len(s), Shorts(s), NamesAt(s)) /\ FileNames(s) = f[1]

LEMMA FileNamesPicked ==
  ASSUME NEW s, SoundBy(s)
  PROVE  \E f : FileNamesBy(f, s)
<1> DEFINE B(g) == g = [i \in 1..Len(s) + 1 |->
                          IF i > Len(s) THEN <<>>
                          ELSE IF i \in FilesOn(s) THEN <<NameAt(s, i)>> \o g[i + 1] ELSE g[i + 1]]
<1>0. s \in Seq(Dentry) /\ FilesOn(s) = Shorts(s)
  BY FilesAre DEF SoundBy
<1>1. ASSUME NEW i \in 1..Len(s) + 1, ~(i > Len(s))
      PROVE  (i \in FilesOn(s) <=> i \in Shorts(s)) /\ NamesAt(s)[i] = NameAt(s, i)
  <2>1. i \in DOMAIN s
    BY <1>0, <1>1
  <2>2. QED  BY <1>0, <2>1, Zenon DEF NamesAt
<1>2. ASSUME NEW g PROVE Picks(g, Len(s), Shorts(s), NamesAt(s)) <=> B(g)
  <2>1. [i \in 1..Len(s) + 1 |->
           IF i > Len(s) THEN <<>>
           ELSE IF i \in FilesOn(s) THEN <<NameAt(s, i)>> \o g[i + 1] ELSE g[i + 1]]
        = [i \in 1..Len(s) + 1 |->
             IF i > Len(s) THEN <<>>
             ELSE IF i \in Shorts(s) THEN <<NamesAt(s)[i]>> \o g[i + 1] ELSE g[i + 1]]
    BY <1>1, Zenon
  <2>2. QED  BY <2>1, Zenon DEF Picks
<1>3. Len(s) \in Nat
  BY <1>0
<1>4. \E g : Picks(g, Len(s), Shorts(s), NamesAt(s))
  BY <1>3, PicksExist
<1>5. \E g : B(g)
  BY <1>2, <1>4, Zenon
<1>6. B(CHOOSE g : B(g))
  BY <1>5, Zenon
<1>7. FileNames(s) = (CHOOSE g : B(g))[1]
  BY Zenon DEF FileNames
<1> HIDE DEF B
<1>8. QED  BY <1>2, <1>6, <1>7, Zenon DEF FileNamesBy

LEMMA FilesPlaced ==
  ASSUME NEW s, SoundBy(s), NEW f, FileNamesBy(f, s)
  PROVE  /\ PlacedIn(f, Len(s), Shorts(s), NamesAt(s)) /\ f \in [1..(Len(s) + 1) -> Seq(Name)]
         /\ PicksByOne(f, Len(s), Shorts(s), NamesAt(s))
<1>1. Len(s) \in Nat
  BY DEF SoundBy
<1>2. ASSUME NEW i \in 1..Len(s), i \in Shorts(s) PROVE NamesAt(s)[i] \in Name
  <2>1. NameAt(s, i) \in Name /\ i \in DOMAIN s
    BY <1>2, NamesAreNames
  <2>2. QED  BY <2>1, Zenon DEF NamesAt
<1>3. Picks(f, Len(s), Shorts(s), NamesAt(s))
  BY DEF FileNamesBy
<1>4. PlacedIn(f, Len(s), Shorts(s), NamesAt(s))
  BY ONLY <1>1, <1>2, <1>3, PicksPlaced
<1>5. f \in [1..(Len(s) + 1) -> Seq(Name)]
  BY ONLY <1>1, <1>2, <1>3, PicksAreSeqs
<1>6. PicksByOne(f, Len(s), Shorts(s), NamesAt(s))
  BY ONLY <1>1, <1>3, PickSteps
<1>7. QED  BY <1>4, <1>5, <1>6

-----------------------------------------------------------------------------
(* One step of traverse, as if the rest were read as F says.               *)
ListStep(s, F, i) ==
  LET After(j) == IF s[j].type = "long" THEN j + s[j].ord + 1 ELSE j + 1
  IN  IF Dent(s, i).type = "unused" THEN <<>>
      ELSE (IF s[i].type \in {"deleted", "label"} THEN <<>> ELSE <<s[i].name>>)
             \o F[Min({After(i), Len(s) + 1})]

(* What is listed from each place on: at a file without regard to what     *)
(* stands before it.                                                       *)
ListFrom(s, f) ==
  [i \in 1..(Len(s) + 1) |-> IF i \in Shorts(s) THEN <<s[i].name>> \o f[i + 1] ELSE f[i]]

LEMMA MinOfTwo ==
  ASSUME NEW a \in Nat, NEW b \in Nat, a <= b
  PROVE  Min({a, b}) = a
<1>1. {a, b} \subseteq Nat /\ {a, b} # {}
  OBVIOUS
<1>2. PICK m : m = Min({a, b})
  OBVIOUS
<1>3. m \in {a, b} /\ \A y \in {a, b} : m <= y
  BY <1>1, <1>2, MinIsLeast
<1>4. QED  BY <1>2, <1>3

LEMMA ListFromNext ==
  ASSUME NEW s, SoundBy(s), NEW f, FileNamesBy(f, s), NEW i \in 1..Len(s), s[i].type # "long"
  PROVE  ListFrom(s, f)[i + 1] = f[i + 1]
<1>1. s \in Seq(Dentry) /\ Len(s) \in Nat /\ i + 1 \in 1..(Len(s) + 1) /\ (i + 1) - 1 = i /\ i + 1 > 1
  BY DEF SoundBy
<1>2. CASE i + 1 \in Shorts(s)
  <2>1. NameAt(s, i + 1) = s[i + 1].name
    BY <1>1 DEF NameAt
  <2>2. i + 1 \in DOMAIN s /\ i + 1 \in 1..Len(s)
    BY <1>1, <1>2 DEF Shorts
  <2>3. NamesAt(s)[i + 1] = s[i + 1].name
    BY <2>1, <2>2, Zenon DEF NamesAt
  <2>4. PicksByOne(f, Len(s), Shorts(s), NamesAt(s))
    BY FilesPlaced
  <2>5. f[i + 1] = <<s[i + 1].name>> \o f[(i + 1) + 1]
    BY <1>2, <2>2, <2>3, <2>4, Zenon DEF PicksByOne
  <2>6. ListFrom(s, f)[i + 1] = <<s[i + 1].name>> \o f[(i + 1) + 1]
    BY <1>1, <1>2, Zenon DEF ListFrom
  <2>7. QED  BY <2>5, <2>6, Zenon
<1>3. CASE i + 1 \notin Shorts(s)
  BY <1>1, <1>3, Zenon DEF ListFrom
<1>4. QED  BY <1>2, <1>3

LEMMA ListAtEnd ==
  ASSUME NEW s, SoundBy(s), NEW f, FileNamesBy(f, s), NEW i \in 1..(Len(s) + 1),
         i = Len(s) + 1 \/ s[i].type = "unused", NEW F
  PROVE  ListStep(s, F, i) = ListFrom(s, f)[i]
<1>1. s \in Seq(Dentry) /\ Len(s) \in Nat /\ DOMAIN s = 1..Len(s)
  BY DEF SoundBy
<1>2. \A k \in i..Len(s) : k \notin Shorts(s)
  BY <1>1 DEF SoundBy, Shorts
<1>3. f[i] = <<>>
  <2>1. Picks(f, Len(s), Shorts(s), NamesAt(s))
    BY DEF FileNamesBy
  <2>2. QED  BY ONLY <1>1, <1>2, <2>1, PicksNone
<1>4. i \notin Shorts(s)
  BY <1>1, <1>2 DEF Shorts
<1>5. ListFrom(s, f)[i] = <<>>
  BY <1>3, <1>4, Zenon DEF ListFrom
<1>6. Dent(s, i).type = "unused"
  BY <1>1, UnusedIsDentry DEF Dent
<1>7. ListStep(s, F, i) = <<>>
  BY <1>6, Zenon DEF ListStep
<1>8. QED  BY <1>5, <1>7

LEMMA ListAtOne ==
  ASSUME NEW s, SoundBy(s), NEW f, FileNamesBy(f, s), NEW i \in 1..Len(s),
         s[i].type \in {"deleted", "label", "short"},
         NEW F, \A j \in (i + 1)..(Len(s) + 1) : F[j] = ListFrom(s, f)[j]
  PROVE  ListStep(s, F, i) = ListFrom(s, f)[i]
<1>1. s \in Seq(Dentry) /\ Len(s) \in Nat /\ DOMAIN s = 1..Len(s)
      /\ i \in 1..(Len(s) + 1) /\ i + 1 \in (i + 1)..(Len(s) + 1) /\ i + 1 \in 1..(Len(s) + 1)
  BY DEF SoundBy
<1>2. F[i + 1] = f[i + 1]
  <2>1. ListFrom(s, f)[i + 1] = f[i + 1]
    BY ListFromNext
  <2>2. QED  BY <1>1, <2>1
<1>3. Min({i + 1, Len(s) + 1}) = i + 1
  <2>1. i + 1 \in Nat /\ Len(s) + 1 \in Nat /\ i + 1 <= Len(s) + 1
    BY <1>1
  <2>2. QED  BY <2>1, MinOfTwo
<1>4. Dent(s, i).type = s[i].type
  BY <1>1 DEF Dent
<1>5. s[i].type # "unused" /\ s[i].type # "long"
  OBVIOUS
<1>6. ListStep(s, F, i) = (IF s[i].type \in {"deleted", "label"} THEN <<>> ELSE <<s[i].name>>) \o f[i + 1]
  BY <1>2, <1>3, <1>4, <1>5, Zenon DEF ListStep
<1>7. CASE s[i].type = "short"
  <2>1. i \in Shorts(s)
    BY <1>1, <1>7 DEF Shorts
  <2>2. ListFrom(s, f)[i] = <<s[i].name>> \o f[i + 1]
    BY <1>1, <2>1, Zenon DEF ListFrom
  <2>3. s[i].type \notin {"deleted", "label"}
    BY <1>7
  <2>4. QED  BY <1>6, <2>2, <2>3, Zenon
<1>8. CASE s[i].type \in {"deleted", "label"}
  <2>1. i \notin Shorts(s)
    BY <1>8 DEF Shorts
  <2>2. ListFrom(s, f)[i] = f[i]
    BY <1>1, <2>1, Zenon DEF ListFrom
  <2>3. PicksByOne(f, Len(s), Shorts(s), NamesAt(s)) /\ f \in [1..(Len(s) + 1) -> Seq(Name)]
    BY FilesPlaced
  <2>4. f[i] = f[i + 1]
    BY <2>1, <2>3, Zenon DEF PicksByOne
  <2>5. <<>> \o f[i + 1] = f[i + 1]
    <3>1. f[i + 1] \in Seq(Name)
      BY <1>1, <2>3
    <3>2. QED  BY <3>1, ConcatEmptySeq
  <2>6. QED  BY <1>6, <1>8, <2>2, <2>4, <2>5, Zenon
<1>9. QED  BY <1>7, <1>8

LEMMA ListAtLong ==
  ASSUME NEW s, SoundBy(s), NEW f, FileNamesBy(f, s), NEW i \in 1..Len(s), s[i].type = "long",
         NEW F, \A j \in (i + 1)..(Len(s) + 1) : F[j] = ListFrom(s, f)[j]
  PROVE  ListStep(s, F, i) = ListFrom(s, f)[i]
<1>1. s \in Seq(Dentry) /\ Len(s) \in Nat /\ DOMAIN s = 1..Len(s) /\ i \in 1..(Len(s) + 1)
  BY DEF SoundBy
<1>2. PICK o : o = s[i].ord
  OBVIOUS
<1>3. o \in Nat \ {0} /\ RunAt(s, i, o)
      /\ i + o \in DOMAIN s /\ s[i + o].type = "short" /\ NameAt(s, i + o) = s[i].name
  BY <1>1, <1>2, RunIs
<1>4. /\ i + o + 1 = (i + o) + 1 /\ i + o + 1 <= Len(s) + 1 /\ i + o + 1 \in Nat /\ Len(s) + 1 \in Nat
      /\ i + o \in 1..Len(s) /\ i + o + 1 \in (i + 1)..(Len(s) + 1)
  BY <1>1, <1>3
<1>5. F[i + o + 1] = f[i + o + 1]
  <2>1. s[i + o].type # "long"
    BY <1>3
  <2>2. ListFrom(s, f)[(i + o) + 1] = f[(i + o) + 1]
    BY <1>4, <2>1, ListFromNext
  <2>3. QED  BY <1>4, <2>2
<1>6. Min({i + o + 1, Len(s) + 1}) = i + o + 1
  BY <1>4, MinOfTwo
<1>7. Dent(s, i).type = "long"
  BY <1>1 DEF Dent
<1>8. ListStep(s, F, i) = <<s[i].name>> \o f[i + o + 1]
  <2>1. s[i].type # "unused" /\ s[i].type \notin {"deleted", "label"} /\ Dent(s, i).type # "unused"
    BY <1>7
  <2>2. QED  BY <1>2, <1>5, <1>6, <2>1, Zenon DEF ListStep
<1>9. i \notin Shorts(s)
  BY DEF Shorts
<1>10. ListFrom(s, f)[i] = f[i]
  BY <1>1, <1>9, Zenon DEF ListFrom
<1>11. f[i] = f[i + o]
  <2>1. \A k \in i..(i + o) - 1 : k \notin Shorts(s)
    <3>1. SUFFICES ASSUME NEW k \in i..(i + o) - 1 PROVE s[k].type # "short"
      BY DEF Shorts
    <3>2. k - i \in 0..o - 1 /\ i + (k - i) = k
      BY <1>1, <1>3
    <3>3. s[k].type = "long"
      BY <1>3, <3>2 DEF RunAt
    <3>4. QED  BY <3>3
  <2>2. i + o \in i..(Len(s) + 1)
    BY <1>1, <1>3
  <2>3. Picks(f, Len(s), Shorts(s), NamesAt(s))
    BY DEF FileNamesBy
  <2>4. QED  BY ONLY <1>1, <2>1, <2>2, <2>3, PicksSkip
<1>12. f[i + o] = <<s[i].name>> \o f[i + o + 1]
  <2>1. PicksByOne(f, Len(s), Shorts(s), NamesAt(s))
    BY FilesPlaced
  <2>2. i + o \in Shorts(s)
    BY <1>3 DEF Shorts
  <2>3. NamesAt(s)[i + o] = s[i].name
    BY <1>3, Zenon DEF NamesAt
  <2>4. f[i + o] = <<s[i].name>> \o f[(i + o) + 1]
    BY <1>4, <2>1, <2>2, <2>3, Zenon DEF PicksByOne
  <2>5. QED  BY <1>4, <2>4
<1>13. QED  BY <1>8, <1>10, <1>11, <1>12, Zenon

(* traverse lists the files of a directory in order.                       *)
LEMMA ListedIsFileNames ==
  ASSUME NEW s, SoundBy(s)
  PROVE  Listed(s) = FileNames(s)
<1>f. PICK f : FileNamesBy(f, s)
  BY FileNamesPicked
<1> DEFINE D == 1..(Len(s) + 1)
           G == ListFrom(s, f)
           B(F) == F = [i \in 1..Len(s) + 1 |-> ListStep(s, F, i)]
<1>1. s \in Seq(Dentry) /\ Len(s) \in Nat /\ DOMAIN s = 1..Len(s)
  BY DEF SoundBy
<1>2. ASSUME NEW F, NEW i \in D, \A j \in (i + 1)..(Len(s) + 1) : F[j] = ListFrom(s, f)[j]
      PROVE  ListStep(s, F, i) = G[i]
  <2>1. CASE i = Len(s) + 1 \/ s[i].type = "unused"
    BY <1>f, <1>2, <2>1, ListAtEnd
  <2>2. CASE i # Len(s) + 1 /\ s[i].type # "unused"
    <3>1. i \in 1..Len(s)
      BY <1>1, <2>2
    <3>2. s[i] \in Dentry
      BY <1>1, <3>1
    <3>3. s[i].type \in {"deleted", "label", "short"} \/ s[i].type = "long"
      BY <2>2, <3>2 DEF Dentry
    <3>4. CASE s[i].type \in {"deleted", "label", "short"}
      BY <1>f, <1>2, <3>1, <3>4, ListAtOne
    <3>5. CASE s[i].type = "long"
      BY <1>f, <1>2, <3>1, <3>5, ListAtLong
    <3>6. QED  BY <3>3, <3>4, <3>5
  <2>3. QED  BY <2>1, <2>2
<1>3. ASSUME NEW i \in D PROVE ListStep(s, G, i) = G[i]
  BY <1>2
<1>4. G = [i \in D |-> G[i]]
  BY Zenon DEF ListFrom
<1>5. B(G)
  <2>1. [i \in D |-> ListStep(s, G, i)] = [i \in D |-> G[i]]
    BY <1>3, Zenon
  <2>2. QED  BY <1>4, <2>1, Zenon
<1>6. PICK F : F = CHOOSE h : B(h)
  OBVIOUS
<1>7. B(F)
  <2> HIDE DEF B
  <2>1. \E h : B(h)
    BY <1>5, Zenon
  <2>2. B(CHOOSE h : B(h))
    BY <2>1, Zenon
  <2>3. QED  BY <1>6, <2>2, Zenon
<1>8. ASSUME NEW i \in D PROVE F[i] = ListStep(s, F, i)
  BY <1>7, Zenon
<1>9. Listed(s) = F[1]
  BY <1>6, Zenon DEF Listed, ListStep
<1> HIDE DEF B, G
<1>10. PICK g, n : g = G /\ n = Len(s) + 1
  OBVIOUS
<1>12. ASSUME NEW i \in 1..n, \A j \in (i + 1)..n : F[j] = g[j] PROVE F[i] = g[i]
  <2>1. i \in D /\ \A j \in (i + 1)..(Len(s) + 1) : F[j] = ListFrom(s, f)[j]
    BY <1>10, <1>12 DEF G
  <2>2. ListStep(s, F, i) = G[i]
    BY <1>2, <2>1
  <2>3. QED  BY <1>8, <1>10, <2>1, <2>2
<1>13. n \in Nat
  BY <1>1, <1>10
<1>14. \A i \in 1..n : F[i] = g[i]
  BY ONLY <1>12, <1>13, AgreeDown
<1>15. 1 \in 1..n /\ 1 \in D
  BY <1>1, <1>10
<1>16. F[1] = G[1]
  BY <1>10, <1>14, <1>15
<1>17. G[1] = f[1]
  <2>1. CASE 1 \in Shorts(s)
    <3>1. 1 \in DOMAIN s /\ 1 \in 1..Len(s)
      BY <1>1, <2>1 DEF Shorts
    <3>2. NameAt(s, 1) = s[1].name
      BY DEF NameAt
    <3>3. NamesAt(s)[1] = s[1].name
      BY <3>1, <3>2, Zenon DEF NamesAt
    <3>4. PicksByOne(f, Len(s), Shorts(s), NamesAt(s))
      BY <1>f, FilesPlaced
    <3>5. f[1] = <<s[1].name>> \o f[1 + 1]
      BY <2>1, <3>1, <3>3, <3>4, Zenon DEF PicksByOne
    <3>6. G[1] = <<s[1].name>> \o f[1 + 1]
      BY <1>15, <2>1, Zenon DEF G, ListFrom
    <3>7. QED  BY <3>5, <3>6, Zenon
  <2>2. CASE 1 \notin Shorts(s)
    BY <1>15, <2>2, Zenon DEF G, ListFrom
  <2>3. QED  BY <2>1, <2>2
<1>18. FileNames(s) = f[1]
  BY <1>f DEF FileNamesBy
<1>19. QED  BY <1>9, <1>16, <1>17, <1>18, Zenon

-----------------------------------------------------------------------------
(* The names of the files, and that they are what traverse reads.          *)
NamesOf(s) == {NameAt(s, k) : k \in Shorts(s)}

(* traverse reads all the names and no others.                             *)
LEMMA NamesRead ==
  ASSUME NEW s, SoundBy(s)
  PROVE  /\ ToSet(Listed(s)) = NamesOf(s) /\ NamesOf(s) \subseteq Name
         /\ Listed(s) \in Seq(Name) /\ ToSet(FileNames(s)) = NamesOf(s)
<1>1. s \in Seq(Dentry) /\ Len(s) \in Nat /\ DOMAIN s = 1..Len(s)
  BY DEF SoundBy
<1>2. PICK f : FileNamesBy(f, s)
  BY FileNamesPicked
<1>3. PlacedIn(f, Len(s), Shorts(s), NamesAt(s)) /\ f \in [1..(Len(s) + 1) -> Seq(Name)]
  BY <1>2, FilesPlaced
<1>4. PICK N, S, v : N = Len(s) /\ S = Shorts(s) /\ v = NamesAt(s)
  OBVIOUS
<1>5. S \subseteq 1..N /\ N \in Nat
  BY <1>1, <1>4 DEF Shorts
<1>6. ASSUME NEW p \in S PROVE v[p] = NameAt(s, p) /\ v[p] \in Name
  <2>1. NameAt(s, p) \in Name /\ p \in DOMAIN s
    BY <1>4, NamesAreNames
  <2>2. QED  BY <1>4, <2>1, Zenon DEF NamesAt
<1>7. PlacedIn(f, N, S, v)
  BY <1>3, <1>4
<1>8. f[1] \in Seq(Name) /\ DOMAIN f[1] = 1..Len(f[1])
  BY <1>3, <1>4, <1>5
<1>9. Listed(s) = f[1] /\ FileNames(s) = f[1]
  <2>1. FileNames(s) = f[1]
    BY <1>2 DEF FileNamesBy
  <2>2. QED  BY <2>1, ListedIsFileNames
<1>10. ASSUME NEW k \in DOMAIN f[1] PROVE \E p \in S : f[1][k] = NameAt(s, p)
  <2>1. PICK i \in 1..N : i \in S /\ k = PlaceOf(f, i)
    BY <1>7, <1>8 DEF PlacedIn
  <2>2. f[1][k] = v[i]
    BY <1>7, <2>1 DEF PlacedIn
  <2>3. QED  BY <1>6, <2>1, <2>2
<1>11. ASSUME NEW p \in S PROVE \E k \in DOMAIN f[1] : f[1][k] = NameAt(s, p)
  <2>1. p \in 1..N
    BY <1>5
  <2>2. PlaceOf(f, p) \in 1..Len(f[1]) /\ f[1][PlaceOf(f, p)] = v[p]
    BY <1>7, <2>1 DEF PlacedIn
  <2>3. QED  BY <1>6, <1>8, <2>1, <2>2
<1>12. {f[1][k] : k \in DOMAIN f[1]} = {NameAt(s, p) : p \in S}
  BY <1>10, <1>11
<1>13. ToSet(f[1]) = NamesOf(s)
  BY <1>4, <1>12, Zenon DEF NamesOf, ToSet
<1>14. NamesOf(s) \subseteq Name
  BY <1>4, <1>6 DEF NamesOf
<1>15. QED  BY <1>8, <1>9, <1>13, <1>14

-----------------------------------------------------------------------------
(* The dentries of one name are told from the others by its short form and *)
(* the checksum of that.                                                   *)
Telling(s, n, short, c) ==
  \A k \in DOMAIN s :
    /\ s[k].type \in {"short", "label"} => (s[k].name = short <=> NameAt(s, k) = n)
    /\ s[k].type = "long" => (s[k].sum = c <=> s[k].name = n)

LEMMA CarefulIsTelling ==
  ASSUME NEW n, SoundBy(slots), CarefulRemove(n), NEW g \in Garbage
  PROVE  Telling(slots, n, Short[n], Checksum[Short[n], g])
<1>1. PICK e : e = End(slots)
  OBVIOUS
<1>2. slots \in Seq(Dentry) /\ Len(slots) \in Nat /\ DOMAIN slots = 1..Len(slots)
  BY DEF SoundBy
<1>3. EndOf(slots, e)
  BY <1>1, <1>2, EndIsFirst
<1>4. ASSUME NEW k \in DOMAIN slots, slots[k].type # "unused" PROVE k \in 1..e - 1
  BY <1>2, <1>3, <1>4 DEF EndOf, SoundBy
<1>5. ASSUME NEW k \in DOMAIN slots
      PROVE  /\ slots[k].type \in {"short", "label"} => (slots[k].name = Short[n] <=> NameAt(slots, k) = n)
             /\ slots[k].type = "long" => (slots[k].sum = Checksum[Short[n], g] <=> slots[k].name = n)
  <2>1. CASE slots[k].type \in {"short", "label"}
    <3>1. k \in 1..e - 1 /\ slots[k].type # "long"
      BY <1>4, <2>1
    <3>2. k \in 1..End(slots) - 1
      BY <1>1, <3>1
    <3>3. slots[k].name = Short[n] <=> NameAt(slots, k) = n
      BY <2>1, <3>1, <3>2, Zenon DEF CarefulRemove
    <3>4. QED  BY <3>1, <3>3
  <2>2. CASE slots[k].type = "long"
    <3>1. k \in 1..e - 1 /\ slots[k].type \notin {"short", "label"}
      BY <1>4, <2>2
    <3>2. k \in 1..End(slots) - 1
      BY <1>1, <3>1
    <3>3. slots[k].sum = Checksum[Short[n], g] <=> slots[k].name = n
      BY <2>2, <3>1, <3>2, Zenon DEF CarefulRemove
    <3>4. QED  BY <3>1, <3>3
  <2>3. QED  BY <2>1, <2>2
<1>6. QED  BY <1>5 DEF Telling

(* What remove is to mark. *)
Taken(s, short, c) == {k \in DOMAIN s : s[k].type # "unused" /\ Hit(s[k], short, c)}

MarkStep(s, short, sum, F, i) ==
  LET After(j) == IF s[j].type = "long" /\ s[j].sum # sum THEN j + s[j].ord + 1 ELSE j + 1
  IN  IF Dent(s, i).type = "unused" THEN {}
      ELSE (IF Hit(s[i], short, sum) THEN {i} ELSE {}) \union F[Min({After(i), Len(s) + 1})]

MarkFrom(s, short, c) == [i \in 1..(Len(s) + 1) |-> {k \in Taken(s, short, c) : k >= i}]

LEMMA MarkAtEnd ==
  ASSUME NEW s, SoundBy(s), NEW short, NEW c, NEW i \in 1..(Len(s) + 1), i = Len(s) + 1 \/ s[i].type = "unused", NEW F
  PROVE  MarkStep(s, short, c, F, i) = MarkFrom(s, short, c)[i]
<1>1. s \in Seq(Dentry) /\ Len(s) \in Nat /\ DOMAIN s = 1..Len(s)
  BY DEF SoundBy
<1>2. \A k \in Taken(s, short, c) : ~(k >= i)
  BY <1>1 DEF SoundBy, Taken
<1>3. MarkFrom(s, short, c)[i] = {}
  BY <1>2 DEF MarkFrom
<1>4. Dent(s, i).type = "unused"
  BY <1>1, UnusedIsDentry DEF Dent
<1>5. MarkStep(s, short, c, F, i) = {}
  BY <1>4, Zenon DEF MarkStep
<1>6. QED  BY <1>3, <1>5

LEMMA MarkAtOne ==
  ASSUME NEW s, SoundBy(s), NEW short, NEW c, NEW i \in 1..Len(s), s[i].type # "unused",
         ~(s[i].type = "long" /\ s[i].sum # c),
         NEW F, \A j \in (i + 1)..(Len(s) + 1) : F[j] = MarkFrom(s, short, c)[j]
  PROVE  MarkStep(s, short, c, F, i) = MarkFrom(s, short, c)[i]
<1>1. s \in Seq(Dentry) /\ Len(s) \in Nat /\ DOMAIN s = 1..Len(s)
      /\ i \in 1..(Len(s) + 1) /\ i + 1 \in (i + 1)..(Len(s) + 1) /\ i + 1 \in 1..(Len(s) + 1)
  BY DEF SoundBy
<1>2. F[i + 1] = {k \in Taken(s, short, c) : k >= i + 1}
  <2>1. MarkFrom(s, short, c)[i + 1] = {k \in Taken(s, short, c) : k >= i + 1}
    BY <1>1, Zenon DEF MarkFrom
  <2>2. QED  BY <1>1, <2>1
<1>3. Min({i + 1, Len(s) + 1}) = i + 1
  <2>1. i + 1 \in Nat /\ Len(s) + 1 \in Nat /\ i + 1 <= Len(s) + 1
    BY <1>1
  <2>2. QED  BY <2>1, MinOfTwo
<1>4. Dent(s, i).type # "unused"
  BY <1>1 DEF Dent
<1>5. MarkStep(s, short, c, F, i) = (IF Hit(s[i], short, c) THEN {i} ELSE {}) \union F[i + 1]
  BY <1>3, <1>4, Zenon DEF MarkStep
<1>6. MarkFrom(s, short, c)[i] = {k \in Taken(s, short, c) : k >= i}
  BY <1>1, Zenon DEF MarkFrom
<1>7. Hit(s[i], short, c) <=> i \in Taken(s, short, c)
  BY <1>1 DEF Taken
<1>8. \A k \in Taken(s, short, c) : k >= i <=> k = i \/ k >= i + 1
  BY <1>1 DEF Taken
<1>9. QED  BY <1>2, <1>5, <1>6, <1>7, <1>8

(* The rest of a set that is passed over has nothing to mark.              *)
LEMMA MarkAtLong ==
  ASSUME NEW s, SoundBy(s), NEW n, NEW short, NEW c, Telling(s, n, short, c),
         NEW i \in 1..Len(s), s[i].type = "long", s[i].sum # c,
         NEW F, \A j \in (i + 1)..(Len(s) + 1) : F[j] = MarkFrom(s, short, c)[j]
  PROVE  MarkStep(s, short, c, F, i) = MarkFrom(s, short, c)[i]
<1>1. s \in Seq(Dentry) /\ Len(s) \in Nat /\ DOMAIN s = 1..Len(s) /\ i \in 1..(Len(s) + 1)
  BY DEF SoundBy
<1>2. PICK o : o = s[i].ord
  OBVIOUS
<1>3. o \in Nat \ {0} /\ RunAt(s, i, o)
      /\ i + o \in DOMAIN s /\ s[i + o].type = "short" /\ NameAt(s, i + o) = s[i].name
  BY <1>1, <1>2, RunIs
<1>4. /\ i + o + 1 = (i + o) + 1 /\ i + o + 1 <= Len(s) + 1 /\ i + o + 1 \in Nat /\ Len(s) + 1 \in Nat
      /\ i + o \in 1..Len(s) /\ i + o + 1 \in (i + 1)..(Len(s) + 1) /\ i + o + 1 \in 1..(Len(s) + 1)
  BY <1>1, <1>3
<1>5. F[i + o + 1] = {k \in Taken(s, short, c) : k >= i + o + 1}
  <2>1. MarkFrom(s, short, c)[i + o + 1] = {k \in Taken(s, short, c) : k >= i + o + 1}
    BY <1>4, Zenon DEF MarkFrom
  <2>2. QED  BY <1>4, <2>1
<1>6. Min({i + o + 1, Len(s) + 1}) = i + o + 1
  BY <1>4, MinOfTwo
<1>7. Dent(s, i).type # "unused" /\ ~Hit(s[i], short, c)
  BY <1>1 DEF Dent, Hit
<1>8. MarkStep(s, short, c, F, i) = {} \union F[i + o + 1]
  BY <1>2, <1>6, <1>7, Zenon DEF MarkStep
<1>9. MarkFrom(s, short, c)[i] = {k \in Taken(s, short, c) : k >= i}
  BY <1>1, Zenon DEF MarkFrom
<1>10. i + o \notin Taken(s, short, c)
  <2>1. s[i].name # n
    BY <1>1 DEF Telling
  <2>2. s[i + o].name # short
    BY <1>3, <2>1 DEF Telling
  <2>3. QED  BY <1>3, <2>2 DEF Taken, Hit
<1>11. ASSUME NEW k \in i..(i + o) - 1 PROVE k \notin Taken(s, short, c)
  <2>1. k - i \in 0..o - 1 /\ i + (k - i) = k
    BY <1>1, <1>3
  <2>2. s[k].type = "long" /\ s[k].sum = s[i].sum
    BY <1>3, <2>1 DEF RunAt
  <2>3. QED  BY <2>2 DEF Taken, Hit
<1>12. \A k \in Taken(s, short, c) : k >= i <=> k >= i + o + 1
  <2>1. Taken(s, short, c) \subseteq 1..Len(s)
    BY <1>1 DEF Taken
  <2>2. QED  BY <1>1, <1>3, <1>10, <1>11, <2>1
<1>13. QED  BY <1>5, <1>8, <1>9, <1>12

(* remove marks all there is to mark, of a long name and of its file.      *)
LEMMA MarksAreTaken ==
  ASSUME NEW s, SoundBy(s), NEW n, NEW short, NEW c, Telling(s, n, short, c)
  PROVE  Marks(s, short, c) = Taken(s, short, c)
<1> DEFINE D == 1..(Len(s) + 1)
           G == MarkFrom(s, short, c)
           B(F) == F = [i \in 1..Len(s) + 1 |-> MarkStep(s, short, c, F, i)]
<1>1. s \in Seq(Dentry) /\ Len(s) \in Nat /\ DOMAIN s = 1..Len(s)
  BY DEF SoundBy
<1>2. ASSUME NEW F, NEW i \in D, \A j \in (i + 1)..(Len(s) + 1) : F[j] = MarkFrom(s, short, c)[j]
      PROVE  MarkStep(s, short, c, F, i) = G[i]
  <2>1. CASE i = Len(s) + 1 \/ s[i].type = "unused"
    BY <2>1, MarkAtEnd
  <2>2. CASE i # Len(s) + 1 /\ s[i].type # "unused"
    <3>1. i \in 1..Len(s)
      BY <1>1, <2>2
    <3>2. CASE s[i].type = "long" /\ s[i].sum # c
      BY <1>2, <3>1, <3>2, MarkAtLong
    <3>3. CASE ~(s[i].type = "long" /\ s[i].sum # c)
      BY <1>2, <2>2, <3>1, <3>3, MarkAtOne
    <3>4. QED  BY <3>2, <3>3
  <2>3. QED  BY <2>1, <2>2
<1>3. ASSUME NEW i \in D PROVE MarkStep(s, short, c, G, i) = G[i]
  BY <1>2
<1>4. G = [i \in D |-> G[i]]
  BY Zenon DEF MarkFrom
<1>5. B(G)
  <2>1. [i \in D |-> MarkStep(s, short, c, G, i)] = [i \in D |-> G[i]]
    BY <1>3, Zenon
  <2>2. QED  BY <1>4, <2>1, Zenon
<1>6. PICK F : F = CHOOSE h : B(h)
  OBVIOUS
<1>7. B(F)
  <2> HIDE DEF B
  <2>1. \E h : B(h)
    BY <1>5, Zenon
  <2>2. B(CHOOSE h : B(h))
    BY <2>1, Zenon
  <2>3. QED  BY <1>6, <2>2, Zenon
<1>8. ASSUME NEW i \in D PROVE F[i] = MarkStep(s, short, c, F, i)
  BY <1>7, Zenon
<1>9. Marks(s, short, c) = F[1]
  BY <1>6, Zenon DEF Marks, MarkStep
<1> HIDE DEF B, G
<1>10. PICK g, m : g = G /\ m = Len(s) + 1
  OBVIOUS
<1>12. ASSUME NEW i \in 1..m, \A j \in (i + 1)..m : F[j] = g[j] PROVE F[i] = g[i]
  <2>1. i \in D /\ \A j \in (i + 1)..(Len(s) + 1) : F[j] = MarkFrom(s, short, c)[j]
    BY <1>10, <1>12 DEF G
  <2>2. MarkStep(s, short, c, F, i) = G[i]
    BY <1>2, <2>1
  <2>3. QED  BY <1>8, <1>10, <2>1, <2>2
<1>13. m \in Nat
  BY <1>1, <1>10
<1>14. \A i \in 1..m : F[i] = g[i]
  BY ONLY <1>12, <1>13, AgreeDown
<1>15. 1 \in 1..m /\ 1 \in D
  BY <1>1, <1>10
<1>16. F[1] = G[1]
  BY <1>10, <1>14, <1>15
<1>17. G[1] = {k \in Taken(s, short, c) : k >= 1}
  BY <1>15, Zenon DEF G, MarkFrom
<1>18. \A k \in Taken(s, short, c) : k >= 1
  BY <1>1 DEF Taken
<1>19. QED  BY <1>9, <1>16, <1>17, <1>18

-----------------------------------------------------------------------------
(* What delete makes of the dentries.                                      *)
DeletedBy(d, s, S) ==
  /\ d \in Seq(Dentry) /\ Len(d) = Len(s)
  /\ \A k \in 1..Len(s) :
       /\ d[k].name = s[k].name /\ d[k].ord = s[k].ord /\ d[k].sum = s[k].sum
       /\ k \in S => d[k].type = "deleted"
       /\ k \notin S => d[k].type = s[k].type

LEMMA Deleting ==
  ASSUME NEW s \in Seq(Dentry), NEW S
  PROVE  DeletedBy(Deleted(s, S), s, S)
<1>1. ASSUME NEW x \in Dentry
      PROVE  /\ [x EXCEPT !.type = "deleted"] \in Dentry /\ [x EXCEPT !.type = "deleted"].type = "deleted"
             /\ [x EXCEPT !.type = "deleted"].name = x.name /\ [x EXCEPT !.type = "deleted"].ord = x.ord
             /\ [x EXCEPT !.type = "deleted"].sum = x.sum
  BY DEF Dentry
<1>2. Len(s) \in Nat /\ DOMAIN s = 1..Len(s) /\ \A k \in 1..Len(s) : s[k] \in Dentry
  OBVIOUS
<1>3. PICK d : d = Deleted(s, S)
  OBVIOUS
<1>4. d = [k \in 1..Len(s) |-> IF k \in S THEN [s[k] EXCEPT !.type = "deleted"] ELSE s[k]]
  BY <1>2, <1>3, Zenon DEF Deleted
<1>5. ASSUME NEW k \in 1..Len(s)
      PROVE  /\ d[k] \in Dentry
             /\ d[k].name = s[k].name /\ d[k].ord = s[k].ord /\ d[k].sum = s[k].sum
             /\ k \in S => d[k].type = "deleted"
             /\ k \notin S => d[k].type = s[k].type
  <2>1. d[k] = IF k \in S THEN [s[k] EXCEPT !.type = "deleted"] ELSE s[k]
    BY <1>4
  <2>2. s[k] \in Dentry
    BY <1>2
  <2>3. CASE k \in S
    BY <1>1, <2>1, <2>2, <2>3, Zenon
  <2>4. CASE k \notin S
    BY <2>1, <2>2, <2>4, Zenon
  <2>5. QED  BY <2>3, <2>4
<1>6. d \in [1..Len(s) -> Dentry]
  <2>1. d = [k \in 1..Len(s) |-> d[k]]
    BY <1>4, Zenon
  <2>2. QED  BY <1>5, <2>1
<1>7. d \in Seq(Dentry) /\ Len(d) = Len(s)
  BY <1>2, <1>6
<1>8. QED  BY <1>3, <1>5, <1>7 DEF DeletedBy

(* remove takes the name from a directory in order and leaves it in order. *)
LEMMA TakenSound ==
  ASSUME NEW s, SoundBy(s), NEW n, NEW short, NEW c, Telling(s, n, short, c),
         NEW d, DeletedBy(d, s, Taken(s, short, c))
  PROVE  SoundBy(d) /\ NamesOf(d) = NamesOf(s) \ {n} /\ Len(d) = Len(s)
<1>1. s \in Seq(Dentry) /\ Len(s) \in Nat /\ DOMAIN s = 1..Len(s)
  BY DEF SoundBy
<1>2. PICK S : S = Taken(s, short, c)
  OBVIOUS
<1>3. d \in Seq(Dentry) /\ Len(d) = Len(s) /\ DOMAIN d = 1..Len(s)
  BY <1>1 DEF DeletedBy
<1>4. ASSUME NEW k \in 1..Len(s)
      PROVE  /\ d[k].name = s[k].name /\ d[k].ord = s[k].ord /\ d[k].sum = s[k].sum
             /\ k \in S => d[k].type = "deleted"
             /\ k \notin S => d[k].type = s[k].type
  BY <1>2 DEF DeletedBy
<1>5. ASSUME NEW k \in 1..Len(s) PROVE k \in S <=> s[k].type # "unused" /\ Hit(s[k], short, c)
  BY <1>1, <1>2 DEF Taken
<1>6. ASSUME NEW k \in 1..Len(s), s[k].type = "long"
      PROVE  /\ k + 1 \in 1..Len(s) /\ LinkedAt(s, k)
             /\ k \in S <=> s[k].name = n
             /\ k \in S <=> k + 1 \in S
             /\ s[k + 1].type = "short" => NameAt(s, k + 1) = s[k].name
  <2>1. LinkedAt(s, k) /\ k + 1 \in 1..Len(s)
    BY <1>1, <1>6 DEF SoundBy, LinkedAt
  <2>2. k \in S <=> s[k].name = n
    BY <1>1, <1>5, <1>6 DEF Telling, Hit
  <2>3. k + 1 > 1 /\ (k + 1) - 1 = k
    BY <1>1
  <2>4. s[k + 1].type = "short" => NameAt(s, k + 1) = s[k].name
    BY <1>6, <2>3 DEF NameAt
  <2>5. k \in S <=> k + 1 \in S
    <3>1. CASE s[k].ord = 1
      <4>1. s[k + 1].type = "short" /\ NameAt(s, k + 1) = s[k].name
        BY <2>1, <2>4, <3>1 DEF LinkedAt
      <4>2. s[k + 1].name = short <=> s[k].name = n
        BY <1>1, <2>1, <4>1 DEF Telling
      <4>3. k + 1 \in S <=> s[k + 1].name = short
        BY <1>5, <2>1, <4>1 DEF Hit
      <4>4. QED  BY <2>2, <4>2, <4>3
    <3>2. CASE s[k].ord # 1
      <4>1. s[k + 1].type = "long" /\ s[k + 1].sum = s[k].sum
        BY <2>1, <3>2 DEF LinkedAt
      <4>2. k + 1 \in S <=> s[k + 1].sum = c
        BY <1>5, <2>1, <4>1 DEF Hit
      <4>3. k \in S <=> s[k].sum = c
        BY <1>5, <1>6 DEF Hit
      <4>4. QED  BY <4>1, <4>2, <4>3
    <3>3. QED  BY <3>1, <3>2
  <2>6. QED  BY <2>1, <2>2, <2>4, <2>5
<1>7. ASSUME NEW k \in DOMAIN d, d[k].type = "long" PROVE LinkedAt(d, k)
  <2>1. k \in 1..Len(s) /\ k \notin S /\ s[k].type = "long"
    BY <1>3, <1>4, <1>7
  <2>2. k + 1 \in 1..Len(s) /\ k + 1 \notin S /\ LinkedAt(s, k)
    BY <1>6, <2>1
  <2>3. d[k + 1].name = s[k + 1].name /\ d[k + 1].ord = s[k + 1].ord /\ d[k + 1].sum = s[k + 1].sum
        /\ d[k + 1].type = s[k + 1].type
    BY <1>4, <2>2
  <2>4. d[k].name = s[k].name /\ d[k].ord = s[k].ord /\ d[k].sum = s[k].sum
    BY <1>4, <2>1
  <2>5. QED  BY <1>3, <2>2, <2>3, <2>4 DEF LinkedAt
<1>8. ASSUME NEW k \in DOMAIN d, NEW j \in DOMAIN d, k <= j, d[k].type = "unused" PROVE d[j].type = "unused"
  <2>1. s[k].type = "unused"
    BY <1>3, <1>4, <1>8
  <2>2. s[j].type = "unused"
    BY <1>1, <1>3, <1>8, <2>1 DEF SoundBy
  <2>3. j \notin S
    BY <1>3, <1>5, <2>2
  <2>4. QED  BY <1>3, <1>4, <2>2, <2>3
<1>9. ASSUME NEW k \in DOMAIN d, d[k].type \in {"short", "long"} PROVE d[k].name \in Name
  <2>1. s[k].type \in {"short", "long"} /\ d[k].name = s[k].name
    BY <1>3, <1>4, <1>9
  <2>2. QED  BY <1>1, <1>3, <2>1 DEF SoundBy
<1>10. SoundBy(d)
  BY <1>3, <1>7, <1>8, <1>9 DEF SoundBy
<1>11. ASSUME NEW k \in 1..Len(s), s[k].type = "short"
       PROVE  /\ k \in S <=> NameAt(s, k) = n
              /\ NameAt(s, k) # n => NameAt(d, k) = NameAt(s, k)
  <2>1. k \in S <=> NameAt(s, k) = n
    BY <1>1, <1>5, <1>11 DEF Telling, Hit
  <2>2. ASSUME NameAt(s, k) # n PROVE NameAt(d, k) = NameAt(s, k)
    <3>1. CASE k > 1
      <4>1. PICK j : j = k - 1
        OBVIOUS
      <4>2. j \in 1..Len(s) /\ j + 1 = k
        BY <1>1, <3>1, <4>1
      <4>3. CASE s[j].type = "long"
        <5>1. j \notin S
          BY <1>6, <2>1, <2>2, <4>2, <4>3
        <5>2. d[j].type = "long" /\ d[j].name = s[j].name
          BY <1>4, <4>2, <4>3, <5>1
        <5>3. QED  BY <3>1, <4>1, <4>3, <5>2 DEF NameAt
      <4>4. CASE s[j].type # "long"
        <5>1. d[j].type # "long"
          BY <1>4, <4>2, <4>4
        <5>2. d[k].name = s[k].name
          BY <1>4
        <5>3. QED  BY <4>1, <4>4, <5>1, <5>2 DEF NameAt
      <4>5. QED  BY <4>3, <4>4
    <3>2. CASE ~(k > 1)
      <4>1. d[k].name = s[k].name
        BY <1>4
      <4>2. QED  BY <3>2, <4>1, Zenon DEF NameAt
    <3>3. QED  BY <3>1, <3>2
  <2>3. QED  BY <2>1, <2>2
<1>12. ASSUME NEW k PROVE k \in Shorts(d) <=> k \in Shorts(s) /\ NameAt(s, k) # n
  <2>1. CASE k \in 1..Len(s)
    <3>1. d[k].type = "short" <=> s[k].type = "short" /\ k \notin S
      BY <1>4, <2>1
    <3>2. s[k].type = "short" => (k \in S <=> NameAt(s, k) = n)
      BY <1>11, <2>1
    <3>3. QED  BY <1>1, <1>3, <2>1, <3>1, <3>2 DEF Shorts
  <2>2. CASE k \notin 1..Len(s)
    BY <1>1, <1>3, <2>2 DEF Shorts
  <2>3. QED  BY <2>1, <2>2
<1>13. ASSUME NEW k \in Shorts(d) PROVE NameAt(d, k) = NameAt(s, k)
  <2>1. k \in 1..Len(s) /\ s[k].type = "short" /\ NameAt(s, k) # n
    BY <1>1, <1>12 DEF Shorts
  <2>2. QED  BY <1>11, <2>1
<1>14. NamesOf(d) = NamesOf(s) \ {n}
  BY <1>12, <1>13 DEF NamesOf
<1>15. QED  BY <1>3, <1>10, <1>14

-----------------------------------------------------------------------------
(* What is written over a part of the buffer.                              *)
Written(b, s, i, new) ==
  /\ b \in Seq(Dentry) /\ Len(b) = Len(s)
  /\ \A k \in 1..Len(s) : k \notin i..i + Len(new) - 1 => b[k] = s[k]
  /\ \A m \in 1..Len(new) : b[i + m - 1] = new[m]

LEMMA Overwriting ==
  ASSUME NEW s \in Seq(Dentry), NEW i \in Nat \ {0}, NEW new \in Seq(Dentry), i + Len(new) - 1 <= Len(s)
  PROVE  Written(Over(s, i, new), s, i, new)
<1>1. PICK b, l : b = Over(s, i, new) /\ l = Len(new)
  OBVIOUS
<1>2. l \in Nat /\ Len(s) \in Nat /\ DOMAIN s = 1..Len(s)
  BY <1>1
<1>3. b = [k \in 1..Len(s) |-> IF k \in i..i + l - 1 THEN new[k - i + 1] ELSE s[k]]
  BY <1>1, <1>2 DEF Over
<1>4. ASSUME NEW k \in 1..Len(s) PROVE b[k] \in Dentry
  <2>1. CASE k \in i..i + l - 1
    <3>1. k - i + 1 \in 1..l
      BY <1>2, <2>1
    <3>2. QED  BY <1>1, <1>3, <2>1, <3>1
  <2>2. CASE k \notin i..i + l - 1
    BY <1>3, <2>2
  <2>3. QED  BY <2>1, <2>2
<1>5. b \in [1..Len(s) -> Dentry]
  <2>1. b = [k \in 1..Len(s) |-> b[k]]
    BY <1>3, Zenon
  <2>2. QED  BY <1>4, <2>1
<1>6. b \in Seq(Dentry) /\ Len(b) = Len(s)
  BY <1>2, <1>5
<1>7. ASSUME NEW m \in 1..l PROVE b[i + m - 1] = new[m]
  <2>1. i + m - 1 \in 1..Len(s) /\ i + m - 1 \in i..i + l - 1 /\ (i + m - 1) - i + 1 = m
    BY <1>1, <1>2
  <2>2. b[i + m - 1] = new[(i + m - 1) - i + 1]
    BY <1>3, <2>1, Zenon
  <2>3. QED  BY <2>1, <2>2
<1>8. \A k \in 1..Len(s) : k \notin i..i + l - 1 => b[k] = s[k]
  BY <1>3
<1>9. QED  BY <1>1, <1>6, <1>7, <1>8 DEF Written

-----------------------------------------------------------------------------
(* No long name is cut off by the end.                                     *)
LEMMA BeforeEnd ==
  ASSUME NEW g, SoundBy(g), NEW e, EndOf(g, e)
  PROVE  \A k \in 1..e - 1 : /\ g[k].type = "long" => k + 1 \in 1..e - 1
                             /\ k = e - 1 => g[k].type # "long"
<1>1. g \in Seq(Dentry) /\ Len(g) \in Nat /\ DOMAIN g = 1..Len(g) /\ e \in 1..(Len(g) + 1)
  BY DEF SoundBy, EndOf
<1>2. ASSUME NEW k \in 1..e - 1, g[k].type = "long" PROVE k + 1 \in 1..e - 1
  <2>1. LinkedAt(g, k)
    BY <1>1, <1>2 DEF SoundBy
  <2>2. k + 1 \in 1..Len(g) /\ g[k + 1].type \in {"short", "long"}
    BY <1>1, <2>1 DEF LinkedAt
  <2>3. k + 1 = e => g[k + 1].type = "unused"
    BY <1>1, <2>2 DEF EndOf
  <2>4. k + 1 # e
    BY <2>2, <2>3
  <2>5. QED  BY <1>1, <1>2, <2>4
<1>3. QED  BY <1>1, <1>2

(* What create and fill put at the end.                                    *)
TailAt(b, k) ==
  /\ b[k].type = "long" => LinkedAt(b, k)
  /\ b[k].type = "unused" => \A j \in k..Len(b) : b[j].type = "unused"
  /\ b[k].type \in {"short", "long"} => b[k].name \in Name

TailNames(b, e) == {NameAt(b, k) : k \in {j \in e..Len(b) : b[j].type = "short"}}

LEMMA AddedSound ==
  ASSUME NEW g, SoundBy(g), NEW e, e = End(g), NEW b, b \in Seq(Dentry), Len(b) = Len(g),
         \A k \in 1..e - 1 : b[k] = g[k], \A k \in e..Len(b) : TailAt(b, k)
  PROVE  SoundBy(b) /\ NamesOf(b) = NamesOf(g) \union TailNames(b, e)
<1>1. g \in Seq(Dentry) /\ Len(g) \in Nat /\ DOMAIN g = 1..Len(g) /\ DOMAIN b = 1..Len(g)
  BY DEF SoundBy
<1>2. EndOf(g, e)
  BY <1>1, EndIsFirst
<1>3. e \in 1..(Len(g) + 1) /\ \A k \in 1..e - 1 : g[k].type # "unused"
  BY <1>2 DEF EndOf
<1>4. \A k \in 1..e - 1 : /\ g[k].type = "long" => k + 1 \in 1..e - 1
                          /\ k = e - 1 => g[k].type # "long"
  BY <1>2, BeforeEnd
<1>5. \A k \in DOMAIN b : k \in 1..e - 1 \/ k \in e..Len(b)
  BY <1>1, <1>3
<1>6. ASSUME NEW k \in DOMAIN b, b[k].type = "long" PROVE LinkedAt(b, k)
  <2>1. CASE k \in 1..e - 1
    <3>1. b[k] = g[k] /\ k + 1 \in 1..e - 1 /\ k \in DOMAIN g
      BY <1>1, <1>4, <1>6, <2>1
    <3>2. b[k + 1] = g[k + 1]
      BY <3>1
    <3>3. LinkedAt(g, k)
      BY <1>6, <3>1 DEF SoundBy
    <3>4. QED  BY <1>1, <3>1, <3>2, <3>3 DEF LinkedAt
  <2>2. CASE k \in e..Len(b)
    BY <1>6, <2>2 DEF TailAt
  <2>3. QED  BY <1>5, <2>1, <2>2
<1>7. ASSUME NEW k \in DOMAIN b, NEW j \in DOMAIN b, k <= j, b[k].type = "unused" PROVE b[j].type = "unused"
  <2>1. k \in e..Len(b)
    BY <1>3, <1>5, <1>7
  <2>2. j \in k..Len(b)
    BY <1>1, <1>7
  <2>3. QED  BY <1>7, <2>1, <2>2 DEF TailAt
<1>8. ASSUME NEW k \in DOMAIN b, b[k].type \in {"short", "long"} PROVE b[k].name \in Name
  <2>1. CASE k \in 1..e - 1
    BY <1>1, <1>3, <1>8, <2>1 DEF SoundBy
  <2>2. CASE k \in e..Len(b)
    BY <1>8, <2>2 DEF TailAt
  <2>3. QED  BY <1>5, <2>1, <2>2
<1>9. SoundBy(b)
  BY <1>6, <1>7, <1>8 DEF SoundBy
<1>10. ASSUME NEW k \in 1..e - 1 PROVE NameAt(b, k) = NameAt(g, k)
  <2>1. b[k] = g[k]
    OBVIOUS
  <2>2. k > 1 => b[k - 1] = g[k - 1]
    BY <1>3
  <2>3. QED  BY <2>1, <2>2 DEF NameAt
<1>11. Shorts(g) \subseteq 1..e - 1
  <2>1. ASSUME NEW k \in 1..Len(g), g[k].type = "short" PROVE k \in 1..e - 1
    BY <1>1, <1>2, <2>1 DEF EndOf, SoundBy
  <2>2. QED  BY <1>1, <2>1 DEF Shorts
<1>12. Shorts(b) = Shorts(g) \union {j \in e..Len(b) : b[j].type = "short"}
  <2>1. 1..e - 1 \subseteq DOMAIN b /\ e..Len(b) \subseteq DOMAIN b
    BY <1>1, <1>3
  <2>2. ASSUME NEW k \in 1..e - 1 PROVE k \in Shorts(b) <=> k \in Shorts(g)
    BY <1>1, <2>1 DEF Shorts
  <2>3. ASSUME NEW k \in e..Len(b) PROVE k \notin 1..e - 1
    BY <1>3
  <2>4. ASSUME NEW k PROVE k \in Shorts(b) <=> k \in Shorts(g) \/ (k \in e..Len(b) /\ b[k].type = "short")
    <3>1. CASE k \in 1..e - 1
      <4>1. k \notin e..Len(b)
        BY <2>3, <3>1
      <4>2. QED  BY <2>2, <3>1, <4>1
    <3>2. CASE k \in e..Len(b)
      <4>1. k \notin Shorts(g) /\ k \in DOMAIN b
        BY <1>11, <2>1, <2>3, <3>2
      <4>2. QED  BY <3>2, <4>1 DEF Shorts
    <3>3. CASE k \notin 1..e - 1 /\ k \notin e..Len(b)
      <4>1. k \notin DOMAIN b /\ k \notin Shorts(g)
        BY <1>5, <1>11, <3>3
      <4>2. QED  BY <3>3, <4>1 DEF Shorts
    <3>4. QED  BY <3>1, <3>2, <3>3
  <2>5. QED  BY <2>4
<1>13. \A k \in Shorts(g) : NameAt(b, k) = NameAt(g, k)
  BY <1>10, <1>11
<1>14. NamesOf(b) = NamesOf(g) \union TailNames(b, e)
  BY <1>12, <1>13 DEF NamesOf, TailNames
<1>15. QED  BY <1>9, <1>14

(* What is unused at the end stays so behind what is written there.        *)
LEMMA BehindWritten ==
  ASSUME NEW g, SoundBy(g), NEW e, e = End(g), NEW l \in Nat \ {0}, e + l - 1 <= Len(g), NEW b, Len(b) = Len(g),
         \A k \in e + l..Len(g) : b[k] = g[k]
  PROVE  \A k \in e + l..Len(b) : TailAt(b, k) /\ b[k].type = "unused"
<1>1. g \in Seq(Dentry) /\ Len(g) \in Nat /\ DOMAIN g = 1..Len(g)
  BY DEF SoundBy
<1>2. EndOf(g, e)
  BY <1>1, EndIsFirst
<1>3. e \in DOMAIN g /\ g[e].type = "unused"
  BY <1>1, <1>2 DEF EndOf
<1>4. ASSUME NEW k \in e + l..Len(b) PROVE b[k].type = "unused"
  <2>1. k \in DOMAIN g /\ e <= k
    BY <1>1, <1>3
  <2>2. g[k].type = "unused"
    BY <1>3, <2>1 DEF SoundBy
  <2>3. QED  BY <2>2
<1>5. ASSUME NEW k \in e + l..Len(b) PROVE \A j \in k..Len(b) : j \in e + l..Len(b)
  BY <1>1, <1>3
<1>6. QED  BY <1>4, <1>5 DEF TailAt

(* The entry set of a name.                                                *)
IsEntrySet(x, n, c) ==
  /\ x \in Seq(Dentry) /\ Len(x) = Pieces[n] + 1
  /\ \A k \in 1..Pieces[n] : x[k] = Long(Shown[n], Pieces[n] - k + 1, c)
  /\ x[Pieces[n] + 1] = File(Short[n])

SumOf(n, g) == Checksum[Short[n], g]

LEMMA SumIsNat ==
  ASSUME NEW n \in Name, NEW g \in Garbage
  PROVE  SumOf(n, g) \in Nat
<1>1. Short[n] \in Name /\ Checksum \in [Name \X Garbage -> Nat]
  BY DentriesAssumption DEF DentriesAssumption
<1>2. <<Short[n], g>> \in Name \X Garbage
  BY <1>1
<1>3. Checksum[<<Short[n], g>>] \in Nat
  BY <1>1, <1>2, Zenon
<1>4. QED  BY <1>3, Zenon DEF SumOf

NameFacts(n) ==
  /\ Short[n] \in Name /\ Shown[n] \in Name /\ Pieces[n] \in Nat
  /\ Pieces[n] = 0 => Short[n] = n /\ Shown[n] = n

LEMMA NamesHave ==
  ASSUME NEW n \in Name
  PROVE  NameFacts(n)
BY DentriesAssumption DEF DentriesAssumption, NameFacts

LEMMA MadeDentries ==
  ASSUME NEW n \in Name, NEW o \in Nat, NEW c \in Nat
  PROVE  /\ File(n) \in Dentry /\ File(n).type = "short" /\ File(n).name = n
         /\ Long(n, o, c) \in Dentry /\ Long(n, o, c).type = "long" /\ Long(n, o, c).name = n
         /\ Long(n, o, c).ord = o /\ Long(n, o, c).sum = c
BY DEF File, Long, Dentry

LEMMA EntrySetIs ==
  ASSUME NEW n \in Name, NEW g, NEW c \in Nat, c = SumOf(n, g)
  PROVE  IsEntrySet(EntrySet(n, g), n, c)
<1>1. PICK p : p = Pieces[n]
  OBVIOUS
<1>2. Short[n] \in Name /\ Shown[n] \in Name /\ p \in Nat
  BY <1>1, NamesHave DEF NameFacts
<1>3. PICK y, z : y = [k \in 1..p |-> Long(Shown[n], p - k + 1, c)] /\ z = <<File(Short[n])>>
  OBVIOUS
<1>4. ASSUME NEW k \in 1..p PROVE Long(Shown[n], p - k + 1, c) \in Dentry
  <2>1. p - k + 1 \in Nat
    BY <1>2
  <2>2. QED  BY <1>2, <2>1, MadeDentries
<1>5. y \in Seq(Dentry) /\ Len(y) = p /\ \A k \in 1..p : y[k] = Long(Shown[n], p - k + 1, c)
  <2>1. \A k \in 1..p : y[k] \in Dentry /\ y[k] = Long(Shown[n], p - k + 1, c)
    BY <1>3, <1>4
  <2>2. y = [k \in 1..p |-> y[k]]
    BY <1>3, <2>1, Zenon
  <2>3. y \in [1..p -> Dentry]
    BY <2>1, <2>2
  <2>4. QED  BY <1>2, <2>1, <2>3
<1>6. File(Short[n]) \in Dentry
  BY <1>2, MadeDentries
<1>7. z \in Seq(Dentry) /\ Len(z) = 1 /\ z[1] = File(Short[n])
  BY <1>3, <1>6
<1>8. PICK x : x = y \o z
  OBVIOUS
<1>9. x \in Seq(Dentry) /\ Len(x) = Len(y) + Len(z)
      /\ \A i \in 1..Len(y) + Len(z) : x[i] = IF i <= Len(y) THEN y[i] ELSE z[i - Len(y)]
  BY <1>5, <1>7, <1>8, ConcatProperties
<1>10. EntrySet(n, g) = x
  BY <1>1, <1>3, <1>8, Zenon DEF EntrySet, SumOf
<1>11. ASSUME NEW k \in 1..p PROVE x[k] = Long(Shown[n], p - k + 1, c)
  <2>1. k \in 1..Len(y) + Len(z) /\ k <= Len(y)
    BY <1>2, <1>5, <1>7
  <2>2. x[k] = y[k]
    BY <1>9, <2>1
  <2>3. QED  BY <1>5, <2>2
<1>12. x[p + 1] = File(Short[n])
  <2>0. PICK i : i = p + 1
    OBVIOUS
  <2>1. i \in 1..Len(y) + Len(z) /\ ~(i <= Len(y)) /\ i - Len(y) = 1
    BY <1>2, <1>5, <1>7, <2>0
  <2>2. x[i] = z[i - Len(y)]
    BY <1>9, <2>1, Zenon
  <2>3. QED  BY <1>7, <2>0, <2>1, <2>2
<1>13. QED  BY <1>1, <1>5, <1>7, <1>9, <1>10, <1>11, <1>12 DEF IsEntrySet

(* What a directory is to which names were added.                          *)
Added(b, g, names) == SoundBy(b) /\ Len(b) = Len(g) /\ NamesOf(b) = NamesOf(g) \union names

(* create leaves the directory with the name it is read back as.           *)
LEMMA CreateAdds ==
  ASSUME NEW g, SoundBy(g), NEW n \in Name, NEW u, NEW c \in Nat, c = SumOf(n, u),
         End(g) + Pieces[n] <= Len(g)
  PROVE  Added(Over(g, End(g), EntrySet(n, u)), g, {Shown[n]})
<1>1. g \in Seq(Dentry) /\ Len(g) \in Nat /\ DOMAIN g = 1..Len(g)
  BY DEF SoundBy
<1>2. PICK e, p, x, z, sh : /\ e = End(g) /\ p = Pieces[n] /\ x = EntrySet(n, u) /\ z = Len(g)
                            /\ sh = Shown[n]
  OBVIOUS
<1>3. EndOf(g, e)
  BY <1>1, <1>2, EndIsFirst
<1>4. p \in Nat /\ Short[n] \in Name /\ sh \in Name /\ (p = 0 => Short[n] = sh)
  BY <1>2, NamesHave DEF NameFacts
<1>5. x \in Seq(Dentry) /\ Len(x) = p + 1 /\ x[p + 1] = File(Short[n])
      /\ \A k \in 1..p : x[k] = Long(sh, p - k + 1, c)
  <2>1. IsEntrySet(EntrySet(n, u), n, c)
    BY EntrySetIs
  <2>2. QED  BY <1>2, <2>1 DEF IsEntrySet
<1>6. e \in 1..z + 1 /\ e \in Nat \ {0} /\ e + p <= z /\ z \in Nat
  BY <1>1, <1>2, <1>3 DEF EndOf
<1>7. PICK b : b = Over(g, e, x)
  OBVIOUS
<1>8. Written(b, g, e, x)
  <2>1. e + Len(x) - 1 <= Len(g)
    BY <1>2, <1>4, <1>5, <1>6
  <2>2. QED  BY <1>1, <1>5, <1>6, <1>7, <2>1, Overwriting
<1>9. b \in Seq(Dentry) /\ Len(b) = z /\ DOMAIN b = 1..z
  BY <1>1, <1>2, <1>8 DEF Written
<1>10. \A k \in 1..z : k \notin e..e + p => b[k] = g[k]
  <2>1. e + Len(x) - 1 = e + p
    BY <1>4, <1>5, <1>6
  <2>2. QED  BY <1>2, <1>8, <2>1 DEF Written
<1>11. \A m \in 1..p + 1 : b[e + m - 1] = x[m]
  BY <1>5, <1>8 DEF Written
<1>12. b[e + p] = File(Short[n])
  <2>1. p + 1 \in 1..p + 1 /\ e + (p + 1) - 1 = e + p
    BY <1>4, <1>6
  <2>2. QED  BY <1>5, <1>11, <2>1
<1>13. ASSUME NEW k \in e..e + p - 1
       PROVE  /\ b[k].type = "long" /\ b[k].name = sh /\ b[k].ord = p - (k - e) /\ b[k].sum = c
              /\ p - (k - e) \in Nat \ {0} /\ k + 1 \in e..e + p
  <2>1. PICK m : m = k - e + 1
    OBVIOUS
  <2>2. m \in 1..p /\ m \in 1..p + 1 /\ e + m - 1 = k /\ p - m + 1 = p - (k - e) /\ p - m + 1 \in Nat \ {0}
        /\ k + 1 \in e..e + p
    BY <1>4, <1>6, <2>1
  <2>3. b[k] = Long(sh, p - m + 1, c)
    BY <1>5, <1>11, <2>2
  <2>4. PICK o : o = p - m + 1
    OBVIOUS
  <2>5. o \in Nat /\ sh \in Name /\ b[k] = Long(sh, o, c)
    BY <1>4, <2>2, <2>3, <2>4
  <2>6. b[k].type = "long" /\ b[k].name = sh /\ b[k].ord = o /\ b[k].sum = c
    BY <2>5, MadeDentries
  <2>7. QED  BY <2>2, <2>4, <2>6
<1>14. b[e + p].type = "short" /\ b[e + p].name = Short[n]
  BY <1>4, <1>12, MadeDentries
<1>15. ASSUME NEW k \in e..e + p - 1 PROVE LinkedAt(b, k)
  <2>1. k + 1 \in DOMAIN b /\ b[k].ord \in Nat \ {0}
    <3>1. k + 1 \in e..e + p /\ b[k].ord \in Nat \ {0}
      BY <1>13
    <3>2. k + 1 \in 1..z
      BY <1>4, <1>6, <3>1
    <3>3. QED  BY <1>9, <3>1, <3>2
  <2>2. CASE b[k].ord = 1
    <3>1. p - (k - e) = 1 /\ k \in Int
      BY <1>13, <2>2
    <3>2. k + 1 = e + p
      BY <1>4, <1>6, <3>1
    <3>3. QED  BY <1>14, <2>1, <2>2, <3>2 DEF LinkedAt
  <2>3. CASE b[k].ord # 1
    <3>1. p - (k - e) # 1 /\ k \in Int
      BY <1>13, <2>3
    <3>2. k + 1 \in e..e + p - 1 /\ p - ((k + 1) - e) = (p - (k - e)) - 1
      BY <1>4, <1>6, <3>1
    <3>3. /\ b[k + 1].type = "long" /\ b[k + 1].name = sh /\ b[k + 1].ord = p - ((k + 1) - e)
          /\ b[k + 1].sum = c
      BY <1>13, <3>2
    <3>4. QED  BY <1>13, <2>1, <2>3, <3>2, <3>3 DEF LinkedAt
  <2>4. QED  BY <2>2, <2>3
<1>16. \A k \in e + (p + 1)..Len(b) : TailAt(b, k) /\ b[k].type = "unused"
  <2>1. p + 1 \in Nat \ {0} /\ e + (p + 1) - 1 <= Len(g)
    BY <1>2, <1>4, <1>6
  <2>2. \A k \in e + (p + 1)..Len(g) : b[k] = g[k]
    BY <1>2, <1>4, <1>6, <1>10
  <2>3. QED  BY <1>2, <1>9, <2>1, <2>2, BehindWritten
<1>17. ASSUME NEW k \in e..Len(b) PROVE TailAt(b, k)
  <2>1. k \in e..e + p - 1 \/ k = e + p \/ k \in e + (p + 1)..Len(b)
    BY <1>4, <1>6, <1>9
  <2>2. CASE k \in e..e + p - 1
    BY <1>4, <1>13, <1>15, <2>2 DEF TailAt
  <2>3. CASE k = e + p
    BY <1>4, <1>14, <2>3 DEF TailAt
  <2>4. CASE k \in e + (p + 1)..Len(b)
    BY <1>16, <2>4
  <2>5. QED  BY <2>1, <2>2, <2>3, <2>4
<1>18. \A k \in 1..e - 1 : b[k] = g[k]
  BY <1>2, <1>6, <1>10
<1>19. SoundBy(b) /\ NamesOf(b) = NamesOf(g) \union TailNames(b, e)
  BY <1>2, <1>9, <1>17, <1>18, AddedSound
<1>20. NameAt(b, e + p) = sh
  <2>1. CASE p = 0
    <3>1. e + p = e /\ b[e].name = sh
      BY <1>4, <1>6, <1>14, <2>1
    <3>2. e > 1 => b[e - 1].type # "long"
      <4>1. ASSUME e > 1 PROVE b[e - 1].type # "long"
        <5>1. e - 1 \in 1..e - 1
          BY <1>6, <4>1
        <5>2. g[e - 1].type # "long"
          BY <1>3, <5>1, BeforeEnd
        <5>3. QED  BY <1>18, <5>1, <5>2
      <4>2. QED  BY <4>1
    <3>3. QED  BY <3>1, <3>2 DEF NameAt
  <2>2. CASE p # 0
    <3>1. (e + p) - 1 \in e..e + p - 1 /\ e + p > 1
      BY <1>4, <1>6, <2>2
    <3>2. b[(e + p) - 1].type = "long" /\ b[(e + p) - 1].name = sh
      BY <1>13, <3>1
    <3>3. QED  BY <3>1, <3>2 DEF NameAt
  <2>3. QED  BY <2>1, <2>2
<1>21. {j \in e..Len(b) : b[j].type = "short"} = {e + p}
  <2>1. ASSUME NEW j \in e..Len(b), b[j].type = "short" PROVE j = e + p
    <3>1. j \in e..e + p - 1 \/ j = e + p \/ j \in e + (p + 1)..Len(b)
      BY <1>4, <1>6, <1>9
    <3>2. QED  BY <1>13, <1>16, <2>1, <3>1
  <2>2. e + p \in e..Len(b)
    BY <1>4, <1>6, <1>9
  <2>3. QED  BY <1>14, <2>1, <2>2
<1>22. TailNames(b, e) = {sh}
  BY <1>20, <1>21 DEF TailNames
<1>23. QED  BY <1>2, <1>7, <1>9, <1>19, <1>22 DEF Added

(* fill does with the names it made up.                                    *)
LEMMA FillAdds ==
  ASSUME NEW g, SoundBy(g), NEW m \in Nat \ {0}, End(g) + m - 1 <= Len(g), NEW new \in [1..m -> Random]
  PROVE  Added(Filled(g, new), g, ToSet(new))
<1>1. g \in Seq(Dentry) /\ Len(g) \in Nat /\ DOMAIN g = 1..Len(g)
  BY DEF SoundBy
<1>2. PICK e, x, z : e = End(g) /\ x = [k \in DOMAIN new |-> File(new[k])] /\ z = Len(g)
  OBVIOUS
<1>3. EndOf(g, e)
  BY <1>1, <1>2, EndIsFirst
<1>4. \A k \in 1..m : new[k] \in Name
  BY DentriesAssumption DEF DentriesAssumption
<1>5. x \in Seq(Dentry) /\ Len(x) = m /\ \A k \in 1..m : x[k] = File(new[k])
  <2>1. DOMAIN new = 1..m
    OBVIOUS
  <2>2. \A k \in 1..m : File(new[k]) \in Dentry
    BY <1>4, MadeDentries
  <2>3. x = [k \in 1..m |-> File(new[k])]
    BY <1>2, <2>1, Zenon
  <2>4. x \in [1..m -> Dentry] /\ \A k \in 1..m : x[k] = File(new[k])
    BY <2>2, <2>3
  <2>5. QED  BY <2>4
<1>6. e \in 1..z + 1 /\ e \in Nat \ {0} /\ e + m - 1 <= z /\ z \in Nat
  BY <1>1, <1>2, <1>3 DEF EndOf
<1>7. PICK b : b = Over(g, e, x)
  OBVIOUS
<1>8. Written(b, g, e, x)
  BY <1>1, <1>2, <1>5, <1>6, <1>7, Overwriting
<1>9. b \in Seq(Dentry) /\ Len(b) = z /\ DOMAIN b = 1..z
  BY <1>1, <1>2, <1>8 DEF Written
<1>10. \A k \in 1..z : k \notin e..e + m - 1 => b[k] = g[k]
  BY <1>2, <1>5, <1>8 DEF Written
<1>11. ASSUME NEW k \in e..e + m - 1
       PROVE  k - e + 1 \in 1..m /\ b[k].type = "short" /\ b[k].name = new[k - e + 1]
  <2>1. PICK j : j = k - e + 1
    OBVIOUS
  <2>2. j \in 1..m /\ e + j - 1 = k
    BY <1>6, <2>1
  <2>3. b[k] = File(new[j])
    BY <1>5, <1>8, <2>2 DEF Written
  <2>4. QED  BY <1>4, <2>1, <2>2, <2>3, MadeDentries
<1>12. \A k \in e + m..Len(b) : TailAt(b, k) /\ b[k].type = "unused"
  <2>1. \A k \in e + m..Len(g) : b[k] = g[k]
    BY <1>2, <1>6, <1>10
  <2>2. QED  BY <1>2, <1>9, <2>1, BehindWritten
<1>13. \A k \in e..Len(b) : k \in e..e + m - 1 \/ k \in e + m..Len(b)
  BY <1>6, <1>9
<1>14. ASSUME NEW k \in e..Len(b) PROVE TailAt(b, k)
  <2>1. CASE k \in e..e + m - 1
    BY <1>4, <1>11, <2>1 DEF TailAt
  <2>2. CASE k \in e + m..Len(b)
    BY <1>12, <2>2
  <2>3. QED  BY <1>13, <2>1, <2>2
<1>15. \A k \in 1..e - 1 : b[k] = g[k]
  BY <1>2, <1>6, <1>10
<1>16. SoundBy(b) /\ NamesOf(b) = NamesOf(g) \union TailNames(b, e)
  BY <1>2, <1>9, <1>14, <1>15, AddedSound
<1>17. ASSUME NEW k \in e..e + m - 1 PROVE NameAt(b, k) = new[k - e + 1]
  <2>1. ASSUME k > 1 PROVE b[k - 1].type # "long"
    <3>1. CASE k = e
      <4>1. e - 1 \in 1..e - 1
        BY <1>6, <2>1, <3>1
      <4>2. g[e - 1].type # "long"
        BY <1>3, <4>1, BeforeEnd
      <4>3. QED  BY <1>15, <3>1, <4>1, <4>2
    <3>2. CASE k # e
      <4>1. k - 1 \in e..e + m - 1
        BY <1>6, <3>2
      <4>2. b[k - 1].type = "short"
        BY <1>11, <4>1
      <4>3. QED  BY <4>2
    <3>3. QED  BY <3>1, <3>2
  <2>2. QED  BY <1>11, <2>1 DEF NameAt
<1>18. TailNames(b, e) = ToSet(new)
  <2>1. ASSUME NEW k \in e..Len(b), b[k].type = "short" PROVE k \in e..e + m - 1
    BY <1>12, <1>13, <2>1
  <2>2. ASSUME NEW j \in 1..m PROVE e + j - 1 \in e..Len(b) /\ e + j - 1 \in e..e + m - 1 /\ (e + j - 1) - e + 1 = j
    BY <1>6, <1>9
  <2>3. ASSUME NEW j \in 1..m
        PROVE  \E k \in {i \in e..Len(b) : b[i].type = "short"} : NameAt(b, k) = new[j]
    <3>1. PICK k : k = e + j - 1
      OBVIOUS
    <3>2. k \in e..Len(b) /\ k \in e..e + m - 1 /\ k - e + 1 = j
      BY <2>2, <3>1
    <3>3. b[k].type = "short" /\ NameAt(b, k) = new[j]
      BY <1>11, <1>17, <3>2
    <3>4. QED  BY <3>2, <3>3
  <2>4. ASSUME NEW k \in {i \in e..Len(b) : b[i].type = "short"}
        PROVE  \E j \in 1..m : NameAt(b, k) = new[j]
    <3>1. k \in e..e + m - 1
      BY <2>1
    <3>2. k - e + 1 \in 1..m /\ NameAt(b, k) = new[k - e + 1]
      BY <1>11, <1>17, <3>1
    <3>3. QED  BY <3>2
  <2>5. {NameAt(b, k) : k \in {i \in e..Len(b) : b[i].type = "short"}} = {new[j] : j \in 1..m}
    BY <2>3, <2>4
  <2>6. DOMAIN new = 1..m
    OBVIOUS
  <2>7. QED  BY <2>5, <2>6, Zenon DEF TailNames, ToSet
<1>19. Filled(g, new) = b
  BY <1>2, <1>7, Zenon DEF Filled
<1>20. QED  BY <1>2, <1>9, <1>16, <1>18, <1>19 DEF Added

-----------------------------------------------------------------------------
(* How many clusters a number of dentries takes.                           *)
LEMMA PerClusterIsPositive == PerCluster \in Nat \ {0}
BY DentriesAssumption DEF DentriesAssumption

LEMMA ClustersOf ==
  ASSUME NEW n \in Nat
  PROVE  /\ Clusters(n) \in Nat
         /\ n <= Clusters(n) * PerCluster
         /\ Clusters(n) * PerCluster < n + PerCluster
         /\ n >= 1 => Clusters(n) >= 1
<1>1. PICK p, m, q : p = PerCluster /\ m = n + PerCluster - 1 /\ q = m \div p
  OBVIOUS
<1>2. p \in Nat \ {0} /\ m \in Nat /\ m = n + p - 1 /\ q = m \div p
  BY <1>1, PerClusterIsPositive
<1>3. q \in Int /\ m = p * q + (m % p) /\ m % p \in 0..(p - 1)
  BY ONLY <1>2
<1>4. q >= 0
  <2>1. p * q > -p
    BY <1>2, <1>3
  <2>2. p * q = q * p /\ 0 * p < q * p + p
    BY <1>2, <1>3, <2>1
  <2>3. QED  BY <1>2, <1>3, <2>2, Products
<1>5. q * p <= m /\ m < q * p + p
  BY <1>2, <1>3
<1>6. n <= q * p /\ q * p < n + p
  BY <1>2, <1>3, <1>5
<1>7. n >= 1 => q >= 1
  <2>1. ASSUME q = 0 PROVE n <= 0
    <3>1. q * p = 0
      BY ONLY <1>2, <2>1
    <3>2. QED  BY <1>6, <3>1
  <2>2. QED  BY <1>3, <1>4, <2>1
<1>8. Clusters(n) = q
  BY <1>1 DEF Clusters
<1>9. QED  BY <1>1, <1>3, <1>4, <1>6, <1>7, <1>8

LEMMA ClustersMonotone ==
  ASSUME NEW m \in Nat, NEW n \in Nat, m <= n
  PROVE  Clusters(m) <= Clusters(n)
<1>1. PICK a, b, p : a = Clusters(m) /\ b = Clusters(n) /\ p = PerCluster
  OBVIOUS
<1>2. a \in Nat /\ b \in Nat /\ p \in Nat \ {0} /\ a * p < m + p /\ n <= b * p
  BY <1>1, ClustersOf, PerClusterIsPositive
<1>3. a * p \in Int /\ b * p \in Int
  BY <1>2
<1>4. a * p < b * p + p
  BY <1>2, <1>3
<1>5. a <= b
  BY ONLY <1>2, <1>4, Products
<1>6. QED  BY <1>1, <1>5

LEMMA ClustersExact ==
  ASSUME NEW q \in Nat
  PROVE  q * PerCluster \in Nat /\ Clusters(q * PerCluster) = q
<1>1. PICK p, n, c : p = PerCluster /\ n = q * PerCluster /\ c = Clusters(n)
  OBVIOUS
<1>2. p \in Nat \ {0} /\ n \in Nat /\ n = q * p
  BY <1>1, PerClusterIsPositive
<1>3. c \in Nat /\ n <= c * p /\ c * p < n + p
  BY <1>1, <1>2, ClustersOf
<1>4. c * p \in Int
  BY <1>2, <1>3
<1>5. q * p < c * p + p /\ c * p < q * p + p
  BY <1>2, <1>3, <1>4
<1>6. c <= q /\ q <= c
  BY ONLY <1>2, <1>3, <1>5, Products, q \in Nat
<1>7. QED  BY <1>1, <1>2, <1>3, <1>6

LEMMA ClustersWhole ==
  ASSUME NEW n \in Nat, n % PerCluster = 0
  PROVE  Clusters(n) * PerCluster = n
<1>1. PICK p, q : p = PerCluster /\ q = n \div PerCluster
  OBVIOUS
<1>2. p \in Nat \ {0} /\ n % p = 0 /\ q = n \div p
  BY <1>1, PerClusterIsPositive
<1>3. q \in Nat /\ n = q * p
  BY ONLY <1>2, n \in Nat
<1>4. Clusters(q * PerCluster) = q
  BY <1>3, ClustersExact
<1>5. QED  BY <1>1, <1>3, <1>4

-----------------------------------------------------------------------------
(* What a directory grows by.                                              *)
AllUnused(n) == [k \in 1..n |-> Unused]

LEMMA AllUnusedLonger ==
  ASSUME NEW n \in Nat, NEW c, c \in [1..PerCluster -> Dentry], \A k \in DOMAIN c : c[k] = Unused
  PROVE  AllUnused(n) \o c = AllUnused(n + PerCluster)
<1>1. PICK p, a, z : p = PerCluster /\ a = AllUnused(n) /\ z = AllUnused(n + PerCluster)
  OBVIOUS
<1>2. p \in Nat /\ c \in Seq(Dentry) /\ Len(c) = p /\ \A k \in 1..p : c[k] = Unused
  BY <1>1, PerClusterIsPositive
<1>3. a \in Seq(Dentry) /\ Len(a) = n /\ \A k \in 1..n : a[k] = Unused
  BY <1>1, UnusedIsDentry DEF AllUnused
<1>4. z \in Seq(Dentry) /\ Len(z) = n + p /\ \A k \in 1..(n + p) : z[k] = Unused
  BY <1>1, <1>2, UnusedIsDentry DEF AllUnused
<1>5. PICK w : w = a \o c
  OBVIOUS
<1>6. /\ w \in Seq(Dentry) /\ Len(w) = Len(a) + Len(c)
      /\ \A i \in 1..Len(a) + Len(c) : w[i] = IF i <= Len(a) THEN a[i] ELSE c[i - Len(a)]
  BY <1>2, <1>3, <1>5, ConcatProperties
<1>7. ASSUME NEW i \in 1..(n + p) PROVE w[i] = Unused
  <2>1. i \in 1..Len(a) + Len(c)
    BY <1>2, <1>3
  <2>2. CASE i <= n
    BY <1>3, <1>6, <2>1, <2>2
  <2>3. CASE ~(i <= n)
    <3>1. i - n \in 1..p
      BY <1>2, <2>3
    <3>2. QED  BY <1>2, <1>3, <1>6, <2>1, <2>3, <3>1
  <2>4. QED  BY <2>2, <2>3
<1>8. Len(w) = Len(z) /\ \A i \in 1..Len(w) : w[i] = z[i]
  BY <1>2, <1>3, <1>4, <1>6, <1>7
<1>9. w = z
  BY <1>4, <1>6, <1>8, SeqEqual
<1>10. QED  BY <1>1, <1>5, <1>9

LEMMA FlatUnused ==
  ASSUME Zeroed, NEW m \in Nat \ {0}, NEW new \in [1..m -> Stale]
  PROVE  FlattenSeq(new) = AllUnused(m * PerCluster)
<1> DEFINE Step(F, i) == IF i = 1 THEN new[i] ELSE F[i - 1] \o new[i]
           B(F) == F = [i \in 1..Len(new) |-> Step(F, i)]
           G == [i \in 1..m |-> AllUnused(i * PerCluster)]
<1>1. Len(new) = m /\ ~(Len(new) = 0)
  OBVIOUS
<1>2. ASSUME NEW i \in 1..m
      PROVE  new[i] \in [1..PerCluster -> Dentry] /\ \A k \in DOMAIN new[i] : new[i][k] = Unused
  BY DentriesAssumption DEF DentriesAssumption, Zeroed
<1>3. ASSUME NEW i \in 1..m, NEW F, i > 1 => F[i - 1] = G[i - 1] PROVE Step(F, i) = G[i]
  <2>1. G[i] = AllUnused(i * PerCluster)
    OBVIOUS
  <2>2. CASE i = 1
    <3>1. new[i] = AllUnused(PerCluster)
      BY <1>2, Zenon DEF AllUnused
    <3>2. i * PerCluster = PerCluster
      BY <2>2, PerClusterIsPositive
    <3>3. Step(F, i) = new[i]
      BY <2>2
    <3>4. QED  BY <2>1, <3>1, <3>2, <3>3, Zenon
  <2>3. CASE i # 1
    <3>1. PICK j : j = i - 1
      OBVIOUS
    <3>2. j \in 1..m /\ i > 1 /\ j \in Nat /\ i = j + 1
      BY <2>3, <3>1
    <3>3. F[j] = G[j] /\ G[j] = AllUnused(j * PerCluster)
      BY <1>3, <3>1, <3>2
    <3>4. j * PerCluster \in Nat /\ i * PerCluster = j * PerCluster + PerCluster
      BY <3>2, PerClusterIsPositive
    <3>5. AllUnused(j * PerCluster) \o new[i] = AllUnused(j * PerCluster + PerCluster)
      BY <1>2, <3>4, AllUnusedLonger
    <3>6. Step(F, i) = F[j] \o new[i]
      BY <2>3, <3>1
    <3>7. QED  BY <2>1, <3>3, <3>4, <3>5, <3>6, Zenon
  <2>4. QED  BY <2>2, <2>3
<1>4. G = [i \in 1..Len(new) |-> G[i]]
  BY <1>1, Zenon
<1>5. B(G)
  <2>1. ASSUME NEW i \in 1..Len(new) PROVE Step(G, i) = G[i]
    <3>1. i \in 1..m
      BY <1>1
    <3> HIDE DEF Step, G
    <3>2. QED  BY <1>3, <3>1
  <2> HIDE DEF Step, G
  <2>2. [i \in 1..Len(new) |-> Step(G, i)] = [i \in 1..Len(new) |-> G[i]]
    BY <2>1, Zenon
  <2>3. QED  BY <1>4, <2>2, Zenon
<1>6. PICK F : F = CHOOSE h : B(h)
  OBVIOUS
<1>7. B(F)
  <2> HIDE DEF B
  <2>1. \E h : B(h)
    BY <1>5, Zenon
  <2>2. B(CHOOSE h : B(h))
    BY <2>1, Zenon
  <2>3. QED  BY <1>6, <2>2, Zenon
<1>8. ASSUME NEW i \in 1..m PROVE F[i] = Step(F, i)
  <2>1. i \in 1..Len(new)
    BY <1>1
  <2> HIDE DEF Step
  <2>2. QED  BY <1>7, <2>1, Zenon
<1>9. FlattenSeq(new) = F[Len(new)]
  BY <1>1, <1>6, Zenon DEF FlattenSeq
<1> HIDE DEF B, G, Step
<1> DEFINE T == {i \in 0..m : i >= 1 => F[i] = G[i]}
<1>10. 0 \in T
  OBVIOUS
<1>11. ASSUME NEW i \in 0..(m - 1), i \in T PROVE i + 1 \in T
  <2>1. i + 1 \in 1..m /\ (i + 1) - 1 = i /\ i + 1 \in 0..m
    OBVIOUS
  <2>2. i + 1 > 1 => F[(i + 1) - 1] = G[(i + 1) - 1]
    BY <1>11, <2>1
  <2>3. F[i + 1] = G[i + 1]
    BY <1>3, <1>8, <2>1, <2>2
  <2>4. QED  BY <2>1, <2>3
<1> HIDE DEF T
<1>12. m \in Nat
  OBVIOUS
<1>13. 0..m \subseteq T
  BY ONLY <1>10, <1>11, <1>12, InductionUpTo
<1>14. m \in 0..m /\ m >= 1 /\ m \in 1..m
  OBVIOUS
<1>15. F[m] = G[m]
  BY <1>13, <1>14 DEF T
<1>16. G[m] = AllUnused(m * PerCluster)
  BY <1>14, Zenon DEF G
<1>17. QED  BY <1>1, <1>9, <1>15, <1>16, Zenon

(* A directory with more unused dentries at the end.                       *)
Extends(g, s) ==
  /\ s \in Seq(Dentry) /\ g \in Seq(Dentry) /\ Len(s) <= Len(g)
  /\ \A k \in 1..Len(s) : g[k] = s[k]
  /\ \A k \in Len(s) + 1..Len(g) : g[k] = Unused

LEMMA GrownExtends ==
  ASSUME Zeroed, ~fixed, slots \in Seq(Dentry), Len(slots) % PerCluster = 0, NEW n \in Nat, NEW g \in Grown(n)
  PROVE  /\ Extends(g, slots) /\ Len(g) % PerCluster = 0
         /\ Len(g) >= n * PerCluster
         /\ Len(g) = Len(slots) \/ Len(g) = n * PerCluster
<1>1. PICK p, l, c : p = PerCluster /\ l = Len(slots) /\ c = Clusters(Len(slots))
  OBVIOUS
<1>2. p \in Nat \ {0} /\ l \in Nat /\ l % p = 0 /\ c \in Nat /\ c * p = l /\ Parts = c
  BY <1>1, PerClusterIsPositive, ClustersOf, ClustersWhole DEF Parts
<1>3. CASE n <= c
  <2>1. g = slots
    BY <1>2, <1>3 DEF Grown
  <2>2. n * p <= c * p
    BY ONLY <1>2, <1>3, Products, n \in Nat
  <2>3. Extends(slots, slots)
    BY <1>1, <1>2 DEF Extends
  <2>4. n * p \in Int /\ l >= n * p
    BY <1>2, <2>2
  <2>5. QED  BY <1>1, <1>2, <2>1, <2>3, <2>4
<1>4. CASE ~(n <= c)
  <2>1. PICK m : m = n - c
    OBVIOUS
  <2>2. m \in Nat \ {0} /\ n = c + m
    BY <1>2, <1>4, <2>1
  <2>3. PICK new \in [1..m -> Stale] : g = slots \o FlattenSeq(new)
    BY <1>2, <1>4, <2>1, Zenon DEF Grown
  <2>4. PICK x, w : x = m * p /\ w = AllUnused(x)
    OBVIOUS
  <2>5. g = slots \o w
    BY <1>1, <2>2, <2>3, <2>4, FlatUnused
  <2>6. x \in Nat /\ n * p = l + x
    BY <1>2, <2>2, <2>4
  <2>7. w \in Seq(Dentry) /\ Len(w) = x /\ \A k \in 1..x : w[k] = Unused
    BY <2>4, <2>6, UnusedIsDentry DEF AllUnused
  <2>8. /\ g \in Seq(Dentry) /\ Len(g) = l + x
        /\ \A i \in 1..l + x : g[i] = IF i <= l THEN slots[i] ELSE w[i - l]
    BY <1>1, <2>5, <2>7, ConcatProperties
  <2>9. \A i \in l + 1..l + x : g[i] = Unused
    <3> TAKE i \in l + 1..l + x
    <3>1. i \in 1..l + x /\ ~(i <= l) /\ i - l \in 1..x
      BY <1>2, <2>6
    <3>2. QED  BY <2>7, <2>8, <3>1
  <2>10. \A i \in 1..l : g[i] = slots[i]
    BY <1>2, <2>6, <2>8
  <2>11. Extends(g, slots)
    BY <1>1, <1>2, <2>6, <2>8, <2>9, <2>10, SMTT(40) DEF Extends
  <2>12. (n * p) % p = 0
    BY <1>2
  <2>13. QED  BY <1>1, <1>2, <2>6, <2>8, <2>11, <2>12
<1>5. QED  BY <1>2, <1>3, <1>4

(* A directory with more unused dentries at the end is the same directory. *)
LEMMA ExtendedSame ==
  ASSUME NEW g, NEW s, Extends(g, s), SoundBy(s)
  PROVE  /\ SoundBy(g) /\ End(g) = End(s)
         /\ FileNames(g) = FileNames(s) /\ NamesOf(g) = NamesOf(s)
<1>1. /\ s \in Seq(Dentry) /\ g \in Seq(Dentry) /\ Len(s) <= Len(g)
      /\ \A k \in 1..Len(s) : g[k] = s[k]
      /\ \A k \in Len(s) + 1..Len(g) : g[k].type = "unused"
  BY UnusedIsDentry DEF Extends
<1>2. Len(s) \in Nat /\ Len(g) \in Nat /\ DOMAIN s = 1..Len(s) /\ DOMAIN g = 1..Len(g)
  BY <1>1
<1>3. ASSUME NEW k \in DOMAIN g, g[k].type # "unused" PROVE k \in DOMAIN s /\ g[k] = s[k] /\ k \in 1..Len(s)
  <2>1. k \notin Len(s) + 1..Len(g)
    BY <1>1, <1>3
  <2>2. QED  BY <1>1, <1>2, <2>1
<1>4. ASSUME NEW k \in DOMAIN g, g[k].type = "long" PROVE LinkedAt(g, k)
  <2>1. k \in DOMAIN s /\ g[k] = s[k]
    BY <1>3, <1>4
  <2>2. LinkedAt(s, k)
    BY <1>4, <2>1 DEF SoundBy
  <2>3. k + 1 \in DOMAIN s /\ k + 1 \in DOMAIN g /\ g[k + 1] = s[k + 1]
    BY <1>1, <1>2, <2>2 DEF LinkedAt
  <2>4. QED  BY <2>1, <2>2, <2>3 DEF LinkedAt
<1>5. ASSUME NEW k \in DOMAIN g, NEW j \in DOMAIN g, k <= j, g[k].type = "unused" PROVE g[j].type = "unused"
  <2>1. ASSUME g[j].type # "unused" PROVE FALSE
    <3>1. j \in DOMAIN s /\ g[j] = s[j] /\ k \in DOMAIN s
      BY <1>2, <1>3, <1>5, <2>1
    <3>2. g[k] = s[k]
      BY <1>1, <1>2, <3>1
    <3>3. s[j].type = "unused"
      BY <1>5, <3>1, <3>2 DEF SoundBy
    <3>4. QED  BY <2>1, <3>1, <3>3
  <2>2. QED  BY <2>1
<1>6. ASSUME NEW k \in DOMAIN g, g[k].type \in {"short", "long"} PROVE g[k].name \in Name
  <2>1. k \in DOMAIN s /\ g[k] = s[k]
    BY <1>3, <1>6
  <2>2. QED  BY <1>6, <2>1 DEF SoundBy
<1>7. SoundBy(g)
  BY <1>1, <1>4, <1>5, <1>6 DEF SoundBy
<1>8. PICK e : e = End(s)
  OBVIOUS
<1>9. EndOf(s, e)
  BY <1>1, <1>8, EndIsFirst
<1>10. EndOf(g, e)
  BY <1>1, <1>2, <1>9 DEF EndOf
<1>11. End(g) = e
  BY <1>1, <1>10, EndIsOnly
<1>12. Shorts(g) = Shorts(s)
  <2>1. ASSUME NEW k \in DOMAIN g, g[k].type = "short" PROVE k \in DOMAIN s /\ s[k].type = "short"
    BY <1>3, <2>1
  <2>2. ASSUME NEW k \in DOMAIN s, s[k].type = "short" PROVE k \in DOMAIN g /\ g[k].type = "short"
    BY <1>1, <1>2, <2>2
  <2>3. QED  BY <2>1, <2>2 DEF Shorts
<1>13. ASSUME NEW k \in 1..Len(s) PROVE NameAt(g, k) = NameAt(s, k)
  <2>1. g[k] = s[k]
    BY <1>1
  <2>2. k > 1 => g[k - 1] = s[k - 1]
    BY <1>1, <1>2
  <2>3. QED  BY <2>1, <2>2 DEF NameAt
<1>14. Shorts(s) \subseteq 1..Len(s)
  BY <1>2 DEF Shorts
<1>15. NamesOf(g) = NamesOf(s)
  <2>1. \A k \in Shorts(s) : NameAt(g, k) = NameAt(s, k)
    BY <1>13, <1>14
  <2>2. QED  BY <1>12, <2>1 DEF NamesOf
<1>16. PICK f : FileNamesBy(f, s)
  BY FileNamesPicked
<1>17. PICK h : FileNamesBy(h, g)
  BY <1>7, FileNamesPicked
<1>18. f[1] = h[1]
  <2>1. Picks(f, Len(s), Shorts(s), NamesAt(s)) /\ Picks(h, Len(g), Shorts(g), NamesAt(g))
    BY <1>16, <1>17 DEF FileNamesBy
  <2>2. \A i \in 1..Len(s) : (i \in Shorts(s) <=> i \in Shorts(g)) /\ (i \in Shorts(s) => NamesAt(s)[i] = NamesAt(g)[i])
    <3> TAKE i \in 1..Len(s)
    <3>1. i \in DOMAIN s /\ i \in DOMAIN g /\ NameAt(g, i) = NameAt(s, i)
      BY <1>1, <1>2, <1>13
    <3>2. NamesAt(s)[i] = NamesAt(g)[i]
      BY <3>1, Zenon DEF NamesAt
    <3>3. QED  BY <1>12, <3>2
  <2>3. \A i \in (Len(s) + 1)..Len(g) : i \notin Shorts(g)
    BY <1>2, <1>12, <1>14
  <2>4. 1 \in 1..(Len(s) + 1)
    BY <1>2
  <2>5. QED  BY ONLY <1>1, <1>2, <2>1, <2>2, <2>3, <2>4, PicksAgree
<1>19. FileNames(s) = FileNames(g)
  BY <1>16, <1>17, <1>18 DEF FileNamesBy
<1>20. QED  BY <1>7, <1>8, <1>11, <1>15, <1>19

(* The unused dentries at the end may be taken away as well.               *)
LEMMA CutSound ==
  ASSUME NEW g, NEW s, Extends(g, s), SoundBy(g)
  PROVE  SoundBy(s)
<1>1. /\ s \in Seq(Dentry) /\ g \in Seq(Dentry) /\ Len(s) <= Len(g)
      /\ \A k \in 1..Len(s) : g[k] = s[k]
      /\ \A k \in Len(s) + 1..Len(g) : g[k].type = "unused"
  BY UnusedIsDentry DEF Extends
<1>2. Len(s) \in Nat /\ Len(g) \in Nat /\ DOMAIN s = 1..Len(s) /\ DOMAIN g = 1..Len(g)
      /\ \A k \in DOMAIN s : k \in DOMAIN g /\ g[k] = s[k]
  BY <1>1
<1>3. ASSUME NEW k \in DOMAIN s, s[k].type = "long" PROVE LinkedAt(s, k)
  <2>1. k \in DOMAIN g /\ g[k] = s[k]
    BY <1>2
  <2>2. LinkedAt(g, k)
    BY <1>3, <2>1 DEF SoundBy
  <2>3. k + 1 \in DOMAIN g /\ g[k + 1].type # "unused"
    BY <2>2 DEF LinkedAt
  <2>4. k + 1 \notin Len(s) + 1..Len(g)
    BY <1>1, <2>3
  <2>5. k + 1 \in DOMAIN s
    BY <1>2, <2>3, <2>4
  <2>6. g[k + 1] = s[k + 1]
    BY <1>2, <2>5
  <2>7. QED  BY <2>1, <2>2, <2>5, <2>6 DEF LinkedAt
<1>4. \A k, j \in DOMAIN s : k <= j /\ s[k].type = "unused" => s[j].type = "unused"
  BY <1>2 DEF SoundBy
<1>5. \A k \in DOMAIN s : s[k].type \in {"short", "long"} => s[k].name \in Name
  BY <1>2 DEF SoundBy
<1>6. QED  BY <1>1, <1>3, <1>4, <1>5 DEF SoundBy

-----------------------------------------------------------------------------
(* The dentries in use.                                                    *)
UsedSet(s) == {k \in DOMAIN s : s[k].type # "deleted"}

InUseBy(f, s) == Picks(f, End(s) - 1, UsedSet(s), s) /\ InUse(s) = f[1]

LEMMA InUsePicked ==
  ASSUME NEW s \in Seq(Dentry)
  PROVE  \E f : InUseBy(f, s) /\ PlacedIn(f, End(s) - 1, UsedSet(s), s) /\ f[1] \in Seq(Dentry)
<1> DEFINE B(g) == g = [i \in 1..End(s) |->
                          IF i = End(s) THEN <<>>
                          ELSE IF s[i].type # "deleted" THEN <<s[i]>> \o g[i + 1] ELSE g[i + 1]]
<1>1. EndOf(s, End(s))
  BY EndIsFirst
<1>2. End(s) - 1 \in Nat /\ (End(s) - 1) + 1 = End(s) /\ End(s) \in Int /\ \A i \in 1..(End(s) - 1) : i \in DOMAIN s /\ s[i] \in Dentry
  <2>1. PICK e : e = End(s)
    OBVIOUS
  <2>2. e \in 1..(Len(s) + 1)
    BY <1>1, <2>1 DEF EndOf
  <2>3. e - 1 \in Nat /\ (e - 1) + 1 = e /\ e \in Int /\ \A i \in 1..(e - 1) : i \in DOMAIN s /\ s[i] \in Dentry
    BY <2>2
  <2>4. QED  BY <2>1, <2>3
<1>3. ASSUME NEW i \in 1..End(s)
      PROVE  (i > End(s) - 1 <=> i = End(s)) /\ (i # End(s) => (i \in UsedSet(s) <=> s[i].type # "deleted"))
  <2>1. PICK e : e = End(s)
    OBVIOUS
  <2>2. e - 1 \in Nat
    BY <1>2, <2>1
  <2>3. i \in 1..e /\ (i > e - 1 <=> i = e) /\ (i # e => i \in 1..(e - 1))
    <3>1. i \in 1..e /\ e \in Int
      BY <1>2, <2>1
    <3>2. QED  BY ONLY <2>2, <3>1
  <2>4. i # e => i \in DOMAIN s
    BY <1>2, <2>1, <2>3
  <2>5. QED  BY <2>1, <2>3, <2>4 DEF UsedSet
<1>4. ASSUME NEW g PROVE Picks(g, End(s) - 1, UsedSet(s), s) <=> B(g)
  <2>1. [i \in 1..End(s) |->
           IF i = End(s) THEN <<>>
           ELSE IF s[i].type # "deleted" THEN <<s[i]>> \o g[i + 1] ELSE g[i + 1]]
        = [i \in 1..End(s) |->
             IF i > End(s) - 1 THEN <<>>
             ELSE IF i \in UsedSet(s) THEN <<s[i]>> \o g[i + 1] ELSE g[i + 1]]
    BY <1>3, Zenon
  <2>2. QED  BY <1>2, <2>1, Zenon DEF Picks
<1>5. \E g : Picks(g, End(s) - 1, UsedSet(s), s)
  BY <1>2, PicksExist
<1>6. \E g : B(g)
  BY <1>4, <1>5, Zenon
<1>7. B(CHOOSE g : B(g))
  BY <1>6, Zenon
<1>8. InUse(s) = (CHOOSE g : B(g))[1]
  BY Zenon DEF InUse
<1> HIDE DEF B
<1>9. PICK f : f = CHOOSE g : B(g)
  OBVIOUS
<1>10. InUseBy(f, s)
  BY <1>4, <1>7, <1>8, <1>9, Zenon DEF InUseBy
<1>11. Picks(f, End(s) - 1, UsedSet(s), s)
  BY <1>10 DEF InUseBy
<1>12. \A i \in 1..(End(s) - 1) : i \in UsedSet(s) => s[i] \in Dentry
  BY <1>2
<1>13. PICK N : N = End(s) - 1
  OBVIOUS
<1>14. PlacedIn(f, N, UsedSet(s), s) /\ f \in [1..(N + 1) -> Seq(Dentry)]
  <2>1. N \in Nat /\ Picks(f, N, UsedSet(s), s) /\ \A i \in 1..N : i \in UsedSet(s) => s[i] \in Dentry
    BY <1>2, <1>11, <1>12, <1>13, Zenon
  <2>2. QED  BY ONLY <2>1, PicksPlaced, PicksAreSeqs
<1>15. 1 \in 1..(N + 1)
  BY <1>2, <1>13
<1>16. f[1] \in Seq(Dentry)
  BY <1>14, <1>15
<1>17. QED  BY <1>10, <1>13, <1>14, <1>16, Zenon

(* Dentries that come first and have nothing but unused ones behind them.  *)
Packed(t, L) ==
  /\ L \in 0..Len(t)
  /\ \A k \in 1..L : t[k].type # "deleted" /\ t[k].type # "unused"
  /\ \A k \in L + 1..Len(t) : t[k] = Unused

LEMMA PackedEnd ==
  ASSUME NEW t \in Seq(Dentry), NEW L, Packed(t, L)
  PROVE  End(t) = L + 1
<1>1. L \in 0..Len(t) /\ Len(t) \in Nat /\ (\A k \in 1..L : t[k].type # "unused")
      /\ \A k \in L + 1..Len(t) : t[k].type = "unused"
  BY UnusedIsDentry DEF Packed
<1>2. EndOf(t, L + 1)
  BY <1>1 DEF EndOf
<1>3. QED  BY <1>2, EndIsOnly

LEMMA PackedInUse ==
  ASSUME NEW t \in Seq(Dentry), NEW L, Packed(t, L)
  PROVE  InUse(t) \in Seq(Dentry) /\ Len(InUse(t)) = L /\ \A k \in 1..L : InUse(t)[k] = t[k]
<1>1. PICK f : InUseBy(f, t) /\ PlacedIn(f, End(t) - 1, UsedSet(t), t) /\ f[1] \in Seq(Dentry)
  BY InUsePicked
<1>2. End(t) = L + 1 /\ L \in Nat /\ L <= Len(t) /\ Len(t) \in Nat
  BY PackedEnd DEF Packed
<1>3. End(t) - 1 = L
  BY <1>2
<1>4. Picks(f, L, UsedSet(t), t) /\ PlacedIn(f, L, UsedSet(t), t) /\ InUse(t) = f[1]
  BY <1>1, <1>3 DEF InUseBy
<1>5. \A k \in 1..L : k \in UsedSet(t)
  BY <1>2 DEF Packed, UsedSet
<1>s. PicksByOne(f, L, UsedSet(t), t)
  BY <1>2, <1>4, PickSteps
<1> DEFINE T == {i \in 1..(L + 1) : Len(f[i]) = L + 1 - i}
<1>6. L + 1 \in T
  <2>1. f[L + 1] = <<>>
    BY <1>s DEF PicksByOne
  <2>2. Len(f[L + 1]) = 0 /\ 0 = L + 1 - (L + 1) /\ L + 1 \in 1..(L + 1)
    BY <1>2, <2>1
  <2>3. QED  BY <2>2
<1>7. ASSUME NEW i \in 1..L, i + 1 \in T PROVE i \in T
  <2>1. Len(f[i]) = Len(f[i + 1]) + 1
    BY <1>4, <1>5 DEF PlacedIn
  <2>2. Len(f[i + 1]) = L + 1 - (i + 1) /\ (L + 1 - (i + 1)) + 1 = L + 1 - i /\ i \in 1..(L + 1)
    BY <1>2, <1>7
  <2>3. QED  BY <2>1, <2>2
<1> HIDE DEF T
<1>8. 1..(L + 1) \subseteq T
  BY ONLY <1>2, <1>6, <1>7, InductionDown
<1>9. ASSUME NEW i \in 1..(L + 1) PROVE Len(f[i]) = L + 1 - i
  BY <1>8 DEF T
<1>10. Len(f[1]) = L
  <2>1. 1 \in 1..(L + 1) /\ L + 1 - 1 = L
    BY <1>2
  <2>2. QED  BY <1>9, <2>1
<1>11. ASSUME NEW k \in 1..L PROVE f[1][k] = t[k]
  <2>1. k \in 1..(L + 1) /\ L - (L + 1 - k) + 1 = k
    BY <1>2
  <2>2. PlaceOf(f, k) = k
    BY <1>9, <1>10, <2>1, Zenon DEF PlaceOf
  <2>3. f[1][PlaceOf(f, k)] = t[k]
    BY <1>4, <1>5 DEF PlacedIn
  <2>4. QED  BY <2>2, <2>3
<1>12. QED  BY <1>1, <1>4, <1>10, <1>11

-----------------------------------------------------------------------------
(* Later places are later in the list.                                     *)
LEMMA PlacesInOrder ==
  ASSUME NEW N \in Nat, NEW S, NEW v, NEW f, PlacedIn(f, N, S, v), NEW i \in 1..N, i \in S, NEW j \in (i + 1)..N
  PROVE  PlaceOf(f, i) < PlaceOf(f, j)
<1>1. /\ \A k \in 1..(N + 1) : Len(f[k]) \in Nat /\ Len(f[k]) <= Len(f[1])
      /\ \A k \in 1..N : Len(f[k]) = IF k \in S THEN Len(f[k + 1]) + 1 ELSE Len(f[k + 1])
  BY DEF PlacedIn
<1> DEFINE T == {m \in 0..N - i : Len(f[(i + 1) + m]) <= Len(f[i + 1])}
<1>2. 0 \in T
  <2>1. (i + 1) + 0 = i + 1 /\ i + 1 \in 1..(N + 1) /\ 0 \in 0..N - i
    OBVIOUS
  <2>2. Len(f[i + 1]) \in Nat
    BY <1>1, <2>1
  <2>3. QED  BY <2>1, <2>2
<1>3. ASSUME NEW m \in 0..(N - i) - 1, m \in T PROVE m + 1 \in T
  <2>1. PICK k : k = (i + 1) + m
    OBVIOUS
  <2>2. k \in 1..N /\ k \in 1..(N + 1) /\ (i + 1) + (m + 1) = k + 1 /\ k + 1 \in 1..(N + 1) /\ m + 1 \in 0..N - i
        /\ i + 1 \in 1..(N + 1)
    <3>1. m \in Nat /\ m <= (N - i) - 1 /\ i \in Nat /\ i >= 1 /\ N \in Nat /\ k = (i + 1) + m
      BY <2>1
    <3>2. QED  BY ONLY <3>1
  <2>3. PICK a, b, c : a = Len(f[k]) /\ b = Len(f[k + 1]) /\ c = Len(f[i + 1])
    OBVIOUS
  <2>4. a \in Nat /\ b \in Nat /\ c \in Nat /\ (a = b + 1 \/ a = b)
    BY <1>1, <2>2, <2>3
  <2>5. a <= c
    BY <1>3, <2>1, <2>3
  <2>6. b <= c
    BY ONLY <2>4, <2>5
  <2>7. QED  BY <2>2, <2>3, <2>6
<1> HIDE DEF T
<1>4. N - i \in Nat
  OBVIOUS
<1>5. 0..(N - i) \subseteq T
  BY ONLY <1>2, <1>3, <1>4, InductionUpTo
<1>6. j - (i + 1) \in 0..(N - i) /\ (i + 1) + (j - (i + 1)) = j
  OBVIOUS
<1>7. Len(f[j]) <= Len(f[i + 1])
  <2>1. j - (i + 1) \in T
    BY <1>5, <1>6
  <2>2. QED  BY <1>6, <2>1 DEF T
<1>8. PICK a, b, c, d : a = Len(f[1]) /\ b = Len(f[i]) /\ c = Len(f[j]) /\ d = Len(f[i + 1])
  OBVIOUS
<1>9. a \in Nat /\ b \in Nat /\ c \in Nat /\ d \in Nat /\ b = d + 1 /\ c <= d
  BY <1>1, <1>7, <1>8
<1>10. a - b + 1 < a - c + 1
  BY ONLY <1>9
<1>11. QED  BY <1>8, <1>10 DEF PlaceOf

(* Where the dentries in use before the end go when trim packs them.       *)
MovedBy(f, t, s, E, L) ==
  /\ E = End(s) /\ L = Len(f[1])
  /\ Picks(f, E - 1, UsedSet(s), s)
  /\ PlacedIn(f, E - 1, UsedSet(s), s)
  /\ t \in Seq(Dentry) /\ Len(t) = Len(s)
  /\ Packed(t, L)
  /\ \A k \in 1..L : t[k] = f[1][k]

LEMMA TrimMoves ==
  ASSUME NEW s \in Seq(Dentry)
  PROVE  \E f, E, L : MovedBy(f, Trimmed(s), s, E, L)
<1>1. PICK f : InUseBy(f, s) /\ PlacedIn(f, End(s) - 1, UsedSet(s), s) /\ f[1] \in Seq(Dentry)
  BY InUsePicked
<1>2. PICK E, L, n, t : E = End(s) /\ L = Len(f[1]) /\ n = Len(s) /\ t = Trimmed(s)
  OBVIOUS
<1>3. EndOf(s, E)
  BY <1>2, EndIsFirst
<1>4. n \in Nat /\ DOMAIN s = 1..n /\ E \in 1..(n + 1) /\ L \in Nat /\ \A k \in 1..(E - 1) : s[k].type # "unused"
  BY <1>1, <1>2, <1>3 DEF EndOf
<1>5. Picks(f, E - 1, UsedSet(s), s) /\ PlacedIn(f, E - 1, UsedSet(s), s) /\ InUse(s) = f[1]
  BY <1>1, <1>2, Zenon DEF InUseBy
<1>6. L <= n
  <2>1. E - 1 \in Nat /\ 1 \in 1..((E - 1) + 1) /\ (E - 1) + 1 - 1 = E - 1 /\ E - 1 <= n
    BY <1>4
  <2>2. Len(f[1]) <= (E - 1) + 1 - 1
    BY <1>5, <2>1, PicksShort
  <2>3. QED  BY <1>2, <1>4, <2>1, <2>2
<1>7. t = [k \in 1..n |-> IF k \in 1..L THEN f[1][k] ELSE Unused]
  <2>1. DOMAIN f[1] = 1..L
    BY <1>1, <1>2
  <2>2. QED  BY <1>2, <1>4, <1>5, <2>1, Zenon DEF Trimmed, Dent
<1>8. ASSUME NEW k \in 1..L PROVE f[1][k] \in Dentry /\ f[1][k].type # "deleted" /\ f[1][k].type # "unused"
  <2>1. PICK i \in 1..(E - 1) : i \in UsedSet(s) /\ k = PlaceOf(f, i)
    BY <1>2, <1>5 DEF PlacedIn
  <2>2. f[1][k] = s[i]
    BY <1>5, <2>1 DEF PlacedIn
  <2>3. f[1][k] \in Dentry
    BY <1>1, <1>2
  <2>4. QED  BY <1>4, <2>1, <2>2, <2>3 DEF UsedSet
<1>9. ASSUME NEW k \in 1..n PROVE t[k] \in Dentry
  BY <1>7, <1>8, UnusedIsDentry
<1>10. t \in Seq(Dentry) /\ Len(t) = n
  <2>1. t = [k \in 1..n |-> t[k]]
    BY <1>7, Zenon
  <2>2. t \in [1..n -> Dentry]
    BY <1>9, <2>1
  <2>3. QED  BY <1>4, <2>2
<1>11. \A k \in 1..L : t[k] = f[1][k]
  <2> TAKE k \in 1..L
  <2>1. k \in 1..n
    BY <1>4, <1>6
  <2>2. QED  BY <1>7, <2>1
<1>12. Packed(t, L)
  <2>1. \A k \in 1..L : t[k].type # "deleted" /\ t[k].type # "unused"
    BY <1>8, <1>11
  <2>2. \A k \in L + 1..Len(t) : t[k] = Unused
    <3> TAKE k \in L + 1..Len(t)
    <3>1. k \in 1..n /\ k \notin 1..L
      BY <1>4, <1>10
    <3>2. QED  BY <1>7, <3>1
  <2>3. L \in 0..Len(t)
    BY <1>4, <1>6, <1>10
  <2>4. QED  BY <2>1, <2>2, <2>3 DEF Packed
<1>13. MovedBy(f, t, s, E, L)
  BY <1>2, <1>5, <1>10, <1>11, <1>12 DEF MovedBy
<1>14. QED  BY <1>2, <1>13


MovedFacts(f, t, s, E, L) ==
  /\ E \in 1..(Len(s) + 1) /\ L \in 0..Len(s) /\ Len(t) = Len(s) /\ DOMAIN t = 1..Len(s)
  /\ \A j \in L + 1..Len(s) : t[j] = Unused
  /\ \A i \in 1..E - 1 : s[i].type # "deleted" =>
       i \in UsedSet(s) /\ PlaceOf(f, i) \in 1..L /\ t[PlaceOf(f, i)] = s[i]
  /\ \A k \in 1..L : \E i \in 1..E - 1 : s[i].type # "deleted" /\ k = PlaceOf(f, i)

LEMMA MovedHas ==
  ASSUME NEW s \in Seq(Dentry), NEW f, NEW t, NEW E, NEW L, MovedBy(f, t, s, E, L)
  PROVE  MovedFacts(f, t, s, E, L)
<1>1. Len(s) \in Nat /\ DOMAIN s = 1..Len(s)
  OBVIOUS
<1>2. /\ t \in Seq(Dentry) /\ Len(t) = Len(s) /\ DOMAIN t = 1..Len(s) /\ E = End(s) /\ L \in 0..Len(s)
      /\ \A j \in 1..L : t[j] = f[1][j]
      /\ \A j \in L + 1..Len(s) : t[j] = Unused
  BY <1>1 DEF MovedBy, Packed
<1>3. PlacedIn(f, E - 1, UsedSet(s), s) /\ L = Len(f[1])
  BY DEF MovedBy
<1>4. E \in 1..(Len(s) + 1)
  BY <1>1, <1>2, EndIsFirst DEF EndOf
<1>5. \A i \in 1..E - 1 : i \in DOMAIN s
  BY <1>1, <1>4
<1>6. ASSUME NEW i \in 1..E - 1, s[i].type # "deleted"
      PROVE  i \in UsedSet(s) /\ PlaceOf(f, i) \in 1..L /\ t[PlaceOf(f, i)] = s[i]
  <2>1. i \in UsedSet(s)
    BY <1>5, <1>6 DEF UsedSet
  <2>2. PlaceOf(f, i) \in 1..L /\ f[1][PlaceOf(f, i)] = s[i]
    BY <1>3, <2>1 DEF PlacedIn
  <2>3. QED  BY <1>2, <2>1, <2>2
<1>7. ASSUME NEW k \in 1..L PROVE \E i \in 1..E - 1 : s[i].type # "deleted" /\ k = PlaceOf(f, i)
  <2>1. PICK i \in 1..E - 1 : i \in UsedSet(s) /\ k = PlaceOf(f, i)
    BY <1>3 DEF PlacedIn
  <2>2. QED  BY <2>1 DEF UsedSet
<1>8. QED  BY <1>2, <1>4, <1>6, <1>7 DEF MovedFacts

(* What follows a piece of a long name still follows it.                   *)
LEMMA MovedLink ==
  ASSUME NEW s, SoundBy(s), NEW f, NEW t, NEW E, NEW L, MovedBy(f, t, s, E, L),
         NEW i \in 1..E - 1, s[i].type = "long"
  PROVE  /\ PlaceOf(f, i + 1) = PlaceOf(f, i) + 1 /\ i + 1 \in 1..E - 1 /\ LinkedAt(s, i)
         /\ s[i + 1].type \in {"short", "long"}
<1>1. s \in Seq(Dentry) /\ Len(s) \in Nat /\ DOMAIN s = 1..Len(s)
  BY DEF SoundBy
<1>2. MovedFacts(f, t, s, E, L)
  BY <1>1, MovedHas
<1>3. E \in 1..(Len(s) + 1) /\ E - 1 \in Nat /\ i \in DOMAIN s /\ E = End(s)
  BY <1>1, <1>2 DEF MovedFacts, MovedBy
<1>4. EndOf(s, E)
  BY <1>1, <1>3, EndIsFirst
<1>5. i + 1 \in 1..E - 1
  BY <1>4, BeforeEnd
<1>6. LinkedAt(s, i) /\ s[i + 1].type \in {"short", "long"}
  <2>1. LinkedAt(s, i)
    BY <1>3 DEF SoundBy
  <2>2. QED  BY <2>1 DEF LinkedAt
<1>7. i \in UsedSet(s) /\ i + 1 \in UsedSet(s)
  BY <1>1, <1>3, <1>6 DEF UsedSet, LinkedAt
<1>8. PlaceOf(f, i + 1) = PlaceOf(f, i) + 1
  <2>1. PICK N, S, c : N = E - 1 /\ S = UsedSet(s) /\ c = 1
    OBVIOUS
  <2>2. N \in Nat /\ i \in 1..N /\ c \in Nat /\ i + c <= N /\ PlacedIn(f, N, S, s)
    BY <1>3, <1>5, <2>1 DEF MovedBy
  <2>3. \A k \in i..i + c : k \in S
    BY <1>3, <1>7, <2>1
  <2>4. \A j \in 0..c : PlaceOf(f, i + j) = PlaceOf(f, i) + j
    BY ONLY <2>2, <2>3, RunPlaced
  <2>5. c \in 0..c
    BY <2>2
  <2>6. QED  BY <2>1, <2>4, <2>5
<1>9. QED  BY <1>5, <1>6, <1>8

(* trim leaves the directory in order ...                                  *)
LEMMA MovedSound ==
  ASSUME NEW s, SoundBy(s), NEW f, NEW t, NEW E, NEW L, MovedBy(f, t, s, E, L)
  PROVE  SoundBy(t)
<1>1. s \in Seq(Dentry) /\ Len(s) \in Nat /\ DOMAIN s = 1..Len(s)
  BY DEF SoundBy
<1>2. MovedFacts(f, t, s, E, L) /\ t \in Seq(Dentry) /\ Packed(t, L)
  BY <1>1, MovedHas DEF MovedBy
<1>3. /\ Len(t) = Len(s) /\ DOMAIN t = 1..Len(s) /\ L \in 0..Len(s) /\ E \in 1..(Len(s) + 1)
      /\ \A j \in L + 1..Len(s) : t[j] = Unused
      /\ \A j \in 1..L : t[j].type # "unused"
  BY <1>2 DEF MovedFacts, Packed
<1>4. ASSUME NEW k \in DOMAIN t, t[k].type # "unused"
      PROVE  \E i \in 1..E - 1 : k = PlaceOf(f, i) /\ t[k] = s[i] /\ i \in DOMAIN s
  <2>1. k \notin L + 1..Len(s)
    BY <1>3, <1>4, UnusedIsDentry
  <2>2. k \in 1..L
    BY <1>1, <1>3, <2>1
  <2>3. PICK i \in 1..E - 1 : s[i].type # "deleted" /\ k = PlaceOf(f, i)
    BY <1>2, <2>2 DEF MovedFacts
  <2>4. t[PlaceOf(f, i)] = s[i]
    BY <1>2, <2>3 DEF MovedFacts
  <2>5. i \in DOMAIN s
    BY <1>1, <1>3
  <2>6. QED  BY <2>3, <2>4, <2>5
<1>5. ASSUME NEW k \in DOMAIN t, t[k].type = "long" PROVE LinkedAt(t, k)
  <2>1. PICK i \in 1..E - 1 : k = PlaceOf(f, i) /\ t[k] = s[i] /\ i \in DOMAIN s
    BY <1>4, <1>5
  <2>2. /\ PlaceOf(f, i + 1) = k + 1 /\ i + 1 \in 1..E - 1 /\ LinkedAt(s, i)
        /\ s[i + 1].type \in {"short", "long"}
    BY <1>5, <2>1, MovedLink
  <2>3. k + 1 \in 1..L /\ t[k + 1] = s[i + 1]
    BY <1>2, <2>2 DEF MovedFacts
  <2>4. k + 1 \in DOMAIN t
    BY <1>1, <1>3, <2>3
  <2>5. QED  BY <2>1, <2>2, <2>3, <2>4 DEF LinkedAt
<1>6. ASSUME NEW k \in DOMAIN t, NEW j \in DOMAIN t, k <= j, t[k].type = "unused" PROVE t[j].type = "unused"
  <2>1. k \notin 1..L
    BY <1>3, <1>6
  <2>2. j \in L + 1..Len(s)
    BY <1>1, <1>3, <1>6, <2>1
  <2>3. QED  BY <1>3, <2>2, UnusedIsDentry
<1>7. ASSUME NEW k \in DOMAIN t, t[k].type \in {"short", "long"} PROVE t[k].name \in Name
  <2>1. PICK i \in 1..E - 1 : t[k] = s[i] /\ i \in DOMAIN s
    BY <1>4, <1>7
  <2>2. QED  BY <1>7, <2>1 DEF SoundBy
<1>8. QED  BY <1>2, <1>5, <1>6, <1>7 DEF SoundBy

(* A file keeps its name where trim moves it.                              *)
LEMMA MovedName ==
  ASSUME NEW s, SoundBy(s), NEW f, NEW t, NEW E, NEW L, MovedBy(f, t, s, E, L),
         NEW i \in 1..E - 1, s[i].type = "short", NEW c, c = PlaceOf(f, i)
  PROVE  NameAt(t, c) = NameAt(s, i)
<1>1. s \in Seq(Dentry) /\ Len(s) \in Nat /\ DOMAIN s = 1..Len(s)
  BY DEF SoundBy
<1>2. MovedFacts(f, t, s, E, L)
  BY <1>1, MovedHas
<1>3. E \in 1..(Len(s) + 1) /\ L \in 0..Len(s) /\ E - 1 \in Nat
  BY <1>1, <1>2 DEF MovedFacts
<1>4. c \in 1..L /\ t[c] = s[i] /\ i \in UsedSet(s)
  BY <1>2 DEF MovedFacts
<1>5. CASE i > 1 /\ s[i - 1].type = "long"
  <2>1. PICK j : j = i - 1
    OBVIOUS
  <2>2. j \in 1..E - 1 /\ j + 1 = i
    BY <1>3, <1>5, <2>1
  <2>3. PlaceOf(f, i) = PlaceOf(f, j) + 1
    BY <1>5, <2>1, <2>2, MovedLink
  <2>4. PlaceOf(f, j) \in 1..L /\ t[PlaceOf(f, j)] = s[j]
    BY <1>2, <1>5, <2>1, <2>2 DEF MovedFacts
  <2>5. c > 1 /\ c - 1 = PlaceOf(f, j)
    BY <2>3, <2>4
  <2>6. QED  BY <1>5, <2>1, <2>4, <2>5 DEF NameAt
<1>6. CASE ~(i > 1 /\ s[i - 1].type = "long")
  <2>1. ASSUME c > 1, t[c - 1].type = "long" PROVE FALSE
    <3>1. c - 1 \in 1..L
      BY <1>3, <1>4, <2>1
    <3>2. PICK j \in 1..E - 1 : s[j].type # "deleted" /\ c - 1 = PlaceOf(f, j)
      BY <1>2, <3>1 DEF MovedFacts
    <3>3. t[c - 1] = s[j] /\ j \in UsedSet(s)
      BY <1>2, <3>2 DEF MovedFacts
    <3>4. PlaceOf(f, j + 1) = (c - 1) + 1 /\ j + 1 \in 1..E - 1 /\ s[j + 1].type \in {"short", "long"}
      BY <2>1, <3>2, <3>3, MovedLink
    <3>5. j + 1 \in UsedSet(s)
      BY <1>2, <3>4 DEF MovedFacts
    <3>6. PlaceOf(f, j + 1) = c
      BY <1>4, <3>4
    <3>7. PlacedIn(f, E - 1, UsedSet(s), s)
      BY DEF MovedBy
    <3>8. PICK q : q = j + 1
      OBVIOUS
    <3>9. q \in 1..E - 1 /\ q \in UsedSet(s) /\ PlaceOf(f, q) = PlaceOf(f, i) /\ PlaceOf(f, q) \in Int /\ i \in 1..E - 1
      BY <1>4, <3>4, <3>5, <3>6, <3>8
    <3>10. ~(i + 1 <= q) /\ ~(q + 1 <= i)
      <4>1. ASSUME i + 1 <= q PROVE FALSE
        <5>1. q \in (i + 1)..E - 1
          BY <1>3, <3>9, <4>1
        <5>2. PlaceOf(f, i) < PlaceOf(f, q)
          BY ONLY <1>3, <1>4, <3>7, <3>9, <5>1, PlacesInOrder
        <5>3. QED  BY <3>9, <5>2
      <4>2. ASSUME q + 1 <= i PROVE FALSE
        <5>1. i \in (q + 1)..E - 1
          BY <1>3, <3>9, <4>2
        <5>2. PlaceOf(f, q) < PlaceOf(f, i)
          BY ONLY <1>3, <3>7, <3>9, <5>1, PlacesInOrder
        <5>3. QED  BY <3>9, <5>2
      <4>3. QED  BY <4>1, <4>2
    <3>11. i = j + 1 /\ i > 1 /\ i - 1 = j
      BY <1>3, <3>8, <3>9, <3>10
    <3>12. s[i - 1].type = "long"
      BY <2>1, <3>3, <3>11
    <3>13. QED  BY <1>6, <3>11, <3>12
  <2>2. NameAt(t, c) = t[c].name
    BY <2>1, Zenon DEF NameAt
  <2>3. NameAt(s, i) = s[i].name
    BY <1>6, Zenon DEF NameAt
  <2>4. QED  BY <1>4, <2>2, <2>3
<1>7. QED  BY <1>5, <1>6

-----------------------------------------------------------------------------
(* ... with the same names in the same order.                              *)
LEMMA MovedNames ==
  ASSUME NEW s, SoundBy(s), NEW f, NEW t, NEW E, NEW L, MovedBy(f, t, s, E, L)
  PROVE  FileNames(t) = FileNames(s)
<1>1. PICK n : n = Len(s)
  OBVIOUS
<1>2. s \in Seq(Dentry) /\ n \in Nat /\ DOMAIN s = 1..n
  BY <1>1 DEF SoundBy
<1>3. /\ t \in Seq(Dentry) /\ Len(t) = n /\ DOMAIN t = 1..n /\ E = End(s) /\ L \in 0..n
      /\ \A j \in 1..L : t[j] = f[1][j]
      /\ \A j \in L + 1..n : t[j] = Unused
  BY <1>1, <1>2 DEF MovedBy, Packed
<1>4. /\ PlacedIn(f, E - 1, UsedSet(s), s) /\ L = Len(f[1])
      /\ Picks(f, E - 1, UsedSet(s), s)
  BY DEF MovedBy
<1>5. E \in 1..(n + 1) /\ E - 1 \in Nat /\ (E - 1) + 1 = E
  BY <1>1, <1>2, <1>3, EndIsFirst DEF EndOf
<1>6. PICK h : FileNamesBy(h, s)
  BY <1>2, FileNamesPicked
<1>7. PICK u : FileNamesBy(u, t)
  BY MovedSound, FileNamesPicked
<1>8. Picks(h, n, Shorts(s), NamesAt(s)) /\ Picks(u, n, Shorts(t), NamesAt(t))
      /\ FileNames(s) = h[1] /\ FileNames(t) = u[1]
  BY <1>1, <1>3, <1>6, <1>7, Zenon DEF FileNamesBy
<1>9. PicksByOne(h, n, Shorts(s), NamesAt(s)) /\ PicksByOne(u, n, Shorts(t), NamesAt(t))
  BY <1>2, <1>8, PickSteps
<1> DEFINE T == {i \in 1..((E - 1) + 1) : u[PlaceOf(f, i)] = h[i]}
<1>l. \A i \in 1..((E - 1) + 1) : Len(f[i]) \in Nat
  BY <1>4 DEF PlacedIn
<1>10. (E - 1) + 1 \in T
  <2>1. h[E] = <<>>
    <3>1. \A i \in E..n : i \notin Shorts(s)
      <4> TAKE i \in E..n
      <4>1. s[i].type = "unused"
        <5>1. EndOf(s, E)
          BY <1>1, <1>2, <1>3, EndIsFirst
        <5>2. E <= n => s[E].type = "unused"
          BY <1>1, <1>3, <5>1 DEF EndOf
        <5>3. E <= i /\ E \in 1..n /\ i \in 1..n /\ DOMAIN s = 1..n
          BY <1>1, <1>3, <1>5
        <5>4. QED  BY <5>2, <5>3, SMTT(40) DEF SoundBy
      <4>2. QED  BY <4>1 DEF Shorts
    <3>2. QED  BY ONLY <1>2, <1>5, <1>8, <3>1, PicksNone
  <2>2. u[L + 1] = <<>>
    <3>1. \A i \in (L + 1)..n : i \notin Shorts(t)
      BY <1>3, UnusedIsDentry DEF Shorts
    <3>2. L + 1 \in 1..(n + 1)
      BY <1>2, <1>3
    <3>3. PICK a : a = L + 1
      OBVIOUS
    <3>4. a \in 1..(n + 1) /\ \A i \in a..n : i \notin Shorts(t)
      BY <3>1, <3>2, <3>3
    <3>5. u[a] = <<>>
      BY ONLY <1>2, <1>8, <3>4, PicksNone
    <3>6. QED  BY <3>3, <3>5
  <2>3. PlaceOf(f, E) = L + 1
    <3>1. PicksByOne(f, E - 1, UsedSet(s), s)
      BY <1>4, <1>5, PickSteps
    <3>2. f[(E - 1) + 1] = <<>>
      BY <3>1 DEF PicksByOne
    <3>3. Len(f[E]) = 0
      BY <1>5, <3>2
    <3>4. L - 0 + 1 = L + 1
      BY <1>3
    <3>5. QED  BY <1>4, <3>3, <3>4, Zenon DEF PlaceOf
  <2>4. E \in 1..((E - 1) + 1)
    BY <1>5
  <2>5. QED  BY <1>5, <2>1, <2>2, <2>3, <2>4
<1>11. ASSUME NEW i \in 1..(E - 1), i + 1 \in T PROVE i \in T
  <2>1. i \in 1..n /\ i \in 1..((E - 1) + 1) /\ i + 1 \in 1..((E - 1) + 1) /\ i \in DOMAIN s
    BY <1>2, <1>5
  <2>2. PICK a, b, c : a = Len(f[i]) /\ b = Len(f[i + 1]) /\ c = PlaceOf(f, i)
    OBVIOUS
  <2>3. a \in Nat /\ b \in Nat /\ c = L - a + 1 /\ PlaceOf(f, i + 1) = L - b + 1
    BY <1>l, <1>4, <2>1, <2>2, Zenon DEF PlaceOf
  <2>4. u[L - b + 1] = h[i + 1]
    BY <1>11, <2>3
  <2>5. CASE i \in UsedSet(s)
    <3>1. a = b + 1
      BY <1>4, <2>2, <2>5 DEF PlacedIn
    <3>2. c \in 1..L /\ f[1][c] = s[i]
      BY <1>4, <2>2, <2>5 DEF PlacedIn
    <3>3. c + 1 = L - b + 1 /\ c \in 1..n
      BY <1>2, <1>3, <2>3, <3>1, <3>2, SMTT(40)
    <3>4. t[c] = s[i]
      BY <1>3, <3>2
    <3>5. (c \in Shorts(t) <=> i \in Shorts(s)) /\ (i \in Shorts(s) => NamesAt(t)[c] = NamesAt(s)[i])
      <4>1. c \in DOMAIN t /\ (c \in Shorts(t) <=> i \in Shorts(s))
        BY <1>3, <2>1, <3>3, <3>4 DEF Shorts
      <4>2. ASSUME i \in Shorts(s) PROVE NamesAt(t)[c] = NamesAt(s)[i]
        <5>1. s[i].type = "short"
          BY <4>2 DEF Shorts
        <5>2. NameAt(t, c) = NameAt(s, i)
          BY <2>2, <5>1, MovedName
        <5>3. QED  BY <2>1, <4>1, <5>2, Zenon DEF NamesAt
      <4>3. QED  BY <4>1, <4>2
    <3>6. u[c + 1] = h[i + 1]
      BY <2>4, <3>3
    <3>7. CASE i \in Shorts(s)
      <4>1. h[i] = <<NamesAt(s)[i]>> \o h[i + 1] /\ u[c] = <<NamesAt(t)[c]>> \o u[c + 1]
        BY <1>9, <2>1, <3>3, <3>5, <3>7, Zenon DEF PicksByOne
      <4>2. u[c] = h[i]
        BY <3>5, <3>6, <3>7, <4>1, Zenon
      <4>3. QED  BY <2>1, <2>2, <4>2
    <3>8. CASE i \notin Shorts(s)
      <4>1. h[i] = h[i + 1] /\ u[c] = u[c + 1]
        BY <1>9, <2>1, <3>3, <3>5, <3>8, Zenon DEF PicksByOne
      <4>2. u[c] = h[i]
        BY <3>6, <4>1, Zenon
      <4>3. QED  BY <2>1, <2>2, <4>2
    <3>9. QED  BY <3>7, <3>8
  <2>6. CASE i \notin UsedSet(s)
    <3>1. a = b
      BY <1>4, <2>2, <2>6 DEF PlacedIn
    <3>2. i \notin Shorts(s)
      BY <2>6 DEF Shorts, UsedSet
    <3>3. h[i] = h[i + 1]
      BY <1>9, <2>1, <3>2, Zenon DEF PicksByOne
    <3>4. u[c] = h[i]
      BY <2>3, <2>4, <3>1, <3>3
    <3>5. QED  BY <2>1, <2>2, <3>4
  <2>7. QED  BY <2>5, <2>6
<1> HIDE DEF T
<1>12. 1..((E - 1) + 1) \subseteq T
  BY ONLY <1>5, <1>10, <1>11, InductionDown
<1>13. 1 \in T
  BY <1>5, <1>12
<1>14. u[PlaceOf(f, 1)] = h[1]
  BY <1>13 DEF T
<1>15. PlaceOf(f, 1) = 1
  <2>1. L - L + 1 = 1
    BY <1>3
  <2>2. QED  BY <1>4, <2>1, Zenon DEF PlaceOf
<1>16. QED  BY <1>8, <1>14, <1>15

-----------------------------------------------------------------------------
(* What is on disk while the buffer is written: the parts before at are    *)
(* the buffer's, the others as they were.                                  *)
PartIn(f, k) == IF f THEN 1 ELSE Clusters(k)
Mix(f, old, new, c) == [k \in DOMAIN new |-> IF PartIn(f, k) < c THEN new[k] ELSE old[k]]

(* What the command makes of the directory. *)
Change(old, new, a) ==
  /\ a.op \in {"create", "fill"} => NamesOf(new) = NamesOf(old) \union a.names
  /\ a.op = "remove" => NamesOf(new) = NamesOf(old) \ a.names
  /\ a.op = "trim" => FileNames(new) = FileNames(old) /\ NamesOf(new) = NamesOf(old) /\ \E L : Packed(new, L)

(* Between commands the directory is in order, and known. *)
Resting == SoundBy(slots) /\ kids = FileNames(slots)

(* During one it is between what it was, which is known, and the buffer.   *)
Working(old) ==
  /\ SoundBy(old) /\ SoundBy(buf) /\ Len(old) = Len(buf)
  /\ kids = FileNames(old)
  /\ Change(old, buf, asked)
  /\ slots = Mix(fixed, old, buf, at)

IInv ==
  /\ TypeOK
  /\ Idle => Resting
  /\ ~Idle => \E old : Working(old)

(* The clusters of a directory that is no root of fixed size.              *)
Fits(s, f) == ~f => Len(s) % PerCluster = 0 /\ Clusters(Len(s)) <= MaxClusters

LEMMA PartsAre ==
  ASSUME NEW f, NEW k \in Nat
  PROVE  PartIn(f, k) \in Nat /\ (k >= 1 => PartIn(f, k) >= 1)
BY ClustersOf DEF PartIn

LEMMA MixIsSeq ==
  ASSUME NEW f, NEW old, NEW new, SoundBy(old), SoundBy(new), Len(old) = Len(new), NEW c
  PROVE  /\ Mix(f, old, new, c) \in Seq(Dentry) /\ Len(Mix(f, old, new, c)) = Len(new)
         /\ \A k \in 1..Len(new) : Mix(f, old, new, c)[k] = IF PartIn(f, k) < c THEN new[k] ELSE old[k]
<1>1. PICK n, m : n = Len(new) /\ m = Mix(f, old, new, c)
  OBVIOUS
<1>2. /\ n \in Nat /\ old \in Seq(Dentry) /\ new \in Seq(Dentry) /\ Len(old) = n /\ DOMAIN new = 1..n
      /\ \A k \in 1..n : old[k] \in Dentry /\ new[k] \in Dentry
  BY <1>1 DEF SoundBy
<1>3. m = [k \in 1..n |-> IF PartIn(f, k) < c THEN new[k] ELSE old[k]]
  BY <1>1, <1>2, Zenon DEF Mix
<1>4. m \in [1..n -> Dentry]
  BY <1>2, <1>3
<1>5. m \in Seq(Dentry) /\ Len(m) = n
  BY <1>2, <1>4
<1>6. QED  BY <1>1, <1>3, <1>5

LEMMA MixBegins ==
  ASSUME NEW f, NEW old, NEW new, SoundBy(old), SoundBy(new), Len(old) = Len(new)
  PROVE  Mix(f, old, new, 1) = old
<1>1. PICK n, m : n = Len(new) /\ m = Mix(f, old, new, 1)
  OBVIOUS
<1>2. n \in Nat /\ old \in Seq(Dentry) /\ Len(old) = n
  BY <1>1 DEF SoundBy
<1>3. m \in Seq(Dentry) /\ Len(m) = n /\ \A k \in 1..n : m[k] = IF PartIn(f, k) < 1 THEN new[k] ELSE old[k]
  BY <1>1, MixIsSeq
<1>4. ASSUME NEW k \in 1..n PROVE m[k] = old[k]
  <2>1. PartIn(f, k) \in Nat /\ PartIn(f, k) >= 1
    BY PartsAre
  <2>2. ~(PartIn(f, k) < 1)
    BY <2>1
  <2>3. QED  BY <1>3, <2>2
<1>5. m = old
  BY <1>2, <1>3, <1>4, SeqEqual
<1>6. QED  BY <1>1, <1>5

LEMMA MixEnds ==
  ASSUME NEW f, NEW old, NEW new, SoundBy(old), SoundBy(new), Len(old) = Len(new), NEW c,
         \A k \in 1..Len(new) : PartIn(f, k) < c \/ old[k] = new[k]
  PROVE  Mix(f, old, new, c) = new
<1>1. PICK n, m : n = Len(new) /\ m = Mix(f, old, new, c)
  OBVIOUS
<1>2. n \in Nat /\ new \in Seq(Dentry)
  BY <1>1 DEF SoundBy
<1>3. m \in Seq(Dentry) /\ Len(m) = n /\ \A k \in 1..n : m[k] = IF PartIn(f, k) < c THEN new[k] ELSE old[k]
  BY <1>1, MixIsSeq
<1>4. \A k \in 1..n : m[k] = new[k]
  BY <1>1, <1>3
<1>5. m = new
  BY <1>1, <1>2, <1>3, <1>4, SeqEqual
<1>6. QED  BY <1>1, <1>5

LEMMA TypeFits ==
  ASSUME TypeOK
  PROVE  Fits(slots, fixed)
BY DEF TypeOK, Fits, Parts

(* A command that writes nothing, and a restart between commands.          *)
LEMMA RefuseKeeps ==
  ASSUME IInv, Idle, Refuse, fixed' = fixed
  PROVE  IInv'
<1>1. Resting /\ TypeOK
  BY DEF IInv
<1>2. Listed(slots) = FileNames(slots) /\ Listed(slots) \in Seq(Name)
  BY <1>1, ListedIsFileNames, NamesRead DEF Resting
<1>3. kids' = Listed(slots) /\ slots' = slots /\ buf' = buf /\ at' = at /\ asked' = asked
  BY DEF Refuse
<1>4. TypeOK'
  BY <1>1, <1>2, <1>3 DEF TypeOK, Parts
<1>5. Idle' /\ Resting'
  BY <1>1, <1>2, <1>3 DEF Resting, Idle
<1>6. QED  BY <1>4, <1>5 DEF IInv

Asked == {"create", "remove", "trim", "fill"}

(* A command that begins, on a directory that was in order.                *)
LEMMA BeginKeeps ==
  ASSUME IInv, Idle, NEW op \in Asked, NEW names \in SUBSET Name, NEW b, Begin(op, names, b),
         fixed' = fixed, SoundBy(slots'), Fits(slots', fixed),
         FileNames(slots') = FileNames(slots),
         SoundBy(b), Len(b) = Len(slots'), Change(slots', b, [op |-> op, names |-> names])
  PROVE  IInv'
<1>1. Resting /\ TypeOK
  BY DEF IInv
<1>2. asked' = [op |-> op, names |-> names] /\ buf' = b /\ at' = 1 /\ kids' = kids
  BY DEF Begin
<1>3. asked'.op = op /\ op # "none" /\ asked' \in [op : {"none", "create", "remove", "trim", "fill"}, names : SUBSET Name]
  BY <1>2 DEF Asked
<1>4. b \in Seq(Dentry) /\ slots' \in Seq(Dentry)
  BY DEF SoundBy
<1>5. at' \in 0..MaxClusters + 1 /\ at' # 0
  BY <1>2, DentriesAssumption DEF DentriesAssumption
<1>6. ~fixed' => Len(slots') % PerCluster = 0 /\ Parts' <= MaxClusters
  BY DEF Fits, Parts
<1>7. TypeOK'
  BY <1>1, <1>2, <1>3, <1>4, <1>5, <1>6 DEF TypeOK
<1>8. ~Idle'
  BY <1>3 DEF Idle
<1>9. PICK old : old = slots'
  OBVIOUS
<1>10. Working(old)'
  <2>1. kids' = FileNames(old)
    BY <1>1, <1>2, <1>9 DEF Resting
  <2>2. slots' = Mix(fixed', old, buf', at')
    BY <1>2, <1>9, MixBegins
  <2>3. Change(old, buf', asked')
    BY <1>2, <1>9
  <2>4. SoundBy(old) /\ SoundBy(buf') /\ Len(old) = Len(buf')
    BY <1>2, <1>9
  <2>5. QED  BY <2>1, <2>2, <2>3, <2>4 DEF Working
<1>11. QED  BY <1>7, <1>8, <1>10 DEF IInv

(* Growing keeps the directory in order, and within its bound.             *)
LEMMA GrowingKeeps ==
  ASSUME Zeroed, IInv, Idle, ~fixed, NEW n \in Nat, n <= MaxClusters, NEW g \in Grown(n)
  PROVE  /\ SoundBy(g) /\ FileNames(g) = FileNames(slots) /\ NamesOf(g) = NamesOf(slots)
         /\ End(g) = End(slots) /\ Fits(g, fixed) /\ n * PerCluster <= Len(g)
<1>1. Resting /\ TypeOK
  BY DEF IInv
<1>2. slots \in Seq(Dentry) /\ Len(slots) % PerCluster = 0 /\ Clusters(Len(slots)) <= MaxClusters
  BY <1>1 DEF TypeOK, Parts
<1>3. /\ Extends(g, slots) /\ Len(g) % PerCluster = 0 /\ Len(g) >= n * PerCluster
      /\ Len(g) = Len(slots) \/ Len(g) = n * PerCluster
  BY <1>2, GrownExtends
<1>4. SoundBy(g) /\ FileNames(g) = FileNames(slots) /\ End(g) = End(slots) /\ NamesOf(g) = NamesOf(slots)
  BY <1>1, <1>3, ExtendedSame DEF Resting
<1>5. Clusters(Len(g)) <= MaxClusters
  BY <1>2, <1>3, ClustersExact
<1>6. n * PerCluster <= Len(g)
  <2>1. n * PerCluster \in Int /\ Len(g) \in Int
    BY <1>3, PerClusterIsPositive DEF Extends
  <2>2. QED  BY <1>3, <2>1
<1>7. QED  BY <1>3, <1>4, <1>5, <1>6 DEF Fits

-----------------------------------------------------------------------------
(* The clusters a command needs are within the bound of a directory.       *)
LEMMA CreateKeeps ==
  ASSUME Zeroed, IInv, NEW n \in Given, Create(n)
  PROVE  IInv'
<1>1. Idle /\ fixed' = fixed
  BY DEF Create
<1>2. PICK i, need : i = End(slots) /\ need = i + Pieces[n]
  OBVIOUS
<1>3. CASE fixed /\ need > Len(slots) \div PerSector
  <2>1. Refuse
    BY <1>2, <1>3 DEF Create
  <2>2. QED  BY <1>1, <2>1, RefuseKeeps
<1>4. CASE ~(fixed /\ need > Len(slots) \div PerSector)
  <2>1. /\ fixed \/ Clusters(need) <= Parts \/ (Parts = 1 /\ Clusters(need) <= MaxClusters)
        /\ \E s \in (IF fixed THEN {slots} ELSE Grown(Clusters(need))), g \in Garbage :
             slots' = s /\ Begin("create", {Shown[n]}, Over(s, i, EntrySet(n, g)))
    BY <1>2, <1>4, Zenon DEF Create
  <2>2. PICK s \in (IF fixed THEN {slots} ELSE Grown(Clusters(need))), u \in Garbage :
             slots' = s /\ Begin("create", {Shown[n]}, Over(s, i, EntrySet(n, u)))
    BY <2>1
  <2>3. SoundBy(slots) /\ slots \in Seq(Dentry) /\ TypeOK
    BY <1>1 DEF IInv, Resting, SoundBy
  <2>4. n \in Name
    BY DentriesAssumption DEF DentriesAssumption
  <2>5. i \in Nat /\ i >= 1 /\ Pieces[n] \in Nat /\ Shown[n] \in Name
    BY <1>2, <2>3, <2>4, EndIsFirst, NamesHave DEF EndOf, NameFacts
  <2>6. need \in Nat
    BY <1>2, <2>5
  <2>7. /\ SoundBy(s) /\ FileNames(s) = FileNames(slots) /\ End(s) = i
        /\ Fits(s, fixed) /\ need <= Len(s)
    <3>1. CASE fixed
      <4>1. s = slots
        BY <2>2, <3>1
      <4>2. PICK l, p : l = Len(slots) /\ p = PerSector
        OBVIOUS
      <4>3. l \in Nat /\ p \in Nat \ {0} /\ need <= l \div p
        BY <1>4, <2>3, <2>6, <3>1, <4>2, DentriesAssumption DEF DentriesAssumption
      <4>4. l \div p <= l
        BY ONLY <4>3
      <4>5. need <= l
        BY ONLY <2>6, <4>3, <4>4
      <4>6. QED  BY <1>2, <2>3, <4>1, <4>2, <4>5, TypeFits
    <3>2. CASE ~fixed
      <4>1. PICK room : room = Clusters(need)
        OBVIOUS
      <4>2. room \in Nat /\ need <= room * PerCluster
        BY <2>6, <4>1, ClustersOf
      <4>3. room <= MaxClusters
        <5>1. Parts <= MaxClusters /\ Parts \in Nat
          BY <2>3, <3>2, ClustersOf DEF TypeOK, Parts
        <5>2. MaxClusters \in Nat
          BY DentriesAssumption DEF DentriesAssumption
        <5>3. room <= Parts \/ room <= MaxClusters
          BY <2>1, <3>2, <4>1
        <5>4. QED  BY <4>2, <5>1, <5>2, <5>3
      <4>4. s \in Grown(room)
        BY <3>2, <4>1
      <4>5. /\ SoundBy(s) /\ FileNames(s) = FileNames(slots) /\ End(s) = End(slots)
            /\ Fits(s, fixed) /\ room * PerCluster <= Len(s)
        BY <1>1, <3>2, <4>2, <4>3, <4>4, GrowingKeeps
      <4>6. PICK r, l : r = room * PerCluster /\ l = Len(s)
        OBVIOUS
      <4>7. r \in Int /\ l \in Int /\ need <= r /\ r <= l
        BY <4>2, <4>5, <4>6, PerClusterIsPositive DEF SoundBy
      <4>8. need <= l
        BY ONLY <2>6, <4>7
      <4>9. QED  BY <1>2, <4>5, <4>6, <4>8
    <3>3. QED  BY <3>1, <3>2
  <2>8. PICK b : b = Over(s, i, EntrySet(n, u))
    OBVIOUS
  <2>9. Added(b, s, {Shown[n]})
    <3>1. PICK c : c = SumOf(n, u)
      OBVIOUS
    <3>2. c \in Nat
      BY <2>4, <3>1, SumIsNat
    <3>3. End(s) + Pieces[n] <= Len(s)
      BY <1>2, <2>7
    <3>4. Added(Over(s, End(s), EntrySet(n, u)), s, {Shown[n]})
      BY <2>4, <2>7, <3>1, <3>2, <3>3, CreateAdds
    <3>5. QED  BY <2>7, <2>8, <3>4
  <2>10. SoundBy(b) /\ Len(b) = Len(s)
    BY <2>9 DEF Added
  <2>11. Change(s, b, [op |-> "create", names |-> {Shown[n]}])
    BY <2>9 DEF Change, Added
  <2>12. "create" \in Asked /\ {Shown[n]} \in SUBSET Name
    BY <2>5 DEF Asked
  <2>13. slots' = s /\ Begin("create", {Shown[n]}, b)
    BY <2>2, <2>8
  <2>14. QED  BY <1>1, <2>7, <2>10, <2>11, <2>12, <2>13, BeginKeeps
<1>5. QED  BY <1>3, <1>4

(* The buffer of fill holds the whole directory, when it has one part.     *)
LEMMA OneCluster ==
  ASSUME TypeOK, Parts = 1
  PROVE  SubSeq(slots, 1, IF fixed THEN Len(slots) ELSE PerCluster) = slots
         /\ Len(slots) = IF fixed THEN Len(slots) ELSE PerCluster
<1>1. PICK n : n = Len(slots)
  OBVIOUS
<1>2. n \in Nat /\ slots \in Seq(Dentry)
  BY <1>1 DEF TypeOK
<1>3. n = IF fixed THEN n ELSE PerCluster
  <2>1. CASE ~fixed
    <3>1. n % PerCluster = 0 /\ Clusters(n) = 1
      BY <1>1, <2>1 DEF TypeOK, Parts
    <3>2. 1 * PerCluster = n
      BY <1>2, <3>1, ClustersWhole
    <3>3. QED  BY <2>1, <3>2, PerClusterIsPositive
  <2>2. QED  BY <2>1
<1>4. SubSeq(slots, 1, n) = slots
  BY <1>1, <1>2
<1>5. QED  BY <1>1, <1>3, <1>4

(* fill writes to the one cluster that it reads.                           *)
LEMMA FillKeeps ==
  ASSUME IInv, NEW count \in Counts, Fill(count)
  PROVE  IInv'
<1>1. Idle /\ fixed' = fixed
  BY DEF Fill
<1>2. PICK entries, i : /\ entries = IF fixed THEN Len(slots) ELSE PerCluster
                        /\ i = End(SubSeq(slots, 1, entries))
  OBVIOUS
<1>3. CASE count > entries \/ i > count
  <2>1. Refuse
    BY <1>2, <1>3, Zenon DEF Fill
  <2>2. QED  BY <1>1, <2>1, RefuseKeeps
<1>4. CASE ~(count > entries \/ i > count)
  <2>1. /\ Parts = 1 /\ slots' = slots
        /\ \E new \in [1..count - i + 1 -> Random] : Begin("fill", ToSet(new), Filled(slots, new))
    BY <1>2, <1>4, Zenon DEF Fill
  <2>2. PICK new \in [1..count - i + 1 -> Random] : Begin("fill", ToSet(new), Filled(slots, new))
    BY <2>1
  <2>3. SoundBy(slots) /\ slots \in Seq(Dentry) /\ TypeOK
    BY <1>1 DEF IInv, Resting, SoundBy
  <2>4. i = End(slots) /\ entries = Len(slots)
    BY <1>2, <2>1, <2>3, OneCluster
  <2>5. count \in Nat /\ i \in Nat /\ i >= 1 /\ entries \in Nat
    BY <2>3, <2>4, EndIsFirst, DentriesAssumption DEF EndOf, DentriesAssumption
  <2>6. PICK m : m = count - i + 1
    OBVIOUS
  <2>7. m \in Nat \ {0} /\ i + m - 1 <= entries
    BY ONLY <1>4, <2>5, <2>6
  <2>8. new \in [1..m -> Random] /\ End(slots) + m - 1 <= Len(slots)
    BY <2>2, <2>4, <2>6, <2>7
  <2>9. PICK b, names : b = Filled(slots, new) /\ names = ToSet(new)
    OBVIOUS
  <2>10. Added(b, slots, names)
    BY <2>3, <2>7, <2>8, <2>9, FillAdds
  <2>11. SoundBy(b) /\ Len(b) = Len(slots)
    BY <2>10 DEF Added
  <2>12. Change(slots, b, [op |-> "fill", names |-> names])
    BY <2>10 DEF Change, Added
  <2>13. \A k \in 1..m : new[k] \in Name
    BY <2>8, DentriesAssumption DEF DentriesAssumption
  <2>14. "fill" \in Asked /\ names \in SUBSET Name
    BY <2>8, <2>9, <2>13 DEF Asked, ToSet
  <2>15. Begin("fill", names, b)
    BY <2>2, <2>9
  <2>16. QED  BY <1>1, <2>1, <2>3, <2>11, <2>12, <2>14, <2>15, TypeFits, BeginKeeps
<1>5. QED  BY <1>3, <1>4

(* remove marks a long name's pieces and its file, or nothing.             *)
LEMMA RemoveKeeps ==
  ASSUME IInv, NEW n \in Name, CarefulRemove(n), RemoveName(n)
  PROVE  IInv'
<1>1. Idle /\ fixed' = fixed
  BY DEF RemoveName
<1>2. CASE Refuse
  BY <1>1, <1>2, RefuseKeeps
<1>3. ASSUME NEW g \in Garbage, slots' = slots,
             Begin("remove", {n}, Deleted(slots, Marks(slots, Short[n], SumOf(n, g))))
      PROVE  IInv'
  <2>1. SoundBy(slots) /\ TypeOK /\ slots \in Seq(Dentry)
    BY <1>1 DEF IInv, Resting, SoundBy
  <2>2. PICK short, c : short = Short[n] /\ c = SumOf(n, g)
    OBVIOUS
  <2>3. Telling(slots, n, short, c)
    <3>1. Telling(slots, n, Short[n], Checksum[Short[n], g])
      BY <2>1, CarefulIsTelling, Zenon
    <3>2. QED  BY <2>2, <3>1, Zenon DEF SumOf
  <2>4. PICK b : b = Deleted(slots, Marks(slots, short, c))
    OBVIOUS
  <2>5. Marks(slots, short, c) = Taken(slots, short, c)
    BY <2>1, <2>3, MarksAreTaken
  <2>6. DeletedBy(b, slots, Taken(slots, short, c))
    BY <2>1, <2>4, <2>5, Deleting
  <2>7. SoundBy(b) /\ NamesOf(b) = NamesOf(slots) \ {n} /\ Len(b) = Len(slots)
    BY <2>1, <2>3, <2>6, TakenSound
  <2>8. Change(slots, b, [op |-> "remove", names |-> {n}])
    BY <2>7 DEF Change
  <2>9. "remove" \in Asked /\ {n} \in SUBSET Name
    BY DEF Asked
  <2>10. Begin("remove", {n}, b)
    BY <1>3, <2>2, <2>4
  <2>11. QED  BY <1>1, <1>3, <2>1, <2>7, <2>8, <2>9, <2>10, TypeFits, BeginKeeps
<1>4. Refuse \/ \E g \in Garbage :
         slots' = slots /\ Begin("remove", {n}, Deleted(slots, Marks(slots, Short[n], SumOf(n, g))))
  BY Zenon DEF RemoveName, SumOf
<1>5. QED  BY <1>2, <1>3, <1>4

(* Trim keeps the names, in their order.                                   *)
LEMMA TrimKeeps ==
  ASSUME IInv, Trim
  PROVE  IInv'
<1>1. Idle /\ fixed' = fixed
  BY DEF Trim
<1>2. PICK b : b = Trimmed(slots)
  OBVIOUS
<1>3. Begin("trim", {}, b) /\ slots' = slots
  BY <1>2 DEF Trim
<1>4. SoundBy(slots) /\ TypeOK /\ slots \in Seq(Dentry)
  BY <1>1 DEF IInv, Resting, SoundBy
<1>5. PICK f, E, L : MovedBy(f, b, slots, E, L)
  BY <1>2, <1>4, TrimMoves
<1>6. SoundBy(b) /\ FileNames(b) = FileNames(slots)
  BY <1>4, <1>5, MovedSound, MovedNames
<1>7. NamesOf(b) = NamesOf(slots)
  <2>1. ToSet(FileNames(b)) = NamesOf(b)
    BY <1>6, NamesRead
  <2>2. ToSet(FileNames(slots)) = NamesOf(slots)
    BY <1>4, NamesRead
  <2>3. QED  BY <1>6, <2>1, <2>2
<1>8. Len(b) = Len(slots) /\ Packed(b, L)
  BY <1>5 DEF MovedBy
<1>9. Change(slots, b, [op |-> "trim", names |-> {}])
  BY <1>6, <1>7, <1>8 DEF Change
<1>10. "trim" \in Asked /\ {} \in SUBSET Name
  BY DEF Asked
<1>11. QED  BY <1>1, <1>3, <1>4, <1>6, <1>8, <1>9, <1>10, TypeFits, BeginKeeps

-----------------------------------------------------------------------------
(* How many parts there are to write.                                      *)
LEMMA PartsBound ==
  ASSUME TypeOK
  PROVE  Parts \in 0..MaxClusters /\ \A k \in 1..Len(slots) : PartIn(fixed, k) <= Parts
<1>1. PICK n : n = Len(slots)
  OBVIOUS
<1>2. n \in Nat /\ MaxClusters \in Nat \ {0}
  BY <1>1, DentriesAssumption DEF TypeOK, DentriesAssumption
<1>3. CASE fixed
  BY <1>2, <1>3 DEF Parts, PartIn
<1>4. CASE ~fixed
  <2>1. Parts = Clusters(n) /\ Clusters(n) \in Nat /\ Parts <= MaxClusters
    BY <1>1, <1>2, <1>4, ClustersOf DEF Parts, TypeOK
  <2>2. ASSUME NEW k \in 1..n PROVE PartIn(fixed, k) <= Parts
    <3>1. k \in Nat /\ k <= n
      BY <1>2
    <3>2. Clusters(k) <= Clusters(n)
      BY <1>2, <3>1, ClustersMonotone
    <3>3. QED  BY <1>4, <2>1, <3>2 DEF PartIn
  <2>3. QED  BY <1>1, <1>2, <2>1, <2>2
<1>5. QED  BY <1>3, <1>4

(* A write puts one more part of the buffer on disk.                       *)
LEMMA WriteMixes ==
  ASSUME TypeOK, ~Idle, NEW old, Working(old), Write
  PROVE  slots' = Mix(fixed, old, buf, at + 1)
<1>1. PICK n, c : n = Len(buf) /\ c = at
  OBVIOUS
<1>2. /\ SoundBy(old) /\ SoundBy(buf) /\ Len(old) = Len(buf) /\ slots = Mix(fixed, old, buf, c)
      /\ n \in Nat /\ DOMAIN buf = 1..n /\ c \in Nat
  BY <1>1 DEF Working, TypeOK, SoundBy
<1>3. slots \in Seq(Dentry) /\ Len(slots) = n
      /\ \A k \in 1..n : slots[k] = IF PartIn(fixed, k) < c THEN buf[k] ELSE old[k]
  BY <1>1, <1>2, MixIsSeq
<1>4. slots' = [k \in 1..n |-> IF PartIn(fixed, k) = c THEN buf[k] ELSE slots[k]]
  <2>1. DOMAIN slots = 1..n
    BY <1>3
  <2>2. QED  BY <1>1, <2>1, Zenon DEF Write, PartOf, PartIn
<1>5. ASSUME NEW k \in 1..n
      PROVE  (IF PartIn(fixed, k) = c THEN buf[k] ELSE slots[k])
               = IF PartIn(fixed, k) < c + 1 THEN buf[k] ELSE old[k]
  <2>1. PICK x : x = PartIn(fixed, k)
    OBVIOUS
  <2>2. x \in Nat
    BY <2>1, PartsAre
  <2>3. x < c + 1 <=> x < c \/ x = c
    BY <1>2, <2>2
  <2>4. QED  BY <1>3, <2>1, <2>3, Zenon
<1>6. slots' = [k \in 1..n |-> IF PartIn(fixed, k) < c + 1 THEN buf[k] ELSE old[k]]
  BY <1>4, <1>5, Zenon
<1>7. QED  BY <1>1, <1>2, <1>6, Zenon DEF Mix

LEMMA WriteKeeps ==
  ASSUME IInv, Write
  PROVE  IInv'
<1>1. TypeOK /\ ~Idle /\ at <= Parts
  BY DEF IInv, Write
<1>2. PICK old : Working(old)
  BY <1>1 DEF IInv
<1>3. PICK n, c : n = Len(buf) /\ c = at
  OBVIOUS
<1>4. /\ SoundBy(old) /\ SoundBy(buf) /\ Len(old) = Len(buf) /\ slots = Mix(fixed, old, buf, c)
      /\ n \in Nat /\ c \in Nat
  BY <1>1, <1>2, <1>3 DEF Working, TypeOK, SoundBy
<1>5. slots \in Seq(Dentry) /\ Len(slots) = n
  BY <1>3, <1>4, MixIsSeq
<1>6. at' = c + 1 /\ kids' = kids /\ buf' = buf /\ asked' = asked /\ fixed' = fixed
  BY <1>3 DEF Write
<1>7. slots' = Mix(fixed', old, buf', at')
  BY <1>1, <1>2, <1>3, <1>6, WriteMixes
<1>8. Working(old)'
  BY <1>2, <1>6, <1>7 DEF Working
<1>9. ~Idle'
  BY <1>1, <1>6 DEF Idle
<1>10. slots' \in Seq(Dentry) /\ Len(slots') = Len(slots)
  <2>1. SoundBy(buf')
    BY <1>4, <1>6
  <2>2. Mix(fixed', old, buf', at') \in Seq(Dentry) /\ Len(Mix(fixed', old, buf', at')) = Len(buf')
    BY <1>4, <1>6, <2>1, MixIsSeq
  <2>3. QED  BY <1>3, <1>5, <1>6, <1>7, <2>2
<1>11. at' \in 0..MaxClusters + 1 /\ at' # 0
  BY <1>1, <1>3, <1>4, <1>6, PartsBound, DentriesAssumption DEF DentriesAssumption
<1>12. TypeOK'
  <2>1. asked'.op # "none"
    BY <1>9 DEF Idle
  <2>2. Parts' = Parts
    BY <1>6, <1>10 DEF Parts
  <2>3. QED  BY <1>1, <1>6, <1>10, <1>11, <2>1, <2>2 DEF TypeOK
<1>13. QED  BY <1>8, <1>9, <1>12 DEF IInv

(* When all is written the directory is what the buffer is.                *)
LEMMA AllWritten ==
  ASSUME TypeOK, NEW old, Working(old), at > Parts
  PROVE  slots = buf
<1>1. PICK n : n = Len(buf)
  OBVIOUS
<1>2. /\ SoundBy(old) /\ SoundBy(buf) /\ Len(old) = Len(buf) /\ slots = Mix(fixed, old, buf, at)
      /\ n \in Nat /\ at \in Int
  BY <1>1 DEF Working, TypeOK, SoundBy
<1>3. Len(slots) = n
  BY <1>1, <1>2, MixIsSeq
<1>4. ASSUME NEW k \in 1..n PROVE PartIn(fixed, k) < at
  <2>1. PICK x, y : x = PartIn(fixed, k) /\ y = Parts
    OBVIOUS
  <2>2. x <= y /\ x \in Nat /\ y \in Nat
    BY <1>2, <1>3, <2>1, PartsBound, PartsAre
  <2>3. QED  BY <1>2, <2>1, <2>2
<1>5. QED  BY <1>1, <1>2, <1>4, MixEnds

(* What trim leaves of the directory.                                      *)
LEMMA CutsTo ==
  ASSUME TypeOK, ~fixed, NEW L, Packed(slots, L), NEW K, K = Clusters(L) * PerCluster
  PROVE  K \in Nat /\ L <= K /\ K <= Len(slots)
<1>1. PICK n, c, d, p : n = Len(slots) /\ c = Clusters(L) /\ p = PerCluster /\ d = Clusters(Len(slots))
  OBVIOUS
<1>2. n \in Nat /\ n % PerCluster = 0 /\ L \in 0..n
  BY <1>1 DEF TypeOK, Packed
<1>3. L \in Nat /\ L <= n
  BY <1>2
<1>4. c \in Nat /\ d \in Nat /\ p \in Nat \ {0} /\ L <= K /\ K = c * p
  BY <1>1, <1>2, <1>3, ClustersOf, PerClusterIsPositive
<1>5. c <= d
  BY <1>1, <1>2, <1>3, ClustersMonotone
<1>6. d * p = n
  BY <1>1, <1>2, ClustersWhole
<1>7. c * p <= d * p
  BY ONLY <1>4, <1>5, Products
<1>8. K \in Nat
  BY ONLY <1>4
<1>9. K <= n
  BY <1>4, <1>6, <1>7
<1>10. QED  BY <1>1, <1>4, <1>8, <1>9

Cut(s, f) == IF f THEN s ELSE SubSeq(s, 1, Kept(s) * PerCluster)

LEMMA TrimCuts ==
  ASSUME TypeOK, SoundBy(slots), NEW L, Packed(slots, L), NEW t, t = Cut(slots, fixed)
  PROVE  /\ Extends(slots, t) /\ Packed(t, L) /\ SoundBy(t) /\ Fits(t, fixed)
         /\ fixed \/ Len(t) = Clusters(L) * PerCluster
<1>1. slots \in Seq(Dentry)
  BY DEF SoundBy
<1>2. CASE fixed
  <2>1. t = slots
    BY <1>2 DEF Cut
  <2>2. Extends(slots, slots)
    BY <1>1 DEF Extends
  <2>3. QED  BY <1>2, <2>1, <2>2, TypeFits
<1>3. CASE ~fixed
  <2>1. PICK n, K : n = Len(slots) /\ K = Clusters(L) * PerCluster
    OBVIOUS
  <2>2. n \in Nat /\ L \in 0..n /\ DOMAIN slots = 1..n
    BY <1>1, <2>1 DEF Packed
  <2>3. K \in Nat /\ L <= K /\ K <= n
    BY <1>3, <2>1, CutsTo
  <2>4. t = SubSeq(slots, 1, K)
    <3>1. Len(InUse(slots)) = L
      BY <1>1, PackedInUse
    <3>2. QED  BY <1>3, <2>1, <3>1 DEF Cut, Kept
  <2>5. t \in Seq(Dentry) /\ Len(t) = K /\ \A k \in 1..K : t[k] = slots[k]
    <3>1. \A i \in 1..K : slots[i] \in Dentry
      BY <1>1, <2>2, <2>3
    <3>2. 1 \in Int /\ K \in Int
      BY <2>3
    <3>3. /\ SubSeq(slots, 1, K) \in Seq(Dentry)
          /\ Len(SubSeq(slots, 1, K)) = IF 1 <= K THEN K - 1 + 1 ELSE 0
          /\ \A i \in 1..(K - 1 + 1) : SubSeq(slots, 1, K)[i] = slots[1 + i - 1]
      BY ONLY <3>1, <3>2, SubSeqProperties
    <3>4. (IF 1 <= K THEN K - 1 + 1 ELSE 0) = K /\ K - 1 + 1 = K /\ \A i \in 1..K : 1 + i - 1 = i
      BY <2>3
    <3>5. QED  BY <2>4, <3>3, <3>4, Zenon
  <2>6. \A k \in L + 1..n : slots[k] = Unused
    BY <2>1 DEF Packed
  <2>7. Extends(slots, t)
    <3>1. \A k \in K + 1..n : slots[k] = Unused
      BY <2>2, <2>3, <2>6
    <3>2. QED  BY <1>1, <2>1, <2>2, <2>3, <2>5, <3>1 DEF Extends
  <2>8. Packed(t, L)
    <3>1. \A k \in 1..L : t[k].type # "deleted" /\ t[k].type # "unused"
      <4> TAKE k \in 1..L
      <4>1. k \in 1..K
        BY <2>2, <2>3
      <4>2. QED  BY <2>5, <4>1 DEF Packed
    <3>2. \A k \in L + 1..K : t[k] = Unused
      <4> TAKE k \in L + 1..K
      <4>1. k \in 1..K /\ k \in L + 1..n
        BY <2>2, <2>3
      <4>2. QED  BY <2>5, <2>6, <4>1
    <3>3. L \in 0..K
      BY <2>2, <2>3
    <3>4. QED  BY <2>5, <3>1, <3>2, <3>3 DEF Packed
  <2>9. SoundBy(t)
    BY <2>7, CutSound
  <2>10. Fits(t, fixed)
    <3>1. PICK c : c = Clusters(L)
      OBVIOUS
    <3>2. c \in Nat /\ Len(t) = c * PerCluster
      BY <2>1, <2>2, <2>5, <3>1, ClustersOf
    <3>3. Clusters(Len(t)) = c
      BY <3>2, ClustersExact
    <3>4. Len(t) % PerCluster = 0
      <4>1. PICK p : p = PerCluster
        OBVIOUS
      <4>2. p \in Nat \ {0}
        BY <4>1, PerClusterIsPositive
      <4>3. (c * p) % p = 0
        BY ONLY <3>2, <4>2
      <4>4. QED  BY <3>2, <4>1, <4>3
    <3>5. c <= MaxClusters
      <4>1. Clusters(n) <= MaxClusters /\ Clusters(n) \in Nat /\ MaxClusters \in Nat
        BY <1>3, <2>1, <2>2, ClustersOf, DentriesAssumption DEF TypeOK, Parts, DentriesAssumption
      <4>2. L \in Nat /\ L <= n
        BY <2>2
      <4>3. c <= Clusters(n)
        BY <2>2, <3>1, <4>2, ClustersMonotone
      <4>4. QED  BY <3>2, <4>1, <4>3
    <3>6. QED  BY <3>3, <3>4, <3>5 DEF Fits
  <2>11. QED  BY <2>1, <2>5, <2>7, <2>8, <2>9, <2>10
<1>4. QED  BY <1>2, <1>3

-----------------------------------------------------------------------------
LEMMA CommandEnds ==
  ASSUME buf' = <<>>, at' = 0, asked' = Nothing, kids' \in Seq(Name), slots' \in Seq(Dentry),
         fixed \in BOOLEAN, fixed' = fixed, Fits(slots', fixed), SoundBy(slots'), kids' = FileNames(slots')
  PROVE  IInv'
<1>1. Idle' /\ Resting'
  BY DEF Idle, Nothing, Resting
<1>2. ~fixed' => Len(slots') % PerCluster = 0 /\ Parts' <= MaxClusters
  BY DEF Fits, Parts
<1>3. TypeOK'
  BY <1>2, DentriesAssumption DEF TypeOK, Nothing, DentriesAssumption
<1>4. QED  BY <1>1, <1>3 DEF IInv

(* trim gives back clusters that hold nothing, and the others change       *)
(* nothing when they return.                                               *)
LEMMA ReturnKeeps ==
  ASSUME IInv, Return
  PROVE  IInv'
<1>1. TypeOK /\ ~Idle /\ at > Parts
  BY DEF IInv, Return
<1>2. PICK old : Working(old)
  BY <1>1 DEF IInv
<1>3. slots = buf
  BY <1>1, <1>2, AllWritten
<1>4. /\ SoundBy(slots) /\ SoundBy(old) /\ kids = FileNames(old) /\ Change(old, slots, asked)
      /\ slots \in Seq(Dentry) /\ kids \in Seq(Name) /\ fixed \in BOOLEAN
  BY <1>1, <1>2, <1>3 DEF Working, TypeOK
<1>5. buf' = <<>> /\ at' = 0 /\ asked' = Nothing /\ fixed' = fixed
  BY DEF Return
<1>6. CASE asked.op = "trim"
  <2>1. kids' = kids /\ slots' = Cut(slots, fixed)
    BY <1>6 DEF Return, Cut
  <2>2. PICK L : Packed(slots, L) /\ FileNames(slots) = FileNames(old)
    BY <1>4, <1>6 DEF Change
  <2>3. Extends(slots, slots') /\ SoundBy(slots') /\ Fits(slots', fixed)
    BY <1>1, <1>4, <2>1, <2>2, TrimCuts
  <2>4. FileNames(slots') = FileNames(slots)
    BY <2>3, ExtendedSame
  <2>5. slots' \in Seq(Dentry) /\ kids' \in Seq(Name) /\ kids' = FileNames(slots')
    BY <1>4, <2>1, <2>2, <2>3, <2>4 DEF SoundBy
  <2>6. QED  BY <1>4, <1>5, <2>3, <2>5, CommandEnds
<1>7. CASE asked.op # "trim"
  <2>1. kids' = Listed(slots) /\ slots' = slots
    BY <1>7 DEF Return
  <2>2. Listed(slots) = FileNames(slots) /\ Listed(slots) \in Seq(Name)
    BY <1>4, ListedIsFileNames, NamesRead
  <2>3. QED  BY <1>1, <1>4, <1>5, <2>1, <2>2, TypeFits, CommandEnds
<1>8. QED  BY <1>6, <1>7

(* A kill that comes before the first write, or when what is left to write *)
(* is there already, finds the directory as it was or as it is to be.      *)
LEMMA WholeIsOne ==
  ASSUME IInv, Whole, ~Idle
  PROVE  \E old : Working(old) /\ slots = IF at > 1 THEN buf ELSE old
<1>1. TypeOK
  BY DEF IInv
<1>2. PICK old : Working(old)
  BY DEF IInv
<1>3. PICK n, c : n = Len(buf) /\ c = at
  OBVIOUS
<1>4. /\ SoundBy(old) /\ SoundBy(buf) /\ Len(old) = Len(buf) /\ slots = Mix(fixed, old, buf, c)
      /\ n \in Nat /\ c \in Nat
  BY <1>1, <1>2, <1>3 DEF Working, TypeOK, SoundBy
<1>5. c # 0
  BY <1>1, <1>3 DEF TypeOK, Idle
<1>6. CASE c = 1
  <2>1. slots = old
    BY <1>4, <1>6, MixBegins
  <2>2. QED  BY <1>2, <1>3, <1>6, <2>1
<1>7. CASE c > 1
  <2>1. Len(slots) = n /\ DOMAIN slots = 1..n
        /\ \A k \in 1..n : slots[k] = IF PartIn(fixed, k) < c THEN buf[k] ELSE old[k]
    <3>1. Len(slots) = n /\ slots \in Seq(Dentry)
          /\ \A k \in 1..n : slots[k] = IF PartIn(fixed, k) < c THEN buf[k] ELSE old[k]
      BY <1>3, <1>4, MixIsSeq
    <3>2. QED  BY <3>1
  <2>2. \A k \in 1..n : PartIn(fixed, k) >= c => slots[k] = buf[k]
    BY <1>3, <1>7, <2>1 DEF Whole, PartOf, PartIn
  <2>3. ASSUME NEW k \in 1..n PROVE PartIn(fixed, k) < c \/ old[k] = buf[k]
    <3>1. PartIn(fixed, k) \in Nat
      BY PartsAre
    <3>2. CASE PartIn(fixed, k) >= c
      BY <1>4, <2>1, <2>2, <3>1, <3>2
    <3>3. QED  BY <1>4, <3>1, <3>2
  <2>4. slots = buf
    BY <1>3, <1>4, <2>3, MixEnds
  <2>5. QED  BY <1>2, <1>3, <1>7, <2>4
<1>8. QED  BY <1>4, <1>5, <1>6, <1>7

LEMMA WholeIsSound ==
  ASSUME IInv, Whole
  PROVE  SoundBy(slots)
<1>1. CASE Idle
  BY <1>1 DEF IInv, Resting
<1>2. CASE ~Idle
  <2>1. PICK old : Working(old) /\ slots = IF at > 1 THEN buf ELSE old
    BY <1>2, WholeIsOne
  <2>2. QED  BY <2>1 DEF Working
<1>3. QED  BY <1>1, <1>2

LEMMA KillKeeps ==
  ASSUME IInv, Whole, Kill
  PROVE  IInv'
<1>1. SoundBy(slots) /\ TypeOK /\ slots \in Seq(Dentry) /\ fixed \in BOOLEAN
  BY WholeIsSound DEF IInv, TypeOK
<1>2. Listed(slots) = FileNames(slots) /\ Listed(slots) \in Seq(Name)
  BY <1>1, ListedIsFileNames, NamesRead
<1>3. kids' = Listed(slots) /\ slots' = slots /\ buf' = <<>> /\ at' = 0 /\ asked' = Nothing /\ fixed' = fixed
  BY DEF Kill
<1>4. QED  BY <1>1, <1>2, <1>3, TypeFits, CommandEnds

LEMMA StuttersKeep ==
  ASSUME IInv, UNCHANGED vars
  PROVE  IInv'
<1>1. slots' = slots /\ kids' = kids /\ buf' = buf /\ at' = at /\ asked' = asked /\ fixed' = fixed
  BY DEF vars
<1>2. TypeOK' /\ (Idle' <=> Idle)
  BY <1>1 DEF IInv, TypeOK, Idle, Parts
<1>3. CASE Idle
  <2>1. Resting'
    BY <1>1, <1>3 DEF IInv, Resting
  <2>2. QED  BY <1>2, <1>3, <2>1 DEF IInv
<1>4. CASE ~Idle
  <2>1. PICK old : Working(old)
    BY <1>4 DEF IInv
  <2>2. Working(old)'
    BY <1>1, <2>1 DEF Working
  <2>3. QED  BY <1>2, <1>4, <2>2 DEF IInv
<1>5. QED  BY <1>3, <1>4

LEMMA InitHolds ==
  ASSUME Init
  PROVE  IInv
<1>1. PICK m \in Images : slots = m.slots /\ fixed = m.fixed
  BY DEF Init
<1>2. kids = Listed(slots) /\ buf = <<>> /\ at = 0 /\ asked = Nothing
  BY DEF Init
<1>3. Sound(slots)
  BY <1>1, SoundImages DEF SoundImages
<1>4. SoundBy(slots)
  BY <1>3, SoundIs
<1>5. slots \in Seq(Dentry) /\ fixed \in BOOLEAN
  BY <1>1, <1>4, DentriesAssumption DEF SoundBy, DentriesAssumption
<1>6. ~fixed => Len(slots) % PerCluster = 0 /\ Parts <= MaxClusters
  <2>1. SUFFICES ASSUME ~fixed PROVE Len(slots) % PerCluster = 0 /\ Clusters(Len(slots)) <= MaxClusters
    BY DEF Parts
  <2>2. PICK l, c : l = Len(slots) /\ c = MaxClusters
    OBVIOUS
  <2>3. l \in Nat /\ l % PerCluster = 0 /\ l <= c * PerCluster /\ c \in Nat
    <3>1. ~m.fixed
      BY <1>1, <2>1
    <3>2. Len(m.slots) % PerCluster = 0 /\ Len(m.slots) <= MaxClusters * PerCluster
      BY <1>1, <3>1, SoundImages, Zenon DEF SoundImages
    <3>3. l \in Nat /\ c \in Nat
      BY <1>5, <2>2, DentriesAssumption DEF DentriesAssumption
    <3>4. QED  BY <1>1, <2>2, <3>2, <3>3
  <2>4. c * PerCluster \in Nat /\ Clusters(c * PerCluster) = c
    BY <2>3, ClustersExact
  <2>5. Clusters(l) <= c
    BY <2>3, <2>4, ClustersMonotone
  <2>6. QED  BY <2>2, <2>3, <2>5
<1>7. Listed(slots) = FileNames(slots) /\ Listed(slots) \in Seq(Name)
  BY <1>4, ListedIsFileNames, NamesRead
<1>8. TypeOK /\ Idle
  BY <1>2, <1>5, <1>6, <1>7, DentriesAssumption DEF TypeOK, Nothing, Idle, DentriesAssumption
<1>9. Resting
  BY <1>2, <1>4, <1>7 DEF Resting
<1>10. QED  BY <1>8, <1>9 DEF IInv

(* No careful step breaks the invariant.                                   *)
LEMMA NextKeeps ==
  ASSUME Zeroed, IInv, [CarefulNext]_vars
  PROVE  IInv'
<1>1. ASSUME NEW n \in Given, Create(n) PROVE IInv'
  BY <1>1, CreateKeeps
<1>2. ASSUME NEW n \in Name, CarefulRemove(n), RemoveName(n) PROVE IInv'
  BY <1>2, RemoveKeeps
<1>3. CASE Trim
  BY <1>3, TrimKeeps
<1>4. ASSUME NEW count \in Counts, Fill(count) PROVE IInv'
  BY <1>4, FillKeeps
<1>5. CASE Write
  BY <1>5, WriteKeeps
<1>6. CASE Return
  BY <1>6, ReturnKeeps
<1>7. CASE Whole /\ Kill
  BY <1>7, KillKeeps
<1>8. CASE UNCHANGED vars
  BY <1>8, StuttersKeep
<1>9. QED  BY <1>1, <1>2, <1>3, <1>4, <1>5, <1>6, <1>7, <1>8, Zenon DEF CarefulNext

(* Between commands the directory is in order and known; during one it is  *)
(* what it was in the parts not written yet, and what the command makes of *)
(* it in those that are.                                                   *)
THEOREM NamesInvariant == CarefulSpec => [](IInv /\ Zeroed)
<1>1. Zeroed /\ Init => IInv
  BY InitHolds
<1>2. Zeroed /\ IInv /\ [CarefulNext]_vars => IInv'
  BY NextKeeps
<1>3. SUFFICES ASSUME Zeroed PROVE CarefulSpec => [](IInv /\ Zeroed)
  BY DEF CarefulSpec
<1>4. QED  BY <1>1, <1>2, <1>3, PTL DEF CarefulSpec

(* The buffer and the directory on disk are dentries, in no more clusters  *)
(* than a directory has.                                                   *)
THEOREM TypesHold == CarefulSpec => []TypeOK
<1>1. IInv => TypeOK
  BY DEF IInv
<1>2. QED  BY <1>1, NamesInvariant, PTL

(* The children in memory are always the files on disk, by the names they  *)
(* have there and in their order.                                          *)
THEOREM KidsAreAlwaysFiles == CarefulSpec => []KidsAreFiles
<1>1. IInv => KidsAreFiles
  BY DEF IInv, Resting, KidsAreFiles
<1>2. QED  BY <1>1, NamesInvariant, PTL

LEMMA OrderIsSound ==
  ASSUME IInv
  PROVE  SetsAreWhole /\ UnusedIsLast
<1>1. CASE Idle
  <2>1. Sound(slots)
    BY <1>1, SoundIs DEF IInv, Resting
  <2>2. QED  BY <1>1, <2>1 DEF Sound, SetsAreWhole, UnusedIsLast
<1>2. QED  BY <1>1 DEF SetsAreWhole, UnusedIsLast

(* No command leaves a long name without its file or in part, and neither  *)
(* does a kill before or after its writes.                                 *)
THEOREM SetsAreAlwaysWhole == CarefulSpec => []SetsAreWhole
<1>1. IInv => SetsAreWhole
  BY OrderIsSound
<1>2. QED  BY <1>1, NamesInvariant, PTL

(* Nor is there ever a dentry behind the first unused one.                 *)
THEOREM UnusedIsAlwaysLast == CarefulSpec => []UnusedIsLast
<1>1. IInv => UnusedIsLast
  BY OrderIsSound
<1>2. QED  BY <1>1, NamesInvariant, PTL

-----------------------------------------------------------------------------
(* What is left by a trim.                                                 *)
Tight(t, b) ==
  /\ \A k \in 1..End(t) - 1 : t[k].type # "deleted"
  /\ InUse(t) = InUse(b)
  /\ fixed \/ Len(t) - Len(InUse(t)) < PerCluster

LEMMA PackedIsTight ==
  ASSUME NEW b \in Seq(Dentry), NEW L, Packed(b, L), NEW t \in Seq(Dentry), Packed(t, L),
         fixed \/ Len(t) = Clusters(L) * PerCluster, Extends(b, t)
  PROVE  Tight(t, b)
<1>1. PICK n, p : n = Len(t) /\ p = PerCluster
  OBVIOUS
<1>2. L \in Nat /\ n \in Nat /\ L <= n /\ DOMAIN t = 1..n /\ p \in Nat \ {0}
  BY <1>1, PerClusterIsPositive DEF Packed
<1>3. \A k \in 1..End(t) - 1 : t[k].type # "deleted"
  <2>1. End(t) = L + 1
    BY PackedEnd
  <2>2. End(t) - 1 = L
    BY <1>2, <2>1
  <2>3. QED  BY <2>2 DEF Packed
<1>4. InUse(t) = InUse(b)
  <2>1. InUse(t) \in Seq(Dentry) /\ Len(InUse(t)) = L /\ \A k \in 1..L : InUse(t)[k] = t[k]
    BY PackedInUse
  <2>2. InUse(b) \in Seq(Dentry) /\ Len(InUse(b)) = L /\ \A k \in 1..L : InUse(b)[k] = b[k]
    BY PackedInUse
  <2>3. \A k \in 1..L : t[k] = b[k]
    <3> TAKE k \in 1..L
    <3>1. k \in 1..Len(t)
      BY <1>1, <1>2
    <3>2. QED  BY <3>1 DEF Extends
  <2>4. QED  BY <2>1, <2>2, <2>3, SeqEqual
<1>5. Len(InUse(t)) = L
  BY PackedInUse
<1>6. fixed \/ n < L + p
  BY <1>1, <1>2, ClustersOf
<1>7. fixed \/ Len(t) - Len(InUse(t)) < PerCluster
  BY <1>1, <1>2, <1>5, <1>6
<1>8. QED  BY <1>3, <1>4, <1>7 DEF Tight

LEMMA TrimReturns ==
  ASSUME IInv, asked.op = "trim", Return
  PROVE  /\ \A k \in 1..End(slots') - 1 : slots'[k].type # "deleted"
         /\ InUse(slots') = InUse(buf)
         /\ fixed \/ Len(slots') - Len(InUse(slots')) < PerCluster
<1>1. TypeOK /\ ~Idle /\ at > Parts
  BY DEF IInv, Return
<1>2. PICK old : Working(old)
  BY <1>1 DEF IInv
<1>3. slots = buf
  BY <1>1, <1>2, AllWritten
<1>4. SoundBy(slots) /\ slots \in Seq(Dentry)
  BY <1>2, <1>3 DEF Working, SoundBy
<1>5. PICK L : Packed(slots, L)
  BY <1>2, <1>3 DEF Working, Change
<1>6. slots' = Cut(slots, fixed)
  BY DEF Return, Cut
<1>7. PICK t : t = slots'
  OBVIOUS
<1>8. Packed(t, L) /\ SoundBy(t) /\ Extends(slots, t) /\ (fixed \/ Len(t) = Clusters(L) * PerCluster)
  BY <1>1, <1>4, <1>5, <1>6, <1>7, TrimCuts
<1>9. Tight(t, slots)
  BY <1>4, <1>5, <1>8, PackedIsTight DEF SoundBy
<1>10. QED  BY <1>3, <1>7, <1>9 DEF Tight

(* When trim has returned the dentries in use come first, those of its     *)
(* buffer are all on disk, and no cluster is without one.                  *)
THEOREM TrimLeavesItTight == CarefulSpec => TrimIsTight
<1>1. IInv /\ [CarefulNext]_vars =>
        [asked.op = "trim" /\ Return =>
           /\ \A k \in 1..End(slots') - 1 : slots'[k].type # "deleted"
           /\ InUse(slots') = InUse(buf)
           /\ fixed \/ Len(slots') - Len(InUse(slots')) < PerCluster]_vars
  BY TrimReturns, Zenon
<1>2. SUFFICES ASSUME Zeroed PROVE CarefulSpec => TrimIsTight
  BY DEF CarefulSpec
<1>3. QED  BY <1>1, NamesInvariant, PTL DEF CarefulSpec, TrimIsTight

-----------------------------------------------------------------------------
(* What the abstract directory's variables are.                            *)
NamesNow == ToSet(Listed(IF at > 1 THEN buf ELSE slots))
AddsNow == IF asked.op \in {"create", "fill"} THEN asked.names ELSE {}
TakesNow == IF asked.op = "remove" THEN asked.names ELSE {}

PromiseStep == [Promise!Next]_(Promise!dirVars)

LEMMA AskIs ==
  ASSUME AddsNow = {}, TakesNow = {}, AddsNow' \in SUBSET (Name \ NamesNow), TakesNow' \in SUBSET Name,
         AddsNow' = {} \/ TakesNow' = {}, NamesNow' = NamesNow
  PROVE  PromiseStep
<1>1. Promise!Ask
  BY Zenon DEF Promise!Ask, NamesNow, AddsNow, TakesNow
<1>2. QED  BY <1>1, Zenon DEF PromiseStep, Promise!Next

LEMMA WorkIs ==
  ASSUME NamesNow' \ NamesNow \subseteq AddsNow, NamesNow \ NamesNow' \subseteq TakesNow,
         AddsNow' = AddsNow, TakesNow' = TakesNow
  PROVE  PromiseStep
<1>1. Promise!Work
  BY Zenon DEF Promise!Work, NamesNow, AddsNow, TakesNow
<1>2. QED  BY <1>1, Zenon DEF PromiseStep, Promise!Next

LEMMA AnswerIs ==
  ASSUME AddsNow \subseteq NamesNow, TakesNow \intersect NamesNow = {}, AddsNow' = {}, TakesNow' = {},
         NamesNow' = NamesNow
  PROVE  PromiseStep
<1>1. Promise!Answer
  BY Zenon DEF Promise!Answer, NamesNow, AddsNow, TakesNow
<1>2. QED  BY <1>1, Zenon DEF PromiseStep, Promise!Next

LEMMA KillIs ==
  ASSUME AddsNow' = {}, TakesNow' = {}, NamesNow' = NamesNow
  PROVE  PromiseStep
<1>1. Promise!Kill
  BY Zenon DEF Promise!Kill, NamesNow, AddsNow, TakesNow
<1>2. QED  BY <1>1, Zenon DEF PromiseStep, Promise!Next

(* Before the first write the names are those on disk.                     *)
LEMMA NamesBefore ==
  ASSUME SoundBy(slots), at \in {0, 1}
  PROVE  NamesNow = NamesOf(slots)
<1>1. ~(at > 1)
  OBVIOUS
<1>2. NamesNow = ToSet(Listed(slots))
  BY <1>1, Zenon DEF NamesNow
<1>3. QED  BY <1>2, NamesRead

LEMMA IdleIsNothing ==
  ASSUME IInv, Idle
  PROVE  AddsNow = {} /\ TakesNow = {} /\ NamesNow = NamesOf(slots)
<1>1. AddsNow = {} /\ TakesNow = {}
  BY DEF Idle, AddsNow, TakesNow
<1>2. SoundBy(slots) /\ at = 0
  BY DEF IInv, Resting, TypeOK, Idle
<1>3. QED  BY <1>1, <1>2, NamesBefore

LEMMA NextIsNothing ==
  ASSUME asked' = Nothing, at' = 0, SoundBy(slots')
  PROVE  AddsNow' = {} /\ TakesNow' = {} /\ NamesNow' = NamesOf(slots')
<1>1. AddsNow' = {} /\ TakesNow' = {}
  BY DEF Nothing, AddsNow, TakesNow
<1>2. NamesNow' = ToSet(Listed(slots'))
  <2>1. ~(at' > 1)
    OBVIOUS
  <2>2. QED  BY <2>1, Zenon DEF NamesNow
<1>3. PICK s : s = slots'
  OBVIOUS
<1>4. ToSet(Listed(s)) = NamesOf(s)
  BY <1>3, NamesRead
<1>5. QED  BY <1>1, <1>2, <1>3, <1>4

-----------------------------------------------------------------------------
LEMMA RefuseStutters ==
  ASSUME Refuse
  PROVE  PromiseStep
<1>1. slots' = slots /\ asked' = asked /\ at' = at /\ buf' = buf
  BY DEF Refuse
<1>2. AddsNow' = AddsNow /\ TakesNow' = TakesNow /\ NamesNow' = NamesNow
  BY <1>1, Zenon DEF AddsNow, TakesNow, NamesNow
<1>3. QED  BY <1>2, WorkIs

(* A command that begins changes no name on disk.                          *)
LEMMA BeginLeaves ==
  ASSUME IInv, Idle, IInv', NEW op \in Asked, NEW names, NEW b, Begin(op, names, b)
  PROVE  /\ AddsNow = {} /\ TakesNow = {} /\ NamesNow = NamesOf(slots) /\ NamesNow' = NamesNow
         /\ asked' = [op |-> op, names |-> names]
<1>1. kids = FileNames(slots) /\ SoundBy(slots)
  BY DEF IInv, Resting
<1>2. asked' = [op |-> op, names |-> names] /\ at' = 1 /\ kids' = kids
  BY DEF Begin
<1>3. asked'.op = op /\ ~Idle'
  BY <1>2 DEF Idle, Asked
<1>4. PICK old : Working(old)'
  BY <1>3 DEF IInv
<1>5. /\ SoundBy(old) /\ SoundBy(buf') /\ Len(old) = Len(buf') /\ kids' = FileNames(old)
      /\ slots' = Mix(fixed', old, buf', at')
  BY <1>4 DEF Working
<1>6. slots' = old
  BY <1>2, <1>5, MixBegins
<1>7. NamesNow' = ToSet(Listed(old))
  <2>1. ~(at' > 1)
    BY <1>2
  <2>2. QED  BY <1>6, <2>1, Zenon DEF NamesNow
<1>8. ToSet(Listed(old)) = ToSet(FileNames(old))
  BY <1>5, ListedIsFileNames
<1>9. ToSet(FileNames(slots)) = NamesOf(slots)
  BY <1>1, NamesRead
<1>10. AddsNow = {} /\ TakesNow = {} /\ NamesNow = NamesOf(slots)
  BY IdleIsNothing
<1>11. NamesNow' = NamesNow
  BY <1>1, <1>2, <1>5, <1>7, <1>8, <1>9, <1>10
<1>12. QED  BY <1>2, <1>10, <1>11

-----------------------------------------------------------------------------
LEMMA AddingAsks ==
  ASSUME IInv, Idle, IInv', NEW op \in {"create", "fill"}, NEW names, names \subseteq Name,
         names \intersect NamesOf(slots) = {}, NEW b, Begin(op, names, b)
  PROVE  PromiseStep
<1>1. op \in Asked
  BY DEF Asked
<1>2. /\ AddsNow = {} /\ TakesNow = {} /\ NamesNow = NamesOf(slots) /\ NamesNow' = NamesNow
      /\ asked' = [op |-> op, names |-> names]
  BY <1>1, BeginLeaves
<1>3. AddsNow' = names /\ TakesNow' = {}
  BY <1>2 DEF AddsNow, TakesNow
<1>4. names \in SUBSET (Name \ NamesNow)
  BY <1>2
<1>5. QED  BY <1>2, <1>3, <1>4, AskIs

LEMMA CreateAsks ==
  ASSUME IInv, IInv', NEW n \in Given, CarefulCreate(n), Create(n)
  PROVE  PromiseStep
<1>1. Idle
  BY DEF Create
<1>2. Refuse \/ \E b : Begin("create", {Shown[n]}, b)
  BY Zenon DEF Create
<1>3. CASE Refuse
  BY <1>3, RefuseStutters
<1>4. ASSUME NEW b, Begin("create", {Shown[n]}, b) PROVE PromiseStep
  <2>1. SoundBy(slots)
    BY <1>1 DEF IInv, Resting
  <2>2. n \in Name
    BY DentriesAssumption DEF DentriesAssumption
  <2>3. {Shown[n]} \subseteq Name
    BY <2>2, NamesHave DEF NameFacts
  <2>4. \A k \in Shorts(slots) : NameAt(slots, k) # Shown[n]
    <3>1. Shorts(slots) = FilesOn(slots)
      BY <2>1, FilesAre
    <3>2. QED  BY <3>1 DEF CarefulCreate
  <2>5. {Shown[n]} \intersect NamesOf(slots) = {}
    BY <2>4 DEF NamesOf
  <2>6. "create" \in {"create", "fill"}
    OBVIOUS
  <2>7. QED  BY <1>1, <1>4, <2>3, <2>5, <2>6, AddingAsks
<1>5. QED  BY <1>2, <1>3, <1>4

LEMMA FillAsks ==
  ASSUME IInv, IInv', NEW count \in Counts, Fill(count)
  PROVE  PromiseStep
<1>1. Idle
  BY DEF Fill
<1>2. Refuse \/ \E m : \E new \in [1..m -> Random] :
                  ToSet(new) \intersect ToSet(kids) = {} /\ \E b : Begin("fill", ToSet(new), b)
  BY Zenon DEF Fill
<1>3. CASE Refuse
  BY <1>3, RefuseStutters
<1>4. ASSUME NEW m, NEW new \in [1..m -> Random], ToSet(new) \intersect ToSet(kids) = {},
             NEW b, Begin("fill", ToSet(new), b)
      PROVE  PromiseStep
  <2>1. SoundBy(slots) /\ kids = FileNames(slots)
    BY <1>1 DEF IInv, Resting
  <2>2. ToSet(kids) = NamesOf(slots)
    BY <2>1, NamesRead
  <2>3. \A k \in 1..m : new[k] \in Name
    BY DentriesAssumption DEF DentriesAssumption
  <2>4. ToSet(new) \subseteq Name
    BY <2>3 DEF ToSet
  <2>5. "fill" \in {"create", "fill"} /\ ToSet(new) \intersect NamesOf(slots) = {}
    BY <1>4, <2>2
  <2>6. QED  BY <1>1, <1>4, <2>4, <2>5, AddingAsks
<1>5. QED  BY <1>2, <1>3, <1>4

LEMMA RemoveAsks ==
  ASSUME IInv, IInv', NEW n \in Name, RemoveName(n)
  PROVE  PromiseStep
<1>1. Idle
  BY DEF RemoveName
<1>2. Refuse \/ \E b : Begin("remove", {n}, b)
  BY Zenon DEF RemoveName
<1>3. CASE Refuse
  BY <1>3, RefuseStutters
<1>4. ASSUME NEW b, Begin("remove", {n}, b) PROVE PromiseStep
  <2>1. "remove" \in Asked
    BY DEF Asked
  <2>2. /\ AddsNow = {} /\ TakesNow = {} /\ NamesNow' = NamesNow
        /\ asked' = [op |-> "remove", names |-> {n}]
    BY <1>1, <1>4, <2>1, BeginLeaves
  <2>3. AddsNow' = {} /\ TakesNow' = {n}
    BY <2>2 DEF AddsNow, TakesNow
  <2>4. AddsNow' \in SUBSET (Name \ NamesNow) /\ TakesNow' \in SUBSET Name
    BY <2>3
  <2>5. QED  BY <2>2, <2>3, <2>4, AskIs
<1>5. QED  BY <1>2, <1>3, <1>4

LEMMA TrimAsks ==
  ASSUME IInv, IInv', Trim
  PROVE  PromiseStep
<1>1. Idle /\ \E b : Begin("trim", {}, b)
  BY Zenon DEF Trim
<1>2. PICK b : Begin("trim", {}, b)
  BY <1>1
<1>3. "trim" \in Asked
  BY DEF Asked
<1>4. /\ AddsNow = {} /\ TakesNow = {} /\ NamesNow' = NamesNow
      /\ asked' = [op |-> "trim", names |-> {}]
  BY <1>1, <1>2, <1>3, BeginLeaves
<1>5. AddsNow' = {} /\ TakesNow' = {}
  BY <1>4 DEF AddsNow, TakesNow
<1>6. QED  BY <1>4, <1>5, WorkIs

-----------------------------------------------------------------------------
(* With the first part that is written all is done that was asked: of the  *)
(* names that the whole buffer has, nothing is lost by the others.         *)
LEMMA WriteWorks ==
  ASSUME IInv, Write
  PROVE  PromiseStep
<1>1. TypeOK /\ ~Idle
  BY DEF IInv, Write
<1>2. PICK old : Working(old)
  BY <1>1 DEF IInv
<1>3. at' = at + 1 /\ buf' = buf /\ asked' = asked
  BY DEF Write
<1>4. /\ SoundBy(old) /\ SoundBy(buf) /\ Len(old) = Len(buf) /\ slots = Mix(fixed, old, buf, at)
      /\ Change(old, buf, asked)
  BY <1>2 DEF Working
<1>5. AddsNow' = AddsNow /\ TakesNow' = TakesNow
  BY <1>3 DEF AddsNow, TakesNow
<1>6. asked.op \in Asked
  BY <1>1 DEF TypeOK, Idle, Asked
<1>7. at \in Nat \ {0}
  BY <1>1 DEF TypeOK, Idle
<1>8. NamesNow' = NamesOf(buf)
  <2>1. at' > 1
    BY <1>3, <1>7
  <2>2. NamesNow' = ToSet(Listed(buf))
    BY <1>3, <2>1, Zenon DEF NamesNow
  <2>3. QED  BY <1>4, <2>2, NamesRead
<1>9. CASE at = 1
  <2>1. slots = old
    BY <1>4, <1>9, MixBegins
  <2>2. NamesNow = NamesOf(old)
    BY <1>4, <1>9, <2>1, NamesBefore
  <2>3. CASE asked.op \in {"create", "fill"}
    <3>1. NamesOf(buf) = NamesOf(old) \union asked.names /\ AddsNow = asked.names
      BY <1>4, <2>3 DEF Change, AddsNow
    <3>2. QED  BY <1>5, <1>8, <2>2, <3>1, WorkIs
  <2>4. CASE asked.op = "remove"
    <3>1. NamesOf(buf) = NamesOf(old) \ asked.names /\ TakesNow = asked.names
      BY <1>4, <2>4 DEF Change, TakesNow
    <3>2. QED  BY <1>5, <1>8, <2>2, <3>1, WorkIs
  <2>5. CASE asked.op = "trim"
    <3>1. NamesOf(buf) = NamesOf(old)
      BY <1>4, <2>5 DEF Change
    <3>2. QED  BY <1>5, <1>8, <2>2, <3>1, WorkIs
  <2>6. QED  BY <1>6, <2>3, <2>4, <2>5 DEF Asked
<1>10. CASE at # 1
  <2>1. at > 1
    BY <1>7, <1>10
  <2>2. NamesNow = ToSet(Listed(buf))
    BY <2>1, Zenon DEF NamesNow
  <2>3. NamesNow = NamesOf(buf)
    BY <1>4, <2>2, NamesRead
  <2>4. QED  BY <1>5, <1>8, <2>3, WorkIs
<1>11. QED  BY <1>9, <1>10

LEMMA ReturnAnswers ==
  ASSUME IInv, IInv', Return
  PROVE  PromiseStep
<1>1. TypeOK /\ ~Idle /\ at > Parts /\ asked' = Nothing /\ at' = 0
  BY DEF IInv, Return
<1>2. PICK old : Working(old)
  BY <1>1 DEF IInv
<1>3. slots = buf
  BY <1>1, <1>2, AllWritten
<1>4. SoundBy(old) /\ SoundBy(buf) /\ Change(old, buf, asked)
  BY <1>2 DEF Working
<1>5. Idle' /\ SoundBy(slots')
  BY <1>1 DEF IInv, Resting, Idle, Nothing
<1>6. AddsNow' = {} /\ TakesNow' = {} /\ NamesNow' = NamesOf(slots')
  BY <1>1, <1>5, NextIsNothing
<1>7. NamesNow = NamesOf(buf)
  <2>1. NamesNow = ToSet(Listed(buf))
    BY <1>3, Zenon DEF NamesNow
  <2>2. QED  BY <1>4, <2>1, NamesRead
<1>8. asked.op \in Asked
  BY <1>1 DEF TypeOK, Idle, Asked
<1>9. CASE asked.op \in {"create", "fill"}
  <2>1. slots' = slots
    BY <1>9 DEF Return
  <2>2. NamesOf(buf) = NamesOf(old) \union asked.names
    BY <1>4, <1>9 DEF Change
  <2>3. AddsNow = asked.names /\ TakesNow = {}
    BY <1>9 DEF AddsNow, TakesNow
  <2>4. QED  BY <1>3, <1>6, <1>7, <2>1, <2>2, <2>3, AnswerIs
<1>10. CASE asked.op = "remove"
  <2>1. slots' = slots
    BY <1>10 DEF Return
  <2>2. NamesOf(buf) = NamesOf(old) \ asked.names
    BY <1>4, <1>10 DEF Change
  <2>3. AddsNow = {} /\ TakesNow = asked.names
    BY <1>10 DEF AddsNow, TakesNow
  <2>4. QED  BY <1>3, <1>6, <1>7, <2>1, <2>2, <2>3, AnswerIs
<1>11. CASE asked.op = "trim"
  <2>1. slots' = Cut(slots, fixed)
    BY <1>11 DEF Return, Cut
  <2>2. PICK L : Packed(slots, L)
    BY <1>3, <1>4, <1>11 DEF Change
  <2>3. PICK t : t = slots'
    OBVIOUS
  <2>4. Extends(slots, t) /\ SoundBy(t) /\ SoundBy(slots)
    BY <1>1, <1>3, <1>4, <2>1, <2>2, <2>3, TrimCuts
  <2>5. NamesOf(slots) = NamesOf(t)
    BY <2>4, ExtendedSame
  <2>6. AddsNow = {} /\ TakesNow = {}
    BY <1>11 DEF AddsNow, TakesNow
  <2>7. QED  BY <1>3, <1>6, <1>7, <2>3, <2>5, <2>6, AnswerIs
<1>12. QED  BY <1>8, <1>9, <1>10, <1>11 DEF Asked

(* A kill ends the command, and what was done of it stays.                 *)
LEMMA KillStops ==
  ASSUME IInv, Whole, Kill
  PROVE  PromiseStep
<1>1. asked' = Nothing /\ slots' = slots /\ at' = 0
  BY DEF Kill
<1>2. SoundBy(slots)
  BY WholeIsSound
<1>3. AddsNow' = {} /\ TakesNow' = {} /\ NamesNow' = NamesOf(slots')
  BY <1>1, <1>2, NextIsNothing
<1>4. NamesNow = ToSet(Listed(slots))
  <2>1. CASE at > 1
    <3>1. ~Idle
      BY <2>1 DEF IInv, TypeOK, Idle
    <3>2. slots = buf
      BY <2>1, <3>1, WholeIsOne
    <3>3. QED  BY <3>2, Zenon DEF NamesNow
  <2>2. CASE ~(at > 1)
    BY <2>2, Zenon DEF NamesNow
  <2>3. QED  BY <2>1, <2>2
<1>5. NamesNow = NamesOf(slots)
  BY <1>2, <1>4, NamesRead
<1>6. QED  BY <1>1, <1>3, <1>5, KillIs

LEMMA NothingDone ==
  ASSUME UNCHANGED vars
  PROVE  PromiseStep
<1>1. slots' = slots /\ buf' = buf /\ asked' = asked /\ at' = at
  BY DEF vars
<1>2. AddsNow' = AddsNow /\ TakesNow' = TakesNow /\ NamesNow' = NamesNow
  BY <1>1, Zenon DEF AddsNow, TakesNow, NamesNow
<1>3. QED  BY <1>2, WorkIs

LEMMA BeginsAsPromised ==
  ASSUME Init
  PROVE  Promise!Init
<1>1. IInv /\ Idle
  BY InitHolds DEF Init, Idle, Nothing
<1>2. AddsNow = {} /\ TakesNow = {} /\ NamesNow = NamesOf(slots)
  BY <1>1, IdleIsNothing
<1>3. NamesNow \subseteq Name
  BY <1>1, <1>2, NamesRead DEF IInv, Resting
<1>4. QED  BY <1>2, <1>3, Zenon DEF Promise!Init, Promise!TypeOK, AddsNow, TakesNow, NamesNow

(* Each careful step is one of the abstract directory, or changes no name. *)
LEMMA StepsAsPromised ==
  ASSUME Zeroed, IInv, [CarefulNext]_vars
  PROVE  PromiseStep
<1>1. IInv'
  BY NextKeeps
<1>2. ASSUME NEW n \in Given, CarefulCreate(n), Create(n) PROVE PromiseStep
  BY <1>1, <1>2, CreateAsks
<1>3. ASSUME NEW n \in Name, RemoveName(n) PROVE PromiseStep
  BY <1>1, <1>3, RemoveAsks
<1>4. CASE Trim
  BY <1>1, <1>4, TrimAsks
<1>5. ASSUME NEW count \in Counts, Fill(count) PROVE PromiseStep
  BY <1>1, <1>5, FillAsks
<1>6. CASE Write
  BY <1>6, WriteWorks
<1>7. CASE Return
  BY <1>1, <1>7, ReturnAnswers
<1>8. CASE Whole /\ Kill
  BY <1>8, KillStops
<1>9. CASE UNCHANGED vars
  BY <1>9, NothingDone
<1>10. QED
  BY <1>2, <1>3, <1>4, <1>5, <1>6, <1>7, <1>8, <1>9, Zenon DEF CarefulNext

(* The commands do to the names what they promise, and no more; a kill     *)
(* leaves what was done.                                                   *)
THEOREM DirectoryImplemented == CarefulSpec => ImplementsDirectory
<1>1. Init => Promise!Init
  BY BeginsAsPromised
<1>2. Zeroed /\ IInv /\ [CarefulNext]_vars => [Promise!Next]_(Promise!dirVars)
  BY StepsAsPromised DEF PromiseStep
<1>3. SUFFICES ASSUME Zeroed PROVE CarefulSpec => Promise!Spec
  BY DEF CarefulSpec, ImplementsDirectory
<1>4. QED  BY <1>1, <1>2, <1>3, NamesInvariant, PTL DEF CarefulSpec, Promise!Spec

===============================================================================
