------------------------ MODULE ClusterOwnershipProofs -----------------------
(***************************************************************************)
(* What the steps of ClusterOwnership amount to: as long as lists change   *)
(* only as it says, no cluster is ever held twice.                         *)
(***************************************************************************)
EXTENDS ClusterOwnership, TLAPS

\* What a list holds once another has been put at its end: its own, at its places, then the other's.
LEMMA Appended ==
  ASSUME NEW S, NEW s \in Seq(S), NEW t \in Seq(S)
  PROVE  /\ s \o t \in Seq(S)
         /\ Len(s) \in Nat /\ Len(t) \in Nat /\ Len(s \o t) = Len(s) + Len(t)
         /\ \A k \in 1..Len(s) : (s \o t)[k] = s[k]
         /\ \A k \in 1..Len(t) : (s \o t)[Len(s) + k] = t[k]
OBVIOUS

\* What is left of a list that lost its tail.
LEMMA Shortened ==
  ASSUME NEW S, NEW s \in Seq(S), NEW n \in 0..Len(s)
  PROVE  /\ SubSeq(s, 1, n) \in Seq(S)
         /\ Len(SubSeq(s, 1, n)) = n
         /\ \A k \in 1..n : SubSeq(s, 1, n)[k] = s[k]
OBVIOUS

\* Two tables without repetition and with no value in common make one without repetition.
Joined(m, n, s, t, u) ==
  /\ \A k \in 1..m : u[k] = s[k]
  /\ \A k \in 1..n : u[m + k] = t[k]
  /\ \A j, k \in 1..m : s[j] = s[k] => j = k
  /\ \A j, k \in 1..n : t[j] = t[k] => j = k
  /\ \A j \in 1..m, k \in 1..n : s[j] # t[k]

LEMMA DistinctJoined ==
  ASSUME NEW m \in Nat, NEW n \in Nat, NEW s, NEW t, NEW u, Joined(m, n, s, t, u)
  PROVE  \A j, k \in 1..(m + n) : u[j] = u[k] => j = k
<1> SUFFICES ASSUME NEW j \in 1..(m + n), NEW k \in 1..(m + n), u[j] = u[k]
             PROVE  j = k
  OBVIOUS
<1> USE DEF Joined
<1>1. \A i \in 1..(m + n) : i \in 1..m \/ (i - m \in 1..n /\ m + (i - m) = i)
  OBVIOUS
<1>2. CASE j \in 1..m /\ k \in 1..m
  BY <1>2, Zenon
<1>3. CASE j \notin 1..m /\ k \notin 1..m
  <2>1. j - m \in 1..n /\ m + (j - m) = j /\ k - m \in 1..n /\ m + (k - m) = k
    BY <1>1, <1>3, Zenon
  <2>2. t[j - m] = t[k - m]
    BY <2>1, Zenon
  <2>3. j - m = k - m
    BY <2>1, <2>2, Zenon
  <2>4. QED  BY <2>3
<1>4. CASE j \in 1..m /\ k \notin 1..m
  <2>1. k - m \in 1..n /\ m + (k - m) = k
    BY <1>1, <1>4, Zenon
  <2>2. u[j] = s[j] /\ u[k] = t[k - m]
    BY <1>4, <2>1
  <2>3. QED  BY <1>4, <2>1, <2>2, Zenon
<1>5. CASE j \notin 1..m /\ k \in 1..m
  <2>1. j - m \in 1..n /\ m + (j - m) = j
    BY <1>1, <1>5, Zenon
  <2>2. u[k] = s[k] /\ u[j] = t[j - m]
    BY <1>5, <2>1
  <2>3. QED  BY <1>5, <2>1, <2>2, Zenon
<1>6. QED  BY ONLY <1>2, <1>3, <1>4, <1>5

\* So it is with lists, put one after the other.
LEMMA DistinctAppended ==
  ASSUME NEW S, NEW s \in Seq(S), NEW t \in Seq(S), Distinct(s), Distinct(t),
         \A j \in 1..Len(s), k \in 1..Len(t) : s[j] # t[k]
  PROVE  Distinct(s \o t)
<1> DEFINE m == Len(s)
           n == Len(t)
           u == s \o t
<1>1. /\ m \in Nat /\ n \in Nat /\ Len(u) = m + n
      /\ \A k \in 1..m : u[k] = s[k]
      /\ \A k \in 1..n : u[m + k] = t[k]
  BY Appended
<1>2. (\A j, k \in 1..m : s[j] = s[k] => j = k) /\ (\A j, k \in 1..n : t[j] = t[k] => j = k)
  BY Zenon DEF Distinct
<1>3. \A j \in 1..m, k \in 1..n : s[j] # t[k]
  BY Zenon
<1> HIDE DEF m, n, u
<1>4. \A j, k \in 1..(m + n) : u[j] = u[k] => j = k
  <2>1. Joined(m, n, s, t, u)
    BY <1>1, <1>2, <1>3, Zenon DEF Joined
  <2>2. m \in Nat /\ n \in Nat
    BY <1>1
  <2>3. QED  BY ONLY <2>1, <2>2, DistinctJoined
<1>5. Distinct(u)
  BY ONLY <1>1, <1>4, Zenon DEF Distinct
<1>6. QED  BY <1>5 DEF u

-----------------------------------------------------------------------------
IInv == TypeOK /\ Exclusive

LEMMA ExtendInv ==
  ASSUME IInv, NEW o \in Owner, Extend(o)
  PROVE  IInv'
<1> DEFINE a == Added(o)
<1>1. /\ owned \in [Owner -> Seq(Heap)] /\ owned' = [owned EXCEPT ![o] = owned[o] \o a]
      /\ a \in Seq(Heap \ Taken) /\ a \in Seq(Heap) /\ Distinct(a)
  BY DEF IInv, TypeOK, Extend
<1> HIDE DEF a
<1>2. \A k \in 1..Len(a) : a[k] \notin System /\ \A p \in Owner : a[k] \notin Holds(p)
  BY <1>1 DEF Taken
<1>3. TypeOK'
  BY <1>1, Appended DEF TypeOK
<1>4. Distinct(owned'[o])
  <2>1. \A j \in 1..Len(owned[o]), k \in 1..Len(a) : owned[o][j] # a[k]
    BY <1>2 DEF Holds
  <2>2. Distinct(owned[o])
    BY DEF IInv, Exclusive
  <2>3. Distinct(owned[o] \o a)
    BY <1>1, <2>1, <2>2, DistinctAppended
  <2>4. QED  BY <1>1, <2>3
<1>5. Holds(o)' = Holds(o) \union {a[k] : k \in 1..Len(a)}
  <2>1. owned'[o] = owned[o] \o a /\ owned[o] \in Seq(Heap)
    BY <1>1
  <2> DEFINE m == Len(owned[o])
             n == Len(a)
  <2>2. /\ m \in Nat /\ n \in Nat /\ Len(owned'[o]) = m + n
        /\ \A k \in 1..m : owned'[o][k] = owned[o][k]
        /\ \A k \in 1..n : owned'[o][m + k] = a[k]
    BY <1>1, <2>1, Appended
  <2> HIDE DEF m, n
  <2>3. \A k \in 1..(m + n) : k \in 1..m \/ (k - m \in 1..n /\ m + (k - m) = k)
    BY <2>2
  <2>4. (\A k \in 1..m : k \in 1..(m + n)) /\ (\A k \in 1..n : m + k \in 1..(m + n))
    BY <2>2
  <2>5. {owned'[o][k] : k \in 1..(m + n)} = {owned[o][k] : k \in 1..m} \union {a[k] : k \in 1..n}
    <3>1. ASSUME NEW k \in 1..(m + n)
          PROVE  owned'[o][k] \in {owned[o][i] : i \in 1..m} \union {a[i] : i \in 1..n}
      <4>1. CASE k \in 1..m
        BY <2>2, <4>1, Zenon
      <4>2. CASE k - m \in 1..n /\ m + (k - m) = k
        <5>1. owned'[o][k] = a[k - m]
          BY <2>2, <4>2
        <5>2. QED  BY <4>2, <5>1, Zenon
      <4>3. QED  BY <2>3, <4>1, <4>2, Zenon
    <3>2. ASSUME NEW k \in 1..m PROVE owned[o][k] \in {owned'[o][i] : i \in 1..(m + n)}
      BY <2>2, <2>4, Zenon
    <3>3. ASSUME NEW k \in 1..n PROVE a[k] \in {owned'[o][i] : i \in 1..(m + n)}
      BY <2>2, <2>4, Zenon
    <3>4. QED  BY ONLY <3>1, <3>2, <3>3, Zenon
  <2>6. QED  BY <2>2, <2>5, Zenon DEF Holds, m, n
<1>6. ASSUME NEW p \in Owner, p # o PROVE owned'[p] = owned[p] /\ Holds(p)' = Holds(p)
  BY <1>1, <1>6 DEF Holds
<1>7. Exclusive'
  BY <1>2, <1>4, <1>5, <1>6 DEF Exclusive, IInv
<1>8. QED  BY <1>3, <1>7 DEF IInv

LEMMA TruncateInv ==
  ASSUME IInv, NEW o \in Owner, Truncate(o)
  PROVE  IInv'
<1>1. owned \in [Owner -> Seq(Heap)]
  BY DEF IInv, TypeOK
<1>2. PICK n \in 0..(Len(owned[o]) - 1) : owned' = [owned EXCEPT ![o] = SubSeq(owned[o], 1, n)]
  BY DEF Truncate
<1>3. /\ owned'[o] \in Seq(Heap) /\ Len(owned'[o]) = n /\ n <= Len(owned[o])
      /\ \A k \in 1..n : owned'[o][k] = owned[o][k]
  <2>1. n \in 0..Len(owned[o]) /\ owned'[o] = SubSeq(owned[o], 1, n)
    BY <1>1, <1>2
  <2>2. QED  BY <1>1, <2>1, Shortened
<1>4. TypeOK'
  BY <1>1, <1>2, <1>3 DEF TypeOK
<1>5. Holds(o)' \subseteq Holds(o)
  BY <1>1, <1>3 DEF Holds
<1>6. Distinct(owned'[o])
  BY <1>1, <1>3 DEF IInv, Exclusive, Distinct
<1>7. ASSUME NEW p \in Owner, p # o PROVE owned'[p] = owned[p] /\ Holds(p)' = Holds(p)
  BY <1>1, <1>2, <1>7 DEF Holds
<1>8. Exclusive'
  BY <1>5, <1>6, <1>7 DEF Exclusive, IInv
<1>9. QED  BY <1>4, <1>8 DEF IInv

(* Whatever lists the volume starts with, as long as none shares a cluster *)
(* with another one, steps that extend a list by clusters nobody has, or   *)
(* drop its tail, keep it so, and away from the volume's own tables: what  *)
(* a directory gets from the allocator is its alone.                       *)
THEOREM ExclusiveAlways == Spec => []Exclusive
<1>1. Init => IInv
  BY DEF Init, IInv
<1>2. IInv /\ [Next]_owned => IInv'
  <2> SUFFICES ASSUME IInv, [Next]_owned PROVE IInv'
    OBVIOUS
  <2>1. CASE Next
    BY <2>1, ExtendInv, TruncateInv DEF Next
  <2>2. CASE UNCHANGED owned
    <3>1. \A o \in Owner : Holds(o)' = Holds(o) /\ owned'[o] = owned[o]
      BY <2>2 DEF Holds
    <3>2. QED  BY <2>2, <3>1, Zenon DEF IInv, TypeOK, Exclusive
  <2>3. QED  BY <2>1, <2>2
<1>3. IInv => Exclusive
  BY DEF IInv
<1>4. QED  BY <1>1, <1>2, <1>3, PTL DEF Spec

=============================================================================
