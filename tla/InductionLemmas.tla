--------------------------- MODULE InductionLemmas ---------------------------
(***************************************************************************)
(* Induction over the naturals, stated about sets of numbers instead of    *)
(* predicates, and what it gives: repeated application of a function, the  *)
(* way the models define what is linked from a cluster, is well defined;   *)
(* and what is picked out of a table by a function that goes through it    *)
(* from its end, the way they read a directory.                            *)
(***************************************************************************)
EXTENDS Integers, Sequences, FiniteSets, FiniteSetTheorems, SequenceTheorems, WellFoundedInduction, TLAPS

(* A set of naturals that is not empty has a least element.  (Of the       *)
(* intervals that end in it, one is inside all others.)                    *)
LEMMA LeastExists ==
  ASSUME NEW S, S \subseteq Nat, S # {}
  PROVE  \E x \in S : \A y \in S : x <= y
<1> DEFINE T == {0..x : x \in S}
           R == StrictSubsetOrdering(Nat)
<1>1. T \subseteq FiniteSubsetsOf(Nat)
  <2>1. ASSUME NEW x \in S PROVE 0..x \in FiniteSubsetsOf(Nat)
    BY FS_Interval DEF FiniteSubsetsOf
  <2>2. QED  BY <2>1
<1>2. \E X \in T : \A Y \in T : <<Y, X>> \notin R
  <2>1. IsWellFoundedOn(R, FiniteSubsetsOf(Nat))
    BY FS_StrictSubsetOrderingWellFounded
  <2>2. T # {}
    OBVIOUS
  <2> HIDE DEF T, R
  <2>3. QED  BY <1>1, <2>1, <2>2, WFMin, Zenon
<1>3. PICK x \in S : \A y \in S : <<0..y, 0..x>> \notin R
  BY <1>2
<1>4. ASSUME NEW y \in S PROVE x <= y
  <2>1. SUFFICES ASSUME y < x PROVE FALSE
    OBVIOUS
  <2>2. 0..y \subseteq 0..x /\ x \in 0..x /\ x \notin 0..y
    BY <2>1
  <2>3. <<0..y, 0..x>> \in R
    BY <2>2 DEF StrictSubsetOrdering
  <2>4. QED  BY <2>3, <1>3
<1>5. QED  BY <1>4

(* A set that has 0, and with a number also the next, has all numbers:     *)
(* else the least it lacks would follow one it has.                        *)
LEMMA Induction ==
  ASSUME NEW T, 0 \in T, \A n \in Nat : n \in T => n + 1 \in T
  PROVE  Nat \subseteq T
<1> SUFFICES ASSUME Nat \ T # {} PROVE FALSE
  OBVIOUS
<1>1. PICK x \in Nat \ T : \A y \in Nat \ T : x <= y
  BY LeastExists
<1>2. x - 1 \in Nat /\ x - 1 \in T /\ (x - 1) + 1 = x
  BY <1>1
<1>3. QED  BY <1>1, <1>2

(* Induction up to a bound.                                                *)
LEMMA InductionUpTo ==
  ASSUME NEW N \in Nat, NEW T, 0 \in T, \A n \in 0..(N - 1) : n \in T => n + 1 \in T
  PROVE  0..N \subseteq T
<1> DEFINE U == {n \in Nat : n <= N => n \in T}
<1>1. 0 \in U /\ \A n \in Nat : n \in U => n + 1 \in U
  OBVIOUS
<1> HIDE DEF U
<1>2. Nat \subseteq U
  BY ONLY <1>1, Induction
<1>3. QED  BY <1>2 DEF U

-----------------------------------------------------------------------------
(* What comes of applying f again and again to a, up to n times.           *)
Iterates(h, f, a, n) ==
  h = [k \in 0..n |-> IF k = 0 THEN a ELSE f[h[k - 1]]]

LEMMA IteratesExist ==
  ASSUME NEW S, NEW f \in [S -> S], NEW a \in S, NEW N \in Nat
  PROVE  \E h \in [0..N -> S] : Iterates(h, f, a, N)
<1> DEFINE T == {n \in Nat : \E h \in [0..n -> S] : Iterates(h, f, a, n)}
<1>1. 0 \in T
  <2> DEFINE h == [k \in 0..0 |-> a]
  <2>1. h \in [0..0 -> S] /\ Iterates(h, f, a, 0)
    BY DEF Iterates
  <2>2. QED  BY <2>1
<1>2. ASSUME NEW n \in Nat, n \in T PROVE n + 1 \in T
  <2>1. PICK h \in [0..n -> S] : Iterates(h, f, a, n)
    BY <1>2
  <2> DEFINE g == [k \in 0..(n + 1) |-> IF k <= n THEN h[k] ELSE f[h[n]]]
  <2>2. g \in [0..(n + 1) -> S]
    OBVIOUS
  <2>3. ASSUME NEW k \in 0..(n + 1) PROVE g[k] = IF k = 0 THEN a ELSE f[g[k - 1]]
    <3>1. CASE k = 0
      BY <2>1, <3>1 DEF Iterates
    <3>2. CASE k \in 1..n
      <4>1. k - 1 \in 0..n /\ k \in 0..n /\ k # 0
        BY <3>2
      <4>2. h[k] = f[h[k - 1]]
        BY <2>1, <4>1 DEF Iterates
      <4>3. QED  BY <3>2, <4>1, <4>2
    <3>3. CASE k = n + 1
      BY <3>3
    <3>4. QED  BY <3>1, <3>2, <3>3
  <2>4. Iterates(g, f, a, n + 1)
    BY <2>3 DEF Iterates
  <2>5. QED  BY <2>2, <2>4
<1> HIDE DEF T
<1>3. N \in T
  BY ONLY <1>1, <1>2, Induction, N \in Nat
<1>4. QED  BY <1>3 DEF T

-----------------------------------------------------------------------------
(* Induction down from the end of an interval.                             *)
LEMMA InductionDown ==
  ASSUME NEW N \in Nat, NEW T, N + 1 \in T, \A i \in 1..N : i + 1 \in T => i \in T
  PROVE  1..(N + 1) \subseteq T
<1> DEFINE U == {n \in 0..N : N + 1 - n \in T}
<1>1. 0 \in U
  OBVIOUS
<1>2. ASSUME NEW n \in 0..(N - 1), n \in U PROVE n + 1 \in U
  <2>1. N - n \in 1..N /\ (N - n) + 1 = N + 1 - n /\ N + 1 - (n + 1) = N - n
    OBVIOUS
  <2>2. N - n \in T
    BY <1>2, <2>1
  <2>3. QED  BY <2>1, <2>2
<1> HIDE DEF U
<1>3. 0..N \subseteq U
  BY ONLY <1>1, <1>2, InductionUpTo, N \in Nat
<1> USE DEF U
<1>4. ASSUME NEW i \in 1..(N + 1) PROVE i \in T
  <2>1. N + 1 - i \in 0..N /\ N + 1 - (N + 1 - i) = i
    OBVIOUS
  <2>2. N + 1 - i \in U
    BY <1>3, <2>1
  <2>3. N + 1 - (N + 1 - i) \in T
    BY <2>2
  <2>4. QED  BY <2>1, <2>3
<1>5. QED  BY <1>4

(* A list with one more in front.                                          *)
IsPrefixed(x, t, u, V) ==
  /\ u \in Seq(V) /\ Len(u) = Len(t) + 1 /\ u[1] = x
  /\ \A m \in 1..Len(t) : u[m + 1] = t[m]
LEMMA Prefixed ==
  ASSUME NEW V, NEW x \in V, NEW t \in Seq(V)
  PROVE  IsPrefixed(x, t, <<x>> \o t, V)
<1>1. PICK h : h = <<x>>
  OBVIOUS
<1>2. h \in Seq(V) /\ Len(h) = 1 /\ h[1] = x
  BY <1>1
<1>a. Len(t) \in Nat
  OBVIOUS
<1>3. h \o t \in Seq(V) /\ Len(h \o t) = Len(h) + Len(t)
  BY ONLY <1>2, t \in Seq(V), ConcatProperties
<1>4. \A i \in 1..(Len(h) + Len(t)) : (h \o t)[i] = IF i <= Len(h) THEN h[i] ELSE t[i - Len(h)]
  BY ONLY <1>2, t \in Seq(V), ConcatProperties
<1>5. (h \o t)[1] = x
  BY <1>2, <1>a, <1>4
<1>6. ASSUME NEW m \in 1..Len(t) PROVE (h \o t)[m + 1] = t[m]
  <2>1. m + 1 \in 1..(Len(h) + Len(t)) /\ ~(m + 1 <= Len(h)) /\ (m + 1) - Len(h) = m
    BY <1>2, <1>a
  <2>2. QED  BY <2>1, <1>4
<1>7. Len(h \o t) = Len(t) + 1
  BY <1>2, <1>a, <1>3
<1>8. QED  BY <1>1, <1>3, <1>5, <1>6, <1>7 DEF IsPrefixed

(* Two functions that agree at a place when they agree behind it are equal. *)
LEMMA AgreeDown ==
  ASSUME NEW N \in Nat, NEW F, NEW G,
         \A i \in 1..N : (\A j \in (i + 1)..N : F[j] = G[j]) => F[i] = G[i]
  PROVE  \A i \in 1..N : F[i] = G[i]
<1> DEFINE T == {i \in 1..(N + 1) : \A j \in i..N : F[j] = G[j]}
<1>1. N + 1 \in T
  OBVIOUS
<1>2. ASSUME NEW i \in 1..N, i + 1 \in T PROVE i \in T
  <2>1. F[i] = G[i]
    BY <1>2
  <2>2. QED  BY <1>2, <2>1
<1> HIDE DEF T
<1>3. 1..(N + 1) \subseteq T
  BY ONLY <1>1, <1>2, InductionDown, N \in Nat
<1>4. QED  BY <1>3 DEF T

-----------------------------------------------------------------------------
(* What is picked out of a table: of v[1], ..., v[N] those at the places   *)
(* in S, from the place i on.  The models read lists of dentries so.       *)
Picks(f, N, S, v) ==
  f = [i \in 1..(N + 1) |-> IF i > N THEN <<>>
                            ELSE IF i \in S THEN <<v[i]>> \o f[i + 1] ELSE f[i + 1]]

(* The same, as facts about one place each.                                *)
PicksByOne(f, N, S, v) ==
  /\ f[N + 1] = <<>>
  /\ \A i \in 1..N : i \in S => f[i] = <<v[i]>> \o f[i + 1]
  /\ \A i \in 1..N : i \notin S => f[i] = f[i + 1]

LEMMA PickSteps ==
  ASSUME NEW N \in Nat, NEW S, NEW v, NEW f, Picks(f, N, S, v)
  PROVE  PicksByOne(f, N, S, v)
<1>1. N + 1 \in 1..(N + 1) /\ N + 1 > N /\ \A i \in 1..N : i \in 1..(N + 1) /\ ~(i > N)
  OBVIOUS
<1>2. ASSUME NEW i \in 1..(N + 1)
      PROVE  f[i] = IF i > N THEN <<>> ELSE IF i \in S THEN <<v[i]>> \o f[i + 1] ELSE f[i + 1]
  BY Zenon DEF Picks
<1>3. QED  BY <1>1, <1>2, Zenon DEF PicksByOne

LEMMA PicksAreSeqs ==
  ASSUME NEW N \in Nat, NEW S, NEW v, NEW f, Picks(f, N, S, v), NEW V, \A i \in 1..N : i \in S => v[i] \in V
  PROVE  f \in [1..(N + 1) -> Seq(V)]
<1>s. PicksByOne(f, N, S, v)
  BY PickSteps
<1> DEFINE T == {i \in 1..(N + 1) : f[i] \in Seq(V)}
<1>1. N + 1 \in T
  <2>1. <<>> \in Seq(V) /\ N + 1 \in 1..(N + 1)
    OBVIOUS
  <2>2. f[N + 1] \in Seq(V)
    BY <1>s, <2>1, Zenon DEF PicksByOne
  <2>3. QED  BY <2>1, <2>2
<1>2. ASSUME NEW i \in 1..N, i + 1 \in T PROVE i \in T
  <2>1. CASE i \in S
    <3>1. f[i] = <<v[i]>> \o f[i + 1] /\ v[i] \in V
      BY <2>1, <1>s, Zenon DEF PicksByOne
    <3>2. <<v[i]>> \in Seq(V) /\ f[i + 1] \in Seq(V)
      BY <1>2, <3>1
    <3>3. <<v[i]>> \o f[i + 1] \in Seq(V)
      BY <3>2, ConcatProperties
    <3>4. f[i] \in Seq(V)
      BY <3>1, <3>3, Zenon
    <3>5. QED  BY <3>4
  <2>2. CASE i \notin S
    <3>1. f[i] = f[i + 1]
      BY <2>2, <1>s, Zenon DEF PicksByOne
    <3>2. QED  BY <1>2, <3>1
  <2>3. QED  BY <2>1, <2>2
<1> HIDE DEF T
<1>3. 1..(N + 1) \subseteq T
  BY ONLY <1>1, <1>2, InductionDown, N \in Nat
<1>4. \A i \in 1..(N + 1) : f[i] \in Seq(V)
  BY <1>3 DEF T
<1>5. \E g : f = [i \in 1..(N + 1) |-> g[i]]
  <2>1. f = [i \in 1..(N + 1) |-> f[i]]
    BY Zenon DEF Picks
  <2>2. QED  BY <2>1
<1>6. QED  BY <1>4, <1>5

(* A table that agrees with another from a place on gives the same.        *)
LEMMA PicksAgree ==
  ASSUME NEW N \in Nat, NEW S, NEW v, NEW f, Picks(f, N, S, v),
         NEW M \in Nat, NEW R, NEW w, NEW g, Picks(g, M, R, w), N <= M,
         NEW a \in 1..(N + 1),
         \A i \in a..N : (i \in S <=> i \in R) /\ (i \in S => v[i] = w[i]),
         \A i \in (N + 1)..M : i \notin R
  PROVE  f[a] = g[a]
<1>s. PicksByOne(f, N, S, v)
  BY PickSteps
<1>t. PicksByOne(g, M, R, w)
  BY PickSteps
<1> DEFINE T == {i \in 1..(M + 1) : i >= a => (IF i <= N THEN f[i] = g[i] ELSE g[i] = <<>>)}
<1>1. M + 1 \in T
  <2>1. g[M + 1] = <<>> /\ M + 1 \in 1..(M + 1) /\ ~(M + 1 <= N)
    BY <1>t DEF PicksByOne
  <2>2. QED  BY <2>1
<1>2. ASSUME NEW i \in 1..M, i + 1 \in T PROVE i \in T
  <2> SUFFICES ASSUME i >= a PROVE IF i <= N THEN f[i] = g[i] ELSE g[i] = <<>>
    OBVIOUS
  <2>1. CASE i > N
    <3>1. i \notin R /\ i + 1 > N /\ i + 1 >= a
      BY <2>1
    <3>2. g[i] = g[i + 1]
      BY <3>1, <1>s, <1>t, Zenon DEF PicksByOne
    <3>3. g[i + 1] = <<>>
      BY <1>2, <3>1
    <3>4. QED  BY <2>1, <3>2, <3>3
  <2>2. CASE i <= N
    <3>1. f[i + 1] = g[i + 1]
      <4>1. CASE i + 1 <= N
        BY <1>2, <4>1
      <4>2. CASE i + 1 = N + 1
        <5>1. f[N + 1] = <<>>
          BY <1>s, <1>t, Zenon DEF PicksByOne
        <5>2. QED  BY <1>2, <4>2, <5>1
      <4>3. QED  BY <2>2, <4>1, <4>2
    <3>2. i \in 1..N /\ i \in a..N
      BY <2>2
    <3>3. (i \in S <=> i \in R) /\ (i \in S => v[i] = w[i])
      BY <3>2
    <3>4. CASE i \in S
      <4>1. f[i] = <<v[i]>> \o f[i + 1] /\ g[i] = <<w[i]>> \o g[i + 1]
        BY <3>2, <3>3, <3>4, <1>s, <1>t, Zenon DEF PicksByOne
      <4>2. QED  BY <2>2, <3>1, <3>3, <3>4, <4>1
    <3>5. CASE i \notin S
      <4>1. f[i] = f[i + 1] /\ g[i] = g[i + 1]
        BY <3>2, <3>3, <3>5, <1>s, <1>t, Zenon DEF PicksByOne
      <4>2. QED  BY <2>2, <3>1, <4>1
    <3>6. QED  BY <3>4, <3>5
  <2>3. QED  BY <2>1, <2>2
<1> HIDE DEF T
<1>3. 1..(M + 1) \subseteq T
  BY ONLY <1>1, <1>2, InductionDown, M \in Nat
<1>4. a \in T
  BY <1>3
<1>5. CASE a <= N
  BY <1>4, <1>5 DEF T
<1>6. CASE a = N + 1
  <2>1. f[N + 1] = <<>>
    BY <1>s, <1>t, Zenon DEF PicksByOne
  <2>2. QED  BY <1>4, <1>6, <2>1 DEF T
<1>7. QED  BY <1>5, <1>6

(* There is such a function, one only, and the models' CHOOSE finds it.    *)
LEMMA PicksExist ==
  ASSUME NEW N \in Nat, NEW S, NEW v
  PROVE  \E f : Picks(f, N, S, v)
<1> DEFINE Some(f, a) == f = [i \in a..(N + 1) |-> IF i > N THEN <<>>
                                  ELSE IF i \in S THEN <<v[i]>> \o f[i + 1] ELSE f[i + 1]]
           T == {a \in 1..(N + 1) : \E f : Some(f, a)}
<1>1. N + 1 \in T
  <2> DEFINE e == [i \in (N + 1)..(N + 1) |-> <<>>]
  <2>1. Some(e, N + 1)
    OBVIOUS
  <2>2. \E f : Some(f, N + 1)
    BY <2>1
  <2>3. QED  BY <2>2
<1>2. ASSUME NEW a \in 1..N, a + 1 \in T PROVE a \in T
  <2>1. PICK f : Some(f, a + 1)
    BY <1>2
  <2> DEFINE g == [i \in a..(N + 1) |-> IF i > a THEN f[i]
                                        ELSE IF i \in S THEN <<v[i]>> \o f[i + 1] ELSE f[i + 1]]
  <2>2. ASSUME NEW i \in a..(N + 1)
        PROVE  g[i] = IF i > N THEN <<>> ELSE IF i \in S THEN <<v[i]>> \o g[i + 1] ELSE g[i + 1]
    <3>1. CASE i = a
      <4>1. a + 1 \in a..(N + 1) /\ a + 1 > a /\ ~(a > N) /\ ~(a > a) /\ a \in a..(N + 1)
        OBVIOUS
      <4>2. g[a + 1] = f[a + 1] /\ g[a] = IF a \in S THEN <<v[a]>> \o f[a + 1] ELSE f[a + 1]
        BY <4>1, Zenon
      <4>3. QED  BY <3>1, <4>1, <4>2, Zenon
    <3>2. CASE i > N
      <4>1. i \in (a + 1)..(N + 1) /\ i > a
        BY <3>2
      <4>2. g[i] = f[i]
        BY <4>1
      <4>3. f[i] = <<>>
        BY <2>1, <3>2, <4>1
      <4>4. QED  BY <3>2, <4>2, <4>3
    <3>3. CASE i \in (a + 1)..N
      <4>1. i + 1 \in a..(N + 1) /\ i + 1 > a /\ i > a /\ ~(i > N) /\ i \in (a + 1)..(N + 1)
        BY <3>3
      <4>2. g[i] = f[i] /\ g[i + 1] = f[i + 1]
        BY <4>1, Zenon
      <4> HIDE DEF g
      <4>3. f[i] = IF i \in S THEN <<v[i]>> \o f[i + 1] ELSE f[i + 1]
        BY <2>1, <4>1, Zenon
      <4>4. QED  BY <4>1, <4>2, <4>3, Zenon
    <3>4. QED  BY <3>1, <3>2, <3>3
  <2>3. g = [i \in a..(N + 1) |-> g[i]]
    OBVIOUS
  <2> HIDE DEF g
  <2>4. Some(g, a)
    BY <2>2, <2>3, Zenon
  <2>5. QED  BY <2>4
<1> HIDE DEF T
<1>3. 1..(N + 1) \subseteq T
  BY ONLY <1>1, <1>2, InductionDown, N \in Nat
<1>4. 1 \in T
  BY <1>3
<1>5. QED  BY <1>4 DEF T, Picks

(* Where in the list a place's value is: by how much shorter the list is   *)
(* from there on.                                                          *)
PlaceOf(f, i) == Len(f[1]) - Len(f[i]) + 1

(* What the list has at each position, and that it is in the order of the  *)
(* places.                                                                 *)
PlacedIn(f, N, S, v) ==
  /\ \A i \in 1..(N + 1) : Len(f[i]) \in Nat /\ Len(f[i]) <= Len(f[1])
  /\ \A i \in 1..N : Len(f[i]) = IF i \in S THEN Len(f[i + 1]) + 1 ELSE Len(f[i + 1])
  /\ \A i \in 1..N : i \in S => PlaceOf(f, i) \in 1..Len(f[1]) /\ f[1][PlaceOf(f, i)] = v[i]
  /\ \A k \in 1..Len(f[1]) : \E i \in 1..N : i \in S /\ k = PlaceOf(f, i)

(* Each picked value lies where the ones before it end, and all of the     *)
(* list is picked values.                                                  *)
LEMMA PicksPlaced ==
  ASSUME NEW N \in Nat, NEW S, NEW v, NEW f, Picks(f, N, S, v), NEW V, \A i \in 1..N : i \in S => v[i] \in V
  PROVE  PlacedIn(f, N, S, v)
<1>s. PicksByOne(f, N, S, v)
  BY PickSteps
<1>1. f \in [1..(N + 1) -> Seq(V)]
  BY PicksAreSeqs
<1>2. ASSUME NEW i \in 1..(N + 1) PROVE f[i] \in Seq(V) /\ Len(f[i]) \in Nat
  BY <1>1
<1>3. ASSUME NEW i \in 1..N
      PROVE  \E d \in {0, 1} :
               /\ d = IF i \in S THEN 1 ELSE 0
               /\ Len(f[i]) = Len(f[i + 1]) + d
               /\ i \in S => f[i][1] = v[i]
               /\ \A m \in 1..Len(f[i + 1]) : f[i + 1][m] = f[i][m + d]
  <2>1. f[i + 1] \in Seq(V)
    BY <1>2
  <2>2. CASE i \in S
    <3>1. f[i] = <<v[i]>> \o f[i + 1]
      BY <2>2, <1>s, Zenon DEF PicksByOne
    <3>2. IsPrefixed(v[i], f[i + 1], <<v[i]>> \o f[i + 1], V)
      BY <2>1, <2>2, Prefixed
    <3>3. IsPrefixed(v[i], f[i + 1], f[i], V)
      BY <3>1, <3>2, Zenon
    <3>4. QED  BY <2>2, <3>3 DEF IsPrefixed
  <2>3. CASE i \notin S
    <3>1. f[i] = f[i + 1]
      BY <2>3, <1>s, Zenon DEF PicksByOne
    <3>2. Len(f[i + 1]) \in Nat
      BY <1>2
    <3>3. QED  BY <2>3, <3>1, <3>2
  <2>4. QED  BY <2>2, <2>3
<1> DEFINE Good(i) ==
             /\ Len(f[i]) <= Len(f[1])
             /\ \A m \in 1..Len(f[i]) : f[1][Len(f[1]) - Len(f[i]) + m] = f[i][m]
             /\ \A k \in 1..(Len(f[1]) - Len(f[i])) : \E j \in 1..N : j \in S /\ k = PlaceOf(f, j)
           T == {i \in 1..(N + 1) : Good(i)}
           U == {n \in 0..N : n + 1 \in T}
<1>4. 1 \in T
  <2>1. 1 \in 1..(N + 1) /\ Len(f[1]) \in Nat
    BY <1>2
  <2>2. QED  BY <2>1
<1>5. ASSUME NEW i \in 1..N, i \in T PROVE i + 1 \in T
  <2>0. i + 1 \in 1..(N + 1) /\ i \in 1..(N + 1) /\ 1 \in 1..(N + 1)
    OBVIOUS
  <2>1. Len(f[i]) \in Nat /\ Len(f[i + 1]) \in Nat /\ Len(f[1]) \in Nat
    BY <1>2, <2>0
  <2>2. PICK d \in {0, 1} : /\ d = IF i \in S THEN 1 ELSE 0
                           /\ Len(f[i]) = Len(f[i + 1]) + d
                           /\ \A m \in 1..Len(f[i + 1]) : f[i + 1][m] = f[i][m + d]
    BY <1>3, Zenon
  <2>c. Len(f[i]) <= Len(f[1])
    BY <1>5
  <2>d. \A m \in 1..Len(f[i]) : f[1][Len(f[1]) - Len(f[i]) + m] = f[i][m]
    BY <1>5
  <2>e. \A k \in 1..(Len(f[1]) - Len(f[i])) : \E j \in 1..N : j \in S /\ k = PlaceOf(f, j)
    BY <1>5
  <2> HIDE DEF T
  <2>f. Len(f[i]) = Len(f[i + 1]) + d /\ (d = IF i \in S THEN 1 ELSE 0)
    BY <2>2, Zenon
  <2>3. Len(f[i + 1]) <= Len(f[1])
    <3>1. \A a, b, c \in Nat, e \in {0, 1} : a <= c /\ a = b + e => b <= c
      OBVIOUS
    <3>2. QED  BY <2>c, <2>f, <2>1, <3>1, Zenon
  <2>g. PICK a, b, c : a = Len(f[i]) /\ b = Len(f[i + 1]) /\ c = Len(f[1])
    OBVIOUS
  <2>h. a \in Nat /\ b \in Nat /\ c \in Nat /\ a = b + d /\ d \in {0, 1}
    BY <2>1, <2>f, <2>g, Zenon
  <2>4. ASSUME NEW m \in 1..Len(f[i + 1]) PROVE f[1][Len(f[1]) - Len(f[i + 1]) + m] = f[i + 1][m]
    <3>1. PICK n : n = m + d
      OBVIOUS
    <3>2. n \in 1..Len(f[i]) /\ Len(f[1]) - Len(f[i]) + n = Len(f[1]) - Len(f[i + 1]) + m
      <4>1. m \in 1..b
        BY <2>g
      <4>2. m + d \in 1..a /\ c - a + (m + d) = c - b + m
        BY ONLY <4>1, <2>h
      <4>3. QED  BY <3>1, <4>2, <2>g, Zenon
    <3>3. f[i + 1][m] = f[i][n]
      BY <2>2, <3>1, Zenon
    <3>4. f[1][Len(f[1]) - Len(f[i]) + n] = f[i][n]
      BY <2>d, <3>2
    <3>5. QED  BY <3>2, <3>3, <3>4
  <2>5. ASSUME NEW k \in 1..(Len(f[1]) - Len(f[i + 1])) PROVE \E j \in 1..N : j \in S /\ k = PlaceOf(f, j)
    <3>1. CASE k \in 1..(Len(f[1]) - Len(f[i]))
      BY <2>e, <3>1
    <3>2. CASE k \notin 1..(Len(f[1]) - Len(f[i]))
      <4>1. i \in S /\ k = Len(f[1]) - Len(f[i]) + 1
        <5>1. k \in 1..(c - b) /\ k \notin 1..(c - a)
          BY <3>2, <2>g, Zenon
        <5>2. d = 1 /\ k = c - a + 1
          BY ONLY <5>1, <2>h
        <5>3. QED  BY <5>2, <2>f, <2>g
      <4>2. k = PlaceOf(f, i)
        BY <4>1 DEF PlaceOf
      <4>3. QED  BY <4>1, <4>2
    <3>3. QED  BY <3>1, <3>2
  <2>6. QED  BY <2>0, <2>3, <2>4, <2>5 DEF T
<1> HIDE DEF T
<1>6. ASSUME NEW i \in 1..(N + 1) PROVE i \in T
  <2>1. 0 \in U
    BY <1>4
  <2>2. ASSUME NEW n \in 0..(N - 1), n \in U PROVE n + 1 \in U
    <3>1. n + 1 \in 1..N /\ n + 1 \in T
      BY <2>2
    <3>2. (n + 1) + 1 \in T
      BY <1>5, <3>1
    <3>3. QED  BY <3>2
  <2> HIDE DEF U
  <2>3. 0..N \subseteq U
    BY ONLY <2>1, <2>2, InductionUpTo, N \in Nat
  <2>4. i - 1 \in 0..N /\ (i - 1) + 1 = i
    OBVIOUS
  <2>5. (i - 1) + 1 \in T
    BY <2>3, <2>4 DEF U
  <2>6. QED  BY <2>4, <2>5
<1>7. ASSUME NEW i \in 1..N, i \in S PROVE PlaceOf(f, i) \in 1..Len(f[1]) /\ f[1][PlaceOf(f, i)] = v[i]
  <2>1. i \in 1..(N + 1) /\ i + 1 \in 1..(N + 1) /\ 1 \in 1..(N + 1)
    OBVIOUS
  <2>2. Len(f[i]) \in Nat /\ Len(f[i + 1]) \in Nat /\ Len(f[1]) \in Nat
    BY <1>2, <2>1, Zenon
  <2>a. f[i][1] = v[i] /\ Len(f[i]) = Len(f[i + 1]) + 1
    BY <1>3, <1>7, Zenon
  <2>3. 1 \in 1..Len(f[i]) /\ f[i][1] = v[i]
    BY <2>a, <2>2
  <2>4. Len(f[i]) <= Len(f[1]) /\ f[1][Len(f[1]) - Len(f[i]) + 1] = f[i][1]
    BY <1>6, <2>1, <2>3 DEF T
  <2>5. Len(f[1]) - Len(f[i]) + 1 \in 1..Len(f[1])
    <3>1. \A a, b, c \in Nat : a <= c /\ a = b + 1 => c - a + 1 \in 1..c
      OBVIOUS
    <3>2. QED  BY <2>2, <2>a, <2>4, <3>1, Zenon
  <2>6. QED  BY <2>3, <2>4, <2>5, Zenon DEF PlaceOf
<1>8. ASSUME NEW k \in 1..Len(f[1]) PROVE \E i \in 1..N : i \in S /\ k = PlaceOf(f, i)
  <2>1. N + 1 \in T /\ N + 1 \in 1..(N + 1)
    BY <1>6
  <2>2. f[N + 1] = <<>>
    BY <1>s DEF PicksByOne
  <2>3. Len(f[N + 1]) = 0 /\ Len(f[1]) \in Nat
    BY <1>2, <2>2
  <2>4. k \in 1..(Len(f[1]) - Len(f[N + 1]))
    BY <2>3
  <2>5. \A m \in 1..(Len(f[1]) - Len(f[N + 1])) : \E j \in 1..N : j \in S /\ m = PlaceOf(f, j)
    BY <2>1, Zenon DEF T
  <2>6. QED  BY <2>4, <2>5, Zenon
<1>9. \A i \in 1..(N + 1) : Len(f[i]) <= Len(f[1])
  BY <1>6 DEF T
<1>10. ASSUME NEW i \in 1..N PROVE Len(f[i]) = IF i \in S THEN Len(f[i + 1]) + 1 ELSE Len(f[i + 1])
  <2>1. Len(f[i + 1]) \in Nat
    BY <1>2
  <2>2. PICK d : d = (IF i \in S THEN 1 ELSE 0) /\ Len(f[i]) = Len(f[i + 1]) + d
    BY <1>3, Zenon
  <2>3. CASE i \in S
    BY <2>1, <2>2, <2>3
  <2>4. CASE i \notin S
    BY <2>1, <2>2, <2>4
  <2>5. QED  BY <2>3, <2>4
<1>11. QED  BY <1>2, <1>7, <1>8, <1>9, <1>10, Zenon DEF PlacedIn

(* Places at which nothing is picked are passed over.                      *)
LEMMA PicksSkip ==
  ASSUME NEW N \in Nat, NEW S, NEW v, NEW f, Picks(f, N, S, v),
         NEW a \in 1..(N + 1), NEW b \in a..(N + 1), \A i \in a..(b - 1) : i \notin S
  PROVE  f[a] = f[b]
<1>s. PicksByOne(f, N, S, v)
  BY PickSteps
<1> DEFINE T == {i \in 1..b : i >= a => f[i] = f[b]}
<1>1. b \in T
  OBVIOUS
<1>2. ASSUME NEW i \in 1..(b - 1), i + 1 \in T PROVE i \in T
  <2> SUFFICES ASSUME i >= a PROVE f[i] = f[b]
    OBVIOUS
  <2>1. i \in 1..N /\ i \in a..(b - 1) /\ i + 1 >= a
    OBVIOUS
  <2>2. f[i] = f[i + 1]
    BY <2>1, <1>s, Zenon DEF PicksByOne
  <2>3. QED  BY <1>2, <2>1, <2>2
<1> HIDE DEF T
<1>3. b - 1 \in Nat /\ (b - 1) + 1 = b
  OBVIOUS
<1>4. 1..((b - 1) + 1) \subseteq T
  BY ONLY <1>1, <1>2, <1>3, InductionDown
<1>5. a \in T
  BY <1>3, <1>4
<1>6. QED  BY <1>5 DEF T

LEMMA PicksNone ==
  ASSUME NEW N \in Nat, NEW S, NEW v, NEW f, Picks(f, N, S, v),
         NEW a \in 1..(N + 1), \A i \in a..N : i \notin S
  PROVE  f[a] = <<>>
<1>s. PicksByOne(f, N, S, v)
  BY PickSteps
<1>1. N + 1 \in a..(N + 1) /\ (N + 1) - 1 = N
  OBVIOUS
<1>2. f[a] = f[N + 1]
  BY <1>1, PicksSkip
<1>3. QED  BY <1>2, <1>s, Zenon DEF PicksByOne

LEMMA PicksShort ==
  ASSUME NEW N \in Nat, NEW S, NEW v, NEW f, Picks(f, N, S, v), PlacedIn(f, N, S, v)
  PROVE  \A i \in 1..(N + 1) : Len(f[i]) <= N + 1 - i
<1>s. PicksByOne(f, N, S, v)
  BY PickSteps
<1> DEFINE T == {i \in 1..(N + 1) : Len(f[i]) <= N + 1 - i}
<1>1. N + 1 \in T
  <2>1. f[N + 1] = <<>>
    BY <1>s DEF PicksByOne
  <2>2. Len(f[N + 1]) = 0 /\ 0 <= N + 1 - (N + 1)
    BY <2>1
  <2>3. QED  BY <2>2
<1>2. ASSUME NEW i \in 1..N, i + 1 \in T PROVE i \in T
  <2>1. i \in 1..(N + 1) /\ i + 1 \in 1..(N + 1)
    OBVIOUS
  <2>2. PICK a, b : a = Len(f[i]) /\ b = Len(f[i + 1])
    OBVIOUS
  <2>3. a \in Nat /\ b \in Nat /\ a = IF i \in S THEN b + 1 ELSE b
    BY <2>1, <2>2 DEF PlacedIn
  <2>4. b <= N + 1 - (i + 1)
    BY <1>2, <2>2
  <2>5. a <= b + 1
    BY ONLY <2>3
  <2>6. a <= N + 1 - i
    BY <2>3, <2>4, <2>5
  <2>7. QED  BY <2>1, <2>2, <2>6
<1> HIDE DEF T
<1>3. 1..(N + 1) \subseteq T
  BY ONLY <1>1, <1>2, InductionDown, N \in Nat
<1>4. QED  BY <1>3 DEF T

(* Values at places next to each other are next to each other in the list. *)
LEMMA RunPlaced ==
  ASSUME NEW N \in Nat, NEW S, NEW v, NEW f, PlacedIn(f, N, S, v),
         NEW i \in 1..N, NEW c \in Nat, i + c <= N, \A k \in i..i + c : k \in S
  PROVE  \A j \in 0..c : PlaceOf(f, i + j) = PlaceOf(f, i) + j
<1> DEFINE T == {j \in 0..c : PlaceOf(f, i + j) = PlaceOf(f, i) + j}
<1>1. \A k \in 1..(N + 1) : Len(f[k]) \in Nat
  BY DEF PlacedIn
<1>2. 0 \in T
  <2>1. i + 0 = i /\ i \in 1..(N + 1) /\ 1 \in 1..(N + 1)
    OBVIOUS
  <2>2. PICK a, b : a = Len(f[1]) /\ b = Len(f[i])
    OBVIOUS
  <2>3. a \in Nat /\ b \in Nat
    BY <1>1, <2>1, <2>2
  <2>4. a - b + 1 = (a - b + 1) + 0
    BY <2>3
  <2>5. QED  BY <2>1, <2>2, <2>4 DEF PlaceOf
<1>3. ASSUME NEW j \in 0..(c - 1), j \in T PROVE j + 1 \in T
  <2>1. PICK k : k = i + j
    OBVIOUS
  <2>2. k \in 1..N /\ k + 1 \in 1..(N + 1) /\ k \in 1..(N + 1) /\ k \in i..i + c /\ i + (j + 1) = k + 1
        /\ i \in 1..(N + 1) /\ 1 \in 1..(N + 1) /\ j + 1 \in 0..c
    BY <2>1
  <2>3. PICK a, b, d, e : a = Len(f[1]) /\ b = Len(f[k]) /\ d = Len(f[k + 1]) /\ e = Len(f[i])
    OBVIOUS
  <2>4. a \in Nat /\ b \in Nat /\ d \in Nat /\ e \in Nat
    BY <1>1, <2>2, <2>3
  <2>5. b = d + 1
    BY <2>2, <2>3 DEF PlacedIn
  <2>6. a - b + 1 = (a - e + 1) + j
    BY <1>3, <2>1, <2>3 DEF PlaceOf
  <2>7. a - d + 1 = (a - e + 1) + (j + 1)
    BY <2>4, <2>5, <2>6
  <2>8. QED  BY <2>2, <2>3, <2>7 DEF PlaceOf
<1> HIDE DEF T
<1>4. 0..c \subseteq T
  BY ONLY <1>2, <1>3, InductionUpTo, c \in Nat
<1>5. QED  BY <1>4 DEF T

(* Comparing multiples of a number.                                        *)
LEMMA Products ==
  ASSUME NEW a \in Int, NEW b \in Int, NEW p \in Nat \ {0}
  PROVE  /\ a * p \in Int
         /\ (a + 1) * p = a * p + p
         /\ a * p < b * p + p => a <= b
         /\ a <= b => a * p <= b * p
<1>1. a * p \in Int /\ (a + 1) * p = a * p + p
  OBVIOUS
<1>2. ASSUME a <= b PROVE a * p <= b * p
  <2>1. b - a \in Nat /\ (b - a) * p >= 0
    BY <1>2
  <2>2. (b - a) * p = b * p - a * p
    OBVIOUS
  <2>3. QED  BY <2>1, <2>2
<1>3. ASSUME a * p < b * p + p, ~(a <= b) PROVE FALSE
  <2>1. a - b - 1 \in Nat /\ (a - b - 1) * p >= 0
    BY <1>3
  <2>2. (a - b - 1) * p = a * p - b * p - p
    OBVIOUS
  <2>3. QED  BY <1>3, <2>1, <2>2
<1>4. QED  BY <1>1, <1>2, <1>3

=============================================================================
