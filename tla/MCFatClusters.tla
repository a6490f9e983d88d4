---------------------------- MODULE MCFatClusters -----------------------------
(***************************************************************************)
(* Instances of the FAT allocator for TLC.                                 *)
(***************************************************************************)
EXTENDS FatOwnership, TLC

EmptyFat == [w \in Word |-> IF w <= 1 \/ w = EndMark THEN EndMark ELSE 0]

\* A directory of one cluster and one of two, and room for a third.
Two ==
  [fat |-> (2 :> EndMark @@ 4 :> 3 @@ 3 :> EndMark) @@ EmptyFat,
   first |-> <<2, 4, 0>>]

\* A directory of three clusters, and room for another.
Three ==
  [fat |-> (3 :> 5 @@ 5 :> 2 @@ 2 :> EndMark) @@ EmptyFat,
   first |-> <<3, 0>>]

\* A directory of one cluster, the volume's last, which no search looks at; two clusters are
\* marked that nobody has.
AtEnd ==
  [fat |-> (2 :> EndMark @@ 3 :> EndMark @@ (EndMark - 1) :> EndMark) @@ EmptyFat,
   first |-> <<EndMark - 1, 0, 0>>]

\* The chain of a removed directory: where mkdir looks, every cluster links to another.
Lost ==
  [fat |-> [c \in 2..(EndMark - 1) |-> c + 1] @@ EmptyFat,
   first |-> <<0, 0, 0>>]

OneLong == {Three}
ThreeImages == {Two, [Two EXCEPT !.first = <<2, 0, 0>>], AtEnd}
FourImages == ThreeImages \union {Lost}

\* Raw commands: a cluster that may be free is taken, released, or linked to from outside.
MCRawEntries == {<<5, EndMark>>, <<1, 5>>}

=============================================================================
