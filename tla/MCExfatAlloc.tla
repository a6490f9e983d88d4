----------------------------- MODULE MCExfatAlloc ----------------------------
(***************************************************************************)
(* Instances of the exFAT allocator for TLC.  On every image the bitmap is *)
(* in cluster 2, which stands for the up-case table's too, and the root    *)
(* directory in cluster 3.                                                 *)
(***************************************************************************)
EXTENDS ExfatOwnership, TLC

EmptyFat == [w \in Word |-> IF w = 0 THEN MediaType ELSE IF w = 1 THEN EXFAT_LASTCLUSTER ELSE 0]

Dentry(clu, len, nofat) == [live |-> TRUE, clu |-> clu, len |-> len, nofat |-> nofat]

\* A directory of one cluster, one of two linked clusters, and a free slot.
Mixed ==
  [fat |-> (2 :> -1 @@ 3 :> -1 @@ 6 :> 8 @@ 8 :> -1) @@ EmptyFat,
   bitmap |-> {2, 3, 4, 6, 8},
   stream |-> <<Dentry(4, 1, TRUE), Dentry(6, 2, FALSE), NoEntry>>]

\* A directory of one cluster, or of two linked ones, and a free slot.
Contiguous ==
  [fat |-> (2 :> -1 @@ 3 :> -1) @@ EmptyFat,
   bitmap |-> {2, 3, 4},
   stream |-> <<Dentry(4, 1, TRUE), NoEntry>>]

Linked ==
  [fat |-> (2 :> -1 @@ 3 :> -1 @@ 5 :> 7 @@ 7 :> -1) @@ EmptyFat,
   bitmap |-> {2, 3, 5, 7},
   stream |-> <<Dentry(5, 2, FALSE), NoEntry>>]

(* A directory in cluster 5.  With five clusters in the heap the allocator *)
(* looks at 2, 3 and 4 only, of which 4 is free.                           *)
Small ==
  [fat |-> (2 :> -1 @@ 3 :> -1) @@ EmptyFat,
   bitmap |-> {2, 3, 5},
   stream |-> <<Dentry(5, 1, TRUE)>>]

MixedImage == {Mixed}
OneDirectory == {Contiguous, Linked}
LinkedImage == {Linked}
SmallImage == {Small}

MCSystem == {2}
MCRawEntries == {<<5, 4>>, <<4, 5>>}

\* Bound: a behaviour ends when it has written to two words of the FAT that are no cluster's,
StrayWrites == {w \in Word \ Cluster : fat[w] # EmptyFat[w]}
FewStrayWrites == Cardinality(StrayWrites) <= 1

\* when it has loaded two directories besides the root, or when one has three clusters.
Cached == {c \in FirstCluster \ {RootOffset} : head[c].live}
SmallCache == Cardinality(Cached) <= 1 /\ \A c \in Cached : head[c].len <= 2

=============================================================================
