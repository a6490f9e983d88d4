----------------------------- MODULE MCFatTable -----------------------------
(* Values for the model checking of FatTable. *)
EXTENDS FatTable, TLC

MCTypes == {"FAT12", "FAT16", "FAT32"}

\* 0xFA5, and 0xFFFFFFFF, with which the allocator ends a chain.
MCValue == {[Zero EXCEPT ![0] = 5, ![1] = 10, ![2] = 15], [k \in 0..7 |-> 15]}

=============================================================================
