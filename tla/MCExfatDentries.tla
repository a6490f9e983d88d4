--------------------------- MODULE MCExfatDentries ---------------------------
(* Names and directories for the model checking of ExfatDentries. *)
EXTENDS ExfatNames, TLC

\* "a" and "A" have one hash, and memcmp tells them apart; "lo" and "lO" have
\* one hash, look the same to it, and take three name dentries, so that one made
\* by the program is read back as "l0"; fill makes "a" and "r".
MCGiven == {"a", "A", "lo", "lO", "r"}
MCName == MCGiven \union {"l0"}
MCLong == {"lo", "lO", "l0"}
MCHash == [n \in MCName |-> CASE n = "a" -> "A" [] n \in MCLong -> "lo" [] OTHER -> n]
MCSeen == [n \in MCName |-> IF n \in MCLong THEN "lo" ELSE n]
MCChunks == [n \in MCName |-> IF n \in MCLong THEN 3 ELSE 1]
MCShown == [n \in MCName |-> IF n \in MCLong THEN "l0" ELSE n]

MCUnused == [k \in 1..PerCluster |-> Unused]
Set(n) == <<File(n), Stream(n), Piece(n)>>
Long(n) == Set(n) \o [k \in 1..Chunks[n] - 1 |-> [Piece(n) EXCEPT !.part = k + 1]]

(* A long name by another system, with a deleted file before it; and a     *)
(* file in the middle of blanks.                                           *)
MCImages ==
  { Deleted(Set("r"), 1..3) \o Long("lo"),
    <<Blank>> \o Set("a") }

MCStale == {MCUnused}

=============================================================================
