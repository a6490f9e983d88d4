---------------------------- MODULE MCFatDentries ----------------------------
(* Names and directories for the model checking of FatDentries. *)
EXTENDS FatNames, TLC

\* "A" is a short name; "a" is long, in one piece.  "lo" takes two pieces, and
\* is read back as a longer name, of which the program makes the same short one.
MCName == {"A", "R", "S", "a", "A~1", "lo", "lolo", "LO~1"}
MCPieces == [n \in MCName |-> CASE n \in {"lo", "lolo"} -> 2 [] n = "a" -> 1 [] OTHER -> 0]
MCShort == [n \in MCName |-> CASE MCPieces[n] = 2 -> "LO~1" [] n = "a" -> "A~1" [] OTHER -> n]
MCShown == [n \in MCName |-> IF n = "lo" THEN "lolo" ELSE n]
MCChecksum ==
  [x \in MCName \X Garbage |-> CASE x[1] = "A~1" -> 1 [] x[1] = "LO~1" -> 2 [] OTHER -> 3]

MCUnused == [k \in 1..PerCluster |-> Unused]
Set(n) == [EntrySet(n, 0) EXCEPT ![1].name = n, ![Pieces[n]].name = n]
Label == [type |-> "label", name |-> "S", ord |-> 0, sum |-> 0]

(* A directory with two long names and a deleted file between them, in two *)
(* clusters; one of another system, in which the short name of "a" is not  *)
(* what the program would make of it; and a root in the fixed area.        *)
MCImages ==
  { [slots |-> Set("lo") \o Deleted(<<File("R")>>, {1}) \o Set("a") \o <<Unused, Unused>>,
     fixed |-> FALSE],
    [slots |-> <<Long("a", 1, 3), File("A"), Unused, Unused>>, fixed |-> FALSE],
    [slots |-> <<Label, File("A")>> \o MCUnused \o <<Unused, Unused>>, fixed |-> TRUE] }

MCStale == {MCUnused}

=============================================================================
