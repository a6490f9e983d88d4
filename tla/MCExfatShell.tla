---------------------------- MODULE MCExfatShell ----------------------------
(* Volumes and bounds for the model checking of ExfatShell. *)
EXTENDS ShellNaming, TLC

(* Clusters 2 and 3 have the bitmap and the up-case table, 4 is the root.  *)
MCCluster == 2..7

\* "A" and "a" have one hash.
MCName == {"a", "A", "b"}
MCUpper == [n \in MCName \union {""} |-> IF n = "a" THEN "A" ELSE n]

Dir(n, c, linked) == [name |-> n, clu |-> c, dir |-> TRUE, size |-> 1, linked |-> linked]
File(n, c) == [name |-> n, clu |-> c, dir |-> FALSE, size |-> 1, linked |-> FALSE]
Empty(n) == [name |-> n, clu |-> 0, dir |-> FALSE, size |-> 0, linked |-> TRUE]

Blank == [c \in MCCluster |-> <<>>]

(* /a, linked, with the file b; and /b, contiguous, in which b is an empty *)
(* file made by another system.                                            *)
MCImages ==
  { [disk |-> [Blank EXCEPT ![4] = <<Dir("a", 5, TRUE)>>, ![5] = <<File("b", 6)>>],
     used |-> 2..6],
    [disk |-> [Blank EXCEPT ![4] = <<Dir("b", 5, FALSE)>>, ![5] = <<Empty("b")>>],
     used |-> 2..5] }

MCPaths ==
  [abs : {TRUE}, names : {<<>>, <<"a">>, <<"b">>, <<"a", "b">>, <<"b", "b">>}]
    \union [abs : {FALSE}, names : {<<"a">>, <<"A">>, <<"b">>}]

=============================================================================
