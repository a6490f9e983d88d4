----------------------------- MODULE Namespace -----------------------------
(***************************************************************************)
(* What a user of the shell is promised: a tree of names, each of them     *)
(* reached by one path, and a current directory that is in the tree.  A    *)
(* command makes one name in a directory that is there, or takes away one  *)
(* that has nothing below it, or moves to another directory.               *)
(***************************************************************************)
EXTENDS Naturals, Sequences

CONSTANT Name       \* the names of files and directories

VARIABLES paths,    \* the paths that exist; <<>> is the root
          cwd       \* the path of the current directory

spaceVars == <<paths, cwd>>

(* The path of the directory a path is in. *)
Parent(p) == SubSeq(p, 1, Len(p) - 1)

(* The paths of the names in a directory. *)
Inside(p) == {q \in paths : q # <<>> /\ Parent(q) = p}

TypeOK == paths \subseteq Seq(Name) /\ cwd \in Seq(Name)

(* A volume with nothing lost: every directory on the way is there. *)
Tree == <<>> \in paths /\ \A p \in paths : p # <<>> => Parent(p) \in paths

Init == TypeOK /\ Tree /\ cwd = <<>>

Make(p) ==
  /\ p # <<>>
  /\ p \in Seq(Name)
  /\ Parent(p) \in paths
  /\ paths' = paths \union {p}
  /\ UNCHANGED cwd

Take(p) ==
  /\ p \notin {<<>>, cwd}
  /\ Inside(p) = {}
  /\ paths' = paths \ {p}
  /\ UNCHANGED cwd

ChangeDir ==
  /\ cwd' \in paths
  /\ UNCHANGED paths

Next ==
  \/ \E p \in paths' \ paths : Make(p)
  \/ \E p \in paths \ paths' : Take(p)
  \/ ChangeDir

Spec == Init /\ [][Next]_spaceVars

-----------------------------------------------------------------------------
(* Every directory on the way to a name is there, and so is the current    *)
(* one: the prompt never shows a path that leads nowhere.                  *)
Rooted == Tree /\ cwd \in paths

=============================================================================
