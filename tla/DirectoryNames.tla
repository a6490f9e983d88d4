--------------------------- MODULE DirectoryNames ---------------------------
(***************************************************************************)
(* What create, remove, fill and trim promise about one directory: a set   *)
(* of names, to which a command adds the names it was asked to add, or     *)
(* from which it takes the ones it was asked to take, and no others.       *)
(***************************************************************************)
CONSTANT Name

VARIABLES names,    \* the names in the directory
          adds,     \* those the running command is to add
          takes     \* and those it is to take

dirVars == <<names, adds, takes>>

TypeOK == names \subseteq Name /\ adds \subseteq Name /\ takes \subseteq Name

Init == TypeOK /\ adds = {} /\ takes = {}

(* A command is about nothing that is there already when it adds.          *)
Ask ==
  /\ adds = {} /\ takes = {}
  /\ adds' \in SUBSET (Name \ names) /\ takes' \in SUBSET Name
  /\ adds' = {} \/ takes' = {}
  /\ UNCHANGED names

(* Part of what was asked is done. *)
Work ==
  /\ names' \ names \subseteq adds
  /\ names \ names' \subseteq takes
  /\ UNCHANGED <<adds, takes>>

(* The command returns, with everything done. *)
Answer ==
  /\ adds \subseteq names
  /\ takes \intersect names = {}
  /\ adds' = {} /\ takes' = {}
  /\ UNCHANGED names

(* The program is killed, with whatever was done. *)
Kill == adds' = {} /\ takes' = {} /\ UNCHANGED names

Next ==
  \/ Ask
  \/ Work
  \/ Answer
  \/ Kill

Spec == Init /\ [][Next]_dirVars

=============================================================================
