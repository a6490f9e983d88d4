------------------------------ MODULE FatNames ------------------------------
(***************************************************************************)
(* The properties of FatDentries, for names whose short forms differ: the  *)
(* code makes the same short name of all names with the same first six     *)
(* letters, and removes them together.                                     *)
(***************************************************************************)
EXTENDS FatDentries

(* The files of a directory as they lie on disk: the positions of their    *)
(* dentries, and the name a file has by what stands before it.             *)
FilesOn(s) == {k \in 1..End(s) - 1 : s[k].type = "short"}

NameAt(s, k) == IF k > 1 /\ s[k - 1].type = "long" THEN s[k - 1].name ELSE s[k].name

(* No file has the name that create's will be read back as, or its short   *)
(* form.                                                                   *)
CarefulCreate(n) ==
  \A k \in FilesOn(slots) : slots[k].name # Short[n] /\ NameAt(slots, k) # Shown[n]

(* The file's dentries have the short name and the checksum the program    *)
(* makes of its name, and no others have.                                  *)
CarefulRemove(n) ==
  \A g \in Garbage, k \in 1..End(slots) - 1 :
    CASE slots[k].type \in {"short", "label"} -> slots[k].name = Short[n] <=> NameAt(slots, k) = n
      [] slots[k].type = "long" -> slots[k].sum = Checksum[Short[n], g] <=> slots[k].name = n
      [] OTHER -> TRUE

(* No kill comes when a part of what a command changes has been written.   *)
Whole == at > 1 => \A k \in DOMAIN slots : PartOf(k) >= at => slots[k] = buf[k]

CarefulNext ==
  \/ \E n \in Given : CarefulCreate(n) /\ Create(n)
  \/ \E n \in Name : CarefulRemove(n) /\ RemoveName(n)
  \/ Trim
  \/ \E count \in Counts : Fill(count)
  \/ Write
  \/ Return
  \/ Whole /\ Kill

(* The clusters a directory grows by hold zeros: the code clears none,     *)
(* neither when it takes one nor when it frees it.                         *)
Zeroed == \A c \in Stale : \A k \in DOMAIN c : c[k] = Unused

CarefulSpec == Zeroed /\ Init /\ [][CarefulNext]_vars

-----------------------------------------------------------------------------
(* Each piece of a long name is followed by the next, the last by the file. *)
Followed(s, k) ==
  LET d == s[k]
      next == Dent(s, k + 1)
  IN  IF d.ord = 1 THEN next.type = "short" ELSE next = [d EXCEPT !.ord = d.ord - 1]

WholeSets(s) == \A k \in 1..End(s) - 1 : s[k].type = "long" => Followed(s, k)

NothingBehind(s) == \A k \in End(s)..Len(s) : s[k].type = "unused"

(* A directory in order. *)
Sound(s) ==
  /\ s \in Seq(Dentry)
  /\ WholeSets(s)
  /\ NothingBehind(s)
  /\ \A k \in DOMAIN s : s[k].type \in {"short", "long"} => s[k].name \in Name

(* The directory was in order when the program was started first.          *)
SoundImages ==
  \A m \in Images :
    /\ Sound(m.slots)
    /\ ~m.fixed => /\ Len(m.slots) % PerCluster = 0
                   /\ Len(m.slots) <= MaxClusters * PerCluster
ASSUME SoundImages

(* The names of the files, in the order of their dentries.                 *)
FileNames(s) ==
  LET From[i \in 1..Len(s) + 1] ==
        IF i > Len(s) THEN <<>>
        ELSE IF i \in FilesOn(s) THEN <<NameAt(s, i)>> \o From[i + 1] ELSE From[i + 1]
  IN  From[1]

(* What the program finds is what there is: the children in memory are the *)
(* files on disk by the names they have there, though traverse finds the   *)
(* file of a long name by its count of pieces, and trim moves dentries and *)
(* reloads nothing.                                                        *)
KidsAreFiles == Idle => kids = FileNames(slots)

(* A long name is never left without its file, nor in part: not by remove, *)
(* which marks its pieces one by one and the file's dentry for another     *)
(* reason, nor by a kill, nor where a set lies in two clusters.            *)
SetsAreWhole == Idle => WholeSets(slots)

(* No dentry lies behind the first unused one, where no command looks.     *)
UnusedIsLast == Idle => NothingBehind(slots)

(* CHANGELOG.md: "trim doesn't work correctly around boundary unit".  When *)
(* trim has returned, the dentries in use come first, those it had in its  *)
(* buffer are all on disk, and no cluster is without one.  That none is    *)
(* lost on the way to the buffer is for ImplementsDirectory to say.        *)
TrimIsTight ==
  [][asked.op = "trim" /\ Return =>
       /\ \A k \in 1..End(slots') - 1 : slots'[k].type # "deleted"
       /\ InUse(slots') = InUse(buf)
       /\ fixed \/ Len(slots') - Len(InUse(slots')) < PerCluster]_vars

(* The commands do to the names what DirectoryNames says: the promise of   *)
(* exFAT's, kept by another code.  The name that create adds is the one    *)
(* that its pieces read as.  remove and rmdir may do nothing.  Between two *)
(* writes a file may have lost its long name: what is done is done with    *)
(* the first.                                                              *)
Promise == INSTANCE DirectoryNames WITH
             names <- ToSet(Listed(IF at > 1 THEN buf ELSE slots)),
             adds <- IF asked.op \in {"create", "fill"} THEN asked.names ELSE {},
             takes <- IF asked.op = "remove" THEN asked.names ELSE {}

ImplementsDirectory == Promise!Spec

=============================================================================
