----------------------------- MODULE ExfatNames -----------------------------
(***************************************************************************)
(* The properties of ExfatDentries: the names that are read back from the  *)
(* dentries, and how they change.                                          *)
(***************************************************************************)
EXTENDS ExfatDentries

(* A kill leaves no entry set of which a part was written, and no          *)
(* directory of which a part was moved, if it comes before the first write *)
(* or when what is still to be written is on disk already.                 *)
Whole == at > 1 => \A k \in DOMAIN slots : Clusters(k) >= at => slots[k] = buf[k]

CarefulNext == Command \/ (Whole /\ Kill)

(* The clusters a directory grows by hold zeros: the code clears none,     *)
(* neither when it takes one nor when it frees it.                         *)
Zeroed == \A c \in Stale : \A k \in DOMAIN c : c[k] = Unused

CarefulSpec == Zeroed /\ Init /\ [][CarefulNext]_vars

-----------------------------------------------------------------------------
(* The stream and the name dentries of the file dentry at i are behind it, *)
(* the first of these with text of the name.                               *)
SetAt(s, i) ==
  LET n == s[i].name
  IN  /\ n \in Name
      /\ s[i].part = Chunks[n] + 1
      /\ i + Chunks[n] + 1 <= Len(s)
      /\ s[i + 1].type = "stream" /\ s[i + 1].used /\ s[i + 1].name = n
      /\ s[i + 2].name = n /\ s[i + 2].part = 1
      /\ \A k \in i + 2..i + Chunks[n] + 1 : s[k].type = "name" /\ s[k].used

(* A directory in order: the sets of its files are whole, all is unused    *)
(* behind the end, and no two files have one hash.  Name dentries of no    *)
(* file may be in use: remove leaves those of long names.                  *)
Sound(s) ==
  /\ s \in Seq(Dentry)
  /\ \A i \in DOMAIN s : IsFile(s[i]) => SetAt(s, i)
  /\ \A i \in DOMAIN s : s[i].type = "unused" =>
       \A j \in i..Len(s) : s[j].type = "unused" /\ ~s[j].used
  /\ \A i, j \in DOMAIN s :
       IsFile(s[i]) /\ IsFile(s[j]) /\ Hash[s[i].name] = Hash[s[j].name] => i = j

(* The directory was in order when the program was started first.          *)
SoundImages ==
  \A s \in Images :
    Sound(s) /\ Len(s) % PerCluster = 0 /\ Len(s) <= MaxClusters * PerCluster
ASSUME SoundImages

(* What the name dentries behind the file dentry at i are read as.         *)
NameAt(s, i) == NameRead(s, i + 2, s[i].name)

(* The names of the files whose dentries are in use, in their order.       *)

FileNames(s) ==
  LET From[i \in 1..Len(s) + 1] ==
        IF i > Len(s) THEN <<>>
        ELSE IF IsFile(s[i]) THEN <<NameAt(s, i)>> \o From[i + 1] ELSE From[i + 1]
  IN  From[1]

(* What the program finds is what there is: the children in memory are the *)
(* files in use on disk, each once, in their order, though traverse skips  *)
(* and stops by rules of its own, and trim moves dentries and reloads      *)
(* nothing.                                                                *)
KidsAreFiles == Idle => kids = FileNames(slots)

(* CHANGELOG.md: "Prohibit to create duplicate filename in exFAT", that is *)
(* none with the hash of another, although create asks only the children   *)
(* in memory.                                                              *)
NoNameTwice == \A i, j \in DOMAIN kids : Hash[kids[i]] = Hash[kids[j]] => i = j

(* Nothing in use lies behind the first unused dentry, where remove, trim  *)
(* and rmdir do not look but traverse does.                                *)
UnusedIsLast == Idle => \A k \in End(slots)..Len(slots) : ~slots[k].used

(* Removing any file that is listed marks its own file dentry, and no      *)
(* dentry that another file's name is read from.                           *)
RemovesItsOwn ==
  Idle => \A k \in DOMAIN kids :
    LET left == Deleted(slots, Match(slots, kids[k])) IN Listed(left) = RemoveAt(kids, k)

(* CHANGELOG.md: "trim doesn't work correctly around boundary unit".  When *)
(* trim has returned, the dentries in use come first, those it had in its  *)
(* buffer are all on disk, and no cluster is without one.  That none is    *)
(* lost on the way to the buffer is for ImplementsDirectory to say.        *)
TrimIsTight ==
  [][asked.op = "trim" /\ Return =>
       /\ \A k \in DOMAIN slots' : slots'[k].used <=> k < End(slots')
       /\ InUse(slots') = InUse(buf)
       /\ Len(slots') - Len(InUse(slots')) < PerCluster]_vars

(* CHANGELOG.md: "Support to remove empty directory".  A directory whose   *)
(* files were all removed counts as empty for rmdir.                       *)
EmptyIsEmpty == Idle /\ Listed(slots) = <<>> => InUse(slots) = <<>>

(* The commands do to the names what DirectoryNames says.  A name of more  *)
(* than 15 letters is added as the one it is read back as (Shown).  remove *)
(* is asked for any name that is the same but for the case of letters      *)
(* memcmp does not see.  During trim the names are those of its buffer.    *)
Like(n) == {m \in Name : Hash[m] = Hash[n] /\ Seen[m] = Seen[n]}

NamesOn(s) == {Listed(s)[k] : k \in DOMAIN Listed(s)}

Promise == INSTANCE DirectoryNames WITH
             names <- NamesOn(IF asked.op = "trim" THEN buf ELSE slots),
             adds <- IF asked.op \in {"create", "fill"} THEN asked.names ELSE {},
             takes <- IF asked.op = "remove" THEN UNION {Like(n) : n \in asked.names} ELSE {}

ImplementsDirectory == Promise!Spec

=============================================================================
