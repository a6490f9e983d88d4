-------------------------- MODULE FatOwnershipProofs --------------------------
(***************************************************************************)
(* Proofs about the FAT16 and FAT32 allocator, for every volume: its types,*)
(* under every command; and under every command but the raw ones that harm *)
(* a chain, with the program killed at any step, that no entry links to a  *)
(* free cluster, that no cluster is reached in two ways, and that it gives *)
(* what ClusterOwnership promises.  At last, that under careful use a      *)
(* directory gets as many clusters as it was to get, and keeps as many.    *)
(***************************************************************************)
EXTENDS FatOwnership, InductionLemmas, SequenceTheorems

(* No link to a free cluster and one way in are proved together, with what *)
(* they rest on in the middle of a command (Ready): a cluster taken is     *)
(* reached by no link and by no directory until it is linked, and a        *)
(* cluster about to be freed by none any more.                             *)


\* c is a cluster no link and no directory leads to.
Unreached(c) == c \notin known /\ \A w \in Word : fat[w] # c

(* What holds at the labels of a command, beyond the types: the cluster    *)
(* just taken is marked, and nothing leads to it; nor does anything to the *)
(* cluster to be freed next; a new directory's dentry gets no cluster; and *)
(* every dentry's first cluster is known.                                  *)
Ready ==
  /\ pc = "link" /\ r.next \in Cluster => fat[r.next] # 0 /\ Unreached(r.next)
  /\ pc = "walk" => r.ret = EndMark
  /\ pc = "cut" /\ r.ret = 0 /\ r.clu \in Cluster => Unreached(r.clu)
  /\ pc = "enter" => r.clu \notin Cluster
  /\ \A s \in Slot : first[s] # 0 => first[s] \in known

IInv == TypeOK /\ NoLinkToFree /\ OneWayIn /\ Ready

-----------------------------------------------------------------------------
(* Types.                                                                  *)

LEMMA Sizes ==
  /\ Cluster \subseteq Word /\ Word \subseteq Nat /\ EndMark \in Word \ Cluster
  /\ 0 \in Word \ Cluster /\ FAT_FSTCLUSTER \in FAT_FSTCLUSTER..(ClusterCount - 1)
  /\ ClusterCount \in Nat /\ ClusterCount < EndMark
BY FatAssumption DEF Cluster, Word, EndMark, FAT_FSTCLUSTER

LEMMA Next1 == ASSUME NEW n \in Nat PROVE n + 1 \in Nat /\ n + 1 > 0
OBVIOUS

LEMMA NoCallType == NoCall \in Registers
BY Sizes DEF NoCall, Registers

\* fat16_set_fat_entry keeps the FAT a table of words.
LEMMA SetFatType ==
  ASSUME NEW clu, NEW entry \in Word, fat \in [Word -> Word], SetFat(clu, entry)
  PROVE  fat' \in [Word -> Word]
BY DEF SetFat

\* What the end of a command, or of its first half, leaves in the registers.
LEMMA ReturnType ==
  ASSUME Return
  PROVE  /\ pc' = "idle" /\ r' \in Registers
BY NoCallType DEF Return

LEMMA AddTheEntryType ==
  ASSUME r \in Registers, AddTheEntry
  PROVE  /\ r' \in Registers
         /\ pc' = "idle" \/ (pc' = "new" /\ r'.new \in Slot /\ r'.next = FAT_FSTCLUSTER)
BY ReturnType, Sizes DEF AddTheEntry, Goto, Registers, FAT_FSTCLUSTER

LEMMA InitType == Init => TypeOK
<1> SUFFICES ASSUME Init PROVE TypeOK
  OBVIOUS
<1>1. PICK img \in Images :
        fat = img.fat /\ first = img.first /\ known = {img.first[s] : s \in Slot} \ {0}
        /\ pc = "idle" /\ r = NoCall
  BY DEF Init
<1>2. img.fat \in [Word -> Word] /\ img.first \in [Slot -> Word]
  BY FatAssumption
<1>3. QED  BY <1>1, <1>2, NoCallType DEF TypeOK, Label

LEMMA CountType ==
  ASSUME TypeOK, CountLink \/ (\E n \in 1..MaxGrow : CountedToGrow(n)) \/ CountedToFit
                 \/ \E n \in 0..(r.base + 1) : CountedToTrim(n)
  PROVE  TypeOK'
<1> USE Sizes
<1>0. r \in Registers /\ r.base \in Nat /\ r.clu \in Word /\ r.obj \in Word /\ fat \in [Word -> Word]
  BY DEF TypeOK, Registers
<1>1. CASE CountLink
  <2>1. r' \in Registers
    <3>1. fat[r.clu] \in Word /\ r.base + 1 \in Nat
      BY <1>0, Next1
    <3>2. QED  BY <1>0, <1>1, <3>1 DEF CountLink, Registers
  <2>2. QED  BY <1>1, <2>1 DEF TypeOK, CountLink, Label
<1>2. ASSUME NEW n \in 1..MaxGrow, CountedToGrow(n) PROVE TypeOK'
  <2>1. r' \in Registers /\ r'.num = n
    <3>1. fat[r.obj] \in Word /\ fat[r.obj] \in Nat /\ r.base + 1 \in Nat
      BY <1>0, Next1
    <3>2. n \in Nat
      BY FatAssumption
    <3>3. QED  BY <1>0, <1>2, <3>1, <3>2 DEF CountedToGrow, Registers
  <2>2. QED  BY <1>2, <2>1 DEF TypeOK, CountedToGrow, Goto, Label
<1>3. CASE CountedToFit
  <2>1. r' \in Registers /\ UNCHANGED <<fat, first, known>>
        /\ (pc' = "idle" \/ (pc' = "new" /\ r'.new \in Slot /\ r'.next = FAT_FSTCLUSTER))
    BY <1>0, <1>3, AddTheEntryType DEF CountedToFit
  <2>2. QED  BY <2>1 DEF TypeOK, Label
<1>4. ASSUME NEW n \in 0..(r.base + 1), CountedToTrim(n) PROVE TypeOK'
  <2>1. r' \in Registers /\ r'.base > 0
    <3>1. r.base + 1 \in Nat /\ r.base + 1 > 0 /\ n \in Nat
      BY <1>0, Next1
    <3>2. QED  BY <1>0, <1>4, <3>1 DEF CountedToTrim, Registers
  <2>2. QED  BY <1>4, <2>1 DEF TypeOK, CountedToTrim, Goto, Label
<1>5. QED  BY <1>1, <1>2, <1>3, <1>4

\* The cluster a search looks at is one of those searched, whatever it started from.
LEMMA CandidateSearched ==
  ASSUME TypeOK, pc = "scan"
  PROVE  Candidate \in 1..(ClusterCount - 1) /\ Candidate \in Word
BY Sizes DEF TypeOK, Registers, Candidate, Word, EndMark, FAT_FSTCLUSTER

LEMMA AllocType ==
  ASSUME TypeOK, AllocStep
  PROVE  TypeOK'
<1> USE Sizes
<1>0. /\ r \in Registers /\ fat \in [Word -> Word]
      /\ r.clu \in Word /\ r.next \in Nat /\ r.num \in Nat /\ r.left \in Nat
  BY DEF TypeOK, Registers
<1>1. CASE LastFollow
  BY <1>0, <1>1 DEF TypeOK, LastFollow, Registers, Label
<1>2. CASE LastFound
  <2>1. r.clu + 1 \in Nat /\ r.clu + 1 > 0 /\ r.num \in 1..r.num
    BY <1>0, <1>2 DEF LastFound, TypeOK
  <2>2. QED  BY <1>0, <1>2, <2>1 DEF TypeOK, LastFound, Goto, Registers, Label
<1>3. CASE ScanSkip
  <2>1. Candidate + 1 \in Nat /\ Candidate + 1 > 0
    BY <1>3, CandidateSearched DEF ScanSkip
  <2>2. QED  BY <1>0, <1>3, <2>1 DEF TypeOK, ScanSkip, Registers, Label
<1>4. CASE ScanTake
  <2>1. Candidate \in Nat /\ Candidate > 0 /\ Candidate < ClusterCount
    BY <1>4, CandidateSearched DEF ScanTake
  <2>2. fat' \in [Word -> Word]
    BY <1>0, <1>4, SetFatType DEF ScanTake
  <2>3. QED  BY <1>0, <1>4, <2>1, <2>2 DEF TypeOK, ScanTake, Goto, Registers, Label
<1>5. CASE Link
  <2>1. r.next \in Word /\ r.next + 1 \in Nat /\ r.next + 1 > 0
    BY <1>0, <1>5 DEF TypeOK, Link, Word
  <2>2. fat' \in [Word -> Word] /\ UNCHANGED <<first, known>>
    BY <1>0, <1>5, <2>1, SetFatType DEF Link
  <2>3. CASE r.left = 1
    <3>1. r' \in Registers
          /\ (pc' = "idle" \/ (pc' = "new" /\ r'.new \in Slot /\ r'.next = FAT_FSTCLUSTER))
      BY <1>0, <1>5, <2>3, AddTheEntryType DEF Link
    <3>2. QED  BY <2>2, <3>1 DEF TypeOK, Label
  <2>4. CASE r.left # 1
    <3>1. r.left - 1 \in 1..r.num /\ r.left - 1 \in Nat
      BY <1>0, <1>5, <2>4 DEF TypeOK, Link
    <3>2. QED  BY <1>0, <1>5, <2>1, <2>2, <2>4, <3>1 DEF TypeOK, Link, Goto, Registers, Label
  <2>5. QED  BY <2>3, <2>4
<1>6. CASE ScanExhausted
  <2>1. r' \in Registers /\ UNCHANGED <<fat, first, known>>
        /\ (pc' = "idle" \/ (pc' = "new" /\ r'.new \in Slot /\ r'.next = FAT_FSTCLUSTER))
    BY <1>0, <1>6, AddTheEntryType DEF ScanExhausted
  <2>2. QED  BY <2>1 DEF TypeOK, Label
<1>7. QED  BY <1>1, <1>2, <1>3, <1>4, <1>5, <1>6 DEF AllocStep

LEMMA NewType ==
  ASSUME TypeOK, NewStep
  PROVE  TypeOK'
<1> USE Sizes
<1>0. r \in Registers /\ fat \in [Word -> Word] /\ r.clu \in Word /\ r.next \in Nat
  BY DEF TypeOK, Registers
<1>1. CASE NewSkip
  <2>1. r' \in Registers /\ r'.next \in FAT_FSTCLUSTER..ClusterCount /\ r'.new = r.new
    BY <1>0, <1>1 DEF TypeOK, NewSkip, Registers, FAT_FSTCLUSTER
  <2>2. QED  BY <1>1, <2>1 DEF TypeOK, NewSkip, Label
<1>2. CASE NewTake
  <2>1. r.next \in Word
    BY <1>0, <1>2 DEF NewTake, Word
  <2>2. fat' \in [Word -> Word] /\ fat[r.next] \in Word
    BY <1>0, <1>2, <2>1, SetFatType DEF NewTake
  <2>3. r' \in Registers /\ r'.new = r.new
    BY <1>0, <1>2, <2>2 DEF NewTake, Registers
  <2>4. QED  BY <1>2, <2>2, <2>3 DEF TypeOK, NewTake, Goto, Label
<1>3. CASE NewExhausted
  <2>1. r' \in Registers /\ r'.new = r.new
    BY <1>0, <1>3 DEF NewExhausted, Registers
  <2>2. QED  BY <1>3, <2>1 DEF TypeOK, NewExhausted, Goto, Label
<1>4. CASE Enter
  <2>1. pc' = "idle" /\ r' \in Registers
    BY <1>4, ReturnType DEF Enter
  <2>2. QED  BY <1>0, <1>4, <2>1 DEF TypeOK, Enter, Label
<1>5. QED  BY <1>1, <1>2, <1>3, <1>4 DEF NewStep

LEMMA FreeType ==
  ASSUME TypeOK, FreeStep
  PROVE  TypeOK'
<1> USE Sizes
<1>0. /\ r \in Registers /\ fat \in [Word -> Word] /\ r.clu \in Word /\ fat[r.clu] \in Word
      /\ r.i + 1 \in Nat
  BY Next1 DEF TypeOK, Registers
<1>1. CASE Walk
  <2>1. r' \in Registers /\ r'.base = r.base
    BY <1>0, <1>1 DEF Walk, Registers
  <2>2. QED  BY <1>1, <2>1 DEF TypeOK, Walk, Label
<1>2. CASE WalkDone
  BY <1>2 DEF TypeOK, WalkDone, Goto, Label
<1>3. CASE Cut
  <2>1. r' \in Registers /\ r'.base = r.base
    BY <1>0, <1>3 DEF Cut, Registers
  <2>2. r.ret \in Word
    BY <1>0 DEF Registers
  <2>3. fat' \in [Word -> Word]
    BY <1>0, <1>3, <2>2, SetFatType DEF Cut
  <2>4. QED  BY <1>3, <2>1, <2>3 DEF TypeOK, Cut, Label
<1>4. CASE CutDone
  BY <1>4, ReturnType DEF TypeOK, CutDone, Label
<1>5. QED  BY <1>1, <1>2, <1>3, <1>4 DEF FreeStep

LEMMA StepType == ASSUME TypeOK, Step PROVE TypeOK'
BY CountType, AllocType, NewType, FreeType DEF Step

LEMMA FileCommandType ==
  ASSUME TypeOK, FileCommand
  PROVE  TypeOK'
<1> USE Sizes
<1>1. ASSUME NEW c \in known \ {0}, NEW s \in Slot \union {NoSlot}, CallAdd(c, s) PROVE TypeOK'
  <2>1. c \in Word
    BY DEF TypeOK
  <2>2. r' \in Registers
    BY <1>1, <2>1, NoCallType DEF CallAdd, Registers
  <2>3. QED  BY <1>1, <2>2 DEF TypeOK, CallAdd, Goto, Label
<1>2. ASSUME NEW s \in Slot, CallAddToRoot(s) PROVE TypeOK'
  <2>1. FAT_FSTCLUSTER \in Nat /\ FAT_FSTCLUSTER \in FAT_FSTCLUSTER..ClusterCount
    BY DEF FAT_FSTCLUSTER
  <2>2. r' \in Registers /\ r'.new \in Slot /\ r'.next = FAT_FSTCLUSTER
    BY <1>2, <2>1, NoCallType DEF CallAddToRoot, Registers
  <2>3. QED  BY <1>2, <2>1, <2>2 DEF TypeOK, CallAddToRoot, Goto, Label
<1>3. ASSUME NEW c \in known \ {0}, CallTrim(c) PROVE TypeOK'
  <2>1. c \in Word
    BY DEF TypeOK
  <2>2. r' \in Registers
    BY <1>3, <2>1, NoCallType DEF CallTrim, Registers
  <2>3. QED  BY <1>3, <2>2 DEF TypeOK, CallTrim, Goto, Label
<1>4. ASSUME NEW s \in Slot, Remove(s) PROVE TypeOK'
  BY <1>4 DEF TypeOK, Remove
<1>5. QED  BY <1>1, <1>2, <1>3, <1>4 DEF FileCommand

LEMMA RawCommandType ==
  ASSUME TypeOK, RawCommand
  PROVE  TypeOK'
<1>1. PICK e \in RawEntries : ShellAlloc(e[1]) \/ ShellRelease(e[1]) \/ ShellFat(e[1], e[2])
  BY DEF RawCommand
<1>2. e[1] \in Word /\ e[2] \in Word /\ fat \in [Word -> Word]
  BY FatAssumption DEF TypeOK
<1>3. fat' \in [Word -> Word] /\ UNCHANGED <<first, known, pc, r>>
  BY <1>1, <1>2, SetFatType, Sizes DEF ShellAlloc, ShellRelease, ShellFat
<1>4. QED  BY <1>3 DEF TypeOK

LEMMA RestartType ==
  ASSUME TypeOK, Restart
  PROVE  TypeOK'
BY ReturnType DEF TypeOK, Restart, OnDisk, Label

LEMMA NextType == TypeOK /\ [Next]_vars => TypeOK'
<1>1. ASSUME TypeOK, UNCHANGED vars PROVE TypeOK'
  BY <1>1 DEF TypeOK, vars
<1>2. QED
  BY <1>1, StepType, FileCommandType, RawCommandType, RestartType DEF Next

\* No register and no FAT entry leaves its range, and a search never takes a cluster past
\* those it may, whatever commands are typed (raw ones and kills included).
THEOREM TypeCorrect == Spec => []TypeOK
<1>1. QED  BY InitType, NextType, PTL DEF Spec

-----------------------------------------------------------------------------
(* Ownership.                                                              *)

LEMMA InitReady == Init => NoLinkToFree /\ OneWayIn /\ Ready
<1> SUFFICES ASSUME Init PROVE NoLinkToFree /\ OneWayIn /\ Ready
  OBVIOUS
<1>1. PICK img \in Images :
        fat = img.fat /\ first = img.first /\ known = {img.first[s] : s \in Slot} \ {0}
        /\ pc = "idle"
  BY DEF Init
<1>2. NoLinkToFree
  BY <1>1, SoundImages DEF NoLinkToFree
<1>3. OneWayIn
  <2>1. \A v, w \in Word : fat[v] = fat[w] /\ fat[v] \in Cluster => v = w
    BY <1>1, SoundImages
  <2>2. ASSUME NEW d \in known \intersect Cluster PROVE fat[d] # 0 /\ \A w \in Word : fat[w] # d
    <3>1. PICK s \in Slot : d = first[s]
      BY <1>1
    <3>2. QED  BY <1>1, <3>1, SoundImages
  <2>3. QED  BY <2>1, <2>2 DEF OneWayIn
<1>4. Ready
  BY <1>1 DEF Ready
<1>5. QED  BY <1>2, <1>3, <1>4

\* A step that leaves the FAT, the dentries and the directories alone.
LEMMA SameDisk ==
  ASSUME IInv, UNCHANGED <<fat, first, known>>
  PROVE  NoLinkToFree' /\ OneWayIn' /\ (\A s \in Slot : first[s] # 0 => first[s] \in known)'
BY DEF IInv, NoLinkToFree, OneWayIn, Ready

\* Marking an entry as the end of a chain makes no link and frees nothing.
LEMMA MarkEnd ==
  ASSUME IInv, NEW clu \in Word, SetFat(clu, EndMark), UNCHANGED known
  PROVE  NoLinkToFree' /\ OneWayIn'
<1>1. fat \in [Word -> Word] /\ EndMark \notin Cluster /\ EndMark # 0 /\ Cluster \subseteq Word
  BY Sizes DEF IInv, TypeOK
<1>2. \A w \in Word : fat'[w] = IF w = clu THEN EndMark ELSE fat[w]
  BY <1>1 DEF SetFat
<1>3. NoLinkToFree'
  BY <1>1, <1>2 DEF IInv, NoLinkToFree
<1>4. OneWayIn'
  BY <1>1, <1>2 DEF IInv, OneWayIn
<1>5. QED  BY <1>3, <1>4

\* Freeing an entry nothing leads to.
LEMMA FreeUnreached ==
  ASSUME IInv, NEW clu \in Word, clu \in Cluster => Unreached(clu), SetFat(clu, 0), UNCHANGED known
  PROVE  NoLinkToFree' /\ OneWayIn'
<1>1. fat \in [Word -> Word] /\ 0 \notin Cluster /\ Cluster \subseteq Word
  BY Sizes DEF IInv, TypeOK
<1>2. \A w \in Word : fat'[w] = IF w = clu THEN 0 ELSE fat[w]
  BY <1>1 DEF SetFat
<1>3. NoLinkToFree'
  BY <1>1, <1>2 DEF IInv, NoLinkToFree, Unreached
<1>4. OneWayIn'
  BY <1>1, <1>2 DEF IInv, OneWayIn, Unreached
<1>5. QED  BY <1>3, <1>4

\* Linking an entry to a marked cluster nothing leads to, or to a word that is no cluster.
LEMMA LinkUnreached ==
  ASSUME IInv, NEW clu \in Word, NEW next \in Word, next # 0,
         next \in Cluster => fat[next] # 0 /\ Unreached(next),
         SetFat(clu, next), UNCHANGED known
  PROVE  NoLinkToFree' /\ OneWayIn'
<1>1. fat \in [Word -> Word] /\ Cluster \subseteq Word
  BY Sizes DEF IInv, TypeOK
<1>2. \A w \in Word : fat'[w] = IF w = clu THEN next ELSE fat[w]
  BY <1>1 DEF SetFat
<1>3. NoLinkToFree'
  BY <1>1, <1>2 DEF IInv, NoLinkToFree
<1>4. OneWayIn'
  <2>1. \A v, w \in Word : fat'[v] = fat'[w] /\ fat'[v] \in Cluster => v = w
    BY <1>2 DEF IInv, OneWayIn, Unreached
  <2>2. \A d \in known \intersect Cluster : fat'[d] # 0 /\ \A w \in Word : fat'[w] # d
    BY <1>1, <1>2 DEF IInv, OneWayIn, Unreached
  <2>3. QED  BY <2>1, <2>2 DEF OneWayIn
<1>5. QED  BY <1>3, <1>4

LEMMA StepInv ==
  ASSUME IInv, Step
  PROVE  NoLinkToFree' /\ OneWayIn' /\ Ready'
<1>0. TypeOK /\ fat \in [Word -> Word] /\ r.clu \in Word /\ r.ret \in {0, EndMark} /\ r.new \in Slot \union {NoSlot}
  BY DEF IInv, TypeOK, Registers
<1>1. CASE CountLink \/ LastFollow \/ LastFound \/ ScanSkip \/ NewSkip \/ Walk \/ WalkDone
           \/ (\E n \in 1..MaxGrow : CountedToGrow(n)) \/ \E n \in 0..(r.base + 1) : CountedToTrim(n)
  <2>1. UNCHANGED <<fat, first, known>>
    BY <1>1 DEF CountLink, LastFollow, LastFound, ScanSkip, NewSkip, Walk, WalkDone,
                CountedToGrow, CountedToTrim
  <2>2. /\ pc' \in {"count", "last", "scan", "new", "walk", "cut"}
        /\ pc' = "walk" => r'.ret = EndMark
        /\ pc' = "cut" => r'.ret = EndMark
    <3>1. CASE CountLink \/ LastFollow \/ LastFound \/ ScanSkip \/ NewSkip
      BY <3>1 DEF CountLink, LastFollow, LastFound, ScanSkip, NewSkip, Goto
    <3>2. CASE Walk
      <4>1. r'.ret = r.ret
        BY <1>0, <3>2 DEF Walk, TypeOK, Registers
      <4>2. QED  BY <3>2, <4>1 DEF Walk, IInv, Ready
    <3>3. CASE WalkDone
      BY <3>3 DEF WalkDone, Goto, IInv, Ready
    <3>4. CASE \E n \in 1..MaxGrow : CountedToGrow(n)
      BY <3>4 DEF CountedToGrow, Goto
    <3>5. ASSUME NEW n \in 0..(r.base + 1), CountedToTrim(n) PROVE pc' = "walk" /\ r'.ret = EndMark
      BY <1>0, <3>5 DEF CountedToTrim, Goto, TypeOK, Registers
    <3>6. QED  BY <1>1, <3>1, <3>2, <3>3, <3>4, <3>5
  <2>3. EndMark # 0
    BY Sizes
  <2>4. QED  BY <2>1, <2>2, <2>3, SameDisk DEF Ready
<1>2. CASE CountedToFit \/ ScanExhausted \/ NewExhausted \/ CutDone
  <2>1. UNCHANGED <<fat, first, known>>
    BY <1>2 DEF CountedToFit, ScanExhausted, NewExhausted, CutDone
  <2>2. pc' \in {"idle", "new"} \/ (pc' = "enter" /\ r'.clu = 0)
    <3>1. CASE NewExhausted
      BY <1>0, <3>1 DEF NewExhausted, Goto, TypeOK, Registers
    <3>2. CASE CountedToFit \/ ScanExhausted \/ CutDone
      BY <1>0, <3>2 DEF CountedToFit, ScanExhausted, CutDone, AddTheEntry, Return, Goto
    <3>3. QED  BY <1>2, <3>1, <3>2
  <2>3. QED  BY <2>1, <2>2, SameDisk, Sizes DEF Ready
<1>3. CASE ScanTake
  <2>1. Candidate \in Word /\ Candidate # EndMark /\ Candidate \in Nat
    BY <1>0, <1>3, CandidateSearched, Sizes DEF ScanTake
  <2>2. NoLinkToFree' /\ OneWayIn'
    BY <1>3, <2>1, MarkEnd DEF ScanTake
  <2>3. pc' = "link" /\ r'.next = Candidate /\ first' = first /\ known' = known
    BY <1>0, <1>3 DEF ScanTake, Goto, TypeOK, Registers
  <2>4. \A w \in Word : fat'[w] = IF w = Candidate THEN EndMark ELSE fat[w]
    BY <1>0, <1>3 DEF ScanTake, SetFat
  <2>5. Candidate \in Cluster => Unreached(Candidate)
    BY <1>0, <1>3, <2>1 DEF ScanTake, Unreached, IInv, NoLinkToFree, OneWayIn
  <2>6. Candidate \in Cluster => fat'[Candidate] # 0 /\ Candidate \notin known'
                                 /\ \A w \in Word : fat'[w] # Candidate
    BY <2>1, <2>3, <2>4, <2>5, Sizes DEF Unreached
  <2>7. QED  BY <2>2, <2>3, <2>6 DEF Ready, Unreached, IInv
<1>4. CASE Link
  <2>1. r.next \in Word /\ r.next # 0
    BY <1>0, <1>4, Sizes DEF Link, TypeOK, Registers, Word
  <2>2. r.next \in Cluster => fat[r.next] # 0 /\ Unreached(r.next)
    BY <1>4 DEF Link, IInv, Ready
  <2>3. NoLinkToFree' /\ OneWayIn'
    BY <1>0, <1>4, <2>1, <2>2, LinkUnreached DEF Link
  <2>4. pc' \in {"idle", "new", "scan"} /\ first' = first /\ known' = known
    BY <1>4 DEF Link, AddTheEntry, Return, Goto
  <2>5. QED  BY <2>3, <2>4 DEF Ready, IInv
<1>5. CASE NewTake
  <2>1. r.next \in Word /\ fat[r.next] \in Word /\ fat[r.next] \notin Cluster
    <3>1. r.next \in Word
      BY <1>0, <1>5, Sizes DEF NewTake, TypeOK, Registers, Word
    <3>2. QED  BY <1>0, <1>5, <3>1, Sizes DEF NewTake, IsLast, Cluster, FAT_FSTCLUSTER
  <2>2. NoLinkToFree' /\ OneWayIn'
    BY <1>5, <2>1, MarkEnd DEF NewTake
  <2>3. pc' = "enter" /\ r'.clu = fat[r.next] /\ first' = first /\ known' = known
    BY <1>0, <1>5 DEF NewTake, Goto, TypeOK, Registers
  <2>4. QED  BY <2>1, <2>2, <2>3 DEF Ready, IInv
<1>6. CASE Enter
  <2>1. r.clu \notin Cluster /\ pc' = "idle" /\ fat' = fat
        /\ known' = known \union {r.clu} /\ first' = [first EXCEPT ![r.new] = r.clu]
    BY <1>6 DEF Enter, Return, IInv, Ready
  <2>2. NoLinkToFree'
    BY <2>1 DEF IInv, NoLinkToFree
  <2>3. OneWayIn'
    BY <2>1 DEF IInv, OneWayIn
  <2>4. \A s \in Slot : first'[s] # 0 => first'[s] \in known'
    BY <1>0, <2>1 DEF TypeOK, IInv, Ready
  <2>5. QED  BY <2>1, <2>2, <2>3, <2>4 DEF Ready
<1>7. CASE Cut
  <2>1. pc' = "cut" /\ pc = "cut" /\ r'.clu = fat[r.clu] /\ r'.ret = 0 /\ first' = first /\ known' = known
    BY <1>0, <1>7 DEF Cut, TypeOK, Registers
  <2>2. NoLinkToFree' /\ OneWayIn'
    <3>1. CASE r.ret = 0
      BY <1>0, <1>7, <2>1, <3>1, FreeUnreached DEF Cut, IInv, Ready
    <3>2. CASE r.ret = EndMark
      BY <1>0, <1>7, <2>1, <3>2, MarkEnd DEF Cut
    <3>3. QED  BY <1>0, <3>1, <3>2
  <2>3. \A w \in Word : fat'[w] = IF w = r.clu THEN r.ret ELSE fat[w]
    BY <1>0, <1>7 DEF Cut, SetFat
  <2>4. ASSUME fat[r.clu] \in Cluster
        PROVE  fat[r.clu] \notin known /\ \A w \in Word : fat'[w] # fat[r.clu]
    <3>1. fat[r.clu] \notin known
      BY <1>0, <2>4 DEF IInv, OneWayIn
    <3>2. ASSUME NEW w \in Word PROVE fat'[w] # fat[r.clu]
      <4>1. CASE w = r.clu
        BY <1>0, <2>3, <2>4, <4>1, Sizes
      <4>2. CASE w # r.clu
        BY <1>0, <2>3, <2>4, <4>2 DEF IInv, OneWayIn
      <4>3. QED  BY <4>1, <4>2
    <3>3. QED  BY <3>1, <3>2
  <2>5. QED  BY <2>1, <2>2, <2>4 DEF Ready, Unreached, IInv
<1>8. QED
  BY <1>1, <1>2, <1>3, <1>4, <1>5, <1>6, <1>7 DEF Step, AllocStep, NewStep, FreeStep

LEMMA FileCommandInv ==
  ASSUME IInv, FileCommand
  PROVE  NoLinkToFree' /\ OneWayIn' /\ Ready'
<1>1. CASE \E s \in Slot : Remove(s)
  <2>1. PICK s \in Slot : Remove(s)
    BY <1>1
  <2>2. pc' = "idle" /\ UNCHANGED <<fat, known>> /\ first' = [first EXCEPT ![s] = 0]
    BY <2>1 DEF Remove
  <2>3. first \in [Slot -> Word]
    BY DEF IInv, TypeOK
  <2>4. \A t \in Slot : first'[t] # 0 => first'[t] \in known'
    BY <2>2, <2>3 DEF IInv, Ready
  <2>5. QED  BY <2>2, <2>4 DEF IInv, NoLinkToFree, OneWayIn, Ready
<1>2. CASE \/ \E c \in known \ {0}, s \in Slot \union {NoSlot} : CallAdd(c, s)
           \/ \E s \in Slot : CallAddToRoot(s)
           \/ \E c \in known \ {0} : CallTrim(c)
  <2>1. pc' \in {"count", "new"} /\ UNCHANGED <<fat, first, known>>
    BY <1>2 DEF CallAdd, CallAddToRoot, CallTrim, Goto
  <2>2. QED  BY <2>1, SameDisk DEF Ready
<1>3. QED  BY <1>1, <1>2 DEF FileCommand

LEMMA HarmlessRawInv ==
  ASSUME IInv, HarmlessRaw
  PROVE  NoLinkToFree' /\ OneWayIn' /\ Ready'
<1>1. pc' = "idle" /\ UNCHANGED <<first, known>>
  BY DEF HarmlessRaw, RawCommand, ShellAlloc, ShellRelease, ShellFat
<1>2. QED  BY <1>1 DEF HarmlessRaw, IInv, Ready

LEMMA RestartInv ==
  ASSUME IInv, Restart
  PROVE  NoLinkToFree' /\ OneWayIn' /\ Ready'
<1>1. pc' = "idle" /\ UNCHANGED <<fat, first>> /\ known' = {first[s] : s \in Slot} \ {0}
  BY DEF Restart, Return, OnDisk
<1>2. known' \subseteq known
  BY <1>1 DEF IInv, Ready
<1>3. NoLinkToFree' /\ OneWayIn'
  BY <1>1, <1>2 DEF IInv, NoLinkToFree, OneWayIn
<1>4. QED  BY <1>1, <1>3 DEF Ready

LEMMA FileNextInv == IInv /\ [FileNext]_vars => IInv'
<1>1. ASSUME IInv, UNCHANGED vars PROVE IInv'
  BY <1>1 DEF IInv, TypeOK, NoLinkToFree, OneWayIn, Ready, Unreached, vars
<1>2. ASSUME IInv, FileNext PROVE IInv'
  <2>1. TypeOK'
    BY <1>2, NextType DEF IInv, FileNext, Next, HarmlessRaw
  <2>2. NoLinkToFree' /\ OneWayIn' /\ Ready'
    BY <1>2, StepInv, FileCommandInv, HarmlessRawInv, RestartInv DEF FileNext
  <2>3. QED  BY <2>1, <2>2 DEF IInv
<1>3. QED  BY <1>1, <1>2

\* Under every command but a raw one that harms a chain, and with kills between any two writes,
\* the types, the two properties and what they rest on hold.
THEOREM Invariance == FileSpec => []IInv
<1>1. Init => IInv
  BY InitType, InitReady DEF IInv
<1>2. QED  BY <1>1, FileNextInv, PTL DEF FileSpec

\* No entry links to a free cluster: one in a chain is never found by a search.
THEOREM LinkedIsUsed == FileSpec => []NoLinkToFree
<1>1. IInv => NoLinkToFree
  BY DEF IInv
<1>2. QED  BY Invariance, <1>1, PTL

\* No cluster is reached in two ways: no two directories share one.
THEOREM OneOwner == FileSpec => []OneWayIn
<1>1. IInv => OneWayIn
  BY DEF IInv
<1>2. QED  BY Invariance, <1>1, PTL

-----------------------------------------------------------------------------
(* What is linked from a cluster, in any table of words.                   *)

ChainIn(f, c) ==
  LET hop[k \in 0..CountofClusters] == IF k = 0 THEN c ELSE f[hop[k - 1]]
      ends == {k \in 1..CountofClusters : hop[k] \notin Cluster}
      size == IF ends = {} THEN CountofClusters ELSE CHOOSE k \in ends : \A j \in ends : k <= j
  IN  IF c \notin Cluster THEN << >> ELSE [k \in 1..size |-> hop[k - 1]]

LEMMA ChainOfFat == \A c : ChainOf(c) = ChainIn(fat, c)
BY DEF ChainOf, ChainIn

\* s is the clusters linked from c, up to the first entry that is no link.
IsChain(f, c, s) ==
  /\ s \in Seq(Cluster)
  /\ Len(s) >= 1
  /\ s[1] = c
  /\ \A k \in 1..(Len(s) - 1) : s[k + 1] = f[s[k]]
  /\ f[s[Len(s)]] \notin Cluster

\* Nothing links to c, and no two entries to one cluster.
Single(f, c) ==
  /\ \A w \in Word : f[w] # c
  /\ \A v, w \in Word : f[v] = f[w] /\ f[v] \in Cluster => v = w

LEMMA ChainIsChain ==
  ASSUME NEW f \in [Word -> Word], NEW c \in Cluster, Single(f, c)
  PROVE  /\ IsChain(f, c, ChainIn(f, c))
         /\ \A j, k \in 1..Len(ChainIn(f, c)) : ChainIn(f, c)[j] = ChainIn(f, c)[k] => j = k
<1> DEFINE N == CountofClusters
           hop[k \in 0..N] == IF k = 0 THEN c ELSE f[hop[k - 1]]
           ends == {k \in 1..N : hop[k] \notin Cluster}
           size == IF ends = {} THEN N ELSE CHOOSE k \in ends : \A j \in ends : k <= j
<1>0. N \in Nat /\ Cluster \subseteq Word /\ c \in Word
  BY FatAssumption, Sizes
<1>1. Iterates(hop, f, c, N)
  <2>1. \E h \in [0..N -> Word] : Iterates(h, f, c, N)
    BY <1>0, IteratesExist
  <2>2. \E h : h = [k \in 0..N |-> IF k = 0 THEN c ELSE f[h[k - 1]]]
    BY <2>1, Zenon DEF Iterates
  <2>3. hop = [k \in 0..N |-> IF k = 0 THEN c ELSE f[hop[k - 1]]]
    BY <2>2, Zenon
  <2>4. QED  BY <2>3, Zenon DEF Iterates
<1>2. ChainIn(f, c) = [k \in 1..size |-> hop[k - 1]]
  BY Zenon DEF ChainIn
<1> HIDE DEF hop
<1>3. hop[0] = c /\ \A k \in 1..N : hop[k] = f[hop[k - 1]]
  <2>1. ASSUME NEW k \in 0..N PROVE hop[k] = IF k = 0 THEN c ELSE f[hop[k - 1]]
    BY <1>1 DEF Iterates
  <2>2. QED  BY <1>0, <2>1
<1>4. \A k \in 0..N : hop[k] \in Word
  <2> DEFINE T == {k \in 0..N : hop[k] \in Word}
  <2>1. 0 \in T /\ \A n \in 0..(N - 1) : n \in T => n + 1 \in T
    BY <1>0, <1>3
  <2> HIDE DEF T
  <2>2. 0..N \subseteq T
    BY ONLY <1>0, <2>1, InductionUpTo
  <2>3. QED  BY <2>2 DEF T
<1>5. \A j, k \in 0..N : j < k /\ (\A i \in 0..k : hop[i] \in Cluster) => hop[j] # hop[k]
  <2> DEFINE T == {j \in 0..N : \A k \in 0..N : j < k /\ (\A i \in 0..k : hop[i] \in Cluster) => hop[j] # hop[k]}
  <2>1. 0 \in T
    <3>1. ASSUME NEW k \in 1..N PROVE hop[k] # c
      <4>1. k - 1 \in 0..N
        BY <1>0
      <4>2. hop[k - 1] \in Word /\ hop[k] = f[hop[k - 1]]
        BY <1>3, <1>4, <4>1
      <4>3. QED  BY <4>2 DEF Single
    <3>2. QED  BY <1>0, <1>3, <3>1
  <2>2. ASSUME NEW j \in 0..(N - 1), j \in T PROVE j + 1 \in T
    <3>1. ASSUME NEW k \in 0..N, j + 1 < k, \A i \in 0..k : hop[i] \in Cluster, hop[j + 1] = hop[k]
          PROVE  FALSE
      <4>1. /\ k - 1 \in 0..N /\ j < k - 1 /\ j \in 0..N /\ k \in 1..N /\ j + 1 \in 1..N
            /\ (j + 1) - 1 = j /\ \A i \in 0..(k - 1) : i \in 0..k
        BY <1>0, <3>1
      <4>2. f[hop[j]] = f[hop[k - 1]] /\ f[hop[j]] \in Cluster
        BY <1>3, <3>1, <4>1
      <4>3. hop[j] = hop[k - 1]
        BY <1>4, <4>1, <4>2 DEF Single
      <4>4. QED  BY <2>2, <3>1, <4>1, <4>3
    <3>2. QED  BY <1>0, <3>1
  <2> HIDE DEF T
  <2>3. 0..N \subseteq T
    BY ONLY <1>0, <2>1, <2>2, InductionUpTo
  <2>4. QED  BY <2>3 DEF T
\* More clusters than there are would be linked.
<1>6. ends # {}
  <2> SUFFICES ASSUME \A k \in 1..N : hop[k] \in Cluster PROVE FALSE
    OBVIOUS
  <2>1. \A k \in 0..N : hop[k] \in Cluster
    BY <1>0, <1>3
  <2>2. IsFiniteSet(0..N) /\ Cardinality(0..N) = N + 1
    BY <1>0, FS_Interval
  <2>3. IsFiniteSet(Cluster) /\ Cardinality(Cluster) = N
    <3>1. 2 \in Int /\ N + 1 \in Int /\ ~(2 > N + 1 /\ N > 0) /\ Cluster = 2..(N + 1)
      BY <1>0 DEF Cluster, FAT_FSTCLUSTER
    <3>2. IsFiniteSet(2..(N + 1)) /\ Cardinality(2..(N + 1)) = IF 2 > N + 1 THEN 0 ELSE (N + 1) - 2 + 1
      BY <3>1, FS_Interval
    <3>3. QED  BY <1>0, <3>1, <3>2
  <2>4. hop \in [0..N -> Cluster]
    BY <1>1, <2>1 DEF Iterates
  <2>5. \E j, k \in 0..N : j # k /\ hop[j] = hop[k]
    BY <1>0, <2>2, <2>3, <2>4, FS_PigeonHole
  <2>6. \A j, k \in 0..N : j < k => hop[j] # hop[k]
    <3>1. ASSUME NEW k \in 0..N, NEW i \in 0..k PROVE hop[i] \in Cluster
      <4>1. i \in 0..N
        BY <1>0
      <4>2. QED  BY <2>1, <4>1
    <3>2. QED  BY <1>5, <3>1
  <2>7. QED  BY <2>5, <2>6
<1>7. size \in ends /\ \A j \in ends : size <= j
  <2>1. ends \subseteq Nat
    BY <1>0
  <2>2. \E k \in ends : \A j \in ends : k <= j
    BY <1>6, <2>1, LeastExists
  <2>3. QED  BY <1>6, <2>2
<1> HIDE DEF size
<1>8. size \in 1..N /\ hop[size] \notin Cluster /\ \A k \in 0..(size - 1) : hop[k] \in Cluster
  <2>1. size \in 1..N /\ hop[size] \notin Cluster
    BY <1>7
  <2>2. ASSUME NEW k \in 1..(size - 1) PROVE hop[k] \in Cluster
    BY <1>0, <1>7, <2>1
  <2>3. QED  BY <1>3, <2>1, <2>2
<1> DEFINE s == ChainIn(f, c)
<1>9. /\ s \in Seq(Cluster) /\ Len(s) = size /\ size \in Nat /\ size >= 1
      /\ \A k \in 1..size : s[k] = hop[k - 1]
  <2>1. \A k \in 1..size : hop[k - 1] \in Cluster
    BY <1>8
  <2>2. size \in Nat
    BY <1>8
  <2>3. QED  BY <1>2, <1>8, <2>1, <2>2
<1> HIDE DEF s
<1>10. IsChain(f, c, s)
  <2>1. s[1] = c
    BY <1>3, <1>9
  <2>2. ASSUME NEW k \in 1..(Len(s) - 1) PROVE s[k + 1] = f[s[k]]
    <3>1. k \in 1..size /\ k + 1 \in 1..size /\ k \in 1..N /\ (k + 1) - 1 = k
      BY <1>0, <1>8, <1>9
    <3>2. QED  BY <1>3, <1>9, <3>1
  <2>3. f[s[Len(s)]] \notin Cluster
    <3>1. size \in 1..N /\ size \in 1..size
      BY <1>8
    <3>2. QED  BY <1>3, <1>8, <1>9, <3>1
  <2>4. QED  BY <1>9, <2>1, <2>2, <2>3 DEF IsChain
<1>11. ASSUME NEW j \in 1..Len(s), NEW k \in 1..Len(s), s[j] = s[k] PROVE j = k
  <2>1. /\ j - 1 \in 0..N /\ k - 1 \in 0..N /\ s[j] = hop[j - 1] /\ s[k] = hop[k - 1]
        /\ j - 1 \in 0..(size - 1) /\ k - 1 \in 0..(size - 1)
    BY <1>0, <1>8, <1>9
  <2>2. ~(j - 1 < k - 1) /\ ~(k - 1 < j - 1)
    <3>1. ASSUME NEW p \in 0..(size - 1), NEW q \in 0..(size - 1), p < q PROVE hop[p] # hop[q]
      <4>1. p \in 0..N /\ q \in 0..N /\ \A i \in 0..q : i \in 0..(size - 1)
        BY <1>0, <1>8
      <4>2. QED  BY <1>5, <1>8, <3>1, <4>1
    <3>2. QED  BY <1>11, <2>1, <3>1
  <2>3. QED  BY <1>9, <2>2
<1>12. QED  BY <1>10, <1>11 DEF s

\* The clusters linked from a cluster are one list: where one ends, so does the other.
LEMMA ChainPrefix ==
  ASSUME NEW f, NEW c, NEW s, NEW t, IsChain(f, c, s), IsChain(f, c, t), Len(s) <= Len(t)
  PROVE  s = t
<1> DEFINE m == Len(s)
           n == Len(t)
<1>0. m \in Nat /\ n \in Nat /\ m >= 1 /\ n >= 1 /\ m <= n /\ s \in Seq(Cluster) /\ t \in Seq(Cluster)
  BY DEF IsChain
<1>1. /\ s[1] = c /\ t[1] = c
      /\ \A k \in 1..(m - 1) : s[k + 1] = f[s[k]]
      /\ \A k \in 1..(n - 1) : t[k + 1] = f[t[k]]
      /\ f[s[m]] \notin Cluster /\ \A k \in 1..n : t[k] \in Cluster
  BY DEF IsChain
<1> HIDE DEF m, n
<1>2. \A k \in 1..m : s[k] = t[k]
  <2> DEFINE T == {k \in 0..(m - 1) : s[k + 1] = t[k + 1]}
  <2>1. 0 \in T
    BY <1>0, <1>1
  <2>2. ASSUME NEW k \in 0..((m - 1) - 1), k \in T PROVE k + 1 \in T
    <3>1. k + 1 \in 1..(m - 1) /\ k + 1 \in 1..(n - 1) /\ k + 1 \in 0..(m - 1)
      BY <1>0
    <3>2. s[k + 1] = t[k + 1]
      BY <2>2
    <3>3. QED  BY <1>1, <3>1, <3>2
  <2> HIDE DEF T
  <2>3. m - 1 \in Nat
    BY <1>0
  <2>4. 0..(m - 1) \subseteq T
    BY ONLY <2>1, <2>2, <2>3, InductionUpTo
  <2>5. ASSUME NEW k \in 1..m PROVE s[k] = t[k]
    <3>1. k - 1 \in 0..(m - 1) /\ (k - 1) + 1 = k
      BY <1>0
    <3>2. k - 1 \in T
      BY <2>4, <3>1
    <3>3. QED  BY <3>1, <3>2 DEF T
  <2>6. QED  BY <2>5
<1>3. m = n
  <2> SUFFICES ASSUME m < n PROVE FALSE
    BY <1>0
  <2>1. m \in 1..(n - 1) /\ m \in 1..m /\ m + 1 \in 1..n
    BY <1>0
  <2>2. t[m + 1] = f[s[m]]
    BY <1>1, <1>2, <2>1
  <2>3. QED  BY <1>1, <2>1, <2>2
<1>4. QED  BY <1>0, <1>2, <1>3 DEF m, n

\* What ChainOf says a cluster's list is, is the one list there is.
LEMMA ChainIs ==
  ASSUME NEW f \in [Word -> Word], NEW c \in Cluster, Single(f, c), NEW s, IsChain(f, c, s)
  PROVE  ChainIn(f, c) = s
<1>1. IsChain(f, c, ChainIn(f, c))
  BY ChainIsChain
<1>2. Len(s) \in Nat /\ Len(ChainIn(f, c)) \in Nat
  BY <1>1 DEF IsChain
<1>3. Len(s) <= Len(ChainIn(f, c)) \/ Len(ChainIn(f, c)) <= Len(s)
  BY <1>2
<1>4. QED  BY <1>1, <1>3, ChainPrefix

\* Two lists that begin with different clusters have none in common.
LEMMA ChainsApart ==
  ASSUME NEW f \in [Word -> Word], NEW c, NEW d, c # d, Single(f, c), Single(f, d),
         NEW s, NEW t, IsChain(f, c, s), IsChain(f, d, t)
  PROVE  \A j \in 1..Len(s), k \in 1..Len(t) : s[j] # t[k]
<1> DEFINE m == Len(s)
           n == Len(t)
<1>0. m \in Nat /\ n \in Nat /\ m >= 1 /\ n >= 1
  BY DEF IsChain
<1>1. /\ s[1] = c /\ t[1] = d
      /\ \A k \in 1..(m - 1) : s[k + 1] = f[s[k]]
      /\ \A k \in 1..(n - 1) : t[k + 1] = f[t[k]]
      /\ \A k \in 1..m : s[k] \in Cluster
      /\ \A k \in 1..n : t[k] \in Cluster
  BY DEF IsChain
<1>2. \A v, w \in Cluster : f[v] # c /\ f[v] # d /\ (f[v] = f[w] /\ f[v] \in Cluster => v = w)
  BY Sizes DEF Single
<1> HIDE DEF m, n
<1>3. \A k \in 1..n : k = 1 \/ (k - 1 \in 1..(n - 1) /\ k - 1 \in 1..n /\ (k - 1) + 1 = k)
  BY <1>0
<1> DEFINE T == {j \in 0..(m - 1) : \A k \in 1..n : s[j + 1] # t[k]}
<1>4. 0 \in T
  <2>1. ASSUME NEW k \in 1..n PROVE c # t[k]
    BY <1>1, <1>2, <1>3
  <2>2. QED  BY <1>0, <1>1, <2>1
<1>5. ASSUME NEW j \in 0..((m - 1) - 1), j \in T PROVE j + 1 \in T
  <2>1. j + 1 \in 1..(m - 1) /\ j + 1 \in 1..m /\ j + 1 \in 0..(m - 1) /\ (j + 1) + 1 \in 1..m
    BY <1>0
  <2>2. s[(j + 1) + 1] = f[s[j + 1]] /\ s[(j + 1) + 1] \in Cluster /\ s[j + 1] \in Cluster
    BY <1>1, <2>1
  <2>3. \A k \in 1..n : s[j + 1] # t[k]
    BY <1>5
  <2>4. ASSUME NEW k \in 1..n, s[(j + 1) + 1] = t[k] PROVE FALSE
    <3>1. CASE k = 1
      BY <1>1, <1>2, <2>2, <2>4, <3>1
    <3>2. CASE k - 1 \in 1..(n - 1) /\ k - 1 \in 1..n /\ (k - 1) + 1 = k
      <4>1. t[k] = f[t[k - 1]] /\ t[k - 1] \in Cluster
        BY <1>1, <3>2
      <4>2. s[j + 1] = t[k - 1]
        BY <1>2, <2>2, <2>4, <4>1
      <4>3. QED  BY <2>3, <3>2, <4>2
    <3>3. QED  BY <1>3, <3>1, <3>2
  <2>5. QED  BY <2>1, <2>4
<1> HIDE DEF T
<1>6. 0..(m - 1) \subseteq T
  <2>1. m - 1 \in Nat
    BY <1>0
  <2>2. QED  BY ONLY <1>4, <1>5, <2>1, InductionUpTo
<1>7. ASSUME NEW j \in 1..m, NEW k \in 1..n PROVE s[j] # t[k]
  <2>1. j - 1 \in 0..(m - 1) /\ (j - 1) + 1 = j
    BY <1>0
  <2>2. j - 1 \in T
    BY <1>6, <2>1
  <2>3. QED  BY <2>1, <2>2 DEF T
<1>8. QED  BY <1>7 DEF m, n

\* A cluster that is not a list's first and that nothing links to is not in the list.
LEMMA OutOfChain ==
  ASSUME NEW f \in [Word -> Word], NEW c, NEW s, IsChain(f, c, s),
         NEW n, n # c, \A w \in Word : f[w] # n
  PROVE  \A k \in 1..Len(s) : s[k] # n
<1> SUFFICES ASSUME NEW k \in 1..Len(s) PROVE s[k] # n
  OBVIOUS
<1>1. CASE k = 1
  BY <1>1 DEF IsChain
<1>2. CASE k # 1
  <2>1. k - 1 \in 1..(Len(s) - 1) /\ k - 1 \in 1..Len(s) /\ (k - 1) + 1 = k
    BY <1>2 DEF IsChain
  <2>2. s[k] = f[s[k - 1]] /\ s[k - 1] \in Cluster
    BY <2>1 DEF IsChain
  <2>3. QED  BY <2>2, Sizes
<1>3. QED  BY <1>1, <1>2

-----------------------------------------------------------------------------
(* What one write does to a list: nothing, unless it is to the entry of    *)
(* one of its clusters and is, or replaces, a link.                        *)

Written(f, u, v) == [f EXCEPT ![u] = v]

LEMMA WrittenIs ==
  ASSUME NEW f \in [Word -> Word], NEW u \in Word, NEW v \in Word
  PROVE  /\ Written(f, u, v) \in [Word -> Word]
         /\ Written(f, u, v)[u] = v
         /\ \A w \in Word : w # u => Written(f, u, v)[w] = f[w]
BY DEF Written

LEMMA ChainRange ==
  ASSUME NEW f, NEW c, NEW s, IsChain(f, c, s)
  PROVE  /\ Len(s) \in Nat /\ Len(s) >= 1 /\ Len(s) \in 1..Len(s)
         /\ \A k \in 1..Len(s) : s[k] \in Cluster /\ s[k] \in Word
<1>1. s \in Seq(Cluster) /\ Len(s) >= 1
  BY DEF IsChain
<1>2. Len(s) \in Nat /\ \A k \in 1..Len(s) : s[k] \in Cluster
  BY <1>1
<1>3. Len(s) \in 1..Len(s)
  BY <1>1, <1>2
<1>4. Cluster \subseteq Word
  BY Sizes
<1>5. QED  BY <1>1, <1>2, <1>3, <1>4

LEMMA ChainKept ==
  ASSUME NEW f \in [Word -> Word], NEW u \in Word, NEW v \in Word,
         NEW c, NEW s, IsChain(f, c, s),
         (f[u] \notin Cluster /\ v \notin Cluster) \/ \A k \in 1..Len(s) : s[k] # u
  PROVE  IsChain(Written(f, u, v), c, s)
<1> DEFINE g == Written(f, u, v)
<1>1. g[u] = v /\ \A w \in Word : w # u => g[w] = f[w]
  BY WrittenIs
<1> HIDE DEF g
<1>2. Len(s) \in 1..Len(s) /\ \A k \in 1..Len(s) : s[k] \in Word /\ s[k] \in Cluster
  BY ChainRange
<1>3. ASSUME NEW k \in 1..(Len(s) - 1) PROVE s[k + 1] = g[s[k]]
  <2>1. k \in 1..Len(s) /\ k + 1 \in 1..Len(s) /\ s[k + 1] = f[s[k]]
    BY DEF IsChain
  <2>2. f[s[k]] \in Cluster
    BY <1>2, <2>1
  <2>3. s[k] # u
    BY <2>1, <2>2
  <2>4. QED  BY <1>1, <1>2, <2>1, <2>3
<1>4. g[s[Len(s)]] \notin Cluster
  <2>1. CASE s[Len(s)] = u
    BY <1>1, <1>2, <2>1
  <2>2. CASE s[Len(s)] # u
    BY <1>1, <1>2, <2>2 DEF IsChain
  <2>3. QED  BY <2>1, <2>2
<1>5. IsChain(g, c, s)
  BY <1>3, <1>4 DEF IsChain
<1>6. QED  BY <1>5 DEF g

LEMMA ChainExtended ==
  ASSUME NEW f \in [Word -> Word], NEW c, NEW s, IsChain(f, c, s),
         \A j, k \in 1..Len(s) : s[j] = s[k] => j = k,
         NEW v \in Cluster, f[v] \notin Cluster, v # s[Len(s)]
  PROVE  IsChain(Written(f, s[Len(s)], v), c, Append(s, v))
<1> DEFINE n == Len(s)
           u == s[n]
           g == Written(f, u, v)
           t == Append(s, v)
<1>0. n \in Nat /\ n >= 1 /\ u \in Word /\ v \in Word /\ \A k \in 1..n : s[k] \in Word
  BY ChainRange, Sizes
<1>1. g[u] = v /\ \A w \in Word : w # u => g[w] = f[w]
  BY <1>0, WrittenIs
<1>2. /\ t \in Seq(Cluster) /\ Len(t) = n + 1 /\ t[n + 1] = v
      /\ \A k \in 1..n : t[k] = s[k]
  BY DEF IsChain
<1>3. \A k \in 1..(n - 1) : s[k + 1] = f[s[k]] /\ s[k] # u
  <2>1. ASSUME NEW k \in 1..(n - 1) PROVE s[k] # u
    BY <1>0, <2>1
  <2>2. QED  BY <2>1 DEF IsChain
<1>4. s[1] = c
  BY DEF IsChain
<1>5. u = s[n]
  OBVIOUS
<1>6. u # v
  OBVIOUS
<1> HIDE DEF n, u, g, t
<1>7. ASSUME NEW k \in 1..(Len(t) - 1) PROVE t[k + 1] = g[t[k]]
  <2>1. CASE k \in 1..(n - 1)
    <3>1. k \in 1..n /\ k + 1 \in 1..n
      BY <1>0, <2>1
    <3>2. t[k + 1] = f[s[k]] /\ t[k] = s[k] /\ s[k] # u /\ s[k] \in Word
      BY <1>0, <1>2, <1>3, <2>1, <3>1
    <3>3. QED  BY <1>1, <3>2
  <2>2. CASE k = n
    <3>1. n \in 1..n
      BY <1>0
    <3>2. t[n] = u /\ t[n + 1] = v
      BY <1>2, <1>5, <3>1
    <3>3. QED  BY <1>1, <2>2, <3>2
  <2>3. k \in 1..(n - 1) \/ k = n
    BY <1>0, <1>2
  <2>4. QED  BY <2>1, <2>2, <2>3
<1>8. g[t[Len(t)]] \notin Cluster
  BY <1>0, <1>1, <1>2, <1>6
<1>9. t[1] = c /\ Len(t) >= 1
  <2>1. 1 \in 1..n
    BY <1>0
  <2>2. QED  BY <1>0, <1>2, <1>4, <2>1
<1>10. IsChain(g, c, t)
  BY <1>2, <1>7, <1>8, <1>9 DEF IsChain
<1>11. QED  BY <1>10 DEF g, t, u, n

LEMMA ChainCut ==
  ASSUME NEW f \in [Word -> Word], NEW c, NEW s, IsChain(f, c, s),
         \A j, k \in 1..Len(s) : s[j] = s[k] => j = k,
         NEW n \in 1..Len(s), NEW v \in Word \ Cluster
  PROVE  IsChain(Written(f, s[n], v), c, SubSeq(s, 1, n))
<1> DEFINE u == s[n]
           g == Written(f, u, v)
           t == SubSeq(s, 1, n)
<1>0. n \in Nat /\ n >= 1 /\ u \in Word /\ \A k \in 1..n : s[k] \in Word
  <2>1. \A k \in 1..n : k \in 1..Len(s)
    BY ChainRange
  <2>2. QED  BY <2>1, ChainRange
<1>1. g[u] = v /\ \A w \in Word : w # u => g[w] = f[w]
  BY <1>0, WrittenIs
<1>2. t \in Seq(Cluster) /\ Len(t) = n /\ \A k \in 1..n : t[k] = s[k]
  BY DEF IsChain
<1>3. \A k \in 1..(n - 1) : s[k + 1] = f[s[k]] /\ s[k] # u
  <2>1. ASSUME NEW k \in 1..(n - 1) PROVE s[k] # u /\ k \in 1..(Len(s) - 1)
    <3>1. k \in 1..Len(s) /\ k # n /\ k \in 1..(Len(s) - 1)
      BY DEF IsChain
    <3>2. QED  BY <3>1
  <2>2. QED  BY <2>1 DEF IsChain
<1>4. s[1] = c
  BY DEF IsChain
<1>5. u = s[n]
  OBVIOUS
<1> HIDE DEF u, g, t
<1>7. ASSUME NEW k \in 1..(Len(t) - 1) PROVE t[k + 1] = g[t[k]]
  <2>1. k \in 1..(n - 1) /\ k \in 1..n /\ k + 1 \in 1..n
    BY <1>0, <1>2
  <2>2. t[k + 1] = f[s[k]] /\ t[k] = s[k] /\ s[k] # u /\ s[k] \in Word
    BY <1>0, <1>2, <1>3, <2>1
  <2>3. QED  BY <1>1, <2>2
<1>8. g[t[Len(t)]] \notin Cluster /\ t[1] = c /\ Len(t) >= 1
  <2>1. 1 \in 1..n /\ n \in 1..n
    BY <1>0
  <2>2. QED  BY <1>0, <1>1, <1>2, <1>4, <1>5, <2>1
<1>9. IsChain(g, c, t)
  BY <1>2, <1>7, <1>8 DEF IsChain
<1>10. QED  BY <1>9 DEF g, t, u

-----------------------------------------------------------------------------
(* What else holds in the middle of a command.                             *)

(* The cluster another is about to be linked to ends its list: it is the   *)
(* directory's first and has no link, or it was itself linked just now, or *)
(* it is no cluster (fat_get_last_cluster went too far).                   *)
Extendable ==
  /\ pc = "count" => r.obj \in known
  /\ pc = "last" => (r.clu \in known /\ r.next = fat[r.clu]) \/ r.next = r.clu
  /\ pc \in {"scan", "link"} /\ r.clu \in Cluster => fat[r.clu] \notin Cluster \union {0}
  /\ pc = "link" /\ r.clu \in Cluster => r.next # r.clu
  /\ pc = "link" /\ r.next \in Cluster => fat[r.next] = EndMark

\* No two directories have the same first cluster.
Apart == \A s, t \in Slot : first[s] = first[t] /\ first[s] \in Cluster => s = t

ChainInv == IInv /\ Extendable /\ Apart

LEMMA InitChain == Init => Extendable /\ Apart
<1> SUFFICES ASSUME Init PROVE Extendable /\ Apart
  OBVIOUS
<1>1. PICK img \in Images : fat = img.fat /\ first = img.first /\ pc = "idle"
  BY DEF Init
<1>2. Extendable
  BY <1>1 DEF Extendable
<1>3. Apart
  BY <1>1, SoundImages DEF Apart
<1>4. QED  BY <1>2, <1>3

LEMMA StepExtendable ==
  ASSUME ChainInv, Step
  PROVE  Extendable'
<1>0. /\ TypeOK /\ fat \in [Word -> Word] /\ r \in Registers /\ r.clu \in Word /\ r.obj \in Word
      /\ 0 \notin Cluster /\ EndMark \notin Cluster /\ EndMark # 0 /\ Cluster \subseteq Word
      /\ known \subseteq Word
  BY Sizes DEF ChainInv, IInv, TypeOK, Registers
<1>1. CASE CountLink
  <2>1. pc' = "count" /\ r'.obj = r.obj /\ known' = known /\ pc = "count"
    BY <1>0, <1>1 DEF CountLink, Registers
  <2>2. QED  BY <2>1 DEF Extendable, ChainInv
<1>2. ASSUME NEW n \in 1..MaxGrow, CountedToGrow(n) PROVE Extendable'
  <2>1. /\ pc' = "last" /\ r'.clu = r.obj /\ r'.next = fat[r.obj] /\ fat' = fat /\ known' = known
        /\ pc = "count"
    BY <1>0, <1>2 DEF CountedToGrow, Registers, Goto
  <2>2. QED  BY <2>1 DEF Extendable, ChainInv
<1>3. CASE LastFollow
  <2>1. pc' = "last" /\ r'.clu = fat[r.clu] /\ r'.next = fat[r.clu]
    BY <1>0, <1>3 DEF LastFollow, Registers
  <2>2. QED  BY <2>1 DEF Extendable
<1>4. CASE LastFound
  <2>1. pc' = "scan" /\ r'.clu = r.clu /\ fat' = fat /\ pc = "last" /\ IsLast(r.next)
    BY <1>0, <1>4 DEF LastFound, Registers, Goto
  <2>2. \A w \in Word : IsLast(w) => w \notin Cluster
    BY FatAssumption DEF IsLast, Word, Cluster, FAT_FSTCLUSTER, EndMark
  <2>3. CASE r.clu \in known /\ r.next = fat[r.clu]
    <3>1. fat[r.clu] \notin Cluster
      BY <1>0, <2>1, <2>2, <2>3
    <3>2. r.clu \in Cluster => fat[r.clu] # 0
      BY <2>3 DEF ChainInv, IInv, OneWayIn
    <3>3. QED  BY <2>1, <3>1, <3>2 DEF Extendable
  <2>4. CASE r.next = r.clu
    BY <1>0, <2>1, <2>2, <2>4 DEF Extendable
  <2>5. QED  BY <2>1, <2>3, <2>4 DEF ChainInv, Extendable
<1>5. CASE ScanSkip
  <2>1. pc' = "scan" /\ r'.clu = r.clu /\ fat' = fat /\ pc = "scan"
    BY <1>0, <1>5 DEF ScanSkip, Registers
  <2>2. QED  BY <2>1 DEF Extendable, ChainInv
<1>6. CASE ScanTake
  <2>1. pc' = "link" /\ r'.clu = r.clu /\ pc = "scan" /\ r'.next = Candidate /\ fat[Candidate] = 0
    BY <1>0, <1>6 DEF ScanTake, Registers, Goto
  <2>2. Candidate \in Word
    BY <1>0, <2>1, CandidateSearched
  <2>3. \A w \in Word : fat'[w] = IF w = Candidate THEN EndMark ELSE fat[w]
    BY <1>0, <1>6 DEF ScanTake, SetFat
  <2>4. r.clu \in Cluster => fat[r.clu] \notin Cluster \union {0}
    BY <2>1 DEF Extendable, ChainInv
  <2>5. QED  BY <1>0, <2>1, <2>2, <2>3, <2>4 DEF Extendable
<1>7. CASE Link
  <2>1. \/ pc' \in {"idle", "new"}
        \/ pc' = "scan" /\ r'.clu = r.next
    BY <1>0, <1>7 DEF Link, AddTheEntry, Return, Goto, Registers
  <2>2. CASE pc' = "scan" /\ r'.clu = r.next
    <3>1. pc = "link" /\ \A w \in Word : fat'[w] = IF w = r.clu THEN r.next ELSE fat[w]
      BY <1>0, <1>7 DEF Link, SetFat
    <3>2. r.next \in Cluster => fat'[r.next] = EndMark
      BY <1>0, <3>1 DEF ChainInv, Extendable
    <3>3. QED  BY <1>0, <2>2, <3>2 DEF Extendable
  <2>3. QED  BY <2>1, <2>2 DEF Extendable
<1>8. CASE CountedToFit \/ ScanExhausted \/ NewStep \/ FreeStep
           \/ \E n \in 0..(r.base + 1) : CountedToTrim(n)
  <2>1. pc' \in {"idle", "new", "enter", "walk", "cut"}
    BY <1>8 DEF CountedToFit, ScanExhausted, NewStep, FreeStep, CountedToTrim, NewSkip, NewTake,
                NewExhausted, Enter, Walk, WalkDone, Cut, CutDone, AddTheEntry, Return, Goto
  <2>2. QED  BY <2>1 DEF Extendable
<1>9. QED
  BY <1>1, <1>2, <1>3, <1>4, <1>5, <1>6, <1>7, <1>8 DEF Step, AllocStep

LEMMA StepApart ==
  ASSUME ChainInv, Step
  PROVE  Apart'
<1>1. CASE Enter
  <2>1. r.clu \notin Cluster /\ first' = [first EXCEPT ![r.new] = r.clu] /\ first \in [Slot -> Word]
    BY <1>1 DEF ChainInv, IInv, TypeOK, Ready, Enter
  <2>2. QED  BY <2>1 DEF ChainInv, Apart
<1>2. CASE ~Enter
  <2>1. first' = first
    BY <1>2 DEF Step, AllocStep, NewStep, FreeStep, CountLink, CountedToGrow, CountedToFit, CountedToTrim,
                LastFollow, LastFound, ScanSkip, ScanTake, Link, ScanExhausted, NewSkip, NewTake, NewExhausted,
                Walk, WalkDone, Cut, CutDone
  <2>2. QED  BY <2>1 DEF ChainInv, Apart
<1>3. QED  BY <1>1, <1>2

LEMMA ChainInvNext == ChainInv /\ [FileNext]_vars => ChainInv'
<1> SUFFICES ASSUME ChainInv, [FileNext]_vars PROVE Extendable' /\ Apart'
  BY FileNextInv DEF ChainInv
<1>1. CASE Step
  BY <1>1, StepExtendable, StepApart
<1>2. CASE FileCommand
  <2>1. ASSUME NEW c \in known \ {0}, NEW s \in Slot \union {NoSlot}, CallAdd(c, s)
        PROVE  pc' = "count" /\ r'.obj = c /\ first' = first /\ known' = known
    BY <2>1 DEF CallAdd, Goto, NoCall
  <2>2. ASSUME NEW s \in Slot, CallAddToRoot(s) PROVE pc' = "new" /\ first' = first
    BY <2>2 DEF CallAddToRoot, Goto
  <2>3. ASSUME NEW c \in known \ {0}, CallTrim(c)
        PROVE  pc' = "count" /\ r'.obj = c /\ first' = first /\ known' = known
    BY <2>3 DEF CallTrim, Goto, NoCall
  <2>4. ASSUME NEW s \in Slot, Remove(s) PROVE Extendable' /\ Apart'
    <3>1. pc' = "idle" /\ first' = [first EXCEPT ![s] = 0] /\ first \in [Slot -> Word] /\ 0 \notin Cluster
      BY <2>4, Sizes DEF Remove, ChainInv, IInv, TypeOK
    <3>2. QED  BY <3>1 DEF Extendable, Apart, ChainInv
  <2>5. QED  BY <1>2, <2>1, <2>2, <2>3, <2>4 DEF FileCommand, Extendable, Apart, ChainInv
<1>3. CASE HarmlessRaw \/ Restart
  <2>1. pc' = "idle" /\ first' = first
    BY <1>3 DEF HarmlessRaw, RawCommand, ShellAlloc, ShellRelease, ShellFat, Restart, Return
  <2>2. QED  BY <2>1 DEF Extendable, Apart, ChainInv
<1>4. CASE UNCHANGED vars
  BY <1>4 DEF vars, ChainInv, Extendable, Apart
<1>5. QED  BY <1>1, <1>2, <1>3, <1>4 DEF FileNext

-----------------------------------------------------------------------------
(* The lists on disk.                                                      *)

Lists == [s \in Slot |-> ChainOf(first[s])]

NoRepeat(q) == \A j, k \in 1..Len(q) : q[j] = q[k] => j = k

LEMMA ListsAre ==
  ASSUME ChainInv, NEW s \in Slot
  PROVE  /\ Lists[s] = ChainIn(fat, first[s])
         /\ first[s] \notin Cluster => Lists[s] = << >>
         /\ first[s] \in Cluster => /\ Single(fat, first[s])
                                    /\ IsChain(fat, first[s], Lists[s])
                                    /\ NoRepeat(Lists[s])
<1>1. Lists[s] = ChainIn(fat, first[s])
  BY ChainOfFat DEF Lists
<1>2. first[s] \notin Cluster => Lists[s] = << >>
  BY <1>1 DEF ChainIn
<1>3. ASSUME first[s] \in Cluster PROVE Single(fat, first[s])
  <2>1. first[s] \in known
    BY <1>3, Sizes DEF ChainInv, IInv, Ready
  <2>2. QED  BY <1>3, <2>1 DEF ChainInv, IInv, OneWayIn, Single
<1>4. ASSUME first[s] \in Cluster PROVE IsChain(fat, first[s], Lists[s]) /\ NoRepeat(Lists[s])
  <2>1. fat \in [Word -> Word]
    BY DEF ChainInv, IInv, TypeOK
  <2>2. QED  BY <1>1, <1>3, <1>4, <2>1, ChainIsChain DEF NoRepeat
<1>5. QED  BY <1>1, <1>2, <1>3, <1>4

\* After a step the lists are those of the new table and the new dentries.
LEMMA ListsNext ==
  ASSUME ChainInv', NEW s \in Slot, first'[s] \in Cluster, NEW q, IsChain(fat', first'[s], q)
  PROVE  Lists'[s] = q
<1>1. Lists'[s] = ChainIn(fat', first'[s])
  BY DEF Lists, ChainOf, ChainIn
<1>2. Single(fat', first'[s]) /\ fat' \in [Word -> Word]
  <2>1. first'[s] \in known'
    BY Sizes DEF ChainInv, IInv, Ready
  <2>2. QED  BY <2>1 DEF ChainInv, IInv, OneWayIn, Single, TypeOK
<1>3. QED  BY <1>1, <1>2, ChainIs

LEMMA ListsNextEmpty ==
  ASSUME NEW s \in Slot, first'[s] \notin Cluster
  PROVE  Lists'[s] = << >>
BY DEF Lists, ChainOf

\* No two lists have a cluster in common.
LEMMA ListsApart ==
  ASSUME ChainInv, NEW s \in Slot, NEW t \in Slot, s # t
  PROVE  \A j \in 1..Len(Lists[s]), k \in 1..Len(Lists[t]) : Lists[s][j] # Lists[t][k]
<1>1. CASE first[s] \in Cluster /\ first[t] \in Cluster
  <2>1. first[s] # first[t]
    BY <1>1 DEF ChainInv, Apart
  <2>2. fat \in [Word -> Word]
    BY DEF ChainInv, IInv, TypeOK
  <2>3. QED  BY <1>1, <2>1, <2>2, ListsAre, ChainsApart
<1>2. CASE first[s] \notin Cluster \/ first[t] \notin Cluster
  <2>1. Lists[s] = << >> \/ Lists[t] = << >>
    BY <1>2, ListsAre
  <2>2. QED  BY <2>1
<1>3. QED  BY <1>1, <1>2

\* A cluster nothing leads to is in no list.
LEMMA ListsReached ==
  ASSUME ChainInv, NEW c \in Cluster, Unreached(c), NEW s \in Slot
  PROVE  \A k \in 1..Len(Lists[s]) : Lists[s][k] # c
<1>1. CASE first[s] \in Cluster
  <2>1. first[s] \in known
    BY <1>1, Sizes DEF ChainInv, IInv, Ready
  <2>2. fat \in [Word -> Word]
    BY DEF ChainInv, IInv, TypeOK
  <2>3. first[s] # c /\ \A w \in Word : fat[w] # c
    BY <2>1 DEF Unreached
  <2>4. c # first[s] /\ IsChain(fat, first[s], Lists[s])
    BY <1>1, <2>3, ListsAre
  <2>5. QED  BY ONLY <2>2, <2>3, <2>4, OutOfChain
<1>2. CASE first[s] \notin Cluster
  BY <1>2, ListsAre
<1>3. QED  BY <1>1, <1>2

\* Two tables over the slots are one when they agree on each.
LEMMA ListsFunction ==
  /\ Lists = [s \in Slot |-> Lists[s]]
  /\ Lists' = [s \in Slot |-> Lists'[s]]
BY DEF Lists

-----------------------------------------------------------------------------
(* What the writes do to the lists.                                        *)

WriteStep(u, v) ==
  /\ u \in Word
  /\ v \in Word
  /\ fat' = Written(fat, u, v)
  /\ first' = first

\* A write that makes or takes no link, or is to a cluster in no list, changes none.
LEMMA WriteKeeps ==
  ASSUME ChainInv, ChainInv', NEW u, NEW v, WriteStep(u, v),
         (fat[u] \notin Cluster /\ v \notin Cluster)
           \/ \A s \in Slot : \A k \in 1..Len(Lists[s]) : Lists[s][k] # u
  PROVE  Lists' = Lists
<1>1. ASSUME NEW s \in Slot PROVE Lists'[s] = Lists[s]
  <2>0. fat \in [Word -> Word] /\ u \in Word /\ v \in Word /\ first' = first /\ fat' = Written(fat, u, v)
    BY DEF ChainInv, IInv, TypeOK, WriteStep
  <2>1. CASE first[s] \in Cluster
    <3>1. IsChain(fat, first[s], Lists[s])
      BY <2>1, ListsAre
    <3>2. (fat[u] \notin Cluster /\ v \notin Cluster) \/ \A k \in 1..Len(Lists[s]) : Lists[s][k] # u
      OBVIOUS
    <3>3. IsChain(Written(fat, u, v), first[s], Lists[s])
      BY ONLY <2>0, <3>1, <3>2, ChainKept
    <3>4. IsChain(fat', first'[s], Lists[s]) /\ first'[s] \in Cluster
      BY <2>0, <2>1, <3>3
    <3>5. QED  BY <3>4, ListsNext
  <2>2. CASE first[s] \notin Cluster
    BY <2>0, <2>2, ListsAre, ListsNextEmpty
  <2>3. QED  BY <2>1, <2>2
<1>2. QED  BY <1>1, ListsFunction, Zenon

\* A write to the last cluster of a list, of a cluster nothing leads to, puts that at its end.
LEMMA WriteExtends ==
  ASSUME ChainInv, ChainInv', NEW u, NEW v \in Cluster, WriteStep(u, v),
         NEW s \in Slot, Lists[s] # << >>, u = Lists[s][Len(Lists[s])],
         fat[v] \notin Cluster, v # u
  PROVE  Lists' = [Lists EXCEPT ![s] = Append(Lists[s], v)]
<1>0. fat \in [Word -> Word] /\ u \in Word /\ v \in Word /\ first' = first /\ fat' = Written(fat, u, v)
  BY DEF ChainInv, IInv, TypeOK, WriteStep
<1>1. first[s] \in Cluster /\ IsChain(fat, first[s], Lists[s]) /\ NoRepeat(Lists[s])
  BY ListsAre
<1>2. Lists'[s] = Append(Lists[s], v)
  <2>1. IsChain(Written(fat, u, v), first[s], Append(Lists[s], v))
    BY <1>0, <1>1, ChainExtended DEF NoRepeat
  <2>2. IsChain(fat', first'[s], Append(Lists[s], v)) /\ first'[s] \in Cluster
    BY <1>0, <1>1, <2>1
  <2>3. QED  BY <2>2, ListsNext
<1>3. ASSUME NEW t \in Slot, t # s PROVE Lists'[t] = Lists[t]
  <2>1. CASE first[t] \in Cluster
    <3>1. IsChain(fat, first[t], Lists[t])
      BY <2>1, ListsAre
    <3>2. \A k \in 1..Len(Lists[t]) : Lists[t][k] # u
      <4>1. Len(Lists[s]) \in 1..Len(Lists[s])
        BY <1>1, ChainRange
      <4>2. QED  BY <1>3, <4>1, ListsApart
    <3>3. IsChain(Written(fat, u, v), first[t], Lists[t])
      BY ONLY <1>0, <3>1, <3>2, ChainKept
    <3>4. IsChain(fat', first'[t], Lists[t]) /\ first'[t] \in Cluster
      BY <1>0, <2>1, <3>3
    <3>5. QED  BY <3>4, ListsNext
  <2>2. CASE first[t] \notin Cluster
    BY <1>0, <2>2, ListsAre, ListsNextEmpty
  <2>3. QED  BY <2>1, <2>2
<1>4. Lists' = [t \in Slot |-> IF t = s THEN Append(Lists[s], v) ELSE Lists[t]]
  BY <1>2, <1>3, ListsFunction, Zenon
<1>5. Lists = [t \in Slot |-> Lists[t]]
  BY ListsFunction, Zenon
<1>6. QED  BY <1>4, <1>5

\* A write to a cluster of a list, of a word that is no cluster, cuts the list behind it.
LEMMA WriteCuts ==
  ASSUME ChainInv, ChainInv', NEW u, NEW v, WriteStep(u, v), v \notin Cluster,
         NEW s \in Slot, NEW n \in 1..Len(Lists[s]), u = Lists[s][n]
  PROVE  Lists' = [Lists EXCEPT ![s] = SubSeq(Lists[s], 1, n)]
<1>0. fat \in [Word -> Word] /\ u \in Word /\ v \in Word \ Cluster /\ first' = first /\ fat' = Written(fat, u, v)
  BY DEF ChainInv, IInv, TypeOK, WriteStep
<1>1. first[s] \in Cluster /\ IsChain(fat, first[s], Lists[s]) /\ NoRepeat(Lists[s])
  <2>1. Lists[s] # << >>
    OBVIOUS
  <2>2. QED  BY <2>1, ListsAre
<1>2. Lists'[s] = SubSeq(Lists[s], 1, n)
  <2>1. IsChain(Written(fat, u, v), first[s], SubSeq(Lists[s], 1, n))
    BY <1>0, <1>1, ChainCut DEF NoRepeat
  <2>2. IsChain(fat', first'[s], SubSeq(Lists[s], 1, n)) /\ first'[s] \in Cluster
    BY <1>0, <1>1, <2>1
  <2>3. QED  BY <2>2, ListsNext
<1>3. ASSUME NEW t \in Slot, t # s PROVE Lists'[t] = Lists[t]
  <2>1. CASE first[t] \in Cluster
    <3>1. IsChain(fat, first[t], Lists[t])
      BY <2>1, ListsAre
    <3>2. \A k \in 1..Len(Lists[t]) : Lists[t][k] # u
      BY <1>3, ListsApart
    <3>3. v \in Word
      BY <1>0
    <3>4. IsChain(Written(fat, u, v), first[t], Lists[t])
      BY ONLY <1>0, <3>1, <3>2, <3>3, ChainKept
    <3>5. IsChain(fat', first'[t], Lists[t]) /\ first'[t] \in Cluster
      BY <1>0, <2>1, <3>4
    <3>6. QED  BY <3>5, ListsNext
  <2>2. CASE first[t] \notin Cluster
    BY <1>0, <2>2, ListsAre, ListsNextEmpty
  <2>3. QED  BY <2>1, <2>2
<1>4. Lists' = [t \in Slot |-> IF t = s THEN SubSeq(Lists[s], 1, n) ELSE Lists[t]]
  BY <1>2, <1>3, ListsFunction, Zenon
<1>5. Lists = [t \in Slot |-> Lists[t]]
  BY ListsFunction, Zenon
<1>6. QED  BY <1>4, <1>5

\* Taking the first cluster out of a dentry empties its list.
LEMMA DentryClears ==
  ASSUME ChainInv, ChainInv', fat' = fat, NEW s \in Slot, NEW c \in Word \ Cluster,
         first' = [first EXCEPT ![s] = c]
  PROVE  Lists' = [Lists EXCEPT ![s] = << >>]
<1>0. first \in [Slot -> Word]
  BY DEF ChainInv, IInv, TypeOK
<1>1. Lists'[s] = << >>
  <2>1. first'[s] \notin Cluster
    BY <1>0
  <2>2. QED  BY <2>1, ListsNextEmpty
<1>2. ASSUME NEW t \in Slot, t # s PROVE Lists'[t] = Lists[t]
  <2>0. first'[t] = first[t]
    BY <1>0, <1>2
  <2>1. CASE first[t] \in Cluster
    <3>1. IsChain(fat', first'[t], Lists[t])
      BY <2>0, <2>1, ListsAre
    <3>2. QED  BY <2>0, <2>1, <3>1, ListsNext
  <2>2. CASE first[t] \notin Cluster
    BY <2>0, <2>2, ListsAre, ListsNextEmpty
  <2>3. QED  BY <2>1, <2>2
<1>3. Lists' = [t \in Slot |-> IF t = s THEN << >> ELSE Lists[t]]
  BY <1>1, <1>2, ListsFunction, Zenon
<1>4. Lists = [t \in Slot |-> Lists[t]]
  BY ListsFunction, Zenon
<1>5. QED  BY <1>3, <1>4

-----------------------------------------------------------------------------
(* What becomes of the lists is what ClusterOwnership allows.              *)

LEMMA ListsType == ChainInv => Lists \in [Slot -> Seq(Cluster)]
<1> SUFFICES ASSUME ChainInv, NEW s \in Slot PROVE Lists[s] \in Seq(Cluster)
  BY DEF Lists
<1>1. CASE first[s] \in Cluster
  BY <1>1, ListsAre DEF IsChain
<1>2. CASE first[s] \notin Cluster
  BY <1>2, ListsAre, EmptySeq
<1>3. QED  BY <1>1, <1>2

LEMMA Appending ==
  ASSUME NEW S, NEW q \in Seq(S), NEW v \in S
  PROVE  /\ SubSeq(Append(q, v), Len(q) + 1, Len(Append(q, v))) = << v >>
         /\ Append(q, v) = q \o << v >>
<1>1. Append(q, v) = q \o << v >> /\ << v >> \in Seq(S) /\ Len(<< v >>) = 1
  OBVIOUS
<1>2. Len(q) \in Nat /\ Len(Append(q, v)) = Len(q) + 1
  OBVIOUS
<1>3. SubSeq(q \o << v >>, Len(q) + 1, Len(q) + 1)
        = SubSeq(<< v >>, (Len(q) + 1) - Len(q), (Len(q) + 1) - Len(q))
  <2>1. Len(q) + 1 \in (Len(q) + 1)..(Len(q) + Len(<< v >>))
    BY <1>1, <1>2
  <2>2. QED  BY <1>1, <2>1, SubSeqOfConcat2
<1>4. SubSeq(<< v >>, 1, 1) = << v >>
  BY <1>1, SubSeqFull
<1>5. (Len(q) + 1) - Len(q) = 1
  BY <1>2
<1>6. QED  BY <1>1, <1>2, <1>3, <1>4, <1>5

LEMMA ExtendMaps ==
  ASSUME ChainInv, NEW s \in Slot, NEW v \in Cluster, Unreached(v),
         Lists' = [Lists EXCEPT ![s] = Append(Lists[s], v)]
  PROVE  Promise!Extend(s)
<1>1. Lists \in [Slot -> Seq(Cluster)] /\ Lists'[s] = Append(Lists[s], v)
  BY ListsType
<1>2. Promise!Added(s) = << v >>
  <2>1. Promise!Added(s) = SubSeq(Lists'[s], Len(Lists[s]) + 1, Len(Lists'[s]))
    BY DEF Promise!Added, Lists
  <2>2. QED  BY <1>1, <2>1, Appending
<1>3. Lists' = [Lists EXCEPT ![s] = Lists[s] \o Promise!Added(s)]
  BY <1>1, <1>2, Appending
<1>4. v \notin Promise!Taken
  BY ListsReached DEF Promise!Taken, Promise!Holds, Lists
<1>5. Promise!Added(s) \in Seq(Cluster \ Promise!Taken) /\ Promise!Distinct(Promise!Added(s))
  BY <1>2, <1>4 DEF Promise!Distinct
<1>6. QED  BY <1>3, <1>5 DEF Promise!Extend, Lists

LEMMA TruncateMaps ==
  ASSUME NEW s \in Slot, NEW n \in 0..(Len(Lists[s]) - 1),
         Lists' = [Lists EXCEPT ![s] = SubSeq(Lists[s], 1, n)]
  PROVE  Promise!Truncate(s)
BY DEF Promise!Truncate, Lists

LEMMA InitMaps == ChainInv => Promise!Init
<1> SUFFICES ASSUME ChainInv PROVE Promise!Init
  OBVIOUS
<1>1. Promise!TypeOK
  BY ListsType DEF Promise!TypeOK, Lists
<1>2. ASSUME NEW s \in Slot PROVE Promise!Distinct(Lists[s])
  <2>1. CASE first[s] \in Cluster
    BY <2>1, ListsAre DEF Promise!Distinct, NoRepeat
  <2>2. CASE first[s] \notin Cluster
    BY <2>2, ListsAre DEF Promise!Distinct
  <2>3. QED  BY <2>1, <2>2
<1>3. ASSUME NEW s \in Slot, NEW t \in Slot, s # t PROVE Promise!Holds(s) \intersect Promise!Holds(t) = {}
  BY <1>3, ListsApart DEF Promise!Holds, Lists
<1>4. Promise!Exclusive
  BY <1>2, <1>3 DEF Promise!Exclusive, Lists
<1>5. QED  BY <1>1, <1>4 DEF Promise!Init

\* A dentry that gets a word that is no cluster: the file of that dentry has no list any more.
LEMMA DentryMaps ==
  ASSUME ChainInv, ChainInv', fat' = fat, NEW s \in Slot, NEW c \in Word \ Cluster,
         first' = [first EXCEPT ![s] = c]
  PROVE  Promise!Truncate(s) \/ Lists' = Lists
<1>1. Lists' = [Lists EXCEPT ![s] = << >>] /\ Lists \in [Slot -> Seq(Cluster)]
  BY DentryClears, ListsType
<1>2. CASE Lists[s] = << >>
  BY <1>1, <1>2
<1>3. CASE Lists[s] # << >>
  <2>1. 0 \in 0..(Len(Lists[s]) - 1) /\ SubSeq(Lists[s], 1, 0) = << >>
    BY <1>1, <1>3
  <2>2. QED  BY <1>1, <2>1, TruncateMaps
<1>4. QED  BY <1>2, <1>3

LEMMA LinkMaps ==
  ASSUME ChainInv, ChainInv', Link
  PROVE  (\E s \in Slot : Promise!Extend(s)) \/ Lists' = Lists
<1>1. /\ r.clu \in Word /\ r.next \in Word /\ pc = "link"
  <2>1. pc = "link" /\ TypeOK /\ r.clu \in Word /\ r.next \in Nat
    BY DEF ChainInv, IInv, TypeOK, Registers, Link
  <2>2. r.next < ClusterCount
    BY <2>1 DEF TypeOK
  <2>3. QED  BY <2>1, <2>2, Sizes DEF Word
<1>2. WriteStep(r.clu, r.next)
  BY <1>1 DEF Link, SetFat, WriteStep, Written
<1>3. /\ r.clu \in Cluster => fat[r.clu] \notin Cluster /\ r.next # r.clu
      /\ r.next \in Cluster => fat[r.next] \notin Cluster /\ Unreached(r.next)
  BY <1>1, Sizes DEF ChainInv, Extendable, IInv, Ready
<1>4. CASE \A s \in Slot : \A k \in 1..Len(Lists[s]) : Lists[s][k] # r.clu
  BY <1>2, <1>4, WriteKeeps
<1>5. CASE \E s \in Slot : \E k \in 1..Len(Lists[s]) : Lists[s][k] = r.clu
  <2>0. PICK s \in Slot : \E k \in 1..Len(Lists[s]) : Lists[s][k] = r.clu
    BY <1>5
  <2>1. PICK k \in 1..Len(Lists[s]) : Lists[s][k] = r.clu
    BY <2>0
  <2>2. IsChain(fat, first[s], Lists[s]) /\ Lists[s] # << >>
    BY <2>1, ListsAre
  <2>3. r.clu \in Cluster
    BY <2>1, <2>2, ChainRange
  <2>4. CASE r.next \notin Cluster
    BY <1>2, <1>3, <2>3, <2>4, WriteKeeps
  <2>5. CASE r.next \in Cluster
    <3>1. k = Len(Lists[s])
      <4>1. k \in 1..(Len(Lists[s]) - 1) \/ k = Len(Lists[s])
        BY <2>2, ChainRange
      <4>2. ASSUME k \in 1..(Len(Lists[s]) - 1) PROVE FALSE
        <5>1. Lists[s][k + 1] = fat[r.clu] /\ k + 1 \in 1..Len(Lists[s])
          BY <2>1, <2>2, <4>2 DEF IsChain
        <5>2. Lists[s][k + 1] \in Cluster
          BY <2>2, <5>1, ChainRange
        <5>3. QED  BY <1>3, <2>3, <5>1, <5>2
      <4>3. QED  BY <4>1, <4>2
    <3>2. r.clu = Lists[s][Len(Lists[s])]
      BY <2>1, <3>1
    <3>3. Lists' = [Lists EXCEPT ![s] = Append(Lists[s], r.next)]
      BY <1>2, <1>3, <2>2, <2>3, <2>5, <3>2, WriteExtends
    <3>4. QED  BY <1>3, <2>5, <3>3, ExtendMaps
  <2>6. QED  BY <2>4, <2>5
<1>6. QED  BY <1>4, <1>5

LEMMA CutMaps ==
  ASSUME ChainInv, ChainInv', Cut
  PROVE  (\E s \in Slot : Promise!Truncate(s)) \/ Lists' = Lists
<1>1. r.clu \in Word /\ r.ret \in {0, EndMark} /\ r.ret \in Word \ Cluster /\ pc = "cut"
  BY Sizes DEF ChainInv, IInv, TypeOK, Registers, Cut
<1>2. WriteStep(r.clu, r.ret)
  BY <1>1 DEF Cut, SetFat, WriteStep, Written
<1>3. CASE \A s \in Slot : \A k \in 1..Len(Lists[s]) : Lists[s][k] # r.clu
  BY <1>2, <1>3, WriteKeeps
<1>4. CASE \E s \in Slot : \E k \in 1..Len(Lists[s]) : Lists[s][k] = r.clu
  <2>0. PICK s \in Slot : \E k \in 1..Len(Lists[s]) : Lists[s][k] = r.clu
    BY <1>4
  <2>1. PICK k \in 1..Len(Lists[s]) : Lists[s][k] = r.clu
    BY <2>0
  <2>2. Lists[s] \in Seq(Cluster)
    BY ListsType
  <2>3. Lists' = [Lists EXCEPT ![s] = SubSeq(Lists[s], 1, k)]
    BY <1>1, <1>2, <2>1, WriteCuts
  <2>4. CASE k = Len(Lists[s])
    <3>1. SubSeq(Lists[s], 1, k) = Lists[s]
      BY <2>2, <2>4
    <3>2. QED  BY <2>3, <3>1, ListsType
  <2>5. CASE k # Len(Lists[s])
    <3>1. k \in 0..(Len(Lists[s]) - 1)
      BY <2>2, <2>5
    <3>2. QED  BY <2>3, <3>1, TruncateMaps
  <2>6. QED  BY <2>4, <2>5
<1>5. QED  BY <1>3, <1>4

LEMMA MarkMaps ==
  ASSUME ChainInv, ChainInv', ScanTake \/ NewTake
  PROVE  Lists' = Lists
<1>0. fat \in [Word -> Word] /\ TypeOK /\ EndMark \in Word /\ EndMark \notin Cluster /\ 0 \notin Cluster
  BY Sizes DEF ChainInv, IInv, TypeOK
<1>1. CASE ScanTake
  <2>1. Candidate \in Word /\ fat[Candidate] = 0
    BY <1>0, <1>1, CandidateSearched DEF ScanTake
  <2>2. WriteStep(Candidate, EndMark)
    BY <1>0, <1>1, <2>1 DEF ScanTake, SetFat, WriteStep, Written
  <2>3. QED  BY <1>0, <2>1, <2>2, WriteKeeps
<1>2. CASE NewTake
  <2>1. r.next \in Word
    BY <1>0, <1>2, Sizes DEF NewTake, TypeOK, Registers, Word
  <2>2. fat[r.next] \in Word /\ fat[r.next] \notin Cluster
    BY <1>0, <1>2, <2>1, Sizes DEF NewTake, IsLast, Cluster, FAT_FSTCLUSTER
  <2>3. WriteStep(fat[r.next], EndMark)
    BY <1>0, <1>2, <2>2 DEF NewTake, SetFat, WriteStep, Written
  <2>4. \A s \in Slot : \A k \in 1..Len(Lists[s]) : Lists[s][k] # fat[r.next]
    BY <2>2, ListsType
  <2>5. QED  BY <2>3, <2>4, WriteKeeps
<1>3. QED  BY <1>1, <1>2

LEMMA SameLists == ASSUME UNCHANGED <<fat, first>> PROVE Lists' = Lists
BY DEF Lists, ChainOf

LEMMA StepMaps ==
  ASSUME ChainInv, ChainInv', [FileNext]_vars
  PROVE  Promise!Next \/ Lists' = Lists
<1>1. CASE Link
  BY <1>1, LinkMaps DEF Promise!Next
<1>2. CASE Cut
  BY <1>2, CutMaps DEF Promise!Next
<1>3. CASE ScanTake \/ NewTake
  BY <1>3, MarkMaps
<1>4. CASE Enter
  <2>1. fat' = fat /\ first' = [first EXCEPT ![r.new] = r.clu] /\ r.new \in Slot /\ r.clu \in Word \ Cluster
    BY <1>4 DEF Enter, ChainInv, IInv, Ready, TypeOK, Registers
  <2>2. QED  BY <2>1, DentryMaps DEF Promise!Next
<1>5. ASSUME NEW s \in Slot, Remove(s) PROVE Promise!Next \/ Lists' = Lists
  <2>1. fat' = fat /\ first' = [first EXCEPT ![s] = 0] /\ 0 \in Word \ Cluster
    BY <1>5, Sizes DEF Remove
  <2>2. QED  BY <2>1, DentryMaps DEF Promise!Next
<1>6. CASE HarmlessRaw
  <2>1. first' = first /\ \A s \in Slot : ChainOf(first[s])' = ChainOf(first[s])
    BY <1>6 DEF HarmlessRaw, RawCommand, ShellAlloc, ShellRelease, ShellFat
  <2>2. QED  BY <2>1 DEF Lists
<1>7. CASE UNCHANGED <<fat, first>>
  BY <1>7, SameLists
<1>8. \/ Link \/ Cut \/ ScanTake \/ NewTake \/ Enter \/ HarmlessRaw
      \/ (\E s \in Slot : Remove(s)) \/ UNCHANGED <<fat, first>>
  BY DEF FileNext, Step, AllocStep, NewStep, FreeStep, CountLink, CountedToGrow, CountedToFit, CountedToTrim,
         LastFollow, LastFound, ScanSkip, ScanExhausted, NewSkip, NewExhausted, Walk, WalkDone, CutDone,
         FileCommand, CallAdd, CallAddToRoot, CallTrim, Restart, vars
<1>9. QED  BY <1>1, <1>2, <1>3, <1>4, <1>5, <1>6, <1>7, <1>8

(* The allocator keeps the promise: with every command but a raw one that  *)
(* harms a chain, and the program killed between any two writes, the lists *)
(* of clusters on disk only ever grow at their end by a cluster nobody     *)
(* has, or lose their tail.                                                *)
THEOREM KeepsPromise == FileSpec => ImplementsOwnership
<1>1. Init => ChainInv
  BY InitType, InitReady, InitChain DEF ChainInv, IInv
<1>2. FileSpec => []ChainInv
  BY <1>1, ChainInvNext, PTL DEF FileSpec
<1>3. Init => Promise!Init
  BY <1>1, InitMaps
<1>4. ChainInv /\ ChainInv' /\ [FileNext]_vars => [Promise!Next]_Lists
  BY StepMaps
<1>5. QED  BY <1>2, <1>3, <1>4, PTL DEF FileSpec, ImplementsOwnership, Promise!Spec, Lists

(* So no cluster is ever in two lists, or twice in one.                    *)
THEOREM OneOwnerOnDisk == FileSpec => []Promise!Exclusive
<1>1. Init => ChainInv
  BY InitType, InitReady, InitChain DEF ChainInv, IInv
<1>2. FileSpec => []ChainInv
  BY <1>1, ChainInvNext, PTL DEF FileSpec
<1>3. ChainInv => Promise!Exclusive
  BY InitMaps DEF Promise!Init
<1>4. QED  BY <1>2, <1>3, PTL

-----------------------------------------------------------------------------
(* What a command was asked for, and what it has done of it, by the list s *)
(* of its directory's clusters.                                            *)

Free == {c \in Scanned : fat[c] = 0}

\* The clusters that a search is yet to come to, from n on.
Ahead(n) == {c \in Scanned : IF n > r.last THEN c >= n \/ c < r.last ELSE c >= n /\ c < r.last}

\* k free ones are among them.  A search from past those searched goes round for ever.
Room(n, k) == r.last > ClusterCount \/ (Free \subseteq Ahead(n) /\ Cardinality(Free) >= k)

Counting(s) ==
  pc = "count" => r.op \in {"add", "trim"} /\ r.i = 0 /\ r.base + 1 \in 1..Len(s) /\ r.clu = s[r.base + 1]

(* A directory of one cluster grows: the clusters linked so far, of which  *)
(* the last is the next one's predecessor.                                 *)
Adding(s) ==
  /\ pc \in {"last", "scan", "link"} => r.op = "add" /\ r.base = 1
  /\ pc = "last" =>
       /\ r.clu = r.obj /\ IsLast(r.next) /\ Len(s) = 1
       /\ Cardinality(Free) >= r.num
  /\ pc \in {"scan", "link"} =>
       /\ r.last = r.obj /\ r.next >= FAT_FSTCLUSTER
       /\ Len(s) = 1 + (r.num - r.left) /\ r.clu = s[Len(s)]
  /\ pc = "scan" => (r.next <= ClusterCount \/ r.next = r.last + 1) /\ Room(r.next, r.left)
  /\ pc = "link" => Room(r.next + 1, r.left - 1)

(* A directory is cut: where the walk is in its list, and afterwards, that *)
(* it has the clusters it was to keep.                                     *)
Trimming(s) ==
  /\ pc \in {"walk", "cut"} => r.op = "trim" /\ r.num < r.base
  /\ pc = "walk" => r.base = Len(s) /\ r.i + 1 \in 1..(r.base - r.num) /\ r.clu = s[r.i + 1]
  /\ pc = "cut" /\ r.ret = EndMark => r.base = Len(s) /\ r.i + 1 = r.base - r.num /\ r.clu = s[r.i + 1]
  /\ pc = "cut" /\ r.ret = 0 => Len(s) = r.base - r.num

Progress(s) ==
  /\ pc \in {"count", "last", "scan", "link", "walk", "cut"}
  /\ r.obj \in known \intersect Cluster
  /\ r.new = NoSlot
  /\ Counting(s) /\ Adding(s) /\ Trimming(s)

AskInv == ChainInv /\ (pc # "idle" => Progress(ChainOf(r.obj)))

\* The list of a directory the program can work in.
IsList(f, c, s) == IsChain(f, c, s) /\ NoRepeat(s)

LEMMA KnownList ==
  ASSUME ChainInv, NEW c \in Cluster, c \in known
  PROVE  IsList(fat, c, ChainOf(c))
<1>1. fat \in [Word -> Word] /\ Single(fat, c)
  BY DEF ChainInv, IInv, TypeOK, OneWayIn, Single
<1>2. QED  BY <1>1, ChainIsChain, ChainOfFat DEF IsList, NoRepeat

LEMMA KnownListNext ==
  ASSUME ChainInv', NEW c \in Cluster, c \in known', NEW s, IsChain(fat', c, s)
  PROVE  ChainIn(fat', c) = s
<1>1. fat' \in [Word -> Word] /\ Single(fat', c)
  BY DEF ChainInv, IInv, TypeOK, OneWayIn, Single
<1>2. QED  BY <1>1, ChainIs

\* What ends a list is no cluster.
LEMMA LastIsNoLink == \A w \in Word : IsLast(w) <=> w \notin Cluster
BY FatAssumption DEF IsLast, Word, Cluster, FAT_FSTCLUSTER, EndMark

LEMMA FreeFinite == IsFiniteSet(Free) /\ Cardinality(Free) \in Nat /\ Scanned \subseteq Cluster /\ Scanned \subseteq Nat
<1>1. FAT_FSTCLUSTER \in Int /\ ClusterCount - 1 \in Int /\ Free \subseteq Scanned
      /\ Scanned \subseteq Cluster /\ Scanned \subseteq Nat
  BY FatAssumption DEF Free, Scanned, FAT_FSTCLUSTER, Cluster
<1>2. IsFiniteSet(Scanned)
  BY <1>1, FS_Interval DEF Scanned
<1>3. QED  BY <1>1, <1>2, FS_Subset, FS_CardinalityType

\* What a turn of the search leaves ahead of it: all but the cluster it looked at.
LEMMA AheadAfter ==
  ASSUME AskInv, pc = "scan", r.next # r.last, r.last <= ClusterCount, NEW c \in Free, c # Candidate
  PROVE  c \in Ahead(Candidate + 1)
<1>0. r.last \in Nat /\ r.next \in Nat /\ ClusterCount \in Nat
  BY Sizes DEF AskInv, ChainInv, IInv, TypeOK, Registers, Word
<1>1. r.last >= FAT_FSTCLUSTER /\ (r.next <= ClusterCount \/ r.next = r.last + 1) /\ c \in Ahead(r.next)
  <2>1. r.last \in Cluster /\ (r.next <= ClusterCount \/ r.next = r.last + 1) /\ Room(r.next, r.left)
    BY DEF AskInv, Progress, Adding
  <2>2. Free \subseteq Ahead(r.next)
    BY <1>0, <2>1 DEF Room
  <2>3. QED  BY <2>1, <2>2 DEF Cluster, FAT_FSTCLUSTER
<1>2. c \in Scanned /\ c \in FAT_FSTCLUSTER..(ClusterCount - 1)
  BY DEF Free, Scanned
<1>3. QED  BY <1>0, <1>1, <1>2 DEF Ahead, Candidate, FAT_FSTCLUSTER

LEMMA NotExhausted ==
  ASSUME AskInv, pc = "scan"
  PROVE  r.next # r.last
<1> SUFFICES ASSUME r.next = r.last PROVE FALSE
  OBVIOUS
<1>0. r.last \in Nat /\ r.next \in Nat /\ ClusterCount \in Nat /\ r.left \in Nat /\ r.left >= 1
  BY Sizes DEF AskInv, ChainInv, IInv, TypeOK, Registers, Word
<1>1. (r.next <= ClusterCount \/ r.next = r.last + 1) /\ Room(r.next, r.left)
  BY DEF AskInv, Progress, Adding
<1>2. Free \subseteq Ahead(r.next) /\ Cardinality(Free) >= r.left
  BY <1>0, <1>1 DEF Room
<1>3. Ahead(r.next) = {}
  <2>1. ASSUME NEW c \in Ahead(r.next) PROVE FALSE
    <3>1. c \in Scanned /\ (IF r.next > r.last THEN c >= r.next \/ c < r.last ELSE c >= r.next /\ c < r.last)
      BY DEF Ahead
    <3>2. c \in Nat
      BY <3>1, FreeFinite
    <3>3. QED  BY <1>0, <3>1, <3>2
  <2>2. QED  BY <2>1
<1>4. QED  BY <1>0, <1>2, <1>3, FS_EmptySet

\* Where a command is in its directory's list, and that it is a list.
LEMMA InProgress ==
  ASSUME AskInv, pc # "idle", NEW s, s = ChainOf(r.obj)
  PROVE  /\ Progress(s) /\ IsList(fat, r.obj, s)
         /\ r.obj \in Cluster /\ r.obj \in Word /\ r.obj \in known /\ r.new = NoSlot /\ r.new \notin Slot
         /\ s[1] = r.obj /\ Len(s) \in Nat /\ Len(s) >= 1
         /\ \A k \in 1..Len(s) : s[k] \in Cluster /\ s[k] \in Word
<1>1. Progress(s) /\ r.obj \in known /\ r.obj \in Cluster /\ r.new = NoSlot
  BY DEF AskInv, Progress
<1>2. IsList(fat, r.obj, s)
  BY <1>1, KnownList DEF AskInv
<1>3. r.obj \in Word /\ NoSlot \notin Slot
  <2>1. r.obj \in Word
    BY <1>1, Sizes
  <2>2. NoSlot \notin Slot
    BY FatAssumption DEF NoSlot, Slot
  <2>3. QED  BY <2>1, <2>2
<1>4. QED  BY <1>1, <1>2, <1>3, ChainRange DEF IsList, IsChain

\* What is linked from a list's cluster is the next one in it, or it is the list's last.
LEMMA NextInList ==
  ASSUME NEW f, NEW c, NEW s, IsList(f, c, s), NEW k \in 1..Len(s)
  PROVE  /\ f[s[k]] \in Cluster => k + 1 \in 1..Len(s) /\ s[k + 1] = f[s[k]]
         /\ f[s[k]] \notin Cluster => k = Len(s)
<1>1. Len(s) \in Nat /\ Len(s) >= 1 /\ \A j \in 1..Len(s) : s[j] \in Cluster
  BY ChainRange DEF IsList
<1>2. (\A j \in 1..(Len(s) - 1) : s[j + 1] = f[s[j]]) /\ f[s[Len(s)]] \notin Cluster
  BY DEF IsList, IsChain
<1>3. CASE k = Len(s)
  BY <1>2, <1>3
<1>4. CASE k # Len(s)
  <2>1. k \in 1..(Len(s) - 1) /\ k + 1 \in 1..Len(s)
    BY <1>1, <1>4
  <2>2. s[k + 1] = f[s[k]] /\ s[k + 1] \in Cluster
    BY <1>1, <1>2, <2>1
  <2>3. QED  BY <2>1, <2>2
<1>5. QED  BY <1>3, <1>4

\* A step after which the directory has the list s, and is where it should be in it.
LEMMA Proceeds ==
  ASSUME ChainInv', NEW s, IsChain(fat', r'.obj, s), Progress(s)'
  PROVE  AskInv'
<1>1. PICK c : c = r'.obj
  OBVIOUS
<1>2. c \in known' /\ c \in Cluster /\ IsChain(fat', c, s)
  BY <1>1 DEF Progress
<1>3. ChainIn(fat', c) = s
  BY <1>2, KnownListNext
<1>4. ChainOf(r.obj)' = ChainIn(fat', r'.obj)
  BY DEF ChainOf, ChainIn
<1>5. ChainOf(r.obj)' = s
  BY <1>1, <1>3, <1>4
<1>6. Progress(ChainOf(r.obj))'
  BY <1>5
<1>7. QED  BY <1>6 DEF AskInv

\* Back at the prompt nothing is under way.
LEMMA Ends == ASSUME ChainInv', pc' = "idle" PROVE AskInv'
BY DEF AskInv

LEMMA CountAsks ==
  ASSUME AskInv, ChainInv', CarefulStep, pc = "count"
  PROVE  AskInv'
<1>0. /\ r \in Registers /\ r.base \in Nat /\ r.i \in Nat /\ fat \in [Word -> Word]
  BY DEF AskInv, ChainInv, IInv, TypeOK, Registers
<1>1. PICK s : s = ChainOf(r.obj)
  OBVIOUS
<1>2. /\ Progress(s) /\ IsList(fat, r.obj, s) /\ IsChain(fat, r.obj, s) /\ r.new \notin Slot
      /\ s[1] = r.obj /\ Len(s) \in Nat /\ Len(s) >= 1
      /\ r.obj \in known \intersect Cluster /\ r.obj \in Word /\ r.new = NoSlot
      /\ \A k \in 1..Len(s) : s[k] \in Word
  BY <1>1, InProgress DEF IsList
<1>3. r.op \in {"add", "trim"} /\ r.i = 0 /\ r.base + 1 \in 1..Len(s) /\ r.clu = s[r.base + 1] /\ r.clu \in Word
  BY <1>2 DEF Progress, Counting
<1>4. fat[r.clu] \in Word /\ (IsLast(fat[r.clu]) <=> fat[r.clu] \notin Cluster)
  BY <1>0, <1>3, LastIsNoLink
<1>5. CASE CountLink
  <2>1. /\ pc' = "count" /\ fat' = fat /\ known' = known /\ r'.obj = r.obj /\ r'.new = r.new
        /\ r'.op = r.op /\ r'.i = r.i /\ r'.clu = fat[r.clu] /\ r'.base = r.base + 1
    BY <1>0, <1>5 DEF CountLink, Registers
  <2>2. fat[r.clu] \in Cluster
    BY <1>4, <1>5 DEF CountLink
  <2>3. (r.base + 1) + 1 \in 1..Len(s) /\ s[(r.base + 1) + 1] = fat[r.clu]
    BY <1>2, <1>3, <2>2, NextInList
  <2>4. Progress(s)'
    BY <1>2, <1>3, <2>1, <2>3 DEF Progress, Counting, Adding, Trimming
  <2>5. IsChain(fat', r'.obj, s)
    BY <1>2, <2>1
  <2>6. QED  BY <2>4, <2>5, Proceeds
<1>6. ASSUME NEW n \in 1..MaxGrow, CountedToGrow(n) PROVE AskInv'
  <2>1. /\ pc' = "last" /\ fat' = fat /\ known' = known /\ r'.obj = r.obj /\ r'.new = r.new
        /\ r'.op = "add" /\ r'.clu = r.obj /\ r'.base = r.base + 1 /\ r'.num = n /\ r'.next = fat[r.obj]
        /\ IsLast(fat[r.clu])
    BY <1>0, <1>6 DEF CountedToGrow, Registers, Goto
  <2>2. r'.base = 1 /\ Cardinality(Free) >= r'.num
    BY <2>1 DEF CarefulStep, Free
  <2>3. r.base + 1 = 1
    BY <2>1, <2>2
  <2>4. r.clu = r.obj /\ Len(s) = 1
    <3>1. 1 \in 1..Len(s) /\ r.clu = s[1]
      BY <1>2, <1>3, <2>3
    <3>2. fat[s[1]] \notin Cluster
      BY <1>4, <2>1, <3>1
    <3>3. PICK k, c, f : k = 1 /\ c = r.obj /\ f = fat
      OBVIOUS
    <3>4. IsList(f, c, s) /\ k \in 1..Len(s) /\ f[s[k]] \notin Cluster
      BY <1>2, <3>1, <3>2, <3>3
    <3>5. k = Len(s)
      BY ONLY <3>4, NextInList
    <3>6. QED  BY <1>2, <3>1, <3>3, <3>5
  <2>5. Free' = Free
    BY <2>1 DEF Free
  <2>6. Progress(s)'
    BY <1>2, <2>1, <2>2, <2>4, <2>5 DEF Progress, Counting, Adding, Trimming
  <2>7. IsChain(fat', r'.obj, s)
    BY <1>2, <2>1
  <2>8. QED  BY <2>6, <2>7, Proceeds
<1>7. CASE CountedToFit
  <2>1. pc' = "idle"
    BY <1>2, <1>7 DEF CountedToFit, AddTheEntry, Return
  <2>2. QED  BY <2>1, Ends
<1>8. ASSUME NEW n \in 0..(r.base + 1), CountedToTrim(n) PROVE AskInv'
  <2>1. /\ pc' = "walk" /\ fat' = fat /\ known' = known /\ r'.obj = r.obj /\ r'.new = r.new
        /\ r'.op = "trim" /\ r'.clu = r.obj /\ r'.base = r.base + 1 /\ r'.num = n /\ r'.i = r.i
        /\ IsLast(fat[r.clu])
    BY <1>0, <1>8 DEF CountedToTrim, Registers, Goto
  <2>2. n < r'.base /\ n \in Nat
    BY <1>0, <2>1 DEF CarefulStep
  <2>3. r'.base = Len(s)
    <3>1. fat[s[r.base + 1]] \notin Cluster
      BY <1>3, <1>4, <2>1
    <3>2. QED  BY <1>2, <1>3, <2>1, <3>1, NextInList
  <2>4. r'.i + 1 \in 1..(r'.base - r'.num) /\ r'.clu = s[r'.i + 1]
    BY <1>0, <1>2, <1>3, <2>1, <2>2
  <2>5. Progress(s)'
    BY <1>2, <2>1, <2>2, <2>3, <2>4 DEF Progress, Counting, Adding, Trimming
  <2>6. IsChain(fat', r'.obj, s)
    BY <1>2, <2>1
  <2>7. QED  BY <2>5, <2>6, Proceeds
<1>9. CountLink \/ CountedToFit \/ (\E n \in 1..MaxGrow : CountedToGrow(n)) \/ \E n \in 0..(r.base + 1) : CountedToTrim(n)
  BY DEF CarefulStep, Step, AllocStep, NewStep, FreeStep, LastFollow, LastFound, ScanSkip, ScanTake, Link,
         ScanExhausted, NewSkip, NewTake, NewExhausted, Enter, Walk, WalkDone, Cut, CutDone
<1>10. QED  BY <1>5, <1>6, <1>7, <1>8, <1>9

\* A free cluster of those a search is yet to come to is used up by each turn that takes one.
LEMMA RoomAfter ==
  ASSUME AskInv, pc = "scan"
  PROVE  /\ fat[Candidate] # 0 => Room(Candidate + 1, r.left)
         /\ fat[Candidate] = 0 =>
              r.last > ClusterCount
                \/ (Free \ {Candidate} \subseteq Ahead(Candidate + 1) /\ Cardinality(Free \ {Candidate}) >= r.left - 1)
<1>0. r.last \in Nat /\ ClusterCount \in Nat /\ r.left \in Nat /\ r.next # r.last
  BY Sizes, NotExhausted DEF AskInv, ChainInv, IInv, TypeOK, Registers, Word
<1>1. Room(r.next, r.left)
  BY DEF AskInv, Progress, Adding
<1>2. CASE r.last > ClusterCount
  BY <1>2 DEF Room
<1>3. CASE r.last <= ClusterCount
  <2>1. Free \ {Candidate} \subseteq Ahead(Candidate + 1)
    BY <1>0, <1>3, AheadAfter
  <2>2. Cardinality(Free) >= r.left
    BY <1>0, <1>1, <1>3 DEF Room
  <2>3. fat[Candidate] # 0 => Free \ {Candidate} = Free
    BY DEF Free
  <2>4. Cardinality(Free \ {Candidate}) >= r.left - 1
    <3>1. Cardinality(Free \ {Candidate}) = IF Candidate \in Free THEN Cardinality(Free) - 1 ELSE Cardinality(Free)
      BY FreeFinite, FS_RemoveElement
    <3>2. QED  BY <1>0, <2>2, <3>1, FreeFinite
  <2>5. QED  BY <2>1, <2>2, <2>3, <2>4 DEF Room
<1>4. QED  BY <1>0, <1>2, <1>3

LEMMA ScanAsks ==
  ASSUME AskInv, ChainInv', ScanSkip \/ ScanTake
  PROVE  AskInv'
<1>0. /\ r \in Registers /\ r.left \in Nat /\ fat \in [Word -> Word] /\ pc = "scan"
      /\ Candidate \in Word /\ Candidate \in Nat /\ Candidate + 1 <= ClusterCount
      /\ EndMark \in Word /\ EndMark \notin Cluster /\ 0 \notin Cluster /\ EndMark # 0
  <2>1. pc = "scan" /\ TypeOK
    BY DEF AskInv, ChainInv, IInv, ScanSkip, ScanTake
  <2>2. Candidate \in 1..(ClusterCount - 1) /\ Candidate \in Word
    BY <2>1, CandidateSearched
  <2>3. Candidate \in Nat /\ Candidate + 1 <= ClusterCount
    BY <2>2, Sizes
  <2>4. QED  BY <2>1, <2>2, <2>3, Sizes DEF TypeOK, Registers
<1>1. PICK s : s = ChainOf(r.obj)
  OBVIOUS
<1>2. /\ Progress(s) /\ IsChain(fat, r.obj, s) /\ r.obj \in known \intersect Cluster /\ r.new = NoSlot
  BY <1>0, <1>1, InProgress DEF IsList
<1>3. /\ r.op = "add" /\ r.base = 1 /\ r.last = r.obj /\ Candidate >= FAT_FSTCLUSTER
      /\ Len(s) = 1 + (r.num - r.left) /\ r.clu = s[Len(s)] /\ Candidate + 1 >= FAT_FSTCLUSTER
  <2>1. /\ r.op = "add" /\ r.base = 1 /\ r.last = r.obj /\ r.next >= FAT_FSTCLUSTER
        /\ Len(s) = 1 + (r.num - r.left) /\ r.clu = s[Len(s)]
    BY <1>0, <1>2 DEF Progress, Adding
  <2>2. Candidate >= FAT_FSTCLUSTER /\ FAT_FSTCLUSTER \in Nat
    BY <2>1 DEF Candidate, FAT_FSTCLUSTER
  <2>3. Candidate + 1 >= FAT_FSTCLUSTER
    BY <1>0, <2>2
  <2>4. QED  BY <2>1, <2>2, <2>3
<1>4. CASE ScanSkip
  <2>1. /\ pc' = "scan" /\ fat' = fat /\ known' = known /\ r'.obj = r.obj /\ r'.new = r.new
        /\ r'.op = r.op /\ r'.base = r.base /\ r'.clu = r.clu /\ r'.num = r.num /\ r'.left = r.left
        /\ r'.last = r.last /\ r'.next = Candidate + 1 /\ fat[Candidate] # 0
    BY <1>0, <1>4 DEF ScanSkip, Registers
  <2>2. Room(Candidate + 1, r.left)
    BY <1>0, <2>1, RoomAfter
  <2>3. Room(r.next, r.left)'
    BY <2>1, <2>2 DEF Room, Ahead, Free
  <2>4. Progress(s)'
    BY <1>0, <1>2, <1>3, <2>1, <2>3 DEF Progress, Counting, Adding, Trimming
  <2>5. IsChain(fat', r'.obj, s)
    BY <1>2, <2>1
  <2>6. QED  BY <2>4, <2>5, Proceeds
<1>5. CASE ScanTake
  <2>1. /\ pc' = "link" /\ fat' = Written(fat, Candidate, EndMark) /\ known' = known /\ r'.obj = r.obj /\ r'.new = r.new
        /\ r'.op = r.op /\ r'.base = r.base /\ r'.clu = r.clu /\ r'.num = r.num /\ r'.left = r.left
        /\ r'.last = r.last /\ r'.next = Candidate /\ fat[Candidate] = 0
    BY <1>0, <1>5 DEF ScanTake, SetFat, Written, Goto, Registers
  <2>2. Free' = Free \ {Candidate}
    <3>1. \A w \in Word : fat'[w] = IF w = Candidate THEN EndMark ELSE fat[w]
      BY <1>0, <2>1, WrittenIs
    <3>2. Scanned \subseteq Word
      BY FreeFinite, Sizes
    <3>3. QED  BY <1>0, <3>1, <3>2 DEF Free
  <2>3. r.last > ClusterCount
          \/ (Free \ {Candidate} \subseteq Ahead(Candidate + 1) /\ Cardinality(Free \ {Candidate}) >= r.left - 1)
    BY <1>0, <2>1, RoomAfter
  <2>4. Room(r.next + 1, r.left - 1)'
    BY <2>1, <2>2, <2>3 DEF Room, Ahead
  <2>5. Progress(s)'
    BY <1>0, <1>2, <1>3, <2>1, <2>4 DEF Progress, Counting, Adding, Trimming
  <2>6. IsChain(fat', r'.obj, s)
    BY <1>0, <1>2, <2>1, ChainKept
  <2>7. QED  BY <2>5, <2>6, Proceeds
<1>6. QED  BY <1>4, <1>5

LEMMA SearchBegins ==
  ASSUME AskInv, ChainInv', LastFound
  PROVE  AskInv'
<1>0. /\ r \in Registers /\ r.num \in Nat /\ fat \in [Word -> Word] /\ pc = "last" /\ ClusterCount \in Nat
  BY Sizes DEF AskInv, ChainInv, IInv, TypeOK, Registers, LastFound
<1>1. PICK s : s = ChainOf(r.obj)
  OBVIOUS
<1>2. /\ Progress(s) /\ IsChain(fat, r.obj, s) /\ r.obj \in known \intersect Cluster /\ r.new = NoSlot
      /\ r.obj \in known /\ r.obj \in Cluster /\ s[1] = r.obj
  BY <1>0, <1>1, InProgress DEF IsList
<1>3. /\ r.op = "add" /\ r.base = 1 /\ r.clu = r.obj /\ Len(s) = 1 /\ Cardinality(Free) >= r.num
  BY <1>0, <1>2 DEF Progress, Adding
<1>4. /\ pc' = "scan" /\ fat' = fat /\ known' = known /\ r'.obj = r.obj /\ r'.new = r.new
      /\ r'.op = r.op /\ r'.base = r.base /\ r'.clu = r.clu /\ r'.num = r.num /\ r'.left = r.num
      /\ r'.last = r.obj /\ r'.next = r.obj + 1
  BY <1>0, <1>3 DEF LastFound, Goto, Registers
<1>5. Free \subseteq Ahead(r.next)'
  <2>1. fat[r.obj] # 0 /\ r.obj \in Nat
    BY <1>2, Sizes DEF AskInv, ChainInv, IInv, OneWayIn
  <2>2. ASSUME NEW c \in Free PROVE c \in Ahead(r.next)'
    <3>1. c \in Scanned /\ c \in Nat /\ c # r.obj
      BY <2>1, FreeFinite DEF Free
    <3>2. c >= r.obj + 1 \/ c < r.obj
      BY <2>1, <3>1
    <3>3. r.obj + 1 > r.obj
      BY <2>1
    <3>4. QED  BY <1>4, <3>1, <3>2, <3>3 DEF Ahead
  <2>3. QED  BY <2>2
<1>6. Room(r.next, r.left)'
  BY <1>3, <1>4, <1>5 DEF Room, Free
<1>7. Len(s) = 1 + (r.num - r.num) /\ r.obj + 1 >= FAT_FSTCLUSTER
  BY <1>0, <1>2, <1>3, FatAssumption DEF Cluster, FAT_FSTCLUSTER
<1>8. Progress(s)'
  BY <1>2, <1>3, <1>4, <1>6, <1>7 DEF Progress, Counting, Adding, Trimming
<1>9. IsChain(fat', r'.obj, s)
  BY <1>2, <1>4
<1>10. QED  BY <1>8, <1>9, Proceeds

\* Each link adds to the list the cluster that was found, until there are as many as asked for.
LEMMA LinkAdds ==
  ASSUME AskInv, ChainInv', Link
  PROVE  /\ AskInv'
         /\ pc' = "idle" => r.op = "add" /\ Len(ChainIn(fat', r.obj)) = r.base + r.num
<1>0. /\ r \in Registers /\ r.num \in Nat /\ r.left \in Nat /\ r.left >= 1 /\ fat \in [Word -> Word]
      /\ pc = "link" /\ r.next \in Nat /\ r.next < ClusterCount /\ r.next > 0 /\ r.next \in Word
  <2>1. TypeOK /\ pc = "link"
    BY DEF AskInv, ChainInv, IInv, Link
  <2>2. r.next \in Nat /\ r.next < ClusterCount /\ r.next > 0 /\ r.left \in 1..r.num /\ r.num \in Nat
    BY <2>1 DEF TypeOK, Registers
  <2>3. r.next \in Word
    BY <2>2, Sizes DEF Word
  <2>4. QED  BY <2>1, <2>2, <2>3 DEF TypeOK
<1>1. PICK s : s = ChainOf(r.obj)
  OBVIOUS
<1>2. /\ Progress(s) /\ IsList(fat, r.obj, s) /\ IsChain(fat, r.obj, s) /\ r.obj \in known \intersect Cluster
      /\ r.obj \in known /\ r.obj \in Cluster /\ r.new = NoSlot /\ r.new \notin Slot
      /\ Len(s) \in Nat /\ Len(s) >= 1 /\ \A k \in 1..Len(s) : s[k] \in Cluster /\ s[k] \in Word
  BY <1>0, <1>1, InProgress DEF IsList
<1>3. /\ r.op = "add" /\ r.base = 1 /\ r.last = r.obj /\ Room(r.next + 1, r.left - 1)
      /\ Len(s) = 1 + (r.num - r.left) /\ r.clu = s[Len(s)] /\ r.clu \in Cluster /\ r.clu \in Word
  BY <1>0, <1>2 DEF Progress, Adding
<1>4. fat' = Written(fat, r.clu, r.next) /\ known' = known
  BY DEF Link, SetFat, Written
<1>5. /\ fat[r.clu] \notin Cluster \union {0} /\ r.next # r.clu
      /\ r.next \in Cluster => fat[r.next] = EndMark
  BY <1>0, <1>3 DEF AskInv, ChainInv, Extendable
<1>6. r.next \in Cluster
  <2>1. r.next >= FAT_FSTCLUSTER
    BY <1>0, <1>2 DEF Progress, Adding
  <2>2. QED  BY <1>0, <2>1, FatAssumption DEF Cluster, FAT_FSTCLUSTER
<1>7. IsChain(fat', r.obj, Append(s, r.next)) /\ Len(Append(s, r.next)) = Len(s) + 1
      /\ Append(s, r.next)[Len(s) + 1] = r.next
  <2>1. fat[r.next] \notin Cluster
    BY <1>5, <1>6, Sizes
  <2>2. IsChain(Written(fat, s[Len(s)], r.next), r.obj, Append(s, r.next))
    BY <1>0, <1>2, <1>3, <1>5, <1>6, <2>1, ChainExtended DEF IsList, NoRepeat
  <2>3. s \in Seq(Cluster)
    BY <1>2 DEF IsChain
  <2>4. QED  BY <1>3, <1>4, <2>2, <2>3
<1>8. CASE r.left = 1
  <2>1. pc' = "idle"
    BY <1>2, <1>8 DEF Link, AddTheEntry, Return
  <2>2. PICK c : c = r.obj
    OBVIOUS
  <2>3. ChainIn(fat', c) = Append(s, r.next)
    BY <1>2, <1>4, <1>7, <2>2, KnownListNext
  <2>4. Len(Append(s, r.next)) = r.base + r.num
    BY <1>0, <1>3, <1>7, <1>8
  <2>5. QED  BY <1>3, <2>1, <2>2, <2>3, <2>4, Ends
<1>9. CASE r.left # 1
  <2>1. /\ pc' = "scan" /\ r'.obj = r.obj /\ r'.new = r.new
        /\ r'.op = r.op /\ r'.base = r.base /\ r'.clu = r.next /\ r'.num = r.num /\ r'.left = r.left - 1
        /\ r'.last = r.last /\ r'.next = r.next + 1
    BY <1>0, <1>9 DEF Link, Goto, Registers
  <2>2. Free' = Free
    <3>1. \A w \in Word : fat'[w] = IF w = r.clu THEN r.next ELSE fat[w]
      BY <1>0, <1>3, <1>4, WrittenIs
    <3>2. Scanned \subseteq Word
      BY FreeFinite, Sizes
    <3>3. QED  BY <1>0, <1>5, <3>1, <3>2 DEF Free
  <2>3. Room(r.next, r.left)'
    BY <1>3, <2>1, <2>2 DEF Room, Ahead
  <2>4. r'.next <= ClusterCount /\ r'.next >= FAT_FSTCLUSTER
    BY <1>0, <1>6, <2>1, FatAssumption DEF Cluster, FAT_FSTCLUSTER
  <2>5. PICK t : t = Append(s, r.next)
    OBVIOUS
  <2>6. Len(t) = 1 + (r'.num - r'.left) /\ r'.clu = t[Len(t)] /\ IsChain(fat', r'.obj, t)
    BY <1>0, <1>2, <1>3, <1>7, <2>1, <2>5
  <2>7. Progress(t)'
    BY <1>2, <1>3, <1>4, <2>1, <2>3, <2>4, <2>6 DEF Progress, Counting, Adding, Trimming
  <2>8. QED  BY <2>1, <2>6, <2>7, Proceeds
<1>10. QED  BY <1>8, <1>9

LEMMA WalkAsks ==
  ASSUME AskInv, ChainInv', Walk \/ WalkDone
  PROVE  AskInv'
<1>0. /\ r \in Registers /\ r.num \in Nat /\ r.base \in Nat /\ r.i \in Nat /\ fat \in [Word -> Word]
      /\ pc = "walk" /\ r.ret = EndMark /\ EndMark # 0
  BY Sizes DEF AskInv, ChainInv, IInv, TypeOK, Registers, Ready, Walk, WalkDone
<1>1. PICK s : s = ChainOf(r.obj)
  OBVIOUS
<1>2. /\ Progress(s) /\ IsList(fat, r.obj, s) /\ IsChain(fat, r.obj, s) /\ r.obj \in known \intersect Cluster
      /\ r.new = NoSlot /\ Len(s) \in Nat
  BY <1>0, <1>1, InProgress DEF IsList
<1>3. /\ r.op = "trim" /\ r.num < r.base /\ r.base = Len(s) /\ r.i + 1 \in 1..(r.base - r.num) /\ r.clu = s[r.i + 1]
  BY <1>0, <1>2 DEF Progress, Trimming
<1>4. Below(r.i, r.base, r.num + 1) <=> r.i + 1 < r.base - r.num
  BY <1>0, <1>3 DEF Below
<1>5. CASE Walk
  <2>1. /\ pc' = "walk" /\ fat' = fat /\ known' = known /\ r'.obj = r.obj /\ r'.new = r.new
        /\ r'.op = r.op /\ r'.clu = fat[r.clu] /\ r'.base = r.base /\ r'.num = r.num /\ r'.i = r.i + 1
    BY <1>0, <1>3, <1>5 DEF Walk, Registers
  <2>2. r.i + 1 < r.base - r.num
    BY <1>4, <1>5 DEF Walk
  <2>3. r.i + 1 \in 1..(Len(s) - 1) /\ (r.i + 1) + 1 \in 1..(r.base - r.num)
    BY <1>0, <1>2, <1>3, <2>2
  <2>4. s[(r.i + 1) + 1] = fat[s[r.i + 1]]
    BY <1>2, <2>3 DEF IsChain
  <2>5. Progress(s)'
    BY <1>2, <1>3, <2>1, <2>3, <2>4 DEF Progress, Counting, Adding, Trimming
  <2>6. IsChain(fat', r'.obj, s)
    BY <1>2, <2>1
  <2>7. QED  BY <2>5, <2>6, Proceeds
<1>6. CASE WalkDone
  <2>1. pc' = "cut" /\ fat' = fat /\ known' = known /\ r' = r
    BY <1>6 DEF WalkDone, Goto
  <2>2. r.i + 1 = r.base - r.num
    BY <1>0, <1>3, <1>4, <1>6 DEF WalkDone
  <2>3. Progress(s)'
    BY <1>0, <1>2, <1>3, <2>1, <2>2 DEF Progress, Counting, Adding, Trimming
  <2>4. IsChain(fat', r'.obj, s)
    BY <1>2, <2>1
  <2>5. QED  BY <2>3, <2>4, Proceeds
<1>7. QED  BY <1>5, <1>6

\* The first write of trim makes the list as short as it is to be, and the others are outside it.
LEMMA CutAsks ==
  ASSUME AskInv, ChainInv', Cut
  PROVE  AskInv'
<1>0. /\ r \in Registers /\ r.num \in Nat /\ r.base \in Nat /\ r.i \in Nat /\ fat \in [Word -> Word]
      /\ r.ret \in {0, EndMark} /\ EndMark # 0 /\ r.clu \in Word /\ pc = "cut"
      /\ EndMark \in Word \ Cluster /\ 0 \in Word \ Cluster
  BY Sizes DEF AskInv, ChainInv, IInv, TypeOK, Registers, Cut
<1>1. PICK s : s = ChainOf(r.obj)
  OBVIOUS
<1>2. /\ Progress(s) /\ IsList(fat, r.obj, s) /\ IsChain(fat, r.obj, s) /\ r.obj \in known \intersect Cluster
      /\ r.obj \in known /\ r.obj \in Cluster /\ r.new = NoSlot /\ Len(s) \in Nat
      /\ \A k \in 1..Len(s) : s[k] \in Cluster
  BY <1>0, <1>1, InProgress DEF IsList
<1>3. /\ pc' = "cut" /\ fat' = Written(fat, r.clu, r.ret) /\ known' = known /\ r'.obj = r.obj /\ r'.new = r.new
      /\ r'.op = r.op /\ r'.base = r.base /\ r'.num = r.num /\ r'.ret = 0
  BY <1>0 DEF Cut, SetFat, Written, Registers
<1>4. r.op = "trim" /\ r.num < r.base
  BY <1>0, <1>2 DEF Progress, Trimming
<1>5. ASSUME NEW t, IsChain(fat', r.obj, t), Len(t) = r.base - r.num PROVE AskInv'
  <2>1. Progress(t)'
    BY <1>0, <1>2, <1>3, <1>4, <1>5 DEF Progress, Counting, Adding, Trimming
  <2>2. IsChain(fat', r'.obj, t)
    BY <1>3, <1>5
  <2>3. QED  BY <2>1, <2>2, Proceeds
<1>6. CASE r.ret = EndMark
  <2>1. r.base = Len(s) /\ r.i + 1 = r.base - r.num /\ r.clu = s[r.i + 1]
    BY <1>0, <1>2, <1>6 DEF Progress, Trimming
  <2>2. PICK n : n = r.i + 1
    OBVIOUS
  <2>3. n \in 1..Len(s) /\ n = r.base - r.num /\ r.clu = s[n]
    BY <1>0, <1>4, <2>1, <2>2
  <2>4. IsChain(Written(fat, s[n], EndMark), r.obj, SubSeq(s, 1, n))
    BY <1>0, <1>2, <2>3, ChainCut DEF IsList, NoRepeat
  <2>5. Len(SubSeq(s, 1, n)) = n
    BY <1>2, <2>3 DEF IsChain
  <2>6. QED  BY <1>3, <1>5, <1>6, <2>3, <2>4, <2>5
<1>7. CASE r.ret = 0
  <2>1. Len(s) = r.base - r.num
    BY <1>0, <1>2, <1>7 DEF Progress, Trimming
  <2>2. \A k \in 1..Len(s) : s[k] # r.clu
    <3>1. CASE r.clu \in Cluster
      <4>1. Unreached(r.clu)
        BY <1>0, <1>7, <3>1 DEF AskInv, ChainInv, IInv, Ready
      <4>2. r.clu # r.obj /\ \A w \in Word : fat[w] # r.clu
        BY <1>2, <4>1 DEF Unreached
      <4>3. fat \in [Word -> Word] /\ IsChain(fat, r.obj, s)
        BY <1>0, <1>2
      <4>4. QED  BY ONLY <4>2, <4>3, OutOfChain
    <3>2. CASE r.clu \notin Cluster
      BY <1>2, <3>2
    <3>3. QED  BY <3>1, <3>2
  <2>3. IsChain(Written(fat, r.clu, 0), r.obj, s)
    BY <1>0, <1>2, <2>2, ChainKept
  <2>4. QED  BY <1>3, <1>5, <1>7, <2>1, <2>3
<1>8. QED  BY <1>0, <1>6, <1>7

LEMMA CutIsDone ==
  ASSUME AskInv, ChainInv', CutDone
  PROVE  AskInv' /\ r.op = "trim" /\ Len(ChainIn(fat', r.obj)) = r.base - r.num
<1>0. /\ r.num \in Nat /\ r.base \in Nat /\ r.i \in Nat /\ r.ret \in {0, EndMark} /\ pc = "cut"
      /\ pc' = "idle" /\ fat' = fat /\ r.i >= r.base - 1
  BY DEF AskInv, ChainInv, IInv, TypeOK, Registers, CutDone, Return
<1>1. PICK s : s = ChainOf(r.obj)
  OBVIOUS
<1>2. Progress(s)
  BY <1>0, <1>1, InProgress
<1>3. r.op = "trim" /\ r.num < r.base
  BY <1>0, <1>2 DEF Progress, Trimming
<1>4. Len(s) = r.base - r.num
  <2>1. CASE r.ret = EndMark
    <3>1. r.base = Len(s) /\ r.i + 1 = r.base - r.num
      BY <1>0, <1>2, <2>1 DEF Progress, Trimming
    <3>2. r.num = 0
      BY <1>0, <1>3, <3>1
    <3>3. QED  BY <1>0, <3>1, <3>2
  <2>2. CASE r.ret = 0
    BY <1>0, <1>2, <2>2 DEF Progress, Trimming
  <2>3. QED  BY <1>0, <2>1, <2>2
<1>5. ChainIn(fat', r.obj) = s
  BY <1>0, <1>1, ChainOfFat
<1>6. QED  BY <1>0, <1>3, <1>4, <1>5, Ends

LEMMA CallAsks ==
  ASSUME AskInv, ChainInv', CarefulCommand
  PROVE  AskInv'
<1>1. ASSUME NEW c \in known \intersect Cluster, CallAdd(c, NoSlot) \/ CallTrim(c) PROVE AskInv'
  <2>1. /\ pc' = "count" /\ fat' = fat /\ known' = known /\ r'.obj = c /\ r'.new = NoSlot /\ r'.clu = c
        /\ r'.op \in {"add", "trim"} /\ r'.base = 0 /\ r'.i = 0
    BY <1>1 DEF CallAdd, CallTrim, Goto, NoCall
  <2>2. PICK s : s = ChainOf(c)
    OBVIOUS
  <2>3. IsChain(fat, c, s)
    BY <1>1, <2>2, KnownList DEF AskInv, IsList
  <2>4. Len(s) \in Nat /\ Len(s) >= 1 /\ s[1] = c
    BY <2>3 DEF IsChain
  <2>5. r'.base + 1 \in 1..Len(s) /\ r'.clu = s[r'.base + 1]
    BY <2>1, <2>4
  <2>6. Progress(s)'
    BY <1>1, <2>1, <2>5 DEF Progress, Counting, Adding, Trimming
  <2>7. IsChain(fat', r'.obj, s)
    BY <2>1, <2>3
  <2>8. QED  BY <2>6, <2>7, Proceeds
<1>2. ASSUME NEW s \in Slot, Remove(s) PROVE AskInv'
  <2>1. pc' = "idle"
    BY <1>2 DEF Remove
  <2>2. QED  BY <2>1, Ends
<1>3. QED  BY <1>1, <1>2 DEF CarefulCommand

\* The registers of a careful command never take it to the making of a directory.
LEMMA CarefulStepIs ==
  ASSUME AskInv, CarefulStep
  PROVE  \/ pc = "count"
         \/ LastFound \/ ScanSkip \/ ScanTake \/ Link \/ Walk \/ WalkDone \/ Cut \/ CutDone
<1>1. CASE LastFollow
  <2>1. pc = "last" /\ ~IsLast(r.next)
    BY <1>1 DEF LastFollow
  <2>2. IsLast(r.next)
    BY <2>1 DEF AskInv, Progress, Adding
  <2>3. QED  BY <2>1, <2>2
<1>2. CASE ScanExhausted
  BY <1>2, NotExhausted DEF ScanExhausted
<1>3. CASE NewStep
  <2>1. pc \in {"new", "enter"}
    BY <1>3 DEF NewStep, NewSkip, NewTake, NewExhausted, Enter
  <2>2. QED  BY <2>1 DEF AskInv, Progress
<1>4. CASE CountLink \/ CountedToFit \/ (\E n \in 1..MaxGrow : CountedToGrow(n)) \/ \E n \in 0..(r.base + 1) : CountedToTrim(n)
  BY <1>4 DEF CountLink, CountedToFit, CountedToGrow, CountedToTrim
<1>5. QED  BY <1>1, <1>2, <1>3, <1>4 DEF CarefulStep, Step, AllocStep, FreeStep

LEMMA CarefulIsFile == CarefulNext => FileNext
<1>1. known \intersect Cluster \subseteq known \ {0}
  BY Sizes
<1>2. ASSUME CarefulCommand PROVE FileCommand
  BY <1>1, <1>2 DEF CarefulCommand, FileCommand
<1>3. QED  BY <1>2 DEF CarefulNext, CarefulStep, FileNext

\* What a command has to show when it returns.
Answered ==
  pc' = "idle" /\ pc \in {"scan", "link", "cut"} =>
    Len(ChainIn(fat', r.obj)) = IF r.op = "add" THEN r.base + r.num ELSE r.base - r.num

LEMMA CarefulAsks ==
  ASSUME AskInv, [CarefulNext]_vars
  PROVE  AskInv' /\ (pc' # pc => Answered)
<1>0. ChainInv'
  <2>1. [FileNext]_vars
    BY CarefulIsFile
  <2>2. QED  BY <2>1, ChainInvNext DEF AskInv
<1>1. CASE CarefulStep /\ pc = "count"
  BY <1>0, <1>1, CountAsks DEF Answered
<1>2. CASE LastFound
  <2>1. pc' = "scan"
    BY <1>2 DEF LastFound, Goto
  <2>2. QED  BY <1>0, <1>2, <2>1, SearchBegins DEF Answered
<1>3. CASE ScanSkip \/ ScanTake
  <2>1. pc' \in {"scan", "link"}
    BY <1>3 DEF ScanSkip, ScanTake, Goto
  <2>2. QED  BY <1>0, <1>3, <2>1, ScanAsks DEF Answered
<1>4. CASE Link
  BY <1>0, <1>4, LinkAdds DEF Answered
<1>5. CASE Walk \/ WalkDone
  <2>1. pc' \in {"walk", "cut"}
    BY <1>5 DEF Walk, WalkDone, Goto
  <2>2. QED  BY <1>0, <1>5, <2>1, WalkAsks DEF Answered
<1>6. CASE Cut
  <2>1. pc' = "cut"
    BY <1>6 DEF Cut
  <2>2. QED  BY <1>0, <1>6, <2>1, CutAsks DEF Answered
<1>7. CASE CutDone
  BY <1>0, <1>7, CutIsDone DEF Answered
<1>8. CASE CarefulCommand
  <2>1. pc = "idle"
    BY <1>8 DEF CarefulCommand, CallAdd, CallTrim, Remove
  <2>2. QED  BY <1>0, <1>8, <2>1, CallAsks DEF Answered
<1>9. CASE UNCHANGED vars
  <2>1. pc' = pc /\ r' = r /\ fat' = fat /\ known' = known
    BY <1>9 DEF vars
  <2>2. CASE pc = "idle"
    BY <1>0, <2>1, <2>2, Ends
  <2>3. CASE pc # "idle"
    <3>1. PICK s : s = ChainOf(r.obj)
      OBVIOUS
    <3>2. Progress(s) /\ IsChain(fat, r.obj, s)
      BY <2>3, <3>1, InProgress DEF IsList
    <3>3. Progress(s)'
      BY <2>1, <3>2 DEF Progress, Counting, Adding, Trimming, Room, Free, Ahead
    <3>4. IsChain(fat', r'.obj, s)
      BY <2>1, <3>2
    <3>5. QED  BY <1>0, <2>1, <3>3, <3>4, Proceeds
  <2>4. QED  BY <2>2, <2>3
<1>10. QED
  BY <1>1, <1>2, <1>3, <1>4, <1>5, <1>6, <1>7, <1>8, <1>9, CarefulStepIs DEF CarefulNext

LEMMA AnswerIsAsked ==
  ASSUME AskInv, [CarefulNext]_vars
  PROVE  [pc' = "idle" /\ pc \in {"scan", "link", "cut"} =>
            \A c \in Cluster :
              c = r.obj => Len(ChainOf(c)') = IF r.op = "add" THEN r.base + r.num ELSE r.base - r.num]_vars
<1> SUFFICES ASSUME pc' = "idle", pc \in {"scan", "link", "cut"}, NEW c \in Cluster, c = r.obj
             PROVE  Len(ChainOf(c)') = IF r.op = "add" THEN r.base + r.num ELSE r.base - r.num
  OBVIOUS
<1>1. Answered
  BY CarefulAsks
<1>2. Len(ChainIn(fat', c)) = IF r.op = "add" THEN r.base + r.num ELSE r.base - r.num
  BY <1>1 DEF Answered
<1>3. ChainOf(c)' = ChainIn(fat', c)
  BY DEF ChainOf, ChainIn
<1>4. QED  BY <1>2, <1>3

(* Of a directory of one cluster that is to grow by clusters there are, or *)
(* one that is to be cut and keep some: when the command returns it has    *)
(* the clusters it was to have, on every volume.                           *)
THEOREM GetsAsAsked == CarefulSpec => AsAsked
<1>1. Init => AskInv
  <2>1. Init => IInv
    BY InitType, InitReady DEF IInv
  <2>2. Init => pc = "idle"
    BY DEF Init
  <2>3. QED  BY <2>1, <2>2, InitChain DEF AskInv, ChainInv
<1>2. AskInv /\ [CarefulNext]_vars => AskInv'
  BY CarefulAsks
<1>3. AskInv /\ [CarefulNext]_vars =>
        [pc' = "idle" /\ pc \in {"scan", "link", "cut"} =>
           \A c \in Cluster :
             c = r.obj => Len(ChainOf(c)') = IF r.op = "add" THEN r.base + r.num ELSE r.base - r.num]_vars
  BY AnswerIsAsked
<1>4. QED  BY <1>1, <1>2, <1>3, PTL DEF CarefulSpec, AsAsked

=============================================================================
