# A TLA+ development of debugfatfs

debugfatfs inspects and edits FAT12/16/32 and exFAT images: it prints boot sectors and allocation
tables, and has an interactive shell that creates, removes, fills and trims directories and edits
clusters directly. It is one process and one thread, and every write goes straight to the image, so
what can go wrong is not an interleaving of threads: it is the order of the writes of one command
(a kill between any two of them), copies in memory that no longer say what the disk says, unsigned
arithmetic at its edges, and long sequences of legal commands.

All line numbers refer to `src/src/exfat.c` unless a file is named, or to `src/src/fat.c` where the
text is about FAT16 and FAT32.

## Inventory

| Component | State it keeps | Operations | What makes it correct |
|---|---|---|---|
| Sector and cluster I/O (`main.c` 103-218) | the image | get/set sector, cluster(s) | a cluster outside the heap is refused |
| Boot probe (`main.c` 377, `exfat.c` 129-163, `fat.c` 128-343) | `info`: geometry, file system, root head | probe, select operations | everything later divides by, or indexes with, numbers that were validated |
| exFAT allocation bitmap (325-404, 2025-2048) | bitmap on disk, `info.alloc_table` in memory | load, test, set, clear; shell `alloc`, `release` | both copies agree; a set bit has an owner |
| exFAT FAT entries (1946-2016) | the FAT | get, set, validate; shell `fat` | a write changes the entry of a cluster the command owns |
| exFAT allocator (474-739) | FAT, bitmap, size and flags of one directory | last cluster, alloc, free, new, NoFatChain to FatChain | no cluster has two owners; nothing leaks; the search ends; a kill at any point leaves the image usable |
| exFAT dentry operations (1225-1510, 2057-2283) | the 32-byte dentries of a directory | create, mkdir, remove, rmdir, fill, trim, update size, tail, stat | names are unique, entry sets complete, sizes true |
| exFAT directory cache (778-1069, 1743-1866) | `info.root`: a head per directory, by first cluster; children, by name hash | traverse, search, lookup, readdir, reload, clean | a head or child says what the dentry says |
| FAT table codec (`fat.c` 441-577, 1867-1983) | the FAT | get and set for 12, 16 and 28 bits, validate, bogus entry | set then get returns what was set, and changes no other entry |
| FAT allocator (`fat.c` 593-790) | the FAT | as in exFAT, without bitmap or size | as in exFAT |
| FAT directories and cache (`fat.c` 830-1456, 1677-1857, 2041-2158) | dentries, long names, cache | as in exFAT | as in exFAT |
| Shell (`shell.c`) | current cluster, PWD | one function per command | the prompt's path is the cluster's path; an operation that fails leaves both |
| NLS (`nls.c`) | - | UTF-8 to UTF-16 and back | round trips; ends on every input |
| Checksums, hash, time stamps (1165-1215, 1525-1636) | - | arithmetic | as the file system's specification says |
| Reports (226-308, `fat.c` 226-304) | a scratch bitmap | print FAT chains, print bitmap | every chain printed once, and the print ends |
| Command line (`main.c`) | options | parse, dump | out of scope |

Interaction: the shell looks up a path in the cache, which reads dentries and (for a directory seen
for the first time) makes a head; the operation then works with the *head's* copy of size and flags
(fill, trim, create) or with the *child's* (remove), calls the allocator, which writes the FAT, the
bitmap and the parent's stream dentry, and writes the directory's dentries; at last the shell
reloads the directory (`trim` does not). The hazards this gives rise to are listed in
`PROJECT.json`, each at its line and with the properties that watch it, or the reason why none does: most often that the code
does go wrong there, so that the conditions of careful use (below) leave the case out.

## What is modelled

| Module | Models |
|---|---|
| `ExfatVolume` | the exFAT structures on disk and the helpers that read and write one of them: FAT entries, the bitmap in its two copies, the stream dentries of the root directory; `Chain`, the clusters of a file |
| `ExfatAlloc` | the allocator and the commands that use it, one action for every write that reaches the disk and for every turn of a loop; the cache's heads and the root's children; kill and restart at any step |
| `ExfatOwnership` | who owns which cluster according to the disk, the conditions for the careful use of the allocator, and the properties |
| `ClusterOwnership` | abstract: each directory has a list of clusters of its own |
| `DirectoryChain` | `info.root`: heads, children, cached flags, growth, and the functions that traverse, search, look up, reload and clean it |
| `ExfatShell` | the shell on an exFAT volume: current directory, PWD, paths, every command as one step on the directories and their entry sets |
| `ShellNaming` | what names mean on disk, the careful use of the shell, and the properties |
| `Namespace` | abstract: a tree of names and a current directory in it |
| `ExfatDentries` | the dentries of one exFAT directory, written cluster by cluster, and a kill between any two |
| `ExfatNames` | its properties |
| `FatDentries`, `FatNames` | the same of one FAT directory, of clusters or a root of fixed size, with long names |
| `DirectoryNames` | abstract: a directory is a set of names, and a command adds or takes what it was asked to |
| `FatTable` | FAT12, FAT16 and FAT32 entries in the bytes and sectors of the FAT |
| `FatClusters` | the FAT16 and FAT32 allocator and the commands that use it, in the way of `ExfatAlloc` |
| `FatOwnership` | its properties, and the conditions for some of them |
| `MCExfatAlloc`, `MCExfatShell`, `MCExfatDentries`, `MCFatClusters`, `MCFatDentries`, `MCFatTable` | images, names and bounds for TLC |
| `FatTableProofs` | theorems about FAT entries: that one is set and no other, and reads as it was set |
| `ExfatOwnershipProofs`, `FatOwnershipProofs` | theorems about the allocators: types, who owns what, and that each refines `ClusterOwnership`; of exFAT, that fill and trim lose no cluster and every size is true |
| `ExfatNamesProofs`, `FatNamesProofs` | theorems about the names in one directory, and that each file system's commands refine `DirectoryNames` |
| `ShellNamingProofs` | theorems about the shell and its directory cache in careful use, and that they refine `Namespace` |
| `ClusterOwnershipProofs` | a theorem about the abstract specification of owners |
| `InductionLemmas` | induction over the naturals as a statement about sets; that repeated application of a function is well defined; what a function picks out of a table that it goes through from its end |

One command of the program is told three times, at three grains. `ExfatShell` takes it as one step and asks what it
does to names; `ExfatDentries` takes it cluster write by cluster write and asks which dentries it moves;
`ExfatAlloc` takes it FAT write by FAT write and asks whose the clusters are. What one module
leaves open another decides: the clusters `ExfatShell` picks freely are picked in `ExfatAlloc`; the sequence of entry
sets it has for a directory is what `KidsAreFiles` shows traverse to read from `ExfatDentries`'s
slots. `ExfatOwnership` and `FatOwnership` both instantiate `ClusterOwnership`, and `ExfatNames` and `FatNames` both
instantiate `DirectoryNames`: two implementations each of one promise.

### The allocators: state

`fat`, `bitmap` and `stream` are the disk; `alloc_table`, `head` and `child` are memory and are read
anew by `Restart`; `pc` and `r` are the running command's next statement and its locals, which carry
the source's names. A FAT entry is a 32-bit word. The words that matter are the cluster numbers and
the reserved values next to 2^32, which are written as the negative numbers they are in two's
complement, so that `next_clu = last_clu + 1` from -1 gives 0 as it does in the code. The FAT is
indexed by the same words because `exfat_set_fat_entry` is called with them: its sector number then
wraps and the write lands just before the FAT (1950). All words past the FAT's end are one cell.
Sizes are in clusters: the code only ever changes `datalen` by multiples of the cluster size.

A directory's contents are reduced to the stream dentries of the root's subdirectories: `mkdir` and
`create` make nothing else (both give the entry `ATTR_DIRECTORY`, 1316, and a cluster, 1321), and
what `fill` makes has no cluster. How many clusters a command needs or gives back depends on the
dentries and is a free choice in its bounds: `CallFill(c, n)`, `CallCreate(s, passes, full)`,
`CallTrim(c, n)` with n up to what `exfat_concat_cluster` read (`Loaded`).

### The exFAT allocator: actions

`exfat_get_last_cluster` is `LastContiguous`, `LastFollow`, `LastFound`, `LastMissing`;
`exfat_alloc_clusters` is `ScanSkip`, `ScanTake` (writes the new cluster's entry), `Link` (writes its
predecessor's), `Mark` (sets the bit), `ScanExhausted`, `Convert` or `KeepFlags`, and `Grow` (size in
memory and on disk); `exfat_create_fat_chain` is `ChainLink`, `ChainDone` and, for a size of 0,
`ChainUnderflow` and `Runaway`; `exfat_new_clusters` is `NewSkip`, `NewTake`, `NewMark`,
`NewExhausted`, run once by `create` and twice by `mkdir` (1319-1321), and `Enter` writes the new
dentries; `exfat_free_clusters` is `ClearTail`, `ClearDone` for a contiguous file and `Walk`, `WalkDone`,
`Cut`, `Unmark`, `CutDone`, `Shrink` for a linked one; `Erase` ends a remove; `FillReload` is the reload
after a `fill`. The `Call...` actions are a command typed at the prompt. `ShellAlloc`, `ShellRelease` and
`ShellFat` edit the bitmap and the FAT directly. `Restart` can happen at any step of `Spec`.

### The FAT16 and FAT32 allocator

`FatClusters` has no bitmap and no sizes: `fat` is the whole allocation state, `first` the first clusters in
the dentries of directories, `known` those of the directories the program can work in (a head stays
when its directory is removed). An entry is one word, and all words past the last cluster, which
end a chain, are one value `EndMark`; used as an index it is the cell past the FAT, which the code does
read and write. `fat_concat_cluster`'s count is `CountLink` and the `Counted...` actions;
`fat_get_last_cluster` is `LastFollow` and `LastFound`; `fat_alloc_clusters` is `ScanSkip`, `ScanTake`
(writes the new cluster's entry), `Link` (its predecessor's) and `ScanExhausted`; `fat_new_clusters` is
`NewSkip`, `NewTake`, `NewExhausted`, and `Enter` writes the dentries; `fat_free_clusters` is `Walk`,
`WalkDone`, `Cut` and `CutDone`. How many clusters a command needs depends on the dentries and is a free
choice of 1..`MaxGrow`; trim gives back any number from none to all. Cycles and shared
chains can be typed with the shell's raw commands; `FileSpec` allows those raw commands that keep the
properties and the directories' chains (`HarmlessRaw`), and `TypeOK` is proved with all of them.

What is true of this allocator without a condition is that it never gives a cluster two owners. What is not
true is most of the rest: a directory of several clusters cannot grow, because the new clusters are
linked to the end mark's cell (622); a new directory has no cluster (715); trim loses the last cluster of
those it cuts off (688) and never ends when none is to be left (684); and the dentry of a removed directory
goes without its clusters. `CarefulSpec` therefore has growth of one-cluster directories by what is
free, and trim that leaves a cluster.

### The shell and the directory chain

`root` is `info.root`, with 1 for index 0; `disk` has for each cluster of a directory the entry sets in use, in their
order; `used` is the bitmap; `cluster` and `pwd` are the shell's. A directory of the model has one cluster at
most, so a size is 0 or 1 (0 is what `mkdir` and `create` leave, 1316-1321). Memory that was allocated and never
written is `g`, one of `Garbage`, in every function that reads such memory: a new head's `cached` flag (1055) and the
table's slots after the heads (805). A read through NULL or such a slot makes `ok` FALSE and nothing happens
after that; an unsigned loop that wraps makes `intact` FALSE (what it overwrites is in `ExfatAlloc`).
A head is found by cluster, a child by the hash of its name (`ByHash`) or, in `lookup`, by the name itself
(`ByName`). `Located` is the shell's use of `lookup`: an empty directory part is the current
directory (`shell.c` 283), a directory that is not there is -1, and used as it is.

### Dentries

`slots` is a directory on disk, `kids` the names of its children in memory, `buf` the buffer of the
running command, of which `Write` writes one cluster at a time (for the fixed root of FAT12 and FAT16,
all of it), and `asked` what the command was asked to do, for the refinement. `Return` ends a command: trim
gives clusters back, the others are followed by the shell's reload. `Listed` is traverse, with its own rules for
what it skips: exFAT's does not stop at an unused dentry and stops at an entry set without a name; FAT's takes
whatever comes after the pieces of a long name for the file. `Match` and `Marks` are the dentries remove
marks. A name is a value: `Hash`, `Seen` (what the `memcmp` of 1437 compares), `Short`,
`Checksum` and `Shown` are what the code makes of it. Names collide in the runs where the code's do.

A long name is written so that it reads back as another, `Shown`. On exFAT each turn of the loop over the name (1322-1328)
initialises the name dentry of the turn before, with the beginning of the name, so of a name of more than 15 letters the first
name dentry has its letters, the others have the beginning again, and the last gets its type only (`EntrySet`,
`Retyped`). traverse puts the name together from the name dentries behind the stream dentry (934-941, `NameRead`): what it
gets is another text, with the hash and the length the stream dentry has. A value of `Name` is such a text with such a
hash and length, and `Given` are those that can be typed: `Shown` of one need not be one. `Seen` is what remove's `memcmp` goes by: the
length, and the bytes of the first name dentry. On FAT the same happens to a name of more than ten letters (`fat.c` 1128-1139 copies
the beginning of the name to every piece). There the checksum starts from an uninitialised value (`fat.c` 1197):
`Garbage`.

`ExfatShell` has names of one name dentry only. A longer one is listed as its `Shown`, and `lookup`, which compares the text
of a path with the texts in memory, does not find it by the name it was given.

### FAT entries

`fat` is the FAT in nibbles, so that a FAT12 entry is three of them and its shared byte needs no bit arithmetic.
`Written12` and `Written` are the three functions that set an entry, `GetIn` the three that get one, `IsLast`
is `fat_check_last_cluster`. FAT12 entries are written to the first sector whatever their number, and read, if the cluster
is even, with four bits of the next entry (`fat.c` 526), although the change log says that incorrect FAT entries were
fixed (`CHANGELOG.md` 25). The properties of `FatTable` say what is left: `WritesOneEntry` and `ReadsBack` hold of every entry and
value on FAT16 and FAT32, and on FAT12 of an entry within the FAT's first sector and a value of at most 12 bits (`Fits`). Past the
first sector the entry is not where it is read, and the allocator's own end mark, of 32 bits (`fat.c` 653), spills from an
even cluster's entry into the next one.

### Seeded faults

An operator whose comment says *Seeded fault* is a plausible bug in the definition that follows it.
Nothing uses it: it shows, put in that definition's place, that a property can fail.

### Careful use

Most of what one wants of this program does not hold of it for every sequence of commands, and
the properties that matter are stated under conditions, each of which is needed. Of the exFAT allocator (`CarefulCall`,
`CarefulKill`):

- growth only where the scanned range has enough free clusters (else 557 grows the size without
  clusters, and 536 may never end);
- growth only of the root or of a directory whose fileinfo says what its dentry says and whose size is
  not 0 (else 507 links from the cluster before its first; a size of 0 is what `mkdir` leaves);
- trim only of linked directories other than the root, and never of all their clusters (581 does not
  change the size of a contiguous one; 585 wraps when all are freed; the root's recorded size is the
  whole heap, so a walk of it goes past the chain's end);
- remove only of an entry whose child in memory is what its dentry says;
- no kill between `Link` and `Mark` when the root grows, and none during a remove.

Of the shell on exFAT (`CarefulNext` of `ShellNaming`):

- the directory part of a path is there (else `create`, `mkdir`, `remove`, `rmdir`, `tail` and `stat` work on cluster -1, and
  the program follows NULL), and a path into the root is typed at the root (`Reaches`): of `/b` nothing is left for `lookup` when the
  name is split off (`shell.c` 282-283), and as that starts at the root only at a slash (1759), `create /b` adds to the current
  directory, against what `format_path` says of such a path (`shell.c` 566);
- `cd` only to what is a directory (a file's cluster becomes the current directory otherwise, `shell.c` 139);
- what grows has in memory the size and flags it has on disk (`InStep`), and does not have the size 0 of
  a directory `mkdir` has just made (`GrowsWild`): the first `create` in such a directory runs wild;
- remove and rmdir of a name whose hash no other child has (`CarefulTake`), not of the current directory, and in a directory
  whose number is not the index of a head (1449 cleans the head of that index), nor of one that the command's own lookup
  of the path and reading of the directory add to the table before it cleans;
- `trim` not in the root, and of an empty directory only if it is linked (a contiguous one's cluster is released
  and stays its own);
- memory that was never written holds zeros (`Zeroed`): otherwise new directories may look as if they
  had been read, and slots after the last head may look like heads.

The volumes the shell is started on have nothing wrong (`SoundImages`): some set of clusters, marked and with the root's among them,
are those of the directories; each but the root's is in one entry set, nothing else is in two, and every entry set has a name.

Of exFAT dentries (`ExfatNames`): no kill after the first write of a command as long as what it still has to write
differs from what is on disk (`Whole`): an entry set that lies in two clusters is torn, and a trim leaves
files twice or not at all. A free cluster holds zeros (`Zeroed`): the code clears none, neither when it takes one nor when it
frees it, and traverse goes past the end. `fill 0` is left out (`Counts`): `count - 1` wraps (2187). The random names of `fill` have
hashes of their own, since it does not look. Nothing else is asked. Names of any length can be typed, but what the
properties say of a name longer than 15 letters they say of the name it is read back as: `create` adds `Shown`, not what was typed.
When the program is first started the directory is in order (`SoundImages`): the
entry sets of its files are whole, behind the first unused dentry all are unused, and no two files have one hash.

Of FAT dentries (`FatNames`): the same, and create only of a name that no file has yet, in its long form or
its short form, since `create` does not look (`fat.c` 1281); remove only of a file whose dentries, and no others, have
the short name and the checksum the program computes (`CarefulRemove`). The short form of every name that is not
8.3 is its first six letters and `~1`, so two long names that begin alike are one file to `remove`. In the directories the program
is started on each piece of a long name is followed by the next and the last by its file, and unused dentries come last.

## Runs

| Run | Specification and instance | Shows |
|---|---|---|
| `exfat_any` | `Spec`: any command, raw ones included, kill at any step; 5 clusters, 1 slot | `TypeOK`; `BitmapCoherent`; `ChosenIsFree`. Every action of `ExfatAlloc` is taken, the runaway ones included |
| `exfat_careful` | `CarefulSpec`; 7 clusters, 2 slots, a contiguous or a linked directory to begin with | `OwnedIsMarked`, `ForeignFatKept`, and `ImplementsOwnership`: the code is a refinement of `ClusterOwnership` |
| `exfat_fill_trim` | `FillTrimSpec`; 9 clusters, 3 slots, the root, a contiguous and a linked directory side by side | no leak at the prompt (`ExactlyAccounted`), sizes true on disk and in memory (`SizeIsExact`), every command ends (`CommandReturns`) |
| `exfat_removed_not_released` | violation | `remove` of a linked chain frees nothing, though the change log says it was fixed |
| `fat_commands` | `FileSpec`: every file command, harmless raw commands, kill at any step; 7 clusters of which 4 are searched, 3 dentries, 4 images | `TypeOK`, `NoLinkToFree`, `OneWayIn`, and `ImplementsOwnership` with no condition on the commands. Every action of `FatClusters` is taken |
| `fat_careful` | `CarefulSpec`; 8 clusters of which 5 are searched | each command ends (`CommandReturns`), and the directory has the clusters it should have (`AsAsked`) |
| `fat_last_cluster` | violation; a directory of three clusters | the last cluster is not found, though the change log says it was fixed |
| `fat_table` | `Spec` of `FatTable`; all three file systems, two sectors of eight bytes | `WritesOneEntry` and `ReadsBack`, on FAT12 within the first sector and for values of 12 bits; `MarksEnd` |
| `shell_careful` | `CarefulSpec` of `ShellNaming`; two volumes of six clusters, 3 names of which two have one hash, absolute and relative paths up to two deep | `CacheIsDisk`: children in memory are those on disk; `PwdIsCluster`; `OneNamePerCluster`; `NeverAborts`; `MakesWhereAsked`, for paths whose directory is there but not for those of the root typed outside it; and `ImplementsNamespace` |
| `exfat_dentries` | `CarefulSpec` of `ExfatNames`; up to three clusters of four dentries, 5 names typed, and one that two of them are read back as | `KidsAreFiles`: what is listed is what is there; `NoNameTwice`; `UnusedIsLast`; `RemovesItsOwn`; `TrimIsTight`; and `ImplementsDirectory` |
| `dentries_empty` | violation | a directory from which a file of a long name was removed is not empty for `rmdir` |
| `fat_dentries` | `CarefulSpec` of `FatNames`; two clusters of four dentries or a fixed root of eight, 8 names | `KidsAreFiles`, `SetsAreWhole`: no piece of a long name without its file; `UnusedIsLast`, `TrimIsTight`, `ImplementsDirectory` |

Why the bounds are enough. For the exFAT allocator: the search looks at clusters 2..`ClusterCount`-1, of which 2 (bitmap and
up-case table) and 3 (root) are taken: 5 clusters leave one to find, one that is there but never looked at and
one past it, which is every case of the search's start, wrap and end; 7 and 9 leave four and six, so
that a linked chain of three, a contiguous run that is broken, and two growing directories fit
together. `MaxFill` = 2 makes a command go round the allocation loop twice. `MaxLen` is one above
the number of clusters, so that sizes can outgrow the volume in `exfat_any`. That run stops
behaviours (constraints `FewStrayWrites`, `SmallCache`) that have written to two words outside the
heap's part of the FAT, loaded a second directory, or grown one to three clusters. `RootFlags` is what
the never-initialised flags of the root's fileinfo (146-157) may hold. The theorems cover both values;
the runs take FALSE, since with TRUE the code takes the root for a contiguous file of the whole heap
and none of the conditional properties has a meaning.

For the FAT allocator: the images are a directory of one cluster beside one of two, the same with the second removed (its
clusters lost), a directory in the volume's last cluster, which no search looks at, so the search
starts inside its range, at its edge and beyond it, and (in
`fat_commands`) a volume full of one lost chain. `ClusterCount` is below `CountofClusters` because
`info.cluster_count` keeps 16 bits of the count, and because even without that the last two clusters are
not searched. `MaxGrow` of 2 (3 in `fat_careful`) makes a command go round its loop more than once.

`exfat_careful` does not check for deadlock, because a shell whose volume is full may have no careful
command left; it states no fairness, and all it checks is safety.

For the shell: a directory takes two entry sets, so that it is empty, half full and full; with three names there is always one more than
fits, and a path of two names reaches every directory the volume can hold. Three clusters are free or taken by
a directory or a file, so a removed directory's cluster comes back as another's, with its old head
still in memory.

For dentries: with four to a cluster an entry set of three or four dentries lies in one cluster or across two, at every
offset, and removing and filling leave gaps in all of them; a directory of full clusters has no unused dentry, which
ends every search in another way. Two names share a hash and differ, two share it and look the same to
`memcmp` and take three name dentries: one with its letters, one with the beginning of the name again, and the last without text. For FAT a name has none, one or two pieces. One image has a set by another
system that the program would remove wrongly, and one a volume label.

For `FatTable` two sectors give FAT12 entries that are within the first sector, across its end, and past it.

Fairness. `WF_vars(Step)` (`WF_vars(CarefulStep)` for FAT): the program is one thread that runs a command to its end, so a step that
can be taken is taken. Nothing is assumed of the user: no command need ever be typed.

## Proofs

`ExfatOwnershipProofs` proves first, of any commands, and for every volume size, number of slots, set of images and of raw arguments:

- `TypeCorrect`: `Spec => []TypeOK`: heads, dentries, sizes and registers are within their bounds. Of the FAT it says little: the
  runaway loops do write outside it, and the model has what lies behind as one cell (`Clip`), and the words before it;
- `BitmapCoherence`: `Spec => []BitmapCoherent`;
- `ChoiceIsFree`: `Spec => []ChosenIsFree`.

They rest on `Invariance`, the induction over `IInv == TypeOK /\ BitmapCoherent /\ ChosenIsFree /\ Ready`.
`TypeOK` is not inductive without `Ready`, which says what the registers hold at each label (that the root's
dentry or the removed entry has a slot and a first cluster when the code is about to use them, that a
loop which counts down has something left), and `ChosenIsFree` is not inductive without `BitmapCoherent`,
because the code tests the bitmap in memory while the property is about the disk. The proof has one
lemma per group of actions, and the step from one state to the next has one case per action.
`LeastExists` (every non-empty set of naturals has a least element, from the library's
theorems on finite sets) is what makes `StreamOf` and `Chain`'s CHOOSE well defined. The
assumptions are `VolumeAssumption`, `AllocAssumption` and `SystemAssumption`, which every run evaluates.

It proves then, of careful use and for every volume and set of images:

- `CarefulInvariance`: `CarefulSpec => []OInv`;
- `OwnedStaysMarked`: `CarefulSpec => []OwnedIsMarked`;
- `ForeignEntriesKept`: `CarefulSpec => ForeignFatKept`;
- `KeepsOwnership`: `CarefulSpec => ImplementsOwnership`, the refinement of `ClusterOwnership`;
- `OneOwnerOnVolume`: `CarefulSpec => []Promise!Exclusive`.

All are read off one inductive invariant, `OInv`. What is to be shown is about the lists of clusters that the disk
alone gives, but in the middle of a command the disk does not tell what is going on: a directory that grows has its new
clusters linked, marked and counted in three writes, and of a directory that shrinks the clusters past the
cut are linked among themselves but to nothing, still marked, and nobody's. `Growth(P)` says that
there is a list `P` of what the directory has and is about to get: disjoint from all that others have, marked but for its
last cluster before `Mark`, linked as far as it must be (a contiguous directory's own part need not be), and of the length the
registers say. `Rest(T)` says that there is a list `T` of what is left to be freed. Either is what the next write needs: that `Link`
writes the tip of `P`, so that no list on disk changes; that `Grow` makes the dentry's list `P`; that a second `Cut`
touches no directory. `RootGrows` is the same for the root, whose list grows as soon as a cluster is
linked, since its size is not recorded. `Room` says that the search has before it as many free clusters as it still needs, which is what
`CarefulGrowth` asks at the start, and so `ScanExhausted` and the runaway loops are never reached
(`NotExhausted`, `NoRunaway`). `DirectoryGrows`, `Trims` and `Removes` say where in its list the command is.

The lists are made by a recursive function, so first comes what it computes: `Trace(f, c, n, s)`, that s is the list of what is linked
from c in f, up to n clusters or the first entry that is no link, determines s (`TracePrefix`, `TraceIs`) and holds of `Chain` (`ChainTrace`,
by `Iterates`). Then three ways a list can change, or not: by a write elsewhere (`TraceKept`), by a write at its last
cluster when its length is given (`TraceKeptTip`), by a cut (`CutTrace`). The steps follow, one lemma each,
in the order in which a command takes them. The assumptions are those above and `SoundImages`: in each image each directory has
marked clusters of its own, the root's list ends with the end mark, and a dentry without a first cluster has size 0. The condition on the
root's flag in `InStep` is part of careful use because the code never sets that flag (146-157): where it reads as set, the code would
take the root for a contiguous file of the whole heap.

At last it proves, of fill and trim alone:

- `FillTrimAccounted`: `FillTrimSpec => []ExactlyAccounted`;
- `FillTrimExact`: `FillTrimSpec => []SizeIsExact`.

Both are about the prompt only, and what is said there fails in the middle of a command; `AccountInv` adds to `OInv` by how much.
`Lost` is the clusters that are marked and that no list on disk has. `NothingLost` says that they are within the `P` of a
directory that grows, or within the `T` of one that is cut, less the cluster just unmarked, and that there are none
otherwise. `OInv` only says that such lists exist, but the step to the next state must not lose the list it spoke of:
`Growth` and `Rest` each fix the first elements, the length and every link between, so there is only one
such list (`Agree`), and a step makes `P` longer (`GrowthGrows`) and `T` shorter by its first (`RestIs`). When `Grow` writes
the size, `P` is the directory's list and nothing is lost; when one cluster is left of `T` and that is unmarked,
neither. `Sizes` says that the fileinfo and the dentry of every directory but the one being changed are
alike and true; the steps that end a command make it so for that one too (`Settle`). The assumption beyond
those above is `ExactImages`: in each image nothing is lost yet and every size is true.

`FatOwnershipProofs` proves, for every volume size, number of dentries, growth and set of sound images:

- `TypeCorrect`: `Spec => []TypeOK`, which includes that a search takes only clusters in its range;
- `LinkedIsUsed`: `FileSpec => []NoLinkToFree`;
- `OneOwner`: `FileSpec => []OneWayIn`.

The last two need each other: that cutting a chain leaves no link to the next cluster to be freed follows
from `OneWayIn`, and that a cluster just taken is reached by nothing follows from `NoLinkToFree`. Both
hold in the middle of a command only because of what the registers hold there, which `Ready`
adds: a cluster just taken is marked and unreached until it is linked, the one to be freed next is
unreached, and `mkdir` never enters a cluster. The argument is three lemmas, one for each way an entry
is written (`MarkEnd`, `FreeUnreached`, `LinkUnreached`). The assumptions are `FatAssumption` and
`SoundImages`, that the two properties hold of the images the program is started on and that no two dentries there have one
first cluster.

It proves besides, with no condition on the commands but that raw ones harm no chain:

- `KeepsPromise`: `FileSpec => ImplementsOwnership`, the refinement of `ClusterOwnership`;
- `OneOwnerOnDisk`: `FileSpec => []Promise!Exclusive`.

Where nothing links to a cluster and no two entries link to one (`Single`, from `OneWayIn`), what is linked from it is a chain without
repetition that comes to an end (`ChainIsChain`: by the pigeonhole principle, a longer one than there are clusters would repeat),
and two chains from different clusters have no cluster in common. The invariant is `ChainInv`: to `IInv` it adds that no two directories have the
same first cluster (`Apart`), and, while a directory grows, that the cluster the next one is linked to ends a
list (`Extendable`): it is a directory's only one, or was itself linked just now, or it is no cluster, because
`fat_get_last_cluster` went one too far. This is what makes `Link` an `Extend` of one list, and the code's
fault harmless to the others: the entry it writes past the FAT's end (622) is in no list.

At last it proves, of careful use: `GetsAsAsked`: `CarefulSpec => AsAsked`. `AsAsked` looks only at the return of a command; `AskInv` adds to
`ChainInv` what part of it is done, in terms of the directory's list (`Progress`). A directory that grows has at each turn one cluster more for each that is no longer
`left`, the next one's predecessor is the last of them (`LinkAdds`), and there are as many free clusters where the search has not
been as are still to be found (`Room`, `RoomAfter`), so it does not come back to where it started (`NotExhausted`). Of one that is trimmed the
walk is at the cluster counted; the first write cuts the list to the length it is to have, and the others are to clusters
that nothing leads to (`CutAsks`). Careful use is needed for each: a directory of more than one cluster is linked to from the end
mark's cell, and a trim of all clusters does not end.

`FatTableProofs` proves, for every sector size, length of the FAT and set of values:

- `TypeCorrect`: `Spec => []TypeOK`;
- `OneEntry`: `Spec => []WritesOneEntry`, and
- `RoundTrip`: `Spec => []ReadsBack`: every entry and value on FAT16 and FAT32, on FAT12 those of `Fits`, an entry within the
  first sector and a value of at most 12 bits;
- `EndsSeen`: `Spec => []MarksEnd`.

The type invariant is all that is inductive here; the others follow from it in every state. What
they rest on is arithmetic: that the nibbles of two entries are apart (`Apart`), that an entry within
the first sector is not moved by the remainder (`FirstSector`), and that the bits of a
neighbour survive the `or` (`OrZero`, `Nibble12`, `Stored`). The assumption is `TableAssumption`.

`ClusterOwnershipProofs` proves `ExclusiveAlways`: in the abstract specification no cluster ever has two
owners. `KeepsPromise` and `KeepsOwnership` carry it to the code: it is the
guarantee that FAT16 and FAT32 give always, and exFAT under careful use.

`ShellNamingProofs` proves, for every volume, set of names, set of paths and bound on depth and entries:

- `TypeCorrect`: `Spec => []TypeOK`, whatever is typed and whatever `malloc` left in memory;
- `CommandsNeverAbort`, `CacheKept`, `PromptIsTrue` and `NamesAreSingle`: `CarefulSpec` keeps `NeverAborts`, `CacheIsDisk`, `PwdIsCluster` and
  `OneNamePerCluster`;
- `MadeWhereAsked`: `CarefulSpec => MakesWhereAsked`, for the paths of `Reaches`: not those of names in the root typed outside it,
  which end up in the current directory;
- `NamesAsPromised`: `CarefulSpec => ImplementsNamespace`, the refinement of `Namespace`;
- `AlwaysRooted`: in the abstract tree no name is without its directory, and the current directory is one that exists; by
  `NamesAsPromised` so it is on disk (`PromptIsRooted`).

None of the four invariants is inductive. That a loaded directory has in memory what is on disk says nothing of
one that is not loaded, whose head has a size and a parent which the next load and the next `exfat_update_filesize` go by; that
names lead to different clusters says nothing of what a removed directory left in the table; and a path is
found in memory, by heads, where `PwdIsCluster` is about the disk. The invariant is `Whole`: there is a set D of clusters,
those of the directories with contents, such that disk and bitmap are `Sound` (every entry set has a name, no two have one
cluster, a directory has a cluster of D just if it has a size), the table is true to them (`Mem`: one head
for each cluster, of a directory or of one that is gone, with children that are its entry sets but perhaps for
size and flag, and a head for every child that is a directory), and the current directory has a
head and is where PWD leads (`Holds`). D is what a command changes: it grows by the directory
that gets its first entry, and loses the one that is removed or trimmed. To this `Shallow` adds that PWD is
not longer than `MaxDepth`.

A command is told in three parts: what it reads (`MemTraverse`, `LookInMem`, `LocatedMem`: loading and looking up leave memory true, and
find what the disk has), what it does to the disk (`GrownTo`, `RemovedFrom`, `Trimmed`), and what the reload does with the head (`MemReload`); `GrownStep`,
`RemovedStep` and `TrimWhole` put them together. For the refinement each step also says that one disk keeps what
the other has, but for at most one entry set with nothing below it (`Becomes`). As the levels of the tree are
functions of the one above (`LevelsOf`), that carries over from entry sets to paths by induction on the depth
(`LevelsMeet`), and a tree that loses one path, which nothing is below, has taken one step of `Namespace` (`OneName`, `StepPromised`).

The proof found a condition too weak for any volume larger than the run's: `CarefulTake` asked that the directory's number be no slot of the table as
it is before the command, but the command itself adds heads when it looks the path up and loads the directory, and
`exfat_clean_dchain` (1449) goes by the table as it is then. The condition is about that table now. The assumptions are `ChainAssumption`, `ShellAssumption` and
`SoundImages`.

`ExfatNamesProofs` and `FatNamesProofs` prove, for every set of names, cluster size, bound on the clusters and set of sound images:

- `NamesInvariant`: `CarefulSpec => [](IInv /\ Zeroed)`, in each of the two;
- `TypesHold`: `CarefulSpec => []TypeOK`, in each;
- `KidsAreAlwaysFiles`: `CarefulSpec => []KidsAreFiles`, in each;
- `NoNameIsTwice` and `RemoveTakesItsOwn`: `CarefulSpec` keeps `NoNameTwice` and `RemovesItsOwn`, on exFAT;
- `SetsAreAlwaysWhole`: `CarefulSpec => []SetsAreWhole`, on FAT;
- `UnusedIsAlwaysLast`: `CarefulSpec => []UnusedIsLast`, in each;
- `TrimLeavesItTight`: `CarefulSpec => TrimIsTight`, in each;
- `DirectoryImplemented`: `CarefulSpec => ImplementsDirectory`, the refinement of `DirectoryNames`, in each.

But for the types none is inductive: between two writes the directory on disk is neither what it was nor what it will be, and what
the command returns to depends on the clusters it has not written. The invariant `IInv` says, beyond the types: between
commands the directory is in order (`Sound`) and its files are the children in memory (`Resting`); during
one there is a directory `old`, in order and as long as the buffer, whose files are the children in memory, the buffer is in order and what the
command makes of `old` (`Change`), and the disk is the buffer in the clusters written and `old` in the others (`Mix`).
With the last write the disk is the buffer. A kill comes where the disk is `old` or the buffer, because of `Whole`.

traverse and `remove`'s search are recursive functions, so first comes what they compute of a directory in order: that traverse lists the
names of the files and no others (`ListedIsComplete`, `ListedIsFileNames`), though exFAT's goes past unused dentries and both skip by the count
a dentry gives; and that the dentries marked are those of the file that was named (on exFAT `MatchIsWanted`, by the hash; on FAT
`MarksAreTaken`, by the short name and the checksum, which `CarefulRemove` says tell it from the others, `Telling`). They are said
with `Picks`, what a function picks out of a table going through it from its end, and by induction downwards
(`AgreeDown`). Then, of each command, that it makes of a directory in order a directory in order, with the
names asked for added (`CreateAdds`, `FillAdds`) or taken (`RemoveTakes`, `TakenSound`), or, by trim, the same names in the
same order: trim moves the dentries in use to the front (`MovedBy`), a file's dentries are next to each other before and after
(`MovedSound`), so the names read from them are the same (`MovedNames`). Growing appends zeros, which add nothing
(`GrownExtends`, `ExtendedSame`); what trim cuts off is unused, and less than a cluster is left (`PackedIsTight`, `TrimCuts`).

The refinements differ. On exFAT the names on disk change with each cluster written, and each such write must take or add only
names asked for: `Half` is a directory of which the first clusters are written; its file dentries are those
of the old one or of the new (`HalfAdded`, `HalfTook`), and traverse reads from it, torn as a set may be, no other name. During trim the
names are those of the buffer, as a dentry is there twice or not at all between two writes. On FAT a file whose long name
is in part written has another name, so the names of the refinement are the buffer's from the first write on (`WriteWorks`).

On exFAT a file's name is what its name dentries are read as (`NameAt`), so that it is the same name before and after has to be shown of
each step that moves, cuts or overwrites dentries: it depends only on the bytes of the name dentries behind the file's (`NameAtSame`),
it is the name itself or its `Shown` (`ReadAsShown`), and of a set that `create` made it is `Shown` (`MadeIsShown`).

The assumptions are `DentriesAssumption` (on exFAT it includes that what a name is read back as has its hash and its `Seen`, and is
the name itself if that takes one name dentry; on FAT, that the short form of a name that has no pieces, and what that is
read back as, are the name itself) and `SoundImages`; `Zeroed` is part of `CarefulSpec`.

Induction. The library's induction theorems take a predicate, and no installed prover can
instantiate one. `InductionLemmas` has induction as a statement about sets instead: a set of naturals with 0 and with the
successor of each of its members has them all, which follows from `LeastExists`. From it comes that applying a function n times is well
defined (`IteratesExist`), and so what `Chain` and `ChainOf` compute for every length; and that two functions that have
one equation, by which each value follows from the next, are the same (`AgreeDown`), and so what traverse lists for every directory.

Only model-checked: `CommandReturns`, since liveness is out of
the prover's reach. Refuted by runs, and so not proved: the properties of the three runs that expect a violation.

## Not modelled, and why

- Sector I/O, option parsing, hexdump, help, and the printing of boot sectors, FAT chains and bitmaps are I/O and formatting; they
  change nothing, or only what they are told to.
- The probe of the boot sector runs once, on one sector, before there is any other state.
- NLS, checksums and time stamps are functions of one string or number, without state. What matters of them, that
  names collide in the hash and the checksum, is in the models as constants.
- The FAT12 allocator: past the first sector of the FAT its entries are not kept apart (`FatTable`), and no property of
  `FatOwnership` would hold of it.
- FAT's `fill` in a directory of several clusters (`fat.c` 2151), and its `create` on a full volume (`fat.c` 1327), read and write
  past a buffer.
- FAT's directory cache: the functions are those of exFAT (`fat.c` 801-1073) but for traverse, whose way through the dentries is `Listed`.
- `fat.c`'s `rmdir` counts deleted dentries as contents (`fat.c` 1257-1266), so it refuses most directories that were used; `RemoveName` lets it do
  that or not.
- The unit tests and test scripts were read as documents.

## What is left

1. The boot probe as a pure function, if the geometry's checks are ever extended.
2. The torn writes that `Whole` excludes: which files a directory in order still has after one, and what a second run of the same
   command makes of it.
3. FAT's shell: `ExfatShell` over `FatDentries`' listing and FAT's rules for what may be removed.
