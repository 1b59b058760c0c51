# F17FS in TLA+

A verification development for the file system of this repository: `src/src/F17FS.c` over
`src/src/block_store.c` over `src/src/bitmap.c`. The modules model the calls of the interface,
TLC checks them on small volumes, and TLAPS proves what is stated under "Theorems".

## 1. The system

F17FS keeps a volume in a file mapped into memory: 65536 blocks of 512 bytes, of which the last
16 hold the free-block map, block 0 the inode bitmap, blocks 1-32 the table of 256 inodes and
block 33 the root directory. A directory is one block of seven entries (name, inode number); the
`vacantFile` byte of its inode says which slots are in use. A regular file has six direct pointers,
an indirect and a double indirect one. Hard links may name files and directories. A table of 256
descriptors (inode, position) lives in memory only.

| Component | State | Operations | Correct when |
|---|---|---|---|
| Namespace (`F17FS.c`) | inode table and bitmap, free-block map, directory blocks, descriptor table | `fs_format`, `fs_mount`, `fs_unmount`, `fs_create`, `fs_open`, `fs_close`, `fs_remove`, `fs_move`, `fs_link`, `fs_get_dir`; `searchPath`, `getFileInodeID` | no name leads to a freed inode, link counts are exact, no block is lost or shared, names are unique, a new name never changes an old path, the tree stays in one piece |
| File I/O (`F17FS.c`) | positions, sizes, pointers, index tables, bytes | `fs_read`, `fs_write`, `fs_seek`, `get_data_block_id`, `getFileSize` | a file behaves as a sequence of bytes, whatever level its blocks are on and whoever else has it open |
| Block store (`block_store.c`) | the mapped bytes with the map inside them; the inode store over the same bytes; the descriptor store | create/open, allocate, request, release, test, counts, read/write of a block, a part or a record | three plain devices: the map protects itself, and a call touches its block or record only |
| Bitmap (`bitmap.c`) | bytes | set, reset, test, ffz, total_set (used); flip, invert, format, ffs, for_each, import, export (unused here) | a set of positions, whatever the bits past the end hold |
| dyn_array (`dyn_array.c`) | a buffer, its capacity, the size | push, pop, insert, erase, extract, clear, sort, insert_sorted, for_each (`fs_get_dir` uses create and push_back) | a list: nothing lost or doubled, and what leaves goes once, to the caller or the destructor |
| serialize/deserialize | none of its own | no caller | (not modelled) |

How they interact: the namespace and file I/O call the block store, which calls the bitmap. The
inode table and the descriptors are "sub-stores" over the same code with 256 entries. There are no
threads, callbacks or messages: the code is sequential, and the hard parts are **sequences of calls**
and **crashes**: every store goes to a shared mapping, so what a call had stored when its process
died is what the next `fs_mount` finds.
A call reads records and blocks into local copies, changes the copies and stores them, and two
copies may be of one record; a call fails part of the way; a name, an inode number and a spelling
each identify a file in a different loop; counts of links must agree with entries spread over all
directories; a map is full; a boundary is rounded up in one place and down in another. The
list with the lines is `hazards` in `PROJECT.json`.

## 2. The modules

| Module | What it is |
|---|---|
| `Bitmap` | the bitmap operators, a bitmap being the set of its set positions |
| `BitmapBytes` | the same and all others, on the bytes of a bitmap in memory |
| `F17FS` | the namespace: one action per call, with its properties |
| `F17FSStores` | the calls of `F17FS` as lists of stores, made one by one, with crashes; its return states are those of `F17FS` |
| `Namespace` | abstract: directories bind names to nodes, descriptors are open on nodes |
| `F17FSInvariant` | the inductive invariant of `F17FS`: what its safety invariants need beside each other |
| `F17FSStoresInvariant` | what holds of the volume between any two stores, and after any crash |
| `F17FSNamespace` | the mapping under which `F17FS` implements `Namespace` |
| `F17FSClaims` | what the header or a comment says of a call where the code does otherwise |
| `MCF17FS`, `MCF17FSStores` | instances for TLC |
| `Files` | abstract: files as byte sequences, descriptors as positions in them |
| `FileIO` | positions, the three levels of pointers, read, write, seek; implements `Files` |
| `FileIOInvariant` | the inductive invariant of `FileIO`: which pointers of a file are set and where they lead |
| `MCFileIO` | instances of it |
| `BlockDevice` | abstract: blocks, each free or in use, each with a content |
| `BlockStore` | the three stores in their bytes; implements `BlockDevice` three times |
| `MCBlockStore` | an instance of it |
| `ObjectList` | abstract: a list of objects, some handed to the caller or to a destructor |
| `DynArray` | the buffer of a dynamic array; implements `ObjectList` |
| `MCDynArray` | an instance of it |
| `BitmapProofs` | the minimum and maximum of a set of naturals, and the scans of `Bitmap` |
| `F17FSProofs` | `F17FS`: the types, and the ranges of every lookup |
| `F17FSInvariantProofs` | `F17FS`: what a step that adds or drops entries does to the invariant, and that each call keeps it |
| `F17FSNamespaceProofs` | `F17FS` implements `Namespace`; what paths mean from one state to the next |
| `F17FSStoresProofs` | `F17FSStores`: each store of each call keeps the volume safe, all of them make the change of its action, and what follows for every behavior |
| `BlockStoreProofs` | `BlockStore`: the types, the three refinements, the count |
| `FileIOProofs` | `FileIO`: what each way of taking a block does to a file, what the loops of a read and a write do turn by turn, where a seek lands |
| `DynArrayProofs` | `DynArray`: the types, the refinement |

`F17FS` and `FileIO` both build on `Bitmap` for allocation (`bitmap_ffz` and `bitmap_set`, as
`block_store_allocate` does). They are two views of `F17FS.c`: `F17FS` has all inodes, directories
and names, with a file's blocks flat and no bytes; `FileIO` has a file's blocks, tables and bytes,
with files known by their inode. `BlockStore` justifies that both take the free-block map as a
variable beside the blocks although the code keeps it inside them.

### Correspondence: `F17FS`

`fbm`, `imap`, `inode`, `dblock`, `fd` are the free-block map, the inode bitmap, the inode table,
the blocks read as directory blocks, and the descriptor table; `mounted` says whether the caller
holds a volume. Each action is a whole C function on one of its outcomes: a call that fails
without having changed anything is simply not enabled; one that fails **after** a change is an
action (`fs_create_no_block`, return -12; `fs_remove_busy`, return -7). The order of the stores, and
what each local copy held when it was read, are kept in the order of the `EXCEPT` clauses: see
`fs_remove_dir_link`, where the second store undoes the first if both are of one record, and
`fs_link`, where the code takes care of it.

Kept as the code has it: lookups compare a prefix (`Matches`), `searchPath` takes the last
matching directory and `getFileInodeID` the first matching entry; `fs_remove` clears the entry with
the exact name, `fs_move` the first slot with the inode number; whether a move goes below its own
source is decided on spelling (`SpelledBelow`); `fs_remove` of a regular file leaves the name in
the cleared entry (line 926 calls `strncmp`), a remove of a directory does not.

Left out: textual variants of a path (`//a`, `/a/`), names of 64 bytes and more, null arguments,
failures of `malloc` and of the mapping. A record's fields that the C code leaves uninitialised
(`vacantFile` of a file, the further pointers of a directory) are read by no call for that type.

`torn` is a history variable: it becomes TRUE when `fs_remove_busy` has released blocks of a file
that stays. From then on the volume is corrupt by the code's own doing (two files may share a
block), which the run `remove_busy` reports; the invariants speak of volumes that are not `torn`,
and `CONSTRAINT Whole` stops there. `fs_remove_busy` itself stays enabled, on empty files
too, where it releases nothing and the exploration goes on.

### Correspondence: `FileIO`

`fd[f]` is the C structure (inode, `usage`, `locate_order` in 16 bits, `locate_offset`).
`get_data_block_id` is an operator on a call in progress, a record of the map, the inode and the
blocks as its stores have made them; `WriteLoop` and `ReadLoop` follow the loops of `fs_write` and
`fs_read` chunk by chunk, a turn of the loop being `WriteTurn` and `ReadTurn`. A block is either bytes or an index table. `Stale` stands for
bytes nobody wrote: what a data block holds beyond what was written to it. A released block and
the record of a removed file are reset in the model, since no call reads them before it stores
something else.

What a read or write does at a position outside every table is undefined in C and not followed
(`InTable`); such positions arise from the seek of the `seek` run only: `TableInv` is the theorem that says so.

`WholeSpec` is the specification that `CONSTRAINT Whole` makes of `Spec`: no step leads on from a volume with a torn
remove, on which two files may share blocks. The theorems are about it.

`FilesSound` (`FileIOInvariant`) says of every file what `get_data_block_id`, `fs_write` and `fs_remove` rely on: it has set exactly
the pointers its size needs, through all three levels, each leads to a block of its own that is marked, a data block holds bytes and an
index block a table, free blocks hold nothing, and a descriptor is not past the end of its file. The pointers are numbered by **places**: data
block `n` is at place `n`, the indirect pointer at -1, the double indirect one at -2, entry `o` of the outer table at `-3 - o`; `First(p)` is
the first data block that needs the pointer, so a file of `n` blocks has set the places with `First(p) < n`.

### Correspondence: `F17FSStores`

Every call reads a record or a block before its first store to it, so what it will store is known
when it begins. A call is therefore two things: an action `begin_...`, with the guard of the action
of `F17FS`, that puts the list of its stores into `todo` in the order of the code, and `Store`,
which makes the first of them. A store is one bit of a map, one record of the inode table or one
block: each is one assignment or `memcpy` in the C code. What the descriptors are changed to is
in memory and invisible until the call returns, so `fs_remove_busy` changes `fd` when it begins.
`Crash` drops what is left of `todo`, the descriptors and the mount; the bytes stay, as they do when
the process dies (`mmap` with `MAP_SHARED`, `block_store.c:62`). A loss of power, where the kernel may
have written pages in another order, is not modelled. `fs_format` is one step, as a crash in it
leaves no volume a caller was given.

`atRisk` and `harmed` are history variables that no call reads: the file that a remove of a regular file, or a
move across directories, is working on, and the files that such a call was cut off in by a crash, until the next
`fs_format`. The properties exempt these (`Exempt`) and no others,
for this is what the code can do to them: a remove decrements the count (line 851) or frees the blocks and
the inode (line 911) before it clears the entry, and a move leaves the file with two entries and one
link, or its only entry in a slot not in use.

After a crash the exploration goes on, with the calls that
follow on what it left: inodes and blocks marked and never used, a slot in use with an
entry of inode 0 or with a stale one, and a harmed file, which may be looked up, opened and moved.
It ends where a call begins that stores to the **remains** of a harmed file, that is to its inode or a block its record
points to (`Remains`, `RemainsUntouched`): a call that writes the file, takes it apart or counts a link of it, or, the case to know of, an `fs_create` or `fs_write`
that is given its inode or a block of it as a free one. From then on the code has two files share an inode or blocks
(the entry survives the crash, and lines 851-911 have cleared the bits), other files than the harmed one lose
data, and nothing is claimed. So the properties say that the harm stays with that file until such a call,
and not that it always does.

The loop of `fs_remove` that releases a file's blocks (line 857) makes a turn per pointer, so `ReleaseStores` has a store per
pointer, and a turn that finds no block to release clears a bit that is not there.

`WholeSpec` is the specification that `CONSTRAINT Whole` makes of `StoresSpec` in the run: no step leads on from a
torn volume, or from the beginning of a call that will store to the remains. The theorems are about it.

`CrashSafe` (`F17FSStoresInvariant`) says what a volume still is when it was cut off anywhere. It
looks at every slot, in use or not, of every block, since a crash can put a slot in use with what it held
long ago, and says that what is **held** by a slot is marked, has a link count not below the number of slots that hold
it, and has blocks that are marked and nobody else's.

`StoresImplementCalls` is the other half: at its return each call has done what the action of `F17FS` does
in one step, with `AtReturn` showing the volume as it will be when `todo` is done. The run `crash`
shows it also for volumes a crash has left, of the calls that do not store to the remains.

### Correspondence: `Namespace`

A node is an inode that some entry in use names and that is marked in `imap`; the bindings are the
entries in use of live directories. `fs_create_no_block` and the writes are stuttering
steps. It holds of the code under the conditions of section 3 (`NamePrefix = {}`, not `torn`). It is weaker
than a reader may expect in one place: which of two names of one node a move drops is not told
by `Rename`, see `move_sibling`. The entry with an empty name that the removal of a directory from
itself leaves behind (see section 3) is not a binding, since no caller can name it.

### Correspondence: `BlockStore` and `BitmapBytes`

Memory is a function from addresses to bytes, and a byte the set of its bits that are set. `data` is the
mapped device; the free-block map is the bitmap of all blocks at `MapAt`, as `bitmap_overlay` has it, and
the inode store is a bitmap at block 0 with records from block 1 on, as `fs_format` lays it out.
`fdmap` and `fddata` are the descriptor store. All stores go to a shared mapping, so closing and
opening change nothing. Block numbers are tested with `<= BLOCK_STORE_AVAIL_BLOCKS`, as in the code,
which lets the first block of the map pass; the run gives only smaller numbers, as every caller in
`F17FS.c` does. With `AvailBlocks` among `Ids`, `MapIsReserved` is false after one release.
The operations of `BitmapBytes` follow the masks, the leftover byte and the loops over whole bytes;
`AgreesWithSet` compares each with its meaning on a set, with bytes around the bitmap that must not
change. So `Bitmap`'s sets stand for the bytes in the other modules.

### Correspondence: `DynArray`

A capacity is one of the doublings of the least one (`Doubled`), the only values the code can give it.
`capacity`, `size`, `cells` and `destructor` are the fields of the structure, `live` whether there is
one. The calls are the C functions, all through `dyn_shift_insert` and `dyn_shift_remove`; `memmove`
and `memcpy` move cells of the buffer, of which those beyond the size keep what they held. `out` and
`destroyed` are history: what the last call gave to its caller or to the destructor.
`dyn_array_sort` is any order `qsort` may return. Left out: null arguments, failures of the
allocator (the call changes nothing), and indexes so large that `position + count` wraps.

## 3. The runs

All passing runs of `F17FS` use names that are not prefixes of each other (`NamePrefix = {}`): with
prefixes nearly every property fails, for the one reason the run `remove_prefix` shows. The names
are symmetric; two are enough for a name and an alias or a name to move to, and a third fills a
directory of two slots. Paths of two components reach a directory in a directory, of three one
level below it. Links and two directories below the root together make too many states once there
are files as well, so the runs divide the ground: `volume` has links and files and one such
directory, `lookup` links and two of them, `tree` files and two of them.

| Run | Instance | What it shows |
|---|---|---|
| `volume` | 3 names, 3 inodes, 2 slots, 3 blocks (one for a directory or data), 1 descriptor, links up to 3 | `NoDanglingEntry`, `LinkCountExact`, `BlocksExact`, `FdLive`, `UniqueNames`, `Consistent`, `RemoveUnbinds`, `LeakOnlyWhenFull`, `ImplementsNamespace` (refinement): all calls in any order on a volume that can run out of inodes, slots, blocks, links and descriptors |
| `lookup` | 2 names, directories only (`DirectoriesOnly`), 4 blocks (two below the root), links up to 3 | `ResolutionStable`: adding an entry changes what no existing path means, cycles of links included; `CreateListed`, `LinkCountExact`, `BlocksExact`, `Consistent`, `ImplementsNamespace` |
| `tree` | no hard links, paths of 3, 2 descriptors, files of 2 blocks, 5 blocks | `NothingCutOff`, `MoveIsRename`, `ResolutionStable`, `BlocksExact`, `FdLive` |
| `crash` | 2 names, 3 inodes, 2 slots, 3 blocks, 1 descriptor, links up to 2, one crash | `CrashKeepsEntries`, `CrashKeepsBlocks`: nothing but the file being removed or moved is harmed by a crash, nor by the calls after it, up to the first one that stores to the remains of that file; `CrashSafe`: what the calls rely on afterwards, stale slots included; `StoresImplementCalls` (step simulation): the stores of a call add up to its action |
| `device` | 8 blocks of 2 bytes of 2 bits, 2 of them the map; 2 inodes in one block, 1 descriptor | `IsBlockDevice` and `AreTables` (refinements), `MapIsReserved`, `FreeCountHonest`; `BytesAreBits`: every bitmap of up to three bytes and a bit |
| `array` | 3 objects, two of which compare equal; buffers of 2 and 4 cells | `ImplementsObjectList` (refinement), `CallsHitTheirElement`, `TypeOK` |
| `fileio` | 1 file, 2 descriptors, 1 direct pointer, tables of 2, blocks of 2 bytes, 8 blocks | `ImplementsFiles` (refinement), `ReadBack`: a long write crosses three blocks and any level, and runs out of space at each |
| `sharing` | 2 files, 1 descriptor, blocks of 1 byte, 11 blocks | `BlocksExact`, `FilesSound`, `ShortWriteOnlyWhenFull`, deep enough for the second inner table of a double indirect pointer, and for its blocks to be released and used again by the other file |

The bounds are small because each hazard needs few things at once: two links, two
directories, one full resource. 3 inodes are the root and two more: a directory and a file, two
directories in each other, or one inode with several names. One to three blocks are left for
directories and data, so that both a full map and a reused block occur. In `crash` one crash is
enough, since what follows it is explored like any other state, up to a call that stores to the remains of a harmed file; a second one inside
what the first left behind is not. In `array` the buffer grows once and is then full. `MaxDepth`, `DirectBlocks`,
`Locations`, `MaxCrashes` and the sets of buffers and offsets are the bounds that have no counterpart in the code.
`Bound` and `NotBound` only spare TLC the paths whose calls are not enabled.
`tree` takes `MaxLink = 1` because with hard links `NothingCutOff` and `MoveIsRename` fail
(below, and `move_sibling`). `fileio` seeks to every location but those inside the last direct
block past its start (`seek`). `Whole` and the symmetry of names or files are used with safety
properties only.

Deadlock is checked in all runs. No fairness is assumed and no liveness is stated: a call runs to
its return, nothing waits for anything, and what happens next is the caller's choice.

Where the code does not do what it says (each run checks one claim, and fails):

| Run | The claim | What the code does |
|---|---|---|
| `remove_busy` | a remove "closes all open descriptors to the file" (`F17FS.h:141`) | with any descriptor open, of any file, it releases the file's blocks, closes at most one descriptor and returns -7; inode and entry stay |
| `move_sibling` | a move moves the file named (`F17FS.h:158`) | of two links in one directory the first is cleared, whichever was named |
| `remove_prefix` | a remove deletes the file given (`F17FS.h:141`) | `/a` finds the inode of `/ab`, frees it and clears no entry |
| `seek` | the position moves to the location given (`F17FS.h:104`) | from 5*512+1 to 6*512-1 it becomes order 65535 of the indirect blocks |

Two more, seen in the same model and without runs of their own: the removal of an entry of a directory
that names the directory itself (a hard link into itself) leaves the slot in use with an empty name,
since the record stored at line 839 is the copy read before line 828; and through a hard link a
directory can be moved into itself, although line 1154 rules it out, because line 1125 compares
spellings.

The prefix comparison has further consequences not given runs of their own: a file created in
`/a/` may land in `/ab/` (line 225), a name that begins an existing one cannot be created, and
`fs_move` refuses `/a` to `/ab` (line 1125 compares the whole of src).

Every property of a passing run has a mutant in `PROJECT.json`: a definition changed as a bug would
change it, under which TLC finds the property violated. The mutant operators stand before the
definitions they replace, marked "Mutant".

## 4. Theorems

All theorems hold for every value of the constants under the assumptions named in the modules
(`SizeAssumption`, `NameAssumption`, `StoreAssumption`, `CapacityAssumption`, `ObjectAssumption`) and the
hypotheses given here. `PROJECT.json` lists them with the property each one states.

### `F17FS`: types

`F17FSProofs!TypeCorrect`: `Spec => []TypeOK`, for all sizes, all sets of names and **all** prefix
relations. That no call stores a number outside its table takes an argument about lookup: a path
resolves to the result of the last step of the walk, which is a slot's inode number, or SIZE_MAX,
which each call tests; a slot taken is the scan's result, a clear bit (`BitmapProofs!FfzSpec`). `TypeOK` is
inductive by itself. `searchPath` is written with its last step outside the recursive
function, so that its range follows without an induction over the path.

### `F17FS`: the invariant

`F17FSInvariantProofs!Invariant`: `Spec => []IInv` when `NamePrefix = {}`, that is, when no name is a
proper prefix of another. Otherwise it is false, as the run `remove_prefix` shows, and no weaker condition
on the names helps: one name that begins another is enough. `IInv` is the conjunction of `TypeOK`, the invariants
`NoDanglingEntry`, `LinkCountExact`, `BlocksExact`, `FdLive`, `UniqueNames`, and `Consistent`, which the
runs `volume` and `lookup` check too. None of the five is inductive alone, and `Consistent` is what they
lack, each part for a call that would break them:

- `RootIsDir`: the root is never an inode a remove may free or a create may take.
- `LiveHasType`: what an entry names was created, so it is not taken for a free record.
- `UnnamedDirsEmpty`: the record of a directory that was removed keeps its type, and has no slot in use;
  otherwise its entries would be links that `LinkCountExact` must count.
- `UnusedSlotsBlank`: `fs_move` looks for its source's inode number in all slots, in use or not
  (line 1175), so a stale number there would have it clear the wrong slot.
- `UsedSlotsNumbered`: a lookup takes inode 0 for "not found", and `fs_move` takes an entry by its number alone;
  the entry the removal of a directory from itself leaves (line 839) has neither.

The proof goes by what a step does to the **entries in use**, not by the fields it assigns. `Effect(Out, In)`
says that the step takes the slots `Out` out of use and puts `In` in use; `CleanEffect` adds that what goes is
blanked and what comes has a number and a name nobody in its directory has. Three lemmas carry the invariant
over such a step: `AddKeeps` (an inode is created, with its first entry), `FreeKeeps` (an inode loses its last entry
and its blocks), `RelinkKeeps` (entries and counts change, no inode appears or goes). Each call is then shown to be one of the three,
from what its lookups found (`CreateFinds`, `RemoveFinds`, `UnboundIsFresh`). The calls that touch only
descriptors or a file's blocks have lemmas of their own. After a torn remove only `fs_format` makes the volume whole again (`TornUntilFormat`),
and it establishes everything anew.

From `IInv` follow `VolumeConsistent`, `EntriesNameInodes`, `LinksCounted`, `BlocksAccounted`, `DescriptorsLive`, `NamesApart`,
and the action property `LeaksOnlyWhenFull`: a step that leaves an inode marked and unnamed is
`fs_create_no_block`, as every other step drops a name only with its inode.

### `F17FS`: the refinement, and paths

`F17FSNamespaceProofs!Implementation`: `Spec => ImplementsNamespace` when `NamePrefix = {}`. The lemmas `AddedName`,
`DroppedName` and `MovedName` translate a `CleanEffect` of one entry into what happens to the set of
bindings, and one lemma per group of calls gives the abstract step, or the stutter, it is.

The second part of the module is about what paths mean, under the same hypothesis: `PathsStable` (`ResolutionStable`), `CreatedIsListed`
(`CreateListed`) and `RemovedIsUnbound` (`RemoveUnbinds`). `searchPath` and the abstract walk are recursive functions of
the path's length. That such a function satisfies its defining equation is shown with a
least counterexample (a set of naturals that is not empty has a least element, `BitmapProofs!MinProperties`), and so is every
statement about the walk: if some path were to change its meaning, take the shortest. So the library's induction theorems
are not needed, and paths have any length and may run through cycles of links.

### `F17FSStores`: crashes

`F17FSStoresProofs` proves four properties of `WholeSpec` when `NamePrefix = {}`: `CrashesSafe` (`CrashSafe`), `EntriesKept`
(`CrashKeepsEntries`), `BlocksKept` (`CrashKeepsBlocks`) and `CallsImplemented` (`StoresImplementCalls`), for all sizes of the tables and
any number of crashes, where the run has one.

`IInv` is of no use here, as a crash breaks it: inodes and blocks are lost, counts are too high, slots in use are stale. What is
left is `Safe(v, A, D)`, of a volume `v`, the set `A` of files that are exempt and the inodes `D` that are open; `CrashSafe` is
`Safe` of the volume there is, with `Exempt` for `A`. It has to count slots that are **not** in use, because the next crash inside `fs_create`
may put one in use with its old number before the new entry is stored (`EntryBit`); `CountsCover`, `HeldMarked` and `ClaimsApart` are
about all slots for this reason, and for the same reason `Safe` holds only because `fs_remove` and `fs_move` blank the slots they
free. Of the two ends of an inequality the code keeps one: a count may be too large (the inode is never freed) but not too small.

The inductive invariant is `StoresInv`: the volume is `Safe`, and inside a call that leaves the remains alone `SafeRun(v, A, C, D, q, w)` holds of
the stores `q` still to make: each leads to a safe volume, with `A` exempt until the last and `C` after it, and all of them lead to `w`. So a
crash at any place leaves a safe volume, in which what was exempt during the call is harmed, and a store takes a run to a shorter run. The proof has

- one lemma per kind of store, saying when it keeps a volume safe: `MarkSafe`, `NewRecordSafe`, `RecordSafe`, `EntryBit`, `EntrySafe`,
  `ClearBlockSafe`, `ClearInodeSafe` and so on. The premises are the order of the stores: `ClearBlockSafe` needs that nothing
  held claims the block any more, so the entry must have gone before;
- one lemma per call (`CreateFileBegins` ... `LinkBegins`), which goes through its stores in the order of the code and ends with
  what they make of the volume, all together (`Begins`). Its premises say which inodes and blocks must not be harmed ones:
  a directory that gets or loses an entry, the inode that is unlinked, linked or created, the block that is taken;
- `UntouchedCreateFile` ... `UntouchedRelease`: a call that leaves the remains alone satisfies these premises, since each of them is an
  inode or a block that the call stores to. A move across directories needs none;
- `CallsCreateFile` ... `CallsLink`: that end is the volume of the action of `F17FS`, seen through the mapping (`AtReturn`).
  `AllStored` is a recursive function of the list's length; that it yields the `w` of the run is shown by a least counterexample.

The theorems leave out what the properties do: a torn volume, and what happens from the first call on that stores to
the remains of a file that a remove or a move across directories was cut off in. They do cover such a file's volume until then, with any number
of harmed files and further crashes.

### `FileIO`

`FileIOProofs` proves of `WholeSpec`, for every number of blocks, files and descriptors and every size of the blocks and tables:

- `FilesInvariant`: the inductive invariant, `FilesInv`, that is `TypeOK` and `FilesSound`. From it follow `FilesTyped` (`TypeOK`),
  `FilesStaySound` (`FilesSound`) and `FilesExact` (`BlocksExact`). They have no hypothesis: seeks may go anywhere.
- When no seek goes into the gap (`NoSeekIntoGap`): `FilesInTables`, every descriptor is at a block its file can have;
  `ShortWrites` (`ShortWriteOnlyWhenFull`), `SeeksLand` (`SeekLands`) and `ReadsBack` (`ReadBack`).

The gap is what the run `seek` shows: the bytes of the last direct block past its start. A seek there leaves a position outside every
table, where a read or a write of the C code has no defined result. `NoSeekIntoGap` says that none of the
`Locations` is in it; with blocks of 512 bytes and six direct pointers these are 511 of the locations of a file. So `SeeksLand` and
the run `seek` together say that the gap is the whole of that bug, through all three levels of pointers: rounding the block number in two
ways (line 997) does no harm anywhere else.

`TypeOK` alone is not inductive, since a block is bytes or a table and only `FilesSound` tells which; nor is `BlocksExact`, which counts
what a file holds but not where. The proof has these parts:

- A file alone. `FileOf` is what the invariant says of one file, `Extended` that it has one data block more with the index tables it is
  the first to need, and no pointer moved. Each of the six ways through `get_data_block_id` that take blocks is shown to be that
  (`DirectExtended`, `FirstIndirectExtended`, ...), `NewPlaces` being the places it adds, and `RowOrder` the arithmetic of the inner tables.
- All files. `GrowSound`: a file that is extended in blocks that were free leaves the others as they are.
- The loops. An invariant of a turn (`WriteTurns`, `ReadTurns`) is carried along the recursive function of the loop by a least counterexample (`WriteEnds`, `ReadEnds`), as in
  `F17FSNamespaceProofs`. A turn that finds no block leaves the volume sound: nothing is taken unless all that is needed is free (`Free`).
- The positions. `Advances` and `NextBlockIs`: at the end of a block the position goes to the next one, whichever level it is on, and
  `getFileSize` of it is the number of bytes before it; `LocatedIn` says the same of what `fs_seek` computes.
- A remove. What is released is exactly what the file's places lead to, so the other files keep theirs.

The assumptions about the constants (`FileIOAssumption`) are the widths of the C code: block numbers, orders and the number of entries of a table
fit 16 bits, the metadata is not empty, there are direct and indirect pointers, and the volume is smaller than what the three levels of one file can
hold, as 65520 blocks are.

### `BlockStore`

`TypeCorrect`: `Spec => []TypeOK`, for all sizes that `StoreAssumption` allows
and all block numbers a client passes: no operation sets a bit or copies a buffer outside the
device or the descriptors' memory. That is arithmetic: `Layout` says where the map lies (at
`(NumBlocks - FbmBlocks) * BlockBytes`, with a bit for every block, to the last byte), `InMap`,
`InInodeMap`, `InInodes`, `InFds` and `InBlocks` put the byte of every bit and the ends of every
record and block in their memory, by the rules of `\div` and `%`. The number past the end
that the functions let through, `BLOCK_STORE_AVAIL_BLOCKS`, is covered: it is the first block of the map,
within the device.

The others need what the functions do not test and the callers keep to: block numbers below
`BLOCK_STORE_AVAIL_BLOCKS` (`Ids \subseteq 0 .. (AvailBlocks - 1)`) for `MapStaysReserved`, `StoreIsDevice` and `CountIsHonest`, and
blocks after the inodes (`Ids \subseteq UserBlocks`) for `StoresAreTables`. `F17FS.c` does: the numbers it writes to
are the root's block, 33, and pointers that came from `block_store_allocate`, which finds no block below 34 as
`fs_format` has allocated all of them, nor one of the map, which is marked (`MapStaysReserved`, `CountIsHonest`).

- `MapStaysReserved` (`MapIsReserved`): `Marked` restates it about bytes; a new device has it
  (`NewDeviceMarked`), and a step keeps it because a copy ends before the map and a cleared bit differs in its byte or in its
  place in it (`BitsApart`).
- `StoreIsDevice` (`IsBlockDevice`) and `StoresAreTables` (`AreTables`): the three refinements of `BlockDevice`. `SameBytes(new, mem, from, to)`
  says that a region was not written, and `RegionsKept` what that leaves as it was: the map, the inode bitmap, the inode records, the blocks. Each
  operation writes in one region; that its bits and records are where the abstract one has them is
  `BitsAfterSet`, `BitsAfterReset`, `RecordsApart`.
- `CountIsHonest` (`FreeCountHonest`): `get_data_block_id` tests the count of free blocks and not the result of `allocate`. The count is a fold
  over the bytes of the map; `TotalOfFullBytes` gives its value when every byte is full, and `FullMapCount` concludes that
  a count above zero leaves a clear bit for the scan to find.

### `DynArray`

`TypeCorrect`: the elements lie in the buffer and the capacity never passes `DYN_MAX_CAPACITY`. The one
assumption about that constant is that doubling reaches it (2^56 from 16): then a capacity below it is at most half of it
(`CapacityFacts`), and the shift in `dyn_request_size_increase` cannot pass it.

`ArrayIsList`: `Spec => ImplementsObjectList`. `InsertEffect` and `RemoveEffect` say cell by cell what
the two overlapping `memmove`s leave, `InsertAtIs` and `RemoveAtIs` what the operations on sequences are element by element, and a
permutation of the cells is one of the list (`ShiftedBijection`). `CallsAre` brings the 18 calls down to seven cases.
`CallsNameElements` (`CallsHitTheirElement`) follows from the same lemmas, with `SortedStep` for `insert_sorted`: what stands before the place it finds ranks
below the object and what stands after it does not.

### Model-checked only

- `NothingCutOff` and `MoveIsRename` are false with hard links (two links let a directory be moved into itself, and a
  move of one of two siblings drops the first), and the code has hard links. They are checked in the run `tree`, with
  `MaxLink = 1`; a theorem under that hypothesis would not be about this program.
- `ImplementsFiles`, the refinement of `Files`: it needs what a whole write does to the bytes of its file, chunk by chunk and over the
  tables it builds on the way, beside what is proved of the pointers. Its reading half is `ReadsBack`, its seeking half `SeeksLand`.
- `BytesAreBits`, a comparison over all bitmaps of a few bytes; of the operations in use, `BitsAfterSet` and
  `BitsAfterReset` (set and reset), `FfzIsClear` and `FullMapCount` are proved for every size.

Liveness is not stated (section 3), so nothing is left to TLC for that reason.

## 5. Not modelled

- `block_store_serialize` and `block_store_deserialize`: no caller, and they read and write the bitmap object
  as if it were its bytes.
- A loss of power, where stores reach the disk in another order than they were made; a crash in `fs_format`.
- `fs_mount` and `fs_format` of a file that cannot be opened (`F17FS.c:95,155`: the result of the
  block store is not tested, and a volume is returned).
- Calls that change nothing and whose result no other call uses: `block_store_test` and the reads of
  a part, `dyn_array_front`, `back`, `at`, the sizes.
- Liveness: there is nothing to wait for.

## 6. Plan

Done, in this order: `Bitmap`, `F17FS` with its runs, `BlockStore` over `BlockDevice`, `FileIO` over
`Files`, the first theorems; then `F17FSStores` with crashes, `Namespace`, the bytes of `BitmapBytes` and
`BlockStore`, `DynArray` over `ObjectList`, and the types of `BlockStore`; then the inductive invariant of `F17FS`, its
refinement of `Namespace` and its paths, the refinements of `BlockStore`, and `DynArray`; then the crash properties and the step
simulation of `F17FSStores`; then the inductive invariant of `FileIO`, and its reads, seeks and short writes.

What is left is `ImplementsFiles`. The lemmas it would start from are there: a turn of a write extends a file without moving a
pointer, `DataWritten` says that a chunk changes one data block and moves no pointer, and `ReadsBack`
gives the bytes of a file. Missing is the loop invariant that puts the chunks of a write together.
