------------------------------- MODULE F17FS -------------------------------
(***************************************************************************)
(* The namespace of the F17FS file system (F17FS.c): the inode table and   *)
(* its bitmap, the free-block map, the directory blocks and the table of   *)
(* open descriptors, with one action per call of the interface.            *)
(*                                                                         *)
(* The program is sequential: a call runs to its return before the next    *)
(* one starts, so a call that succeeds, or fails after it changed          *)
(* something, is one action; a call that fails without changing anything   *)
(* is an action that is not enabled.  A C function often reads a record or *)
(* a block into a local copy, changes the copy and writes it back, and one *)
(* copy may overwrite another: the EXCEPT clauses below are in the order   *)
(* of the stores, each with the value the copy had when it was read.       *)
(*                                                                         *)
(* What is abstracted: a path is the sequence of its components (so the    *)
(* spellings "//a" and "/a/" are not distinguished from "/a", and every    *)
(* name is shorter than 64 bytes); a file has DirectBlocks blocks, reached *)
(* by its direct pointers, and its bytes and positions are left out, every *)
(* buffer written being a whole block of zero bytes.                       *)
(***************************************************************************)
EXTENDS Bitmap, Sequences, FiniteSetsExt

CONSTANTS
    Names,          \* the names a caller may give
    NoName,         \* the empty name, of a cleared directory entry
    NamePrefix,     \* <<n, m>>: the string n is a proper prefix of m
    MaxDepth,       \* bound: the longest path a caller gives
    NumInodes,      \* 256: records in the inode table
    NumBlocks,      \* BLOCK_STORE_AVAIL_BLOCKS, 65520
    MetaBlocks,     \* 33: blocks of the inode bitmap and the inode table
    Dentries,       \* 7: entries of a directory block
    DirectBlocks,   \* bound: blocks of a file (6 direct pointers)
    NumFds,         \* 256: descriptors
    MaxLink         \* 255: links to one inode

ASSUME NameAssumption ==
    /\ NoName \notin Names
    /\ NamePrefix \subseteq Names \X Names

ASSUME SizeAssumption ==
    /\ NumInodes \in Nat \ {0}
    /\ MetaBlocks \in Nat \ {0}
    /\ NumBlocks \in Nat
    /\ MetaBlocks < NumBlocks
    /\ Dentries \in Nat \ {0}
    /\ DirectBlocks \in Nat \ {0}
    /\ NumFds \in Nat
    /\ MaxLink \in Nat \ {0}
    /\ MaxDepth \in Nat \ {0}

VARIABLES
    fbm,        \* the free-block map: the blocks marked in use
    imap,       \* the inode bitmap: the inodes marked in use
    inode,      \* the inode table
    dblock,     \* the blocks, read as directory blocks
    fd,         \* the descriptors: the inode of an open one, or Closed
    mounted,    \* the volume is mounted
    torn        \* history: a remove released blocks of a file and then failed

vars == <<fbm, imap, inode, dblock, fd, mounted, torn>>

-----------------------------------------------------------------------------
Inode  == 0 .. (NumInodes - 1)
Block  == 0 .. (NumBlocks - 1)
Slot   == 0 .. (Dentries - 1)
Order  == 0 .. (DirectBlocks - 1)
Fd     == 0 .. (NumFds - 1)
Meta   == 0 .. (MetaBlocks - 1)
Closed == -1

\* "none" is the zero byte of a record that was never written.
FileType == {"none", "r", "d"}

Dentry == [filename : Names \cup {NoName}, inodeNumber : Inode]

\* The bit of a slot is set in vacantFile when the slot holds an entry.
InodeRecord == [fileType : FileType, vacantFile : SUBSET Slot,
                linkCount : Nat, directPointer : [Order -> Block]]

NoEntry == [filename |-> NoName, inodeNumber |-> 0]

ZeroBlock == [s \in Slot |-> NoEntry]

NoPointers == [k \in Order |-> 0]

ZeroInode == [fileType |-> "none", vacantFile |-> {},
              linkCount |-> 0, directPointer |-> NoPointers]

\* A block number of 0 in a record means that no block is allocated; the
\* inode number 0, the root's, means that a name is not found.
Root == 0
RootBlock == MetaBlocks

Paths == UNION {[1 .. n -> Names] : n \in 1 .. MaxDepth}

dirname(p) == SubSeq(p, 1, Len(p) - 1)

basename(p) == p[Len(p)]

-----------------------------------------------------------------------------
(* Lookup *)

Entry(d, s) == dblock[inode[d].directPointer[0]][s]

\* strncmp over the length of the name looked up: equal, or a prefix.
Matches(filename, n) == filename = n \/ <<n, filename>> \in NamePrefix

\* One component of searchPath: every entry that matches and is a directory
\* overrides the one before it.
SubDirs(d, n) ==
    {s \in inode[d].vacantFile :
        /\ Matches(Entry(d, s).filename, n)
        /\ inode[Entry(d, s).inodeNumber].fileType = "d"}

SearchStep(d, n) ==
    IF d \in Inode /\ inode[d].fileType = "d" /\ SubDirs(d, n) # {}
    THEN Entry(d, Max(SubDirs(d, n))).inodeNumber
    ELSE SIZE_MAX

\* The last component is taken out of the iteration, so that what one step
\* returns is known of the result without an induction over the path.
searchPath(p) ==
    IF Len(p) = 0 THEN Root
    ELSE LET walk[k \in 0 .. (Len(p) - 1)] ==
                 IF k = 0 THEN Root ELSE SearchStep(walk[k - 1], p[k])
         IN  SearchStep(walk[Len(p) - 1], p[Len(p)])

\* The first entry that matches, of whatever type.
Hits(d, n) == {s \in inode[d].vacantFile : Matches(Entry(d, s).filename, n)}

getFileInodeID(d, n) ==
    IF Hits(d, n) = {} THEN 0
    ELSE Entry(d, Min(Hits(d, n))).inodeNumber

\* The inode a path names, 0 if none: the lookup of open, remove, move, link.
Resolve(p) ==
    IF searchPath(dirname(p)) = SIZE_MAX THEN 0
    ELSE getFileInodeID(searchPath(dirname(p)), basename(p))

\* The names fs_get_dir lists for a path, NULL being the empty set.
fs_get_dir(p) ==
    LET d == IF Len(p) = 0 THEN Root ELSE Resolve(p)
    IN  IF (Len(p) > 0 /\ d = 0) \/ inode[d].fileType # "d" THEN {}
        ELSE {Entry(d, s).filename : s \in inode[d].vacantFile}

-----------------------------------------------------------------------------
(* fs_format, fs_mount, fs_unmount *)

DirRecord(b) == [fileType |-> "d", vacantFile |-> {}, linkCount |-> 1,
                 directPointer |-> [NoPointers EXCEPT ![0] = b]]

\* The volume of a fresh format: the blocks up to the root directory's are
\* taken, the root is the one inode in use, and the rest is zero.
FreshTable == [i \in Inode |-> IF i = Root THEN DirRecord(RootBlock) ELSE ZeroInode]

NoFds == [f \in Fd |-> Closed]

Init ==
    /\ fbm = 0 .. RootBlock
    /\ imap = {Root}
    /\ inode = FreshTable
    /\ dblock = [b \in Block |-> ZeroBlock]
    /\ fd = NoFds
    /\ mounted = TRUE
    /\ torn = FALSE

fs_format ==
    /\ ~mounted
    /\ fbm' = 0 .. RootBlock
    /\ imap' = {Root}
    /\ inode' = FreshTable
    /\ dblock' = [b \in Block |-> ZeroBlock]
    /\ fd' = NoFds
    /\ mounted' = TRUE
    /\ torn' = FALSE

\* The descriptors are not on the volume: every mount starts with none.
fs_mount ==
    /\ ~mounted
    /\ mounted' = TRUE
    /\ fd' = NoFds
    /\ UNCHANGED <<fbm, imap, inode, dblock, torn>>

fs_unmount ==
    /\ mounted
    /\ mounted' = FALSE
    /\ fd' = NoFds
    /\ UNCHANGED <<fbm, imap, inode, dblock, torn>>

-----------------------------------------------------------------------------
(* fs_create *)

FreeSlot(d)  == bitmap_ffz(inode[d].vacantFile, Dentries)
FreeInode    == bitmap_ffz(imap, NumInodes)
FreeBlock    == bitmap_ffz(fbm, NumBlocks)

\* Mutant: the copy of the record is stored without the slot's bit.
SetNoBit(r, s) == r

SetBit(r, s) == [r EXCEPT !.vacantFile = bitmap_set(@, s)]

\* Mutant: names in use are not looked for.
NotLookedUp(p) == TRUE

\* The name a call is about to add is not in use.
Unbound(p) == Resolve(p) = 0

\* The checks before anything is allocated.
CreateChecked(p) ==
    /\ mounted
    /\ FreeInode # SIZE_MAX
    /\ searchPath(dirname(p)) # SIZE_MAX
    /\ Unbound(p)
    /\ FreeSlot(searchPath(dirname(p))) # SIZE_MAX

\* The entry is stored last, from the copy of the parent's block read before
\* the new directory's block was cleared.
AddEntry(blocks, d, s, n, i) ==
    LET b == inode[d].directPointer[0]
    IN  [blocks EXCEPT ![b] =
            [dblock[b] EXCEPT ![s] = [filename |-> n, inodeNumber |-> i]]]

\* The fields the C code leaves as they are on the stack (vacantFile of a file,
\* the other pointers of a directory) are read by no call for that type.
fs_create_file(p) ==
    LET d == searchPath(dirname(p))
        s == FreeSlot(d)
        i == FreeInode
    IN  /\ CreateChecked(p)
        /\ imap' = bitmap_set(imap, i)
        /\ inode' = [inode EXCEPT
                       ![i] = [ZeroInode EXCEPT !.fileType = "r", !.linkCount = 1],
                       ![d] = SetBit(inode[d], s)]
        /\ dblock' = AddEntry(dblock, d, s, basename(p), i)
        /\ UNCHANGED <<fbm, fd, mounted, torn>>

fs_create_dir(p) ==
    LET d == searchPath(dirname(p))
        s == FreeSlot(d)
        i == FreeInode
        b == FreeBlock
    IN  /\ CreateChecked(p)
        /\ b # SIZE_MAX
        /\ fbm' = bitmap_set(fbm, b)
        /\ imap' = bitmap_set(imap, i)
        /\ inode' = [inode EXCEPT
                       ![i] = DirRecord(b),
                       ![d] = SetBit(inode[d], s)]
        /\ dblock' = AddEntry([dblock EXCEPT ![b] = ZeroBlock],
                              d, s, basename(p), i)
        /\ UNCHANGED <<fd, mounted, torn>>

\* Return -12: no block for the new directory, after its inode was taken.
fs_create_no_block(p) ==
    /\ CreateChecked(p)
    /\ FreeBlock = SIZE_MAX
    /\ imap' = bitmap_set(imap, FreeInode)
    /\ UNCHANGED <<fbm, inode, dblock, fd, mounted, torn>>

fs_create(p) == fs_create_file(p) \/ fs_create_dir(p)

-----------------------------------------------------------------------------
(* fs_open, fs_close, fs_write *)

OpenFds == {f \in Fd : fd[f] # Closed}

fs_open(p) ==
    LET i == Resolve(p)
        f == bitmap_ffz(OpenFds, NumFds)
    IN  /\ mounted
        /\ i # 0
        /\ inode[i].fileType # "d"
        /\ f # SIZE_MAX
        /\ fd' = [fd EXCEPT ![f] = i]
        /\ UNCHANGED <<fbm, imap, inode, dblock, mounted, torn>>

fs_close(f) ==
    /\ mounted
    /\ f \in OpenFds
    /\ fd' = [fd EXCEPT ![f] = Closed]
    /\ UNCHANGED <<fbm, imap, inode, dblock, mounted, torn>>

\* The k-th block of a file is written when the blocks before it exist: a
\* position is never past the end of the file.
AtPosition(i, k) ==
    \A j \in Order : j < k => inode[i].directPointer[j] # 0

\* The block exists, and is marked in use.
fs_write_block(f, k) ==
    LET b == inode[fd[f]].directPointer[k]
    IN  /\ mounted
        /\ f \in OpenFds
        /\ AtPosition(fd[f], k)
        /\ b # 0
        /\ bitmap_test(fbm, b)
        /\ dblock' = [dblock EXCEPT ![b] = ZeroBlock]
        /\ UNCHANGED <<fbm, imap, inode, fd, mounted, torn>>

\* The block is allocated and stored in the inode before it is written.
fs_write_new_block(f, k) ==
    LET i == fd[f]
        b == FreeBlock
    IN  /\ mounted
        /\ f \in OpenFds
        /\ AtPosition(i, k)
        /\ inode[i].directPointer[k] = 0
        /\ b # SIZE_MAX
        /\ fbm' = bitmap_set(fbm, b)
        /\ inode' = [inode EXCEPT ![i].directPointer[k] = b]
        /\ dblock' = [dblock EXCEPT ![b] = ZeroBlock]
        /\ UNCHANGED <<imap, fd, mounted, torn>>

-----------------------------------------------------------------------------
(* fs_remove *)

\* Mutant: the entry is found by its inode number.
SlotOfInode(d, n) ==
    LET S == {s \in inode[d].vacantFile :
                Entry(d, s).inodeNumber = getFileInodeID(d, n)}
    IN  IF S = {} THEN {} ELSE {Min(S)}

\* The entry to clear is found by its exact name, the inode by the lookup:
\* the slot is the first of a set of at most one element, or none.
ExactSlot(d, n) ==
    LET S == {s \in inode[d].vacantFile : Entry(d, s).filename = n}
    IN  IF S = {} THEN {} ELSE {Min(S)}

\* Mutant: the copy of the record is stored with the slot's bit still set.
ClearNoBit(r, S) == r

ClearBit(r, S) == [r EXCEPT !.vacantFile = @ \ S]

\* Mutant: the link count is not decremented.
StillLinked(i) == inode[i]

Unlinked(i) == [inode[i] EXCEPT !.linkCount = @ - 1]

\* The entries of a directory's slots S are wiped out, name and inode number.
WithoutEntries(d, S) ==
    LET b == inode[d].directPointer[0]
    IN  [dblock EXCEPT ![b] = [s \in Slot |-> IF s \in S THEN NoEntry ELSE @[s]]]

\* The entries lose their inode number; strncmp, for a copy, leaves the name.
WithoutInodes(d, S) ==
    LET b == inode[d].directPointer[0]
    IN  [dblock EXCEPT ![b] =
            [s \in Slot |-> IF s \in S THEN [@[s] EXCEPT !.inodeNumber = 0] ELSE @[s]]]

\* A path to remove names a file of type t; the root cannot be named.
RemoveChecked(p, t) ==
    /\ mounted
    /\ Resolve(p) # 0
    /\ inode[Resolve(p)].fileType = t

\* A directory with one link goes when it is empty.
fs_remove_dir(p) ==
    LET d == searchPath(dirname(p))
        i == Resolve(p)
        S == ExactSlot(d, basename(p))
    IN  /\ RemoveChecked(p, "d")
        /\ inode[i].vacantFile = {}
        /\ inode[i].linkCount <= 1
        /\ inode' = [inode EXCEPT ![d] = ClearBit(inode[d], S)]
        /\ dblock' = WithoutEntries(d, S)
        /\ fbm' = bitmap_reset(fbm, inode[i].directPointer[0])
        /\ imap' = bitmap_reset(imap, i)
        /\ UNCHANGED <<fd, mounted, torn>>

\* One of several links to a directory goes, empty or not.  The record of the
\* directory is stored from the copy read before its parent's was changed.
fs_remove_dir_link(p) ==
    LET d == searchPath(dirname(p))
        i == Resolve(p)
        S == ExactSlot(d, basename(p))
    IN  /\ RemoveChecked(p, "d")
        /\ inode[i].linkCount > 1
        /\ inode' = [inode EXCEPT ![d] = ClearBit(inode[d], S),
                                  ![i] = Unlinked(i)]
        /\ dblock' = WithoutEntries(d, S)
        /\ UNCHANGED <<fbm, imap, fd, mounted, torn>>

\* One of several links to a regular file goes.
fs_remove_file_link(p) ==
    LET d == searchPath(dirname(p))
        i == Resolve(p)
        S == ExactSlot(d, basename(p))
    IN  /\ RemoveChecked(p, "r")
        /\ inode[i].linkCount > 1
        /\ inode' = [inode EXCEPT ![i] = Unlinked(i),
                                  ![d] = ClearBit(inode[d], S)]
        /\ dblock' = WithoutInodes(d, S)
        /\ UNCHANGED <<fbm, imap, fd, mounted, torn>>

\* Mutant: the loop over the direct pointers ends one too early.
AllButLastBlock(i) ==
    {inode[i].directPointer[k] : k \in Order \ {DirectBlocks - 1}} \cap (fbm \ {0})

\* The blocks of a file that are marked in use.
HeldBlocks(i) ==
    {inode[i].directPointer[k] : k \in Order} \cap (fbm \ {0})

\* Mutant: descriptors are not looked at.
FdsIgnored == TRUE

NoFdOpen == OpenFds = {}

\* The last link to a regular file goes, and no descriptor is open.
fs_remove_file(p) ==
    LET d == searchPath(dirname(p))
        i == Resolve(p)
        S == ExactSlot(d, basename(p))
    IN  /\ RemoveChecked(p, "r")
        /\ inode[i].linkCount <= 1
        /\ NoFdOpen
        /\ fbm' = fbm \ HeldBlocks(i)
        /\ imap' = bitmap_reset(imap, i)
        /\ inode' = [inode EXCEPT ![d] = ClearBit(inode[d], S)]
        /\ dblock' = WithoutInodes(d, S)
        /\ UNCHANGED <<fd, mounted, torn>>

\* Return -7: with any descriptor open, the call ends in its loop over the
\* descriptors, after the file's blocks were released.  The first open
\* descriptor is closed if it is of this file.
fs_remove_busy(p) ==
    LET i == Resolve(p)
        f == Min(OpenFds)
    IN  /\ RemoveChecked(p, "r")
        /\ inode[i].linkCount <= 1
        /\ ~NoFdOpen
        /\ fbm' = fbm \ HeldBlocks(i)
        /\ fd' = IF fd[f] = i THEN [fd EXCEPT ![f] = Closed] ELSE fd
        /\ torn' = (torn \/ HeldBlocks(i) # {})
        /\ UNCHANGED <<imap, inode, dblock, mounted>>

fs_remove(p) ==
    \/ fs_remove_dir(p)
    \/ fs_remove_dir_link(p)
    \/ fs_remove_file_link(p)
    \/ fs_remove_file(p)

-----------------------------------------------------------------------------
(* fs_move *)

\* Mutant: a directory may be moved below itself.
NotCompared(src, dst) == FALSE

\* The test that src is not a directory above dst compares their spellings.
SpelledBelow(src, dst) ==
    /\ Len(src) <= Len(dst)
    /\ dirname(src) = SubSeq(dst, 1, Len(src) - 1)
    /\ \/ basename(src) = dst[Len(src)] /\ Len(src) < Len(dst)
       \/ <<basename(src), dst[Len(src)]>> \in NamePrefix

MoveChecked(src, dst) ==
    /\ mounted
    /\ Resolve(src) # 0
    /\ searchPath(dirname(dst)) # SIZE_MAX
    /\ ~SpelledBelow(src, dst)
    /\ Unbound(dst)

\* Within a directory: the first slot with src's inode and exact name, in use
\* or not, takes the new name.
fs_move_rename(src, dst) ==
    LET d == searchPath(dirname(src))
        i == Resolve(src)
        S == {s \in Slot : Entry(d, s) = [filename |-> basename(src),
                                          inodeNumber |-> i]}
    IN  /\ MoveChecked(src, dst)
        /\ searchPath(dirname(dst)) = d
        /\ S # {}
        /\ dblock' = [dblock EXCEPT ![inode[d].directPointer[0]][Min(S)].filename
                                      = basename(dst)]
        /\ UNCHANGED <<fbm, imap, inode, fd, mounted, torn>>

\* From one directory to another: the first free slot of dst's directory
\* takes the entry, and the first slot of src's directory that has src's
\* inode number is cleared.
fs_move_across(src, dst) ==
    LET d == searchPath(dirname(src))
        e == searchPath(dirname(dst))
        i == Resolve(src)
        t == FreeSlot(e)
        s == Min({x \in Slot : Entry(d, x).inodeNumber = i})
        b == inode[d].directPointer[0]
    IN  /\ MoveChecked(src, dst)
        /\ d # e
        /\ t # SIZE_MAX
        /\ dblock' = [AddEntry(dblock, e, t, basename(dst), i)
                        EXCEPT ![b] = [dblock[b] EXCEPT ![s] = NoEntry]]
        /\ inode' = [inode EXCEPT ![e] = SetBit(inode[e], t),
                                  ![d] = ClearBit(inode[d], {s})]
        /\ UNCHANGED <<fbm, imap, fd, mounted, torn>>

fs_move(src, dst) == fs_move_rename(src, dst) \/ fs_move_across(src, dst)

-----------------------------------------------------------------------------
(* fs_link *)

\* Mutant: the link is not counted.
NotCounted(r) == r

Linked(r) == [r EXCEPT !.linkCount = @ + 1]

\* Where src is the directory the new entry goes to, its record is stored
\* twice, and the second store has both changes.
fs_link(src, dst) ==
    LET d == searchPath(dirname(dst))
        i == Resolve(src)
        s == FreeSlot(d)
    IN  /\ mounted
        /\ i # 0
        /\ inode[i].linkCount < MaxLink
        /\ d # SIZE_MAX
        /\ s # SIZE_MAX
        /\ Unbound(dst)
        /\ inode' = [inode EXCEPT
                       ![i] = Linked(inode[i]),
                       ![d] = SetBit(IF i = d THEN Linked(inode[d]) ELSE inode[d], s)]
        /\ dblock' = AddEntry(dblock, d, s, basename(dst), i)
        /\ UNCHANGED <<fbm, imap, fd, mounted, torn>>

-----------------------------------------------------------------------------
\* The paths a caller may give, those that name something and those that do
\* not: every call below asks which of the two a path is.
Bound == {p \in Paths : Resolve(p) # 0}

NotBound == {p \in Paths : Unbound(p)}

Next ==
    \/ fs_format
    \/ fs_mount
    \/ fs_unmount
    \/ \E p \in NotBound :
         fs_create_file(p) \/ fs_create_dir(p) \/ fs_create_no_block(p)
    \/ \E p \in Bound :
         \/ fs_open(p)
         \/ fs_remove_dir(p)
         \/ fs_remove_dir_link(p)
         \/ fs_remove_file_link(p)
         \/ fs_remove_file(p)
         \/ fs_remove_busy(p)
         \/ \E q \in NotBound :
              fs_move_rename(p, q) \/ fs_move_across(p, q) \/ fs_link(p, q)
    \/ \E f \in Fd :
         \/ fs_close(f)
         \/ \E k \in Order : fs_write_block(f, k) \/ fs_write_new_block(f, k)

Spec == Init /\ [][Next]_vars

-----------------------------------------------------------------------------
(* Safety *)

\* Type invariant of the state of the volume, the descriptors and the mount
\* (the structures of F17FS.c:26-66).
TypeOK ==
    /\ fbm \subseteq Block
    /\ imap \subseteq Inode
    /\ inode \in [Inode -> InodeRecord]
    /\ dblock \in [Block -> [Slot -> Dentry]]
    /\ fd \in [Fd -> Inode \cup {Closed}]
    /\ mounted \in BOOLEAN
    /\ torn \in BOOLEAN

\* The entries in use, and those of them that hold inode i.
EntriesInUse ==
    {r \in Inode \X Slot : /\ inode[r[1]].fileType = "d"
                           /\ r[2] \in inode[r[1]].vacantFile}

Refs(i) == {r \in EntriesInUse : Entry(r[1], r[2]).inodeNumber = i}

Live(i) == i = Root \/ Refs(i) # {}

\* Every entry in use holds an inode that is marked in use: no sequence of
\* create, link, move and remove frees an inode that a directory still names.
NoDanglingEntry == ~torn => \A i \in Inode : Live(i) => i \in imap

\* The link count stored in a record is the number of entries that hold the
\* inode, over all directories; remove relies on it to decide whether to free.
LinkCountExact ==
    ~torn => \A i \in Inode \ {Root} :
                 Refs(i) # {} => inode[i].linkCount = Cardinality(Refs(i))

\* The blocks a record points to.
Claims(i) ==
    IF inode[i].fileType = "d" THEN {inode[i].directPointer[0]}
    ELSE {inode[i].directPointer[k] : k \in Order} \ {0}

\* The free-block map is exact: the blocks in use are the metadata's and those
\* the named inodes point to, none is lost, and none is pointed to twice.
BlocksExact ==
    ~torn =>
        /\ fbm = Meta \cup UNION {Claims(i) : i \in {j \in Inode : Live(j)}}
        /\ \A i \in Inode : Live(i) =>
             /\ Claims(i) \cap Meta = {}
             /\ \A j \in Inode \ {i} : Live(j) => Claims(i) \cap Claims(j) = {}
             /\ \A k, l \in Order :
                  inode[i].fileType = "r" /\ inode[i].directPointer[k] # 0
                  /\ inode[i].directPointer[k] = inode[i].directPointer[l] => k = l

\* An open descriptor refers to a regular file that some directory still names,
\* so that what it reads and writes cannot become another file's.
FdLive ==
    ~torn => \A f \in OpenFds : /\ inode[fd[f]].fileType = "r"
                                /\ Refs(fd[f]) # {}

\* No two entries in use of a directory have the same name.
UniqueNames ==
    ~torn => \A d \in Inode : Live(d) /\ inode[d].fileType = "d" =>
               \A s, t \in inode[d].vacantFile :
                  Entry(d, s).filename = Entry(d, t).filename
                  /\ Entry(d, s).filename # NoName => s = t

-----------------------------------------------------------------------------
(* What a step may never do *)

\* What the entries in use bind: a directory and a name to an inode.
Bindings ==
    {<<r[1], Entry(r[1], r[2]).filename, Entry(r[1], r[2]).inodeNumber>> :
        r \in EntriesInUse}

\* A step that drops no entry changes the meaning of no path that names
\* something, through whatever directory or alias it goes: an entry added by
\* create, link or move never shadows an older one.
ResolutionStable ==
    [][~torn /\ Bindings \subseteq Bindings' =>
         \A r \in Paths : Resolve(r) # 0 => Resolve(r)' = Resolve(r)]_<<inode, dblock>>

\* What was created at a path is in the listing of the directory the path
\* names, and the path resolves to it (F17FS.h:76, "Creates a new file at the
\* specified location").
CreateListed ==
    [][\A p \in Paths : ~torn /\ fs_create(p) =>
            /\ basename(p) \in fs_get_dir(dirname(p))'
            /\ Resolve(p)' # 0]_imap

\* An inode becomes marked in use and named by nothing only when the volume has
\* no free block (the return -12 of fs_create).
Unnamed == {i \in imap : ~Live(i)}

LeakOnlyWhenFull ==
    [][~torn /\ Unnamed' \ Unnamed # {} => FreeBlock = SIZE_MAX]_vars

\* A successful remove unbinds the path it was given, and one entry only.
RemoveUnbinds ==
    [][imap' \subseteq imap =>
         \A p \in Paths : ~torn /\ Resolve(p) # 0 /\ fs_remove(p) =>
            /\ Resolve(p)' = 0
            /\ Cardinality(Bindings \ Bindings') = 1]_inode

\* The inodes reached from the root in at most n steps down the directories.
Children(D) == {i \in Inode : \E r \in Refs(i) : r[1] \in D}

Reached ==
    LET reach[n \in 0 .. NumInodes] ==
            IF n = 0 THEN {Root} ELSE reach[n - 1] \cup Children(reach[n - 1])
    IN  reach[NumInodes]

\* Everything a directory names can be reached from the root: no call cuts a
\* directory off, with the files below it.
NothingCutOff == ~torn => \A i \in Inode : Live(i) => i \in Reached

\* A successful move makes the new path name what the old one named, the old
\* path name nothing, and touches no other entry (F17FS.h:158, "Moves the file
\* from one location to the other").
MoveIsRename ==
    [][dblock' # dblock /\ imap' = imap =>
         \A p, q \in Paths : ~torn /\ fs_move(p, q) =>
            /\ Resolve(q)' = Resolve(p)
            /\ Resolve(p)' = 0
            /\ Cardinality(Bindings \ Bindings') = 1
            /\ Cardinality(Bindings' \ Bindings) = 1]_vars
=============================================================================
