---------------------------- MODULE F17FSProofs ----------------------------
(***************************************************************************)
(* Theorems about F17FS, for every value of its constants.                 *)
(***************************************************************************)
EXTENDS F17FS, BitmapProofs

USE NameAssumption, SizeAssumption

-----------------------------------------------------------------------------
(* What the helpers return *)

\* The root and its block are in their tables, as is 0, which stands for none.
LEMMA ConstantTypes ==
    /\ Root \in Inode
    /\ RootBlock \in Block
    /\ 0 \in Block
    /\ 0 .. RootBlock \subseteq Block
    /\ 0 \in Order
    /\ 0 \in Slot
    /\ SIZE_MAX \notin Nat
    /\ Closed \notin Inode
BY DEF Root, Inode, RootBlock, Block, Order, Slot, SIZE_MAX, Closed

\* The records of a new or emptied inode, directory block and descriptor have their types.
LEMMA RecordTypes ==
    /\ NoEntry \in Dentry
    /\ ZeroBlock \in [Slot -> Dentry]
    /\ NoPointers \in [Order -> Block]
    /\ ZeroInode \in InodeRecord
    /\ \A b \in Block : DirRecord(b) \in InodeRecord
    /\ FreshTable \in [Inode -> InodeRecord]
    /\ NoFds \in [Fd -> Inode \cup {Closed}]
<1>1. NoEntry \in Dentry
  BY ConstantTypes DEF NoEntry, Dentry, Root
<1>2. ZeroBlock \in [Slot -> Dentry]
  BY <1>1 DEF ZeroBlock
<1>3. NoPointers \in [Order -> Block]
  BY ConstantTypes DEF NoPointers
<1>4. ZeroInode \in InodeRecord
  BY <1>3 DEF ZeroInode, InodeRecord, FileType
<1>5. \A b \in Block : DirRecord(b) \in InodeRecord
  BY <1>3 DEF DirRecord, InodeRecord, FileType
<1>6. FreshTable \in [Inode -> InodeRecord]
  BY <1>4, <1>5, ConstantTypes DEF FreshTable
<1>7. NoFds \in [Fd -> Inode \cup {Closed}]
  BY DEF NoFds
<1>. QED
  BY <1>1, <1>2, <1>3, <1>4, <1>5, <1>6, <1>7

\* The allocators return an element of their table that is not in use, or
\* SIZE_MAX.
LEMMA AllocatorTypes ==
    /\ FreeInode # SIZE_MAX => FreeInode \in Inode \ imap
    /\ FreeBlock # SIZE_MAX => FreeBlock \in Block \ fbm
    /\ \A d : FreeSlot(d) # SIZE_MAX => FreeSlot(d) \in Slot \ inode[d].vacantFile
    /\ bitmap_ffz(OpenFds, NumFds) # SIZE_MAX =>
           bitmap_ffz(OpenFds, NumFds) \in Fd \ OpenFds
BY FfzSpec DEF FreeInode, FreeBlock, FreeSlot, Inode, Block, Slot, Fd

\* A directory entry has its type when its name and inode number do.
LEMMA EntryType ==
    ASSUME TypeOK, NEW d \in Inode, NEW s \in Slot
    PROVE  Entry(d, s) \in Dentry
<1>1. inode[d] \in InodeRecord /\ inode[d].directPointer[0] \in Block
  BY ConstantTypes DEF TypeOK, InodeRecord
<1>. QED
  BY <1>1 DEF TypeOK, Entry

\* A step of the walk returns an inode, or SIZE_MAX, wherever it starts.
LEMMA SearchStepType ==
    ASSUME TypeOK, NEW d, NEW n
    PROVE  SearchStep(d, n) \in Inode \cup {SIZE_MAX}
<1>1. CASE ~(d \in Inode /\ inode[d].fileType = "d" /\ SubDirs(d, n) # {})
  BY <1>1 DEF SearchStep
<1>2. CASE d \in Inode /\ inode[d].fileType = "d" /\ SubDirs(d, n) # {}
  <2>1. d \in Inode /\ inode[d] \in InodeRecord
    BY <1>2 DEF TypeOK
  <2>2. SubDirs(d, n) \in SUBSET (0 .. (Dentries - 1))
    BY <2>1 DEF SubDirs, InodeRecord, Slot
  <2>3. Max(SubDirs(d, n)) \in Slot
    <3>1. Dentries - 1 \in Nat
      OBVIOUS
    <3>. QED
      BY <3>1, <2>2, <1>2, MaxProperties DEF Slot
  <2>4. Entry(d, Max(SubDirs(d, n))) \in Dentry
    BY <2>1, <2>3, EntryType
  <2>. QED
    BY <1>2, <2>4 DEF SearchStep, Dentry
<1>. QED
  BY <1>1, <1>2

\* The walk of a path ends at an inode, or at SIZE_MAX.
LEMMA SearchPathType ==
    ASSUME TypeOK, NEW p
    PROVE  searchPath(p) \in Inode \cup {SIZE_MAX}
BY SearchStepType, ConstantTypes DEF searchPath

\* The first match is a slot in use of the directory.
LEMMA HitType ==
    ASSUME TypeOK, NEW d \in Inode, NEW n, Hits(d, n) # {}
    PROVE  /\ Min(Hits(d, n)) \in Hits(d, n)
           /\ Hits(d, n) \subseteq Slot
           /\ getFileInodeID(d, n) = Entry(d, Min(Hits(d, n))).inodeNumber
<1>1. inode[d] \in InodeRecord
  BY DEF TypeOK
<1>2. Hits(d, n) \subseteq Slot
  BY <1>1 DEF Hits, InodeRecord
<1>3. Hits(d, n) \in SUBSET Nat
  BY <1>2 DEF Slot
<1>. QED
  BY <1>2, <1>3, MinProperties DEF getFileInodeID

\* The lookup of a file in a directory returns an inode number, or 0.
LEMMA GetFileType ==
    ASSUME TypeOK, NEW d \in Inode, NEW n
    PROVE  getFileInodeID(d, n) \in Inode
<1>1. CASE Hits(d, n) = {}
  BY <1>1, ConstantTypes DEF getFileInodeID, Root
<1>2. CASE Hits(d, n) # {}
  <2>1. Entry(d, Min(Hits(d, n))) \in Dentry
    BY <1>2, HitType, EntryType
  <2>. QED
    BY <2>1, <1>2, HitType DEF Dentry
<1>. QED
  BY <1>1, <1>2

\* A path resolves to an inode, and to none unless its directory exists.
LEMMA ResolveType ==
    ASSUME TypeOK, NEW p
    PROVE  /\ Resolve(p) \in Inode
           /\ Resolve(p) # 0 => searchPath(dirname(p)) \in Inode
BY SearchPathType, GetFileType, ConstantTypes DEF Resolve, Root

\* The last name of a path is a name.
LEMMA NameTypes ==
    ASSUME NEW p \in Paths
    PROVE  basename(p) \in Names
<1>1. PICK n \in 1 .. MaxDepth : p \in [1 .. n -> Names]
  BY DEF Paths
<1>2. n \in Nat \ {0} /\ Len(p) = n /\ n \in 1 .. n
  BY <1>1
<1>. QED
  BY <1>1, <1>2 DEF basename

-----------------------------------------------------------------------------
(* What the updates of records and blocks preserve *)

\* A function stays in its set when one of its records is replaced by another of its type.
LEMMA RecordUpdates ==
    ASSUME NEW r \in InodeRecord
    PROVE  /\ \A s \in Slot : SetBit(r, s) \in InodeRecord
           /\ \A S : ClearBit(r, S) \in InodeRecord
           /\ Linked(r) \in InodeRecord
           /\ r.linkCount > 1 => [r EXCEPT !.linkCount = @ - 1] \in InodeRecord
           /\ \A k \in Order, b \in Block :
                 [r EXCEPT !.directPointer[k] = b] \in InodeRecord
<1>1. \A s \in Slot : SetBit(r, s) \in InodeRecord
  BY DEF SetBit, bitmap_set, InodeRecord
<1>2. \A S : ClearBit(r, S) \in InodeRecord
  BY DEF ClearBit, InodeRecord
<1>3. Linked(r) \in InodeRecord
  BY DEF Linked, InodeRecord
<1>4. r.linkCount > 1 => [r EXCEPT !.linkCount = @ - 1] \in InodeRecord
  BY DEF InodeRecord
<1>5. \A k \in Order, b \in Block : [r EXCEPT !.directPointer[k] = b] \in InodeRecord
  BY DEF InodeRecord
<1>. QED
  BY <1>1, <1>2, <1>3, <1>4, <1>5

\* Adding an entry to a directory keeps the tables' types.
LEMMA AddEntryType ==
    ASSUME TypeOK, NEW blocks \in [Block -> [Slot -> Dentry]],
           NEW d \in Inode, NEW s \in Slot, NEW n \in Names, NEW i \in Inode
    PROVE  AddEntry(blocks, d, s, n, i) \in [Block -> [Slot -> Dentry]]
<1>1. inode[d].directPointer[0] \in Block
  BY ConstantTypes DEF TypeOK, InodeRecord
<1>2. [filename |-> n, inodeNumber |-> i] \in Dentry
  BY DEF Dentry
<1>3. dblock[inode[d].directPointer[0]] \in [Slot -> Dentry]
  BY <1>1 DEF TypeOK
<1>. QED
  BY <1>1, <1>2, <1>3 DEF AddEntry

\* Dropping entries of a directory keeps its type.
LEMMA WithoutEntriesType ==
    ASSUME TypeOK, NEW d \in Inode, NEW S
    PROVE  /\ WithoutEntries(d, S) \in [Block -> [Slot -> Dentry]]
           /\ WithoutInodes(d, S) \in [Block -> [Slot -> Dentry]]
<1>1. inode[d].directPointer[0] \in Block
  BY ConstantTypes DEF TypeOK, InodeRecord
<1>2. dblock[inode[d].directPointer[0]] \in [Slot -> Dentry]
  BY <1>1 DEF TypeOK
<1>3. /\ NoEntry \in Dentry
      /\ \A e \in Dentry : [e EXCEPT !.inodeNumber = 0] \in Dentry
  BY RecordTypes, ConstantTypes DEF Dentry, Root
<1>. DEFINE B == dblock[inode[d].directPointer[0]]
<1>4. [s \in Slot |-> IF s \in S THEN NoEntry ELSE B[s]] \in [Slot -> Dentry]
  BY <1>2, <1>3
<1>5. [s \in Slot |-> IF s \in S THEN [B[s] EXCEPT !.inodeNumber = 0] ELSE B[s]]
          \in [Slot -> Dentry]
  BY <1>2, <1>3
<1>6. dblock \in [Block -> [Slot -> Dentry]]
  BY DEF TypeOK
<1>. QED
  BY <1>1, <1>4, <1>5, <1>6 DEF WithoutEntries, WithoutInodes

-----------------------------------------------------------------------------
(* Every action preserves the types *)

\* Formatting, mounting and unmounting keep the type invariant.
LEMMA MountTypes ==
    ASSUME TypeOK, fs_format \/ fs_mount \/ fs_unmount
    PROVE  TypeOK'
<1>1. CASE fs_format
  <2>1. dblock' \in [Block -> [Slot -> Dentry]]
    BY <1>1, RecordTypes DEF fs_format
  <2>. QED
    BY <1>1, <2>1, RecordTypes, ConstantTypes DEF fs_format, TypeOK
<1>2. CASE fs_mount
  BY <1>2, RecordTypes DEF fs_mount, TypeOK
<1>3. CASE fs_unmount
  BY <1>3, RecordTypes DEF fs_unmount, TypeOK
<1>. QED
  BY <1>1, <1>2, <1>3

\* The parent, the slot and the inode a create uses.
LEMMA CreateTypes ==
    ASSUME TypeOK, NEW p \in Paths, CreateChecked(p)
    PROVE  /\ searchPath(dirname(p)) \in Inode
           /\ FreeSlot(searchPath(dirname(p))) \in Slot
           /\ FreeInode \in Inode
           /\ basename(p) \in Names
BY SearchPathType, AllocatorTypes, NameTypes DEF CreateChecked

\* Creating a file keeps the type invariant.
LEMMA CreateFileTypes ==
    ASSUME TypeOK, NEW p \in Paths, fs_create_file(p)
    PROVE  TypeOK'
<1>. DEFINE d == searchPath(dirname(p))
            s == FreeSlot(d)
            i == FreeInode
            r == [ZeroInode EXCEPT !.fileType = "r", !.linkCount = 1]
<1>1. d \in Inode /\ s \in Slot /\ i \in Inode /\ basename(p) \in Names
  BY CreateTypes DEF fs_create_file
<1>2. r \in InodeRecord
  BY RecordTypes DEF InodeRecord, FileType
<1>3. SetBit(inode[d], s) \in InodeRecord
  BY <1>1, RecordUpdates DEF TypeOK
<1>4. inode' \in [Inode -> InodeRecord]
  BY <1>1, <1>2, <1>3 DEF fs_create_file, TypeOK
<1>5. dblock' \in [Block -> [Slot -> Dentry]]
  <2>1. dblock \in [Block -> [Slot -> Dentry]]
    BY DEF TypeOK
  <2>. QED
    BY <1>1, <2>1, AddEntryType DEF fs_create_file
<1>6. imap' \subseteq Inode
  BY <1>1 DEF fs_create_file, bitmap_set, TypeOK
<1>. QED
  BY <1>4, <1>5, <1>6 DEF fs_create_file, TypeOK

\* Creating a directory keeps the type invariant.
LEMMA CreateDirTypes ==
    ASSUME TypeOK, NEW p \in Paths, fs_create_dir(p)
    PROVE  TypeOK'
<1>. DEFINE d == searchPath(dirname(p))
            s == FreeSlot(d)
            i == FreeInode
            b == FreeBlock
<1>1. d \in Inode /\ s \in Slot /\ i \in Inode /\ basename(p) \in Names
  BY CreateTypes DEF fs_create_dir
<1>2. b \in Block
  BY AllocatorTypes DEF fs_create_dir
<1>3. SetBit(inode[d], s) \in InodeRecord /\ DirRecord(b) \in InodeRecord
  BY <1>1, <1>2, RecordUpdates, RecordTypes DEF TypeOK
<1>4. inode' \in [Inode -> InodeRecord]
  BY <1>1, <1>3 DEF fs_create_dir, TypeOK
<1>5. dblock' \in [Block -> [Slot -> Dentry]]
  <2>1. [dblock EXCEPT ![b] = ZeroBlock] \in [Block -> [Slot -> Dentry]]
    BY RecordTypes DEF TypeOK
  <2>. QED
    BY <1>1, <2>1, AddEntryType DEF fs_create_dir
<1>6. imap' \subseteq Inode /\ fbm' \subseteq Block
  BY <1>1, <1>2 DEF fs_create_dir, bitmap_set, TypeOK
<1>. QED
  BY <1>4, <1>5, <1>6 DEF fs_create_dir, TypeOK

\* Creating a directory when no block is free keeps the type invariant.
LEMMA CreateNoBlockTypes ==
    ASSUME TypeOK, NEW p \in Paths, fs_create_no_block(p)
    PROVE  TypeOK'
<1>1. FreeInode \in Inode
  BY CreateTypes DEF fs_create_no_block
<1>. QED
  BY <1>1 DEF fs_create_no_block, bitmap_set, TypeOK

\* Opening a file keeps the type invariant.
LEMMA OpenTypes ==
    ASSUME TypeOK, NEW p \in Paths, fs_open(p)
    PROVE  TypeOK'
<1>1. Resolve(p) \in Inode
  BY ResolveType
<1>. QED
  BY <1>1 DEF fs_open, TypeOK

\* Closing a descriptor keeps the type invariant.
LEMMA CloseTypes ==
    ASSUME TypeOK, NEW f \in Fd, fs_close(f)
    PROVE  TypeOK'
BY DEF fs_close, TypeOK

\* Writing a block of a file keeps the type invariant.
LEMMA WriteTypes ==
    ASSUME TypeOK, NEW f \in Fd, NEW k \in Order,
           fs_write_block(f, k) \/ fs_write_new_block(f, k)
    PROVE  TypeOK'
<1>1. CASE fs_write_block(f, k)
  <2>1. dblock' \in [Block -> [Slot -> Dentry]]
    BY <1>1, RecordTypes DEF fs_write_block, TypeOK
  <2>. QED
    BY <1>1, <2>1 DEF fs_write_block, TypeOK
<1>2. CASE fs_write_new_block(f, k)
  <2>1. FreeBlock \in Block
    BY <1>2, AllocatorTypes DEF fs_write_new_block
  <2>2. fd[f] \in Inode
    BY <1>2 DEF fs_write_new_block, OpenFds, TypeOK
  <2>3. [inode[fd[f]] EXCEPT !.directPointer[k] = FreeBlock] \in InodeRecord
    BY <2>1, <2>2, RecordUpdates DEF TypeOK
  <2>4. inode' \in [Inode -> InodeRecord]
    BY <1>2, <2>2, <2>3 DEF fs_write_new_block, TypeOK
  <2>5. dblock' \in [Block -> [Slot -> Dentry]]
    BY <1>2, RecordTypes DEF fs_write_new_block, TypeOK
  <2>6. fbm' \subseteq Block
    BY <1>2, <2>1 DEF fs_write_new_block, bitmap_set, TypeOK
  <2>. QED
    BY <1>2, <2>4, <2>5, <2>6 DEF fs_write_new_block, TypeOK
<1>. QED
  BY <1>1, <1>2

\* Removing a directory keeps the type invariant.
LEMMA RemoveDirTypes ==
    ASSUME TypeOK, NEW p \in Paths, fs_remove_dir(p) \/ fs_remove_dir_link(p)
    PROVE  TypeOK'
<1>. DEFINE d == searchPath(dirname(p))
            i == Resolve(p)
            S == ExactSlot(d, basename(p))
<1>1. d \in Inode /\ i \in Inode
  BY ResolveType DEF fs_remove_dir, fs_remove_dir_link, RemoveChecked
<1>2. ClearBit(inode[d], S) \in InodeRecord
  BY <1>1, RecordUpdates DEF TypeOK
<1>3. dblock' \in [Block -> [Slot -> Dentry]]
  BY <1>1, WithoutEntriesType DEF fs_remove_dir, fs_remove_dir_link
<1>4. CASE fs_remove_dir(p)
  <2>1. inode' \in [Inode -> InodeRecord]
    BY <1>2, <1>4 DEF fs_remove_dir, TypeOK
  <2>. QED
    BY <1>3, <1>4, <2>1 DEF fs_remove_dir, bitmap_reset, TypeOK
<1>5. CASE fs_remove_dir_link(p)
  <2>1. Unlinked(i) \in InodeRecord
    BY <1>1, <1>5, RecordUpdates DEF fs_remove_dir_link, Unlinked, TypeOK
  <2>2. inode' \in [Inode -> InodeRecord]
    BY <1>2, <1>5, <2>1 DEF fs_remove_dir_link, TypeOK
  <2>. QED
    BY <1>3, <1>5, <2>2 DEF fs_remove_dir_link, TypeOK
<1>. QED
  BY <1>4, <1>5

\* Removing a file keeps the type invariant.
LEMMA RemoveFileTypes ==
    ASSUME TypeOK, NEW p \in Paths, fs_remove_file(p) \/ fs_remove_file_link(p)
    PROVE  TypeOK'
<1>. DEFINE d == searchPath(dirname(p))
            i == Resolve(p)
            S == ExactSlot(d, basename(p))
<1>1. d \in Inode /\ i \in Inode
  BY ResolveType DEF fs_remove_file, fs_remove_file_link, RemoveChecked
<1>2. ClearBit(inode[d], S) \in InodeRecord
  BY <1>1, RecordUpdates DEF TypeOK
<1>3. dblock' \in [Block -> [Slot -> Dentry]]
  BY <1>1, WithoutEntriesType DEF fs_remove_file, fs_remove_file_link
<1>4. CASE fs_remove_file(p)
  <2>1. inode' \in [Inode -> InodeRecord]
    BY <1>2, <1>4 DEF fs_remove_file, TypeOK
  <2>. QED
    BY <1>3, <1>4, <2>1 DEF fs_remove_file, bitmap_reset, TypeOK
<1>5. CASE fs_remove_file_link(p)
  <2>1. Unlinked(i) \in InodeRecord
    BY <1>1, <1>5, RecordUpdates DEF fs_remove_file_link, Unlinked, TypeOK
  <2>2. inode' \in [Inode -> InodeRecord]
    BY <1>2, <1>5, <2>1 DEF fs_remove_file_link, TypeOK
  <2>. QED
    BY <1>3, <1>5, <2>2 DEF fs_remove_file_link, TypeOK
<1>. QED
  BY <1>4, <1>5

\* A remove that ends in its loop over the descriptors keeps the type invariant.
LEMMA RemoveBusyTypes ==
    ASSUME TypeOK, NEW p \in Paths, fs_remove_busy(p)
    PROVE  TypeOK'
<1>1. fd' \in [Fd -> Inode \cup {Closed}]
  BY DEF fs_remove_busy, TypeOK
<1>2. torn' \in BOOLEAN
  BY DEF fs_remove_busy
<1>. QED
  BY <1>1, <1>2 DEF fs_remove_busy, TypeOK

\* A move within a directory keeps the type invariant.
LEMMA MoveRenameTypes ==
    ASSUME TypeOK, NEW src \in Paths, NEW dst \in Paths, fs_move_rename(src, dst)
    PROVE  TypeOK'
<1>. DEFINE d == searchPath(dirname(src))
            b == inode[d].directPointer[0]
            S == {s \in Slot : Entry(d, s) = [filename |-> basename(src),
                                              inodeNumber |-> Resolve(src)]}
<1>1. d \in Inode
  BY ResolveType DEF fs_move_rename, MoveChecked
<1>2. b \in Block
  BY <1>1, ConstantTypes DEF TypeOK, InodeRecord
<1>3. basename(dst) \in Names
  BY NameTypes
<1>4. \A s : dblock[b][s] \in Dentry =>
               [dblock[b][s] EXCEPT !.filename = basename(dst)] \in Dentry
  BY <1>3 DEF Dentry
<1>5. \A s : [dblock[b] EXCEPT ![s].filename = basename(dst)] \in [Slot -> Dentry]
  BY <1>2, <1>4, ZenonT(30) DEF TypeOK
<1>6. dblock' \in [Block -> [Slot -> Dentry]]
  <2>1. dblock' = [dblock EXCEPT ![b] =
                     [dblock[b] EXCEPT ![Min(S)].filename = basename(dst)]]
    BY DEF fs_move_rename
  <2>. QED
    BY <2>1, <1>2, <1>5 DEF TypeOK
<1>. QED
  BY <1>6 DEF fs_move_rename, TypeOK

\* A move between directories keeps the type invariant.
LEMMA MoveAcrossTypes ==
    ASSUME TypeOK, NEW src \in Paths, NEW dst \in Paths, fs_move_across(src, dst)
    PROVE  TypeOK'
<1>. DEFINE d == searchPath(dirname(src))
            e == searchPath(dirname(dst))
            i == Resolve(src)
            t == FreeSlot(e)
            s == Min({x \in Slot : Entry(d, x).inodeNumber = i})
            b == inode[d].directPointer[0]
<1>1. d \in Inode /\ e \in Inode /\ i \in Inode
  BY ResolveType, SearchPathType DEF fs_move_across, MoveChecked
<1>2. t \in Slot
  BY AllocatorTypes DEF fs_move_across
<1>3. basename(dst) \in Names
  BY NameTypes
<1>4. AddEntry(dblock, e, t, basename(dst), i) \in [Block -> [Slot -> Dentry]]
  BY <1>1, <1>2, <1>3, AddEntryType DEF TypeOK
<1>5. b \in Block /\ dblock[b] \in [Slot -> Dentry]
  BY <1>1, ConstantTypes DEF TypeOK, InodeRecord
<1>6. [dblock[b] EXCEPT ![s] = NoEntry] \in [Slot -> Dentry]
  BY <1>5, RecordTypes
<1>7. dblock' \in [Block -> [Slot -> Dentry]]
  BY <1>4, <1>5, <1>6 DEF fs_move_across
<1>8. /\ SetBit(inode[e], t) \in InodeRecord
      /\ ClearBit(inode[d], {s}) \in InodeRecord
  BY <1>1, <1>2, RecordUpdates DEF TypeOK
<1>9. inode' \in [Inode -> InodeRecord]
  BY <1>1, <1>8 DEF fs_move_across, TypeOK
<1>. QED
  BY <1>7, <1>9 DEF fs_move_across, TypeOK

\* Linking keeps the type invariant.
LEMMA LinkTypes ==
    ASSUME TypeOK, NEW src \in Paths, NEW dst \in Paths, fs_link(src, dst)
    PROVE  TypeOK'
<1>. DEFINE d == searchPath(dirname(dst))
            i == Resolve(src)
            s == FreeSlot(d)
            r == IF i = d THEN Linked(inode[d]) ELSE inode[d]
<1>1. d \in Inode /\ i \in Inode
  BY ResolveType, SearchPathType DEF fs_link
<1>2. s \in Slot
  BY AllocatorTypes DEF fs_link
<1>3. r \in InodeRecord /\ Linked(inode[i]) \in InodeRecord
  BY <1>1, RecordUpdates DEF TypeOK
<1>4. SetBit(r, s) \in InodeRecord
  BY <1>2, <1>3, RecordUpdates
<1>5. inode' \in [Inode -> InodeRecord]
  BY <1>1, <1>3, <1>4 DEF fs_link, TypeOK
<1>6. dblock' \in [Block -> [Slot -> Dentry]]
  BY <1>1, <1>2, NameTypes, AddEntryType DEF fs_link, TypeOK
<1>. QED
  BY <1>5, <1>6 DEF fs_link, TypeOK

-----------------------------------------------------------------------------
\* Every step keeps the type invariant.
LEMMA TypeStep ==
    ASSUME TypeOK, [Next]_vars
    PROVE  TypeOK'
<1>1. CASE UNCHANGED vars
  BY <1>1 DEF vars, TypeOK
<1>2. CASE fs_format \/ fs_mount \/ fs_unmount
  BY <1>2, MountTypes
<1>3. ASSUME NEW p \in Paths,
             \/ fs_create_file(p) \/ fs_create_dir(p) \/ fs_create_no_block(p)
      PROVE  TypeOK'
  BY <1>3, CreateFileTypes, CreateDirTypes, CreateNoBlockTypes
<1>4. ASSUME NEW p \in Paths, fs_open(p)
      PROVE  TypeOK'
  BY <1>4, OpenTypes
<1>5. ASSUME NEW p \in Paths,
             \/ fs_remove_dir(p) \/ fs_remove_dir_link(p)
             \/ fs_remove_file(p) \/ fs_remove_file_link(p)
             \/ fs_remove_busy(p)
      PROVE  TypeOK'
  BY <1>5, RemoveDirTypes, RemoveFileTypes, RemoveBusyTypes
<1>6. ASSUME NEW p \in Paths, NEW q \in Paths,
             fs_move_rename(p, q) \/ fs_move_across(p, q) \/ fs_link(p, q)
      PROVE  TypeOK'
  BY <1>6, MoveRenameTypes, MoveAcrossTypes, LinkTypes
<1>7. ASSUME NEW f \in Fd, fs_close(f)
      PROVE  TypeOK'
  BY <1>7, CloseTypes
<1>8. ASSUME NEW f \in Fd, NEW k \in Order,
             fs_write_block(f, k) \/ fs_write_new_block(f, k)
      PROVE  TypeOK'
  BY <1>8, WriteTypes
<1>. QED
  BY <1>1, <1>2, <1>3, <1>4, <1>5, <1>6, <1>7, <1>8 DEF Next, Bound, NotBound

\* The types of the volume, the descriptors and the mount hold in every state:
\* no call stores a block, inode or slot number out of the range of its table.
THEOREM TypeCorrect == Spec => []TypeOK
<1>1. Init => TypeOK
  BY RecordTypes, ConstantTypes, ZenonT(30) DEF Init, TypeOK
<1>2. TypeOK /\ [Next]_vars => TypeOK'
  BY TypeStep
<1>. QED
  BY <1>1, <1>2, PTL DEF Spec
=============================================================================
