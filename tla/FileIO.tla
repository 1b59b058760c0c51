------------------------------- MODULE FileIO -------------------------------
(***************************************************************************)
(* The contents of regular files (F17FS.c): positions of descriptors, the  *)
(* blocks of a file under its direct, indirect and double indirect         *)
(* pointers, and read, write and seek over them.                           *)
(*                                                                         *)
(* A block holds bytes or, as an index table, block numbers.  The names of *)
(* files and the directories are those of F17FS; here a file is its inode. *)
(* The bytes of a block that is not in use, and of a new data block beyond *)
(* what was written to it, are Stale: whatever the block held before.      *)
(***************************************************************************)
EXTENDS Bitmap, Sequences

CONSTANTS
    File,           \* the inodes of regular files
    NumFds,         \* 256: descriptors
    Closed,         \* what a descriptor that is not open holds
    NumBlocks,      \* BLOCK_STORE_AVAIL_BLOCKS, 65520
    MetaBlocks,     \* 34: blocks in use on a fresh volume, 0 among them
    DIRECT_BLOCKS,      \* 6: direct pointers
    INDIRECT_BLOCKS,    \* 256: entries of an index table
    BLOCK_SIZE_BYTES,   \* 512
    Byte,           \* what a client writes
    Stale,          \* an unknown byte
    Buffers,        \* the buffers a client writes
    Counts,         \* the numbers of bytes a client reads
    Offsets,        \* the offsets a client gives to seek, negative ones too
    Locations       \* bound: the locations, from the start, a client seeks

ASSUME FileIOAssumption ==
    /\ NumFds \in Nat
    /\ MetaBlocks \in Nat \ {0}
    /\ NumBlocks \in Nat
    /\ MetaBlocks <= NumBlocks
    /\ DIRECT_BLOCKS \in Nat \ {0}
    /\ INDIRECT_BLOCKS \in Nat \ {0}
    /\ BLOCK_SIZE_BYTES \in Nat \ {0}
    \* A block number and an order fit 16 bits.
    /\ NumBlocks <= 65536
    /\ DIRECT_BLOCKS <= 65536
    /\ INDIRECT_BLOCKS < 65536
    \* No file reaches the end of its tables: the volume is smaller.
    /\ NumBlocks - MetaBlocks < DIRECT_BLOCKS + (1 + INDIRECT_BLOCKS)
           + (1 + INDIRECT_BLOCKS + INDIRECT_BLOCKS * INDIRECT_BLOCKS)
    /\ Buffers \subseteq Seq(Byte) \ {<<>>}
    /\ Counts \subseteq Nat \ {0}
    /\ Offsets \subseteq Int
    /\ Stale \notin Byte

VARIABLES
    fbm,        \* the free-block map: the blocks marked in use
    imap,       \* the files there are
    inode,      \* their records
    block,      \* what the blocks hold
    fd,         \* the descriptors
    torn        \* history: a remove released blocks of a file and then failed

vars == <<fbm, imap, inode, block, fd, torn>>

-----------------------------------------------------------------------------
Fd     == 0 .. (NumFds - 1)
Block  == 0 .. (NumBlocks - 1)
Order  == 0 .. (DIRECT_BLOCKS - 1)
Index  == 0 .. (INDIRECT_BLOCKS - 1)
Offset == 0 .. (BLOCK_SIZE_BYTES - 1)
Uint16 == 65536

InodeRecord == [fileSize : Nat, directPointer : [Order -> Block],
                indirectPointer : Block, doubleIndirectPointer : Block]

FdRecord == [inodeNum : File, usage : {1, 2, 4},
             locate_order : 0 .. (Uint16 - 1), locate_offset : Offset]

EmptyInode == [fileSize |-> 0, directPointer |-> [k \in Order |-> 0],
               indirectPointer |-> 0, doubleIndirectPointer |-> 0]

Unwritten == [o \in Offset |-> Stale]

\* An index table that is zero but for entry k.
TableWith(k, b) == [j \in Index |-> IF j = k THEN b ELSE 0]

OpenFds == {f \in Fd : fd[f] # Closed}

Init ==
    /\ fbm = 0 .. (MetaBlocks - 1)
    /\ imap = {}
    /\ inode = [i \in File |-> EmptyInode]
    /\ block = [b \in Block |-> Unwritten]
    /\ fd = [f \in Fd |-> Closed]
    /\ torn = FALSE

-----------------------------------------------------------------------------
(* fs_create, fs_open, fs_close *)

fs_create(i) ==
    /\ i \notin imap
    /\ imap' = bitmap_set(imap, i)
    /\ inode' = [inode EXCEPT ![i] = EmptyInode]
    /\ UNCHANGED <<fbm, block, fd, torn>>

fs_open(i) ==
    LET f == bitmap_ffz(OpenFds, NumFds)
    IN  /\ i \in imap
        /\ f # SIZE_MAX
        /\ fd' = [fd EXCEPT ![f] = [inodeNum |-> i, usage |-> 1,
                                    locate_order |-> 0, locate_offset |-> 0]]
        /\ UNCHANGED <<fbm, imap, inode, block, torn>>

fs_close(f) ==
    /\ f \in OpenFds
    /\ fd' = [fd EXCEPT ![f] = Closed]
    /\ UNCHANGED <<fbm, imap, inode, block, torn>>

-----------------------------------------------------------------------------
(* get_data_block_id: the block at the position of a descriptor, allocated *)
(* if need be.  A call in progress is a record t of the map, the inode and *)
(* the blocks as its stores have made them, its copy pos of the descriptor *)
(* and id, the block found, 0 if none.                                     *)

\* The k-th free block from the first.
NthFree(t, k) ==
    CHOOSE b \in Block \ t.fbm : Cardinality((Block \ t.fbm) \cap 0 .. b) = k

\* Mutant: the last free block is not used.
MoreFree(t, n) == NumBlocks - bitmap_total_set(t.fbm) > n

\* At least n blocks are free.
Free(t, n) == NumBlocks - bitmap_total_set(t.fbm) >= n

\* n blocks more are marked in use, the last of which is the data block.
Allocated(t, n) ==
    [t EXCEPT !.fbm = @ \cup {NthFree(t, k) : k \in 1 .. n}, !.id = NthFree(t, n)]

None(t) == [t EXCEPT !.id = 0]

\* The block b, which must be marked in use.
Existing(t, b) == IF bitmap_test(t.fbm, b) THEN [t EXCEPT !.id = b] ELSE None(t)

DirectBlock(t, k) ==
    LET b == t.ino.directPointer[k]
    IN  IF b # 0 THEN Existing(t, b)
        ELSE IF Free(t, 1)
        THEN [Allocated(t, 1) EXCEPT !.ino.directPointer[k] = NthFree(t, 1)]
        ELSE None(t)

\* Entry k of the index table in block b.
TableEntry(t, b, k) ==
    IF t.block[b][k] # 0 THEN Existing(t, t.block[b][k])
    ELSE IF Free(t, 1)
    THEN [Allocated(t, 1) EXCEPT !.block[b][k] = NthFree(t, 1)]
    ELSE None(t)

IndirectBlock(t, k) ==
    LET b == t.ino.indirectPointer
    IN  IF b # 0
        THEN IF bitmap_test(t.fbm, b) THEN TableEntry(t, b, k) ELSE None(t)
        ELSE IF k = 0 /\ Free(t, 2)
        THEN [Allocated(t, 2) EXCEPT
                !.ino.indirectPointer = NthFree(t, 1),
                !.block[NthFree(t, 1)] = TableWith(0, NthFree(t, 2))]
        ELSE None(t)

DoubleIndirectBlock(t, k) ==
    LET b == t.ino.doubleIndirectPointer
        outer == k \div INDIRECT_BLOCKS
        inner == k % INDIRECT_BLOCKS
    IN  IF b = 0
        THEN IF Free(t, 3)
             THEN [Allocated(t, 3) EXCEPT
                     !.ino.doubleIndirectPointer = NthFree(t, 1),
                     !.block = [@ EXCEPT
                        ![NthFree(t, 1)] = TableWith(0, NthFree(t, 2)),
                        ![NthFree(t, 2)] = TableWith(0, NthFree(t, 3))]]
             ELSE None(t)
        ELSE IF ~bitmap_test(t.fbm, b) THEN None(t)
        ELSE IF t.block[b][outer] # 0
        THEN IF bitmap_test(t.fbm, t.block[b][outer])
             THEN TableEntry(t, t.block[b][outer], inner)
             ELSE None(t)
        ELSE IF Free(t, 2)
        THEN [Allocated(t, 2) EXCEPT
                !.block = [@ EXCEPT
                   ![b][outer] = NthFree(t, 1),
                   ![NthFree(t, 1)] = TableWith(inner, NthFree(t, 2))]]
        ELSE None(t)

get_data_block_id(t) ==
    CASE t.pos.usage = 1 -> DirectBlock(t, t.pos.locate_order)
      [] t.pos.usage = 2 -> IndirectBlock(t, t.pos.locate_order)
      [] t.pos.usage = 4 -> DoubleIndirectBlock(t, t.pos.locate_order)

-----------------------------------------------------------------------------
(* Positions *)

\* The number of bytes before a position.
getFileSize(pos) ==
    LET before == CASE pos.usage = 1 -> 0
                    [] pos.usage = 2 -> DIRECT_BLOCKS
                    [] pos.usage = 4 -> DIRECT_BLOCKS + INDIRECT_BLOCKS
    IN  BLOCK_SIZE_BYTES * (before + pos.locate_order) + pos.locate_offset

\* The next block of a file.
NextBlock(pos) ==
    IF pos.usage = 1 /\ pos.locate_order = DIRECT_BLOCKS - 1
    THEN [pos EXCEPT !.usage = 2, !.locate_order = 0, !.locate_offset = 0]
    ELSE IF pos.usage = 2 /\ pos.locate_order = INDIRECT_BLOCKS - 1
    THEN [pos EXCEPT !.usage = 4, !.locate_order = 0, !.locate_offset = 0]
    ELSE [pos EXCEPT !.locate_order = (@ + 1) % Uint16, !.locate_offset = 0]

\* Mutant: a chunk that ends with its block stays in it.
AdvanceInclusive(pos, n) ==
    IF pos.locate_offset + n <= BLOCK_SIZE_BYTES
    THEN [pos EXCEPT !.locate_offset = @ + n] ELSE NextBlock(pos)

Advance(pos, n) ==
    IF pos.locate_offset + n < BLOCK_SIZE_BYTES
    THEN [pos EXCEPT !.locate_offset = @ + n] ELSE NextBlock(pos)

\* The bytes of the next chunk, of n in all: up to the end of the block.
Chunk(t, n) ==
    Min({n - t.done, BLOCK_SIZE_BYTES - t.pos.locate_offset})

\* What a read or write of an order that no table has does is undefined in C;
\* the model does not follow it.
InTable(pos) ==
    CASE pos.usage = 1 -> pos.locate_order \in Order
      [] pos.usage = 2 -> pos.locate_order \in Index
      [] pos.usage = 4 -> pos.locate_order \div INDIRECT_BLOCKS \in Index

\* A call on descriptor f as it begins.
Begin(f) ==
    [fbm |-> fbm, ino |-> inode[fd[f].inodeNum], block |-> block,
     pos |-> fd[f], id |-> 0, done |-> 0, got |-> <<>>]

-----------------------------------------------------------------------------
(* fs_write, fs_read.  One turn of the loop finds a block, moves a chunk    *)
(* and advances; a turn that finds no block, or with nothing left to move,  *)
(* changes nothing, so the loop is followed for as many turns as bytes.     *)

WriteChunk(t, buffer) ==
    LET n == Chunk(t, Len(buffer))
        o == t.pos.locate_offset
    IN  [t EXCEPT
           !.block[t.id] = [x \in Offset |->
               IF x \in o .. (o + n - 1) THEN buffer[t.done + x - o + 1] ELSE @[x]],
           !.pos = Advance(@, n),
           !.done = @ + n]

ReadChunk(t, nbyte) ==
    LET n == Chunk(t, nbyte)
        o == t.pos.locate_offset
    IN  [t EXCEPT
           !.got = @ \o [x \in 1 .. n |-> t.block[t.id][o + x - 1]],
           !.pos = Advance(@, n),
           !.done = @ + n]

WriteTurn(t, buffer) ==
    LET u == get_data_block_id(t)
    IN  IF t.done = Len(buffer) THEN t
        ELSE IF u.id = 0 THEN u ELSE WriteChunk(u, buffer)

ReadTurn(t, nbyte) ==
    LET u == get_data_block_id(t)
    IN  IF t.done = nbyte THEN t
        ELSE IF u.id = 0 THEN u ELSE ReadChunk(u, nbyte)

WriteLoop(f, buffer) ==
    LET loop[k \in 0 .. Len(buffer)] ==
            IF k = 0 THEN Begin(f) ELSE WriteTurn(loop[k - 1], buffer)
    IN  loop[Len(buffer)]

ReadLoop(f, nbyte) ==
    LET loop[k \in 0 .. nbyte] ==
            IF k = 0 THEN Begin(f) ELSE ReadTurn(loop[k - 1], nbyte)
    IN  loop[nbyte]

\* Mutant: the size is that of the last write's end.
EndOfWrite(size, end) == end

GrownSize(size, end) == IF size < end THEN end ELSE size

\* Writes len of the buffer's bytes, fewer when no block is found.
fs_write(f, buffer) ==
    LET t == WriteLoop(f, buffer)
        end == getFileSize(fd[f]) + t.done
    IN  /\ f \in OpenFds
        /\ InTable(fd[f])
        /\ fbm' = t.fbm
        /\ block' = t.block
        /\ inode' = [inode EXCEPT ![fd[f].inodeNum] =
                        [t.ino EXCEPT !.fileSize = GrownSize(@, end)]]
        /\ fd' = [fd EXCEPT ![f] = t.pos]
        /\ UNCHANGED <<imap, torn>>

\* Mutant: the count is not cut off at the end of the file.
UncutCount(f, nbyte) == nbyte

\* What is left of the file from the position on; the difference of two size_t
\* wraps, so nothing is cut off when the position is past the end.
ReadCount(f, nbyte) ==
    LET left == inode[fd[f].inodeNum].fileSize - getFileSize(fd[f])
    IN  IF left >= 0 THEN Min({nbyte, left}) ELSE nbyte

\* A read that finds no block leaves its position.
fs_read(f, nbyte) ==
    LET n == ReadCount(f, nbyte)
        t == ReadLoop(f, n)
    IN  /\ f \in OpenFds
        /\ InTable(fd[f])
        /\ fbm' = t.fbm
        /\ block' = t.block
        /\ inode' = [inode EXCEPT ![fd[f].inodeNum] = t.ino]
        /\ fd' = IF t.done = n THEN [fd EXCEPT ![f] = t.pos] ELSE fd
        /\ UNCHANGED <<imap, torn>>

-----------------------------------------------------------------------------
(* fs_seek *)

Whence == {"FS_SEEK_SET", "FS_SEEK_CUR", "FS_SEEK_END"}

\* The location asked for, from the start, moved into the file.
StdOffset(f, offset, whence) ==
    LET size == inode[fd[f].inodeNum].fileSize
        from == CASE whence = "FS_SEEK_SET" -> 0
                  [] whence = "FS_SEEK_CUR" -> getFileSize(fd[f])
                  [] whence = "FS_SEEK_END" -> size
    IN  Max({0, Min({from + offset, size})})

CeilDiv(n, d) == (n + d - 1) \div d

\* The usage and order of a location: the test for the direct blocks rounds up,
\* the order rounds down and is stored in 16 bits.
Locate(i, std) ==
    LET n == std \div BLOCK_SIZE_BYTES
        at(usage, order) == [inodeNum |-> i, usage |-> usage,
                             locate_order |-> order % Uint16,
                             locate_offset |-> std % BLOCK_SIZE_BYTES]
    IN  IF n >= DIRECT_BLOCKS + INDIRECT_BLOCKS
        THEN at(4, n - (DIRECT_BLOCKS + INDIRECT_BLOCKS))
        ELSE IF CeilDiv(std, BLOCK_SIZE_BYTES) >= DIRECT_BLOCKS
        THEN at(2, n - DIRECT_BLOCKS)
        ELSE at(1, n)

fs_seek(f, offset, whence) ==
    LET std == StdOffset(f, offset, whence)
    IN  /\ f \in OpenFds
        /\ std \in Locations
        /\ fd' = [fd EXCEPT ![f] = Locate(fd[f].inodeNum, std)]
        /\ UNCHANGED <<fbm, imap, inode, block, torn>>

-----------------------------------------------------------------------------
(* fs_remove of the last link to a file *)

\* The entries of the index table in block b, when it is marked in use.
EntriesOf(b) == IF b # 0 /\ b \in fbm THEN {block[b][k] : k \in Index} \ {0} ELSE {}

\* The data blocks and the index tables of a file.
DataBlocks(i) ==
    LET ino == inode[i]
    IN  ({ino.directPointer[k] : k \in Order} \ {0})
        \cup EntriesOf(ino.indirectPointer)
        \cup UNION {EntriesOf(b) : b \in EntriesOf(ino.doubleIndirectPointer)}

IndexBlocks(i) ==
    LET ino == inode[i]
    IN  ({ino.indirectPointer, ino.doubleIndirectPointer} \ {0})
        \cup EntriesOf(ino.doubleIndirectPointer)

\* Mutant: the index tables are not released.
OnlyData(i) == DataBlocks(i) \cap fbm

HeldBlocks(i) == (DataBlocks(i) \cup IndexBlocks(i)) \cap fbm

Erased(S) == [b \in Block |-> IF b \in S THEN Unwritten ELSE block[b]]

\* The record stays in the table, where no call reads it before a create
\* stores another one.
fs_remove(i) ==
    /\ i \in imap
    /\ OpenFds = {}
    /\ fbm' = fbm \ HeldBlocks(i)
    /\ block' = Erased(HeldBlocks(i))
    /\ imap' = bitmap_reset(imap, i)
    /\ inode' = [inode EXCEPT ![i] = EmptyInode]
    /\ UNCHANGED <<fd, torn>>

\* With a descriptor open the call fails after it released the blocks; the
\* first descriptor open is closed if it is of this file.
fs_remove_busy(i) ==
    LET f == Min(OpenFds)
    IN  /\ i \in imap
        /\ OpenFds # {}
        /\ fbm' = fbm \ HeldBlocks(i)
        /\ block' = Erased(HeldBlocks(i))
        /\ fd' = IF fd[f].inodeNum = i THEN [fd EXCEPT ![f] = Closed] ELSE fd
        /\ torn' = (torn \/ HeldBlocks(i) # {})
        /\ UNCHANGED <<imap, inode>>

-----------------------------------------------------------------------------
Next ==
    \/ \E i \in File : fs_create(i) \/ fs_open(i) \/ fs_remove(i) \/ fs_remove_busy(i)
    \/ \E f \in Fd :
         \/ fs_close(f)
         \/ \E buffer \in Buffers : fs_write(f, buffer)
         \/ \E nbyte \in Counts : fs_read(f, nbyte)
         \/ \E offset \in Offsets, whence \in Whence : fs_seek(f, offset, whence)

Spec == Init /\ [][Next]_vars

\* After a torn remove two files may share blocks: what the calls do from then
\* on is not followed.
WholeSpec == Init /\ [][~torn /\ Next]_vars

-----------------------------------------------------------------------------
(* Properties *)

\* Type invariant: a descriptor's offset is within a block (F17FS.c:42-48).
TypeOK ==
    /\ fbm \subseteq Block
    /\ imap \subseteq File
    /\ inode \in [File -> InodeRecord]
    /\ block \in [Block -> [Offset -> Byte \cup {Stale}] \cup [Index -> Block]]
    /\ fd \in [Fd -> FdRecord \cup {Closed}]
    /\ torn \in BOOLEAN

\* The blocks in use are the metadata's and those of the files there are; no
\* two files share one, and a file has exactly the data blocks its size needs.
BlocksExact ==
    ~torn =>
        /\ fbm = (0 .. (MetaBlocks - 1)) \cup
                     UNION {DataBlocks(i) \cup IndexBlocks(i) : i \in imap}
        /\ \A i \in imap :
             /\ DataBlocks(i) \cap IndexBlocks(i) = {}
             /\ Cardinality(DataBlocks(i)) =
                    CeilDiv(inode[i].fileSize, BLOCK_SIZE_BYTES)
             /\ \A j \in imap \ {i} :
                  (DataBlocks(i) \cup IndexBlocks(i))
                      \cap (DataBlocks(j) \cup IndexBlocks(j)) = {}

\* The data block of the n-th block of a file, found top down from the record.
NthBlock(i, n) ==
    LET ino == inode[i]
        m == n - DIRECT_BLOCKS
        k == m - INDIRECT_BLOCKS
    IN  IF n < DIRECT_BLOCKS THEN ino.directPointer[n]
        ELSE IF m < INDIRECT_BLOCKS THEN block[ino.indirectPointer][m]
        ELSE block[block[ino.doubleIndirectPointer][k \div INDIRECT_BLOCKS]]
                  [k % INDIRECT_BLOCKS]

\* The bytes of a file.
Contents(i) ==
    [x \in 1 .. inode[i].fileSize |->
        block[NthBlock(i, (x - 1) \div BLOCK_SIZE_BYTES)][(x - 1) % BLOCK_SIZE_BYTES]]

Abstract == INSTANCE Files WITH
                Descriptor <- Fd,
                exists <- imap,
                bytes  <- [i \in File |-> IF i \in imap THEN Contents(i) ELSE <<>>],
                cursor <- [f \in Fd |->
                              IF fd[f] = Closed THEN Closed
                              ELSE [file |-> fd[f].inodeNum, at |-> getFileSize(fd[f])]]

\* Seen by its clients a file is a sequence of bytes: whatever the levels of
\* its blocks and whoever else writes, a call changes the bytes it wrote, and
\* its own position, and nothing else.
ImplementsFiles == [][~torn' => Abstract!FilesNext]_vars

\* A read returns the bytes of the file from the position on, up to the end
\* (F17FS.h, "Reading past EOF returns data up to EOF").
ReadBack ==
    ~torn => \A f \in OpenFds, n \in Counts :
        LET p == getFileSize(fd[f])
            c == Contents(fd[f].inodeNum)
        IN  ReadLoop(f, ReadCount(f, n)).got = SubSeq(c, p + 1, Min({p + n, Len(c)}))

\* The free blocks that the block at a position that has none needs.
Needed(pos) ==
    IF pos.usage = 2 /\ pos.locate_order = 0 THEN 2
    ELSE IF pos.usage = 4 /\ pos.locate_order = 0 THEN 3
    ELSE IF pos.usage = 4 /\ pos.locate_order % INDIRECT_BLOCKS = 0 THEN 2
    ELSE 1

\* A write is short only when the free blocks do not suffice for the next block
\* and its index tables (F17FS.h, "< nbyte IFF out of space").
ShortWriteOnlyWhenFull ==
    ~torn => \A f \in OpenFds, buffer \in Buffers :
        LET t == WriteLoop(f, buffer)
        IN  t.done < Len(buffer) =>
                NumBlocks - bitmap_total_set(t.fbm) < Needed(t.pos)

\* A seek puts the descriptor at the location asked for, in the file (F17FS.h,
\* "Moves the R/W position of the given descriptor to the given location").
SeekLands ==
    [][\A f \in Fd, offset \in Offsets, whence \in Whence :
         fs_seek(f, offset, whence) =>
             getFileSize(fd'[f]) = StdOffset(f, offset, whence)]_fd
=============================================================================
