----------------------------- MODULE BlockStore -----------------------------
(***************************************************************************)
(* The block stores of block_store.c, byte by byte.  The device is a file  *)
(* mapped into memory: blocks of bytes, the last of which are a bitmap of  *)
(* all of them (bitmap_overlay).  F17FS lays a second, smaller store over  *)
(* the same bytes: block 0 is its bitmap, the next blocks its records, the *)
(* inodes (fs_format, F17FS.c:97-113).  A third one, of the descriptors,   *)
(* is in memory of its own.                                                *)
(*                                                                         *)
(* The functions test the block number they are given with                 *)
(* "block_id <= BLOCK_STORE_AVAIL_BLOCKS", which the first block of the    *)
(* map passes.  Every store goes to the shared mapping, so that closing    *)
(* and opening the device, or a crash between two calls, changes nothing   *)
(* of its bytes.                                                           *)
(***************************************************************************)
EXTENDS BitmapBytes

CONSTANTS
    BlockBytes,     \* 512: bytes of a block
    FbmBlocks,      \* 16: blocks that hold the map, at the end of the device
    Inodes,         \* 256: records of the inode store
    InodeBytes,     \* 64: bytes of one
    Fds,            \* 256: records of the descriptor store
    FdBytes,        \* 6: bytes of one
    Ids,            \* the block numbers a client passes
    Patterns        \* bound: the bytes a client writes

NumBlocks   == ByteBits * BlockBytes * FbmBlocks
AvailBlocks == NumBlocks - FbmBlocks
NumBytes    == NumBlocks * BlockBytes

\* Where the map is, and the bitmap and the records of the inodes.
MapAt       == AvailBlocks * BlockBytes
InodeMapAt  == 0
InodesAt    == BlockBytes
MetaBlocks  == 1 + ((Inodes * InodeBytes) \div BlockBytes)

ASSUME StoreAssumption ==
    /\ {BlockBytes, FbmBlocks, Inodes, InodeBytes, Fds, FdBytes} \subseteq Nat \ {0}
    /\ FbmBlocks % ByteBits = 0
    /\ (Inodes * InodeBytes) % BlockBytes = 0
    /\ Inodes <= ByteBits * BlockBytes
    /\ MetaBlocks < AvailBlocks
    /\ Ids \subseteq Nat
    /\ Patterns \subseteq Byte

VARIABLES
    data,       \* the bytes of the device
    fdmap,      \* the bytes of the descriptors' bitmap
    fddata      \* the bytes of their records

vars == <<data, fdmap, fddata>>

\* A buffer of n bytes, and memory with one copied to it or from it: a copy
\* that goes past the end of the memory makes it longer, which TypeOK forbids.
Buffer(n) == [1 .. n -> Patterns]

memcpy(mem, at, buffer) ==
    [a \in DOMAIN mem \cup at .. (at + Len(buffer) - 1) |->
        IF a \in at .. (at + Len(buffer) - 1) THEN buffer[a - at + 1] ELSE mem[a]]

Copied(mem, at, n) == [k \in 1 .. n |-> mem[at + k - 1]]

fbm == Bits(data, MapAt, NumBlocks)

-----------------------------------------------------------------------------
\* Mutants: the map's own blocks are not marked, or a byte too few is.
UnmarkedDevice == [a \in 0 .. (NumBytes - 1) |-> {}]

OvermarkedDevice ==
    [a \in 0 .. NumBytes |-> IF a > NumBytes - FbmBlocks \div ByteBits THEN Bit ELSE {}]

\* A new device is zero but for its last bytes, the bits of the map's own
\* blocks.
NewDevice ==
    [a \in 0 .. (NumBytes - 1) |->
        IF a >= NumBytes - FbmBlocks \div ByteBits THEN Bit ELSE {}]

NewFds == [a \in 0 .. (Fds * FdBytes - 1) |-> {}]

Init ==
    /\ data = NewDevice
    /\ fdmap = bitmap_create(Fds)
    /\ fddata = NewFds

block_store_create ==
    /\ data' = NewDevice
    /\ UNCHANGED <<fdmap, fddata>>

\* Every format and mount makes a descriptor store anew.
block_store_fd_create ==
    /\ fdmap' = bitmap_create(Fds)
    /\ fddata' = NewFds
    /\ UNCHANGED data

-----------------------------------------------------------------------------
(* Blocks *)

block_store_allocate ==
    LET id == bitmap_ffz(data, MapAt, NumBlocks)
    IN  /\ id # B!SIZE_MAX
        /\ data' = bitmap_set(data, MapAt, id)
        /\ UNCHANGED <<fdmap, fddata>>

block_store_request(id) ==
    /\ id <= AvailBlocks
    /\ ~bitmap_test(data, MapAt, id)
    /\ data' = bitmap_set(data, MapAt, id)
    /\ UNCHANGED <<fdmap, fddata>>

block_store_release(id) ==
    /\ id <= AvailBlocks
    /\ bitmap_test(data, MapAt, id)
    /\ data' = bitmap_reset(data, MapAt, id)
    /\ UNCHANGED <<fdmap, fddata>>

\* A write is not refused for a block that is free.
block_store_write(id, buffer) ==
    /\ id <= AvailBlocks
    /\ data' = memcpy(data, id * BlockBytes, buffer)
    /\ UNCHANGED <<fdmap, fddata>>

\* Mutant: the end of the part written is not compared with the block's.
StartInBlock(offset, bytes) == offset < BlockBytes

InBlock(offset, bytes) == offset < BlockBytes /\ offset + bytes <= BlockBytes

block_store_n_write(id, offset, buffer) ==
    /\ id <= AvailBlocks
    /\ InBlock(offset, Len(buffer))
    /\ data' = memcpy(data, id * BlockBytes + offset, buffer)
    /\ UNCHANGED <<fdmap, fddata>>

block_store_read(id) == Copied(data, id * BlockBytes, BlockBytes)

\* Mutant: the map's own blocks are counted as free.
FreeBlocksOfDevice == NumBlocks - bitmap_total_set(data, MapAt, AvailBlocks)

block_store_get_used_blocks == bitmap_total_set(data, MapAt, NumBlocks)

block_store_get_free_blocks == NumBlocks - block_store_get_used_blocks

-----------------------------------------------------------------------------
(* The inode store, in the bytes of the device *)

block_store_inode_allocate ==
    LET i == bitmap_ffz(data, InodeMapAt, Inodes)
    IN  /\ i # B!SIZE_MAX
        /\ data' = bitmap_set(data, InodeMapAt, i)
        /\ UNCHANGED <<fdmap, fddata>>

block_store_inode_release(i) ==
    /\ bitmap_test(data, InodeMapAt, i)
    /\ data' = bitmap_reset(data, InodeMapAt, i)
    /\ UNCHANGED <<fdmap, fddata>>

\* Mutant: the records begin where their bitmap does.
RecordAtMap(i) == InodeMapAt + i * InodeBytes

RecordAt(i) == InodesAt + i * InodeBytes

block_store_inode_write(i, buffer) ==
    /\ data' = memcpy(data, RecordAt(i), buffer)
    /\ UNCHANGED <<fdmap, fddata>>

block_store_inode_read(i) == Copied(data, InodesAt + i * InodeBytes, InodeBytes)

-----------------------------------------------------------------------------
(* The descriptor store *)

block_store_fd_allocate ==
    LET f == bitmap_ffz(fdmap, 0, Fds)
    IN  /\ f # B!SIZE_MAX
        /\ fdmap' = bitmap_set(fdmap, 0, f)
        /\ UNCHANGED <<data, fddata>>

block_store_fd_release(f) ==
    /\ bitmap_test(fdmap, 0, f)
    /\ fdmap' = bitmap_reset(fdmap, 0, f)
    /\ UNCHANGED <<data, fddata>>

block_store_fd_write(f, buffer) ==
    /\ fddata' = memcpy(fddata, f * FdBytes, buffer)
    /\ UNCHANGED <<data, fdmap>>

block_store_fd_read(f) == Copied(fddata, f * FdBytes, FdBytes)

-----------------------------------------------------------------------------
Inode == 0 .. (Inodes - 1)
Fd    == 0 .. (Fds - 1)

Next ==
    \/ block_store_create
    \/ block_store_fd_create
    \/ block_store_allocate
    \/ \E id \in Ids :
         \/ block_store_request(id)
         \/ block_store_release(id)
         \/ \E buffer \in Buffer(BlockBytes) : block_store_write(id, buffer)
         \/ \E offset \in 0 .. BlockBytes, n \in 1 .. BlockBytes :
              \E buffer \in Buffer(n) : block_store_n_write(id, offset, buffer)
    \/ block_store_inode_allocate
    \/ \E i \in Inode :
         \/ block_store_inode_release(i)
         \/ \E buffer \in Buffer(InodeBytes) : block_store_inode_write(i, buffer)
    \/ block_store_fd_allocate
    \/ \E f \in Fd :
         \/ block_store_fd_release(f)
         \/ \E buffer \in Buffer(FdBytes) : block_store_fd_write(f, buffer)

Spec == Init /\ [][Next]_vars

-----------------------------------------------------------------------------
(* Properties *)

UserBlocks == MetaBlocks .. (AvailBlocks - 1)

\* Type invariant: no store falls outside the mapping, or the memory of the
\* descriptors (block_store.c:62, 117).
TypeOK ==
    /\ data \in [0 .. (NumBytes - 1) -> Byte]
    /\ fdmap \in [0 .. (byte_count(Fds) - 1) -> Byte]
    /\ fddata \in [0 .. (Fds * FdBytes - 1) -> Byte]

\* The map's own blocks stay marked in use, so that allocate never hands one
\* out (block_store.c:16, "Last 16 blocks consumed by the FBM").
MapIsReserved == AvailBlocks .. (NumBlocks - 1) \subseteq fbm

\* When the count of free blocks is not zero, allocate returns a block below
\* the map: the callers check the count first and use the result as it is.
FreeCountHonest ==
    block_store_get_free_blocks >= 1 =>
        bitmap_ffz(data, MapAt, NumBlocks) \in 0 .. (AvailBlocks - 1)

Zeroes(n) == [k \in 1 .. n |-> {}]

\* Seen by its client the store is a block device: no operation on a block, on
\* a part of one, on the map or on an inode reaches the content or the state of
\* another block.
Device == INSTANCE BlockDevice WITH
              UserBlock <- UserBlocks,
              Content   <- [1 .. BlockBytes -> Byte],
              Blank     <- Zeroes(BlockBytes),
              used      <- fbm \cap UserBlocks,
              content   <- [b \in UserBlocks |-> block_store_read(b)]

IsBlockDevice == Device!DevSpec

\* So are the two tables F17FS keeps in smaller stores, each with its bitmap:
\* the inodes, in blocks of the device that no write to a block may reach, and
\* the descriptors.
InodeTable == INSTANCE BlockDevice WITH
                  UserBlock <- Inode,
                  Content   <- [1 .. InodeBytes -> Byte],
                  Blank     <- Zeroes(InodeBytes),
                  used      <- Bits(data, InodeMapAt, Inodes),
                  content   <- [i \in Inode |-> block_store_inode_read(i)]

FdTable == INSTANCE BlockDevice WITH
               UserBlock <- Fd,
               Content   <- [1 .. FdBytes -> Byte],
               Blank     <- Zeroes(FdBytes),
               used      <- Bits(fdmap, 0, Fds),
               content   <- [f \in Fd |-> block_store_fd_read(f)]

AreTables == InodeTable!DevSpec /\ FdTable!DevSpec
=============================================================================
