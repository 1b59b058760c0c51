-------------------------- MODULE BlockStoreProofs --------------------------
(***************************************************************************)
(* Theorems about BlockStore, for every size of the device, of its blocks  *)
(* and of the tables laid over it.                                         *)
(***************************************************************************)
EXTENDS BlockStore, FiniteSetTheorems, TLAPS

\* The facts about sets of naturals, beside the Bitmap that BitmapBytes names B.
Scan == INSTANCE BitmapProofs

USE ByteAssumption

\* A nonempty set of naturals has a least element, and Min returns it.
LEMMA MinProperties ==
    ASSUME NEW S \in SUBSET Nat, S # {}
    PROVE  Min(S) \in S /\ \A y \in S : Min(S) <= y
BY Scan!MinProperties DEF Scan!Min, Min

-----------------------------------------------------------------------------
(* Where things lie *)

\* Multiplication by a natural keeps the order.
LEMMA TimesMonotone ==
    ASSUME NEW a \in Nat, NEW b \in Nat, NEW c \in Nat, a <= b
    PROVE  a * c <= b * c
OBVIOUS

\* A product of naturals is a natural.
LEMMA TimesNat ==
    ASSUME NEW a \in Nat, NEW b \in Nat
    PROVE  a * b \in Nat
OBVIOUS

\* What the byte of a bit and its place in the byte are.
LEMMA DivMod ==
    ASSUME NEW i \in Nat, NEW w \in Nat \ {0}
    PROVE  /\ i \div w \in Nat
           /\ i % w \in 0 .. (w - 1)
           /\ i = w * (i \div w) + (i % w)
OBVIOUS

\* Bit i is in a byte before the n-th when i is before bit 0 of that one.
LEMMA DivLess ==
    ASSUME NEW i \in Nat, NEW w \in Nat \ {0}, NEW n \in Nat, i < w * n
    PROVE  i \div w < n
BY DivMod

\* Bit i is in the n-th byte or a later one when it is not before bit 0 of that one.
LEMMA DivGreater ==
    ASSUME NEW i \in Nat, NEW w \in Nat \ {0}, NEW n \in Nat, w * n <= i
    PROVE  n <= i \div w
BY DivMod

\* Two bits differ in their byte or in their place in it.
LEMMA BitsApart ==
    ASSUME NEW i \in Nat, NEW j \in Nat, NEW w \in Nat \ {0}, i # j
    PROVE  i \div w # j \div w \/ i % w # j % w
BY DivMod

\* The assumption on the constants, one by one.
LEMMA Sizes ==
    /\ ByteBits \in Nat \ {0} /\ BlockBytes \in Nat \ {0} /\ FbmBlocks \in Nat \ {0}
    /\ Inodes \in Nat \ {0} /\ InodeBytes \in Nat \ {0}
    /\ Fds \in Nat \ {0} /\ FdBytes \in Nat \ {0}
BY StoreAssumption

USE Sizes

\* The map takes the last FbmBlocks blocks, and has a bit for every block.
LEMMA Layout ==
    /\ NumBlocks \in Nat /\ AvailBlocks \in Nat /\ NumBytes \in Nat /\ MapAt \in Nat
    /\ FbmBlocks * BlockBytes \in Nat
    /\ NumBlocks = ByteBits * (FbmBlocks * BlockBytes)
    /\ NumBlocks = AvailBlocks + FbmBlocks
    /\ NumBytes = MapAt + FbmBlocks * BlockBytes
    /\ BlockBytes <= MapAt
    /\ FbmBlocks * BlockBytes > 0
<1>1. FbmBlocks * BlockBytes \in Nat /\ FbmBlocks * BlockBytes > 0
  OBVIOUS
<1>2. NumBlocks \in Nat /\ NumBlocks = ByteBits * (FbmBlocks * BlockBytes)
  BY DEF NumBlocks
<1>3. MetaBlocks \in Nat \ {0}
  <2>1. Inodes * InodeBytes \in Nat
    BY TimesNat
  <2>. QED
    BY <2>1, DivMod DEF MetaBlocks
<1>4. AvailBlocks \in Nat \ {0} /\ NumBlocks = AvailBlocks + FbmBlocks
  BY <1>2, <1>3, StoreAssumption DEF AvailBlocks
<1>5. MapAt \in Nat /\ BlockBytes <= MapAt
  BY <1>4, TimesNat, TimesMonotone DEF MapAt
<1>6. NumBytes = MapAt + FbmBlocks * BlockBytes
  BY <1>4 DEF NumBytes, MapAt
<1>. QED
  BY <1>1, <1>2, <1>4, <1>5, <1>6

\* The byte of a block's bit is in the map.
LEMMA InMap ==
    ASSUME NEW i \in 0 .. (NumBlocks - 1)
    PROVE  /\ MapAt + (i \div ByteBits) \in MapAt .. (NumBytes - 1)
           /\ i % ByteBits \in Bit
<1>. DEFINE n == FbmBlocks * BlockBytes
<1>1. n \in Nat /\ i \in Nat /\ i < ByteBits * n
  BY Layout
<1>2. NumBytes = MapAt + n /\ MapAt \in Nat
  BY Layout
<1>. HIDE DEF n
<1>3. i \div ByteBits \in Nat /\ i \div ByteBits < n
  BY <1>1, DivMod, DivLess
<1>4. i % ByteBits \in Bit
  BY <1>1, DivMod DEF Bit
<1>. QED
  BY <1>1, <1>2, <1>3, <1>4

\* The bitmap of the inodes is in the first block.
LEMMA InInodeMap ==
    ASSUME NEW i \in Inode
    PROVE  /\ InodeMapAt + (i \div ByteBits) \in 0 .. (MapAt - 1)
           /\ i % ByteBits \in Bit
<1>1. i \in Nat /\ i < ByteBits * BlockBytes
  <2>1. ByteBits * BlockBytes \in Nat
    BY TimesNat
  <2>. QED
    BY <2>1, StoreAssumption DEF Inode
<1>2. i \div ByteBits \in Nat /\ i \div ByteBits < BlockBytes
  BY <1>1, DivMod, DivLess
<1>3. i % ByteBits \in Bit
  BY <1>1, DivMod DEF Bit
<1>. QED
  BY <1>2, <1>3, Layout DEF InodeMapAt

\* The records of the inodes lie between their bitmap and the client's blocks.
LEMMA InInodes ==
    ASSUME NEW i \in Inode
    PROVE  /\ RecordAt(i) \in Nat
           /\ BlockBytes <= RecordAt(i)
           /\ MetaBlocks * BlockBytes \in Nat
           /\ RecordAt(i) + InodeBytes <= MetaBlocks * BlockBytes
           /\ MetaBlocks * BlockBytes <= MapAt
           /\ RecordAt(i) + InodeBytes <= MapAt
<1>. DEFINE total == Inodes * InodeBytes
<1>1. total \in Nat /\ total = BlockBytes * (total \div BlockBytes)
  <2>1. total \in Nat
    BY TimesNat
  <2>2. total % BlockBytes = 0
    BY StoreAssumption
  <2>. HIDE DEF total
  <2>. QED
    BY <2>1, <2>2, DivMod
<1>2. i \in Nat /\ i + 1 \in Nat /\ i + 1 <= Inodes
  BY DEF Inode
<1>3. i * InodeBytes \in Nat /\ i * InodeBytes + InodeBytes <= total
  <2>1. (i + 1) * InodeBytes <= Inodes * InodeBytes
    BY <1>2, TimesMonotone
  <2>2. (i + 1) * InodeBytes = i * InodeBytes + InodeBytes
    BY <1>2
  <2>. QED
    BY <1>2, <2>1, <2>2, TimesNat
<1>4. MetaBlocks \in Nat /\ MetaBlocks * BlockBytes = BlockBytes + total
  <2>1. total \div BlockBytes \in Nat
    BY <1>1, DivMod
  <2>2. MetaBlocks = 1 + (total \div BlockBytes)
    BY DEF MetaBlocks
  <2>. HIDE DEF total
  <2>. QED
    BY <1>1, <2>1, <2>2
<1>5. MetaBlocks * BlockBytes <= MapAt
  <2>1. MetaBlocks <= AvailBlocks
    BY <1>4, Layout, StoreAssumption
  <2>. QED
    BY <1>4, <2>1, Layout, TimesMonotone DEF MapAt
<1>6. RecordAt(i) = BlockBytes + i * InodeBytes
  BY DEF RecordAt, InodesAt
<1>. HIDE DEF total
<1>7. RecordAt(i) \in Nat /\ BlockBytes <= RecordAt(i)
  BY <1>3, <1>6
<1>8. RecordAt(i) + InodeBytes <= BlockBytes + total
  BY <1>1, <1>3, <1>6
<1>9. BlockBytes + total <= MapAt
  BY <1>4, <1>5
<1>. QED
  BY <1>1, <1>4, <1>5, <1>7, <1>8, <1>9, Layout

\* So do the records of the descriptors, and their bitmap, in their memory.
LEMMA InFds ==
    ASSUME NEW f \in Fd
    PROVE  /\ f * FdBytes \in Nat
           /\ f * FdBytes + FdBytes <= Fds * FdBytes
           /\ f \div ByteBits \in 0 .. (byte_count(Fds) - 1)
           /\ f % ByteBits \in Bit
<1>1. f \in Nat /\ f + 1 \in Nat /\ f + 1 <= Fds
  BY DEF Fd
<1>2. (f + 1) * FdBytes <= Fds * FdBytes
  BY <1>1, TimesMonotone
<1>3. (f + 1) * FdBytes = f * FdBytes + FdBytes
  BY <1>1
<1>4. byte_count(Fds) \in Nat /\ Fds <= ByteBits * byte_count(Fds)
  <2>1. /\ Fds \div ByteBits \in Nat
        /\ Fds % ByteBits \in 0 .. (ByteBits - 1)
        /\ Fds = ByteBits * (Fds \div ByteBits) + (Fds % ByteBits)
    BY DivMod
  <2>2. CASE Fds % ByteBits = 0
    BY <2>1, <2>2 DEF byte_count
  <2>3. CASE Fds % ByteBits # 0
    <3>1. byte_count(Fds) = (Fds \div ByteBits) + 1
      BY <2>3 DEF byte_count
    <3>2. ByteBits * ((Fds \div ByteBits) + 1) = ByteBits * (Fds \div ByteBits) + ByteBits
      BY <2>1
    <3>. QED
      BY <2>1, <3>1, <3>2
  <2>. QED
    BY <2>2, <2>3
<1>5. f \div ByteBits \in Nat /\ f \div ByteBits < byte_count(Fds)
  <2>1. f < ByteBits * byte_count(Fds)
    BY <1>1, <1>4, TimesNat
  <2>. QED
    BY <1>1, <1>4, <2>1, DivLess, DivMod
<1>6. f % ByteBits \in Bit
  BY <1>1, DivMod DEF Bit
<1>7. f * FdBytes \in Nat /\ Fds * FdBytes \in Nat
  BY <1>1, TimesNat
<1>. QED
  BY <1>2, <1>3, <1>4, <1>5, <1>6, <1>7

\* The blocks the functions let through end within the device, and those below
\* AvailBlocks before the map.
LEMMA InBlocks ==
    ASSUME NEW id \in Ids, id <= AvailBlocks
    PROVE  /\ id * BlockBytes \in Nat
           /\ id * BlockBytes + BlockBytes <= NumBytes
           /\ id < AvailBlocks => id * BlockBytes + BlockBytes <= MapAt
<1>1. id \in Nat
  BY StoreAssumption
<1>2. id * BlockBytes \in Nat /\ id * BlockBytes <= MapAt
  BY <1>1, Layout, TimesNat, TimesMonotone DEF MapAt
<1>3. BlockBytes <= FbmBlocks * BlockBytes
  BY TimesMonotone
<1>4. ASSUME id < AvailBlocks PROVE id * BlockBytes + BlockBytes <= MapAt
  <2>1. (id + 1) * BlockBytes <= AvailBlocks * BlockBytes
    BY <1>1, <1>4, Layout, TimesMonotone
  <2>2. (id + 1) * BlockBytes = id * BlockBytes + BlockBytes
    BY <1>1
  <2>. QED
    BY <2>1, <2>2 DEF MapAt
<1>. QED
  BY <1>2, <1>3, <1>4, Layout

-----------------------------------------------------------------------------
(* What the operations do to memory *)

\* Setting and clearing a bit leaves memory of the same size.
LEMMA BitKeepsMemory ==
    ASSUME NEW N, NEW mem \in [0 .. (N - 1) -> Byte], NEW at, NEW i, i % ByteBits \in Bit
    PROVE  /\ bitmap_set(mem, at, i) \in [0 .. (N - 1) -> Byte]
           /\ bitmap_reset(mem, at, i) \in [0 .. (N - 1) -> Byte]
BY DEF bitmap_set, bitmap_reset, Byte

\* A copy that ends within the memory leaves it the same size, and what is after it alone.
LEMMA CopyKeepsMemory ==
    ASSUME NEW N \in Nat, NEW mem \in [0 .. (N - 1) -> Byte],
           NEW n \in Nat, NEW buffer \in Buffer(n),
           NEW at \in Nat, at + n <= N
    PROVE  /\ memcpy(mem, at, buffer) \in [0 .. (N - 1) -> Byte]
           /\ \A a \in (at + n) .. (N - 1) : memcpy(mem, at, buffer)[a] = mem[a]
<1>1. Len(buffer) = n /\ DOMAIN buffer = 1 .. n
  BY DEF Buffer
<1>2. DOMAIN mem \cup at .. (at + n - 1) = 0 .. (N - 1)
  OBVIOUS
<1>3. \A k \in 1 .. n : buffer[k] \in Byte
  BY StoreAssumption DEF Buffer
<1>. QED
  BY <1>1, <1>2, <1>3 DEF memcpy

\* The scan for a clear bit finds one of the bitmap, or nothing.
LEMMA FfzIsClear ==
    ASSUME NEW mem, NEW at, NEW n \in Nat, bitmap_ffz(mem, at, n) # B!SIZE_MAX
    PROVE  bitmap_ffz(mem, at, n) \in (0 .. (n - 1)) \ Bits(mem, at, n)
<1>. DEFINE S == (0 .. (n - 1)) \ Bits(mem, at, n)
<1>1. S # {} /\ bitmap_ffz(mem, at, n) = Min(S)
  BY DEF bitmap_ffz, First
<1>2. Min(S) \in S
  BY <1>1, MinProperties
<1>. QED
  BY <1>1, <1>2

-----------------------------------------------------------------------------
(* Types *)

\* The initial memories have their sizes.
LEMMA InitTypes == Init => TypeOK
<1>1. {} \in Byte /\ Bit \in Byte
  BY DEF Byte
<1>. QED
  BY <1>1 DEF Init, TypeOK, NewDevice, NewFds, bitmap_create

\* The operations on blocks keep the type invariant.
LEMMA BlockTypes ==
    ASSUME TypeOK,
           \/ block_store_allocate
           \/ \E id \in Ids :
                \/ block_store_request(id)
                \/ block_store_release(id)
                \/ \E buffer \in Buffer(BlockBytes) : block_store_write(id, buffer)
                \/ \E offset \in 0 .. BlockBytes, n \in 1 .. BlockBytes :
                     \E buffer \in Buffer(n) : block_store_n_write(id, offset, buffer)
    PROVE  TypeOK'
<1>. USE DEF TypeOK
<1>1. NumBytes \in Nat
  BY Layout
<1>2. \A i \in 0 .. (NumBlocks - 1) : i % ByteBits \in Bit
  BY InMap
<1>3. CASE block_store_allocate
  <2>1. bitmap_ffz(data, MapAt, NumBlocks) \in 0 .. (NumBlocks - 1)
    BY <1>3, Layout, FfzIsClear DEF block_store_allocate
  <2>. QED
    BY <1>2, <1>3, <2>1, BitKeepsMemory DEF block_store_allocate
<1>4. ASSUME NEW id \in Ids, block_store_request(id) \/ block_store_release(id)
      PROVE  TypeOK'
  <2>1. id \in 0 .. (NumBlocks - 1)
    BY <1>4, Layout, StoreAssumption DEF block_store_request, block_store_release
  <2>. QED
    BY <1>2, <1>4, <2>1, BitKeepsMemory DEF block_store_request, block_store_release
<1>5. ASSUME NEW id \in Ids, NEW buffer \in Buffer(BlockBytes), block_store_write(id, buffer)
      PROVE  TypeOK'
  <2>1. id * BlockBytes \in Nat /\ id * BlockBytes + BlockBytes <= NumBytes
    BY <1>5, InBlocks DEF block_store_write
  <2>2. memcpy(data, id * BlockBytes, buffer) \in [0 .. (NumBytes - 1) -> Byte]
    BY <1>1, <2>1, CopyKeepsMemory
  <2>. QED
    BY <1>5, <2>2 DEF block_store_write
<1>6. ASSUME NEW id \in Ids, NEW offset \in 0 .. BlockBytes, NEW n \in 1 .. BlockBytes,
             NEW buffer \in Buffer(n), block_store_n_write(id, offset, buffer)
      PROVE  TypeOK'
  <2>1. id * BlockBytes \in Nat /\ id * BlockBytes + BlockBytes <= NumBytes
    BY <1>6, InBlocks DEF block_store_n_write
  <2>2. offset + n <= BlockBytes
    <3>1. Len(buffer) = n
      BY DEF Buffer
    <3>. QED
      BY <1>6, <3>1 DEF block_store_n_write, InBlock
  <2>3. id * BlockBytes + offset \in Nat /\ id * BlockBytes + offset + n <= NumBytes
    BY <1>1, <2>1, <2>2
  <2>4. memcpy(data, id * BlockBytes + offset, buffer) \in [0 .. (NumBytes - 1) -> Byte]
    BY <1>1, <2>3, CopyKeepsMemory
  <2>. QED
    BY <1>6, <2>4 DEF block_store_n_write
<1>. QED
  BY <1>3, <1>4, <1>5, <1>6

\* The operations on inodes keep the type invariant.
LEMMA InodeTypes ==
    ASSUME TypeOK,
           \/ block_store_inode_allocate
           \/ \E i \in Inode :
                \/ block_store_inode_release(i)
                \/ \E buffer \in Buffer(InodeBytes) : block_store_inode_write(i, buffer)
    PROVE  TypeOK'
<1>. USE DEF TypeOK
<1>1. CASE block_store_inode_allocate
  <2>1. bitmap_ffz(data, InodeMapAt, Inodes) \in Inode
    BY <1>1, FfzIsClear DEF block_store_inode_allocate, Inode
  <2>. QED
    BY <1>1, <2>1, InInodeMap, BitKeepsMemory DEF block_store_inode_allocate
<1>2. ASSUME NEW i \in Inode, block_store_inode_release(i)
      PROVE  TypeOK'
  BY <1>2, InInodeMap, BitKeepsMemory DEF block_store_inode_release
<1>3. ASSUME NEW i \in Inode, NEW buffer \in Buffer(InodeBytes), block_store_inode_write(i, buffer)
      PROVE  TypeOK'
  <2>1. RecordAt(i) \in Nat /\ RecordAt(i) + InodeBytes <= NumBytes /\ NumBytes \in Nat
    <3>1. PICK x, y : x = MetaBlocks * BlockBytes /\ y = FbmBlocks * BlockBytes
      OBVIOUS
    <3>2. y \in Nat /\ MapAt \in Nat /\ NumBytes \in Nat /\ NumBytes = MapAt + y
      BY <3>1, Layout
    <3>3. RecordAt(i) \in Nat /\ x \in Nat /\ RecordAt(i) + InodeBytes <= x /\ x <= MapAt
      BY <3>1, InInodes
    <3>4. InodeBytes \in Nat
      BY StoreAssumption
    <3>. QED
      BY <3>2, <3>3, <3>4
  <2>2. memcpy(data, RecordAt(i), buffer) \in [0 .. (NumBytes - 1) -> Byte]
    BY <2>1, CopyKeepsMemory
  <2>. QED
    BY <1>3, <2>2 DEF block_store_inode_write
<1>. QED
  BY <1>1, <1>2, <1>3

\* The operations on descriptors keep the type invariant.
LEMMA FdTypes ==
    ASSUME TypeOK,
           \/ block_store_fd_allocate
           \/ \E f \in Fd :
                \/ block_store_fd_release(f)
                \/ \E buffer \in Buffer(FdBytes) : block_store_fd_write(f, buffer)
    PROVE  TypeOK'
<1>. USE DEF TypeOK
<1>1. CASE block_store_fd_allocate
  <2>1. bitmap_ffz(fdmap, 0, Fds) \in Fd
    BY <1>1, FfzIsClear DEF block_store_fd_allocate, Fd
  <2>. QED
    BY <1>1, <2>1, InFds, BitKeepsMemory DEF block_store_fd_allocate
<1>2. ASSUME NEW f \in Fd, block_store_fd_release(f)
      PROVE  TypeOK'
  BY <1>2, InFds, BitKeepsMemory DEF block_store_fd_release
<1>3. ASSUME NEW f \in Fd, NEW buffer \in Buffer(FdBytes), block_store_fd_write(f, buffer)
      PROVE  TypeOK'
  <2>1. Fds * FdBytes \in Nat
    BY TimesNat
  <2>2. memcpy(fddata, f * FdBytes, buffer) \in [0 .. (Fds * FdBytes - 1) -> Byte]
    BY <2>1, InFds, CopyKeepsMemory
  <2>. QED
    BY <1>3, <2>2 DEF block_store_fd_write
<1>. QED
  BY <1>1, <1>2, <1>3

\* Whatever block numbers its clients pass, the one past the end that the
\* functions let through included, no buffer is copied beyond the end of the
\* device, nor of the memory of the descriptors (block_store.c:385-426).
THEOREM TypeCorrect == Spec => []TypeOK
<1>1. TypeOK /\ [Next]_vars => TypeOK'
  <2>. SUFFICES ASSUME TypeOK, [Next]_vars PROVE TypeOK'
    OBVIOUS
  <2>1. CASE block_store_create \/ block_store_fd_create
    <3>1. {} \in Byte /\ Bit \in Byte
      BY DEF Byte
    <3>. QED
      BY <2>1, <3>1 DEF block_store_create, block_store_fd_create, TypeOK, NewDevice, NewFds,
                        bitmap_create
  <2>2. CASE UNCHANGED vars
    BY <2>2 DEF vars, TypeOK
  <2>. QED
    BY <2>1, <2>2, BlockTypes, InodeTypes, FdTypes DEF Next
<1>. QED
  BY <1>1, InitTypes, PTL DEF Spec

-----------------------------------------------------------------------------
(* The map's own blocks *)

OwnBlocks == AvailBlocks .. (NumBlocks - 1)

\* The map has its own blocks marked in the given bytes of the device.
Marked(mem) == \A i \in OwnBlocks : bitmap_test(mem, MapAt, i)

\* The property in terms of the bytes of the device.
LEMMA MarkedIsReserved == Marked(data) <=> MapIsReserved
<1>1. OwnBlocks \subseteq 0 .. (NumBlocks - 1)
  BY Layout DEF OwnBlocks
<1>. QED
  BY <1>1 DEF Marked, MapIsReserved, fbm, Bits, OwnBlocks

\* The bytes a new device has set are the bits of the map's own blocks.
LEMMA NewDeviceMarked == Marked(NewDevice)
<1>. SUFFICES ASSUME NEW i \in OwnBlocks
              PROVE  bitmap_test(NewDevice, MapAt, i)
  BY DEF Marked
<1>. DEFINE q == FbmBlocks \div ByteBits
            n == FbmBlocks * BlockBytes
<1>1. i \in 0 .. (NumBlocks - 1) /\ AvailBlocks <= i
  BY Layout DEF OwnBlocks
<1>2. q \in Nat /\ FbmBlocks = ByteBits * q
  BY DivMod, StoreAssumption
<1>3. n \in Nat /\ NumBlocks = ByteBits * n /\ NumBytes = MapAt + n /\ MapAt \in Nat
  BY Layout
<1>4. q <= n
  <2>1. q <= FbmBlocks
    BY <1>2
  <2>2. FbmBlocks <= n
    OBVIOUS
  <2>. HIDE DEF q, n
  <2>. QED
    BY <1>2, <1>3, <2>1, <2>2
<1>5. AvailBlocks = ByteBits * (n - q)
  <2>1. AvailBlocks = NumBlocks - FbmBlocks
    BY DEF AvailBlocks
  <2>. HIDE DEF q, n
  <2>. QED
    BY <1>2, <1>3, <2>1
<1>6. n - q <= i \div ByteBits
  <2>. HIDE DEF q, n
  <2>1. n - q \in Nat
    BY <1>2, <1>3, <1>4
  <2>. QED
    BY <1>1, <1>5, <2>1, DivGreater, Layout
<1>7. MapAt + (i \div ByteBits) \in 0 .. (NumBytes - 1) /\ i % ByteBits \in Bit
  BY <1>1, <1>3, InMap
<1>8. MapAt + (i \div ByteBits) >= NumBytes - q
  <2>1. i \div ByteBits \in Nat
    BY <1>1, DivMod, Layout
  <2>. HIDE DEF q, n
  <2>. QED
    BY <1>2, <1>3, <1>6, <2>1
<1>. QED
  BY <1>7, <1>8 DEF bitmap_test, NewDevice

\* Setting a bit anywhere, and changing bytes before the map, leaves them marked.
LEMMA SetKeepsMarked ==
    ASSUME NEW mem \in [0 .. (NumBytes - 1) -> Byte], Marked(mem), NEW at, NEW i
    PROVE  Marked(bitmap_set(mem, at, i))
<1>. SUFFICES ASSUME NEW j \in OwnBlocks
              PROVE  bitmap_test(bitmap_set(mem, at, i), MapAt, j)
  BY DEF Marked
<1>1. bitmap_test(mem, MapAt, j)
  BY DEF Marked
<1>2. j \in 0 .. (NumBlocks - 1)
  BY Layout DEF OwnBlocks
<1>3. MapAt + (j \div ByteBits) \in MapAt .. (NumBytes - 1)
  BY <1>2, InMap
<1>4. MapAt + (j \div ByteBits) \in 0 .. (NumBytes - 1)
  BY <1>3, Layout
<1>. QED
  BY <1>1, <1>4 DEF bitmap_test, bitmap_set

\* Memory that differs only before the map has the same blocks marked.
LEMMA BeforeMapKeepsMarked ==
    ASSUME NEW mem, NEW new, Marked(mem), \A a \in MapAt .. (NumBytes - 1) : new[a] = mem[a]
    PROVE  Marked(new)
<1>. SUFFICES ASSUME NEW j \in OwnBlocks PROVE bitmap_test(new, MapAt, j)
  BY DEF Marked
<1>1. j \in 0 .. (NumBlocks - 1) /\ j \in Nat
  BY Layout DEF OwnBlocks
<1>2. MapAt + (j \div ByteBits) \in MapAt .. (NumBytes - 1)
  BY <1>1, InMap
<1>. QED
  BY <1>2 DEF Marked, bitmap_test

\* A copy that ends before the map does not reach it.
LEMMA CopyKeepsMarked ==
    ASSUME NEW mem \in [0 .. (NumBytes - 1) -> Byte], Marked(mem),
           NEW n \in Nat, NEW buffer \in Buffer(n), NEW at \in Nat, at + n <= MapAt
    PROVE  Marked(memcpy(mem, at, buffer))
<1>1. MapAt \in Nat /\ NumBytes \in Nat /\ MapAt <= NumBytes
  BY Layout
<1>2. \A a \in (at + n) .. (NumBytes - 1) : memcpy(mem, at, buffer)[a] = mem[a]
  BY <1>1, CopyKeepsMemory
<1>3. \A a \in MapAt .. (NumBytes - 1) : memcpy(mem, at, buffer)[a] = mem[a]
  BY <1>1, <1>2
<1>. QED
  BY <1>3, BeforeMapKeepsMarked

\* Clearing the bit of a block below AvailBlocks clears none of the map's own.
LEMMA ResetKeepsMarked ==
    ASSUME NEW mem \in [0 .. (NumBytes - 1) -> Byte], Marked(mem),
           NEW id \in Nat, id < AvailBlocks
    PROVE  Marked(bitmap_reset(mem, MapAt, id))
<1>. SUFFICES ASSUME NEW j \in OwnBlocks
              PROVE  bitmap_test(bitmap_reset(mem, MapAt, id), MapAt, j)
  BY DEF Marked
<1>1. bitmap_test(mem, MapAt, j)
  BY DEF Marked
<1>2. j \in 0 .. (NumBlocks - 1)
  BY Layout DEF OwnBlocks
<1>3. MapAt + (j \div ByteBits) \in MapAt .. (NumBytes - 1)
  BY <1>2, InMap
<1>4. MapAt + (j \div ByteBits) \in 0 .. (NumBytes - 1)
  BY <1>3, Layout
<1>5. j \in Nat /\ j # id
  BY Layout DEF OwnBlocks
<1>6. id \div ByteBits # j \div ByteBits \/ id % ByteBits # j % ByteBits
  BY <1>5, BitsApart
<1>7. CASE id \div ByteBits # j \div ByteBits
  <2>1. MapAt + (id \div ByteBits) # MapAt + (j \div ByteBits)
    BY <1>5, <1>7, Layout, DivMod
  <2>. QED
    BY <1>1, <1>4, <2>1 DEF bitmap_test, bitmap_reset
<1>8. CASE id % ByteBits # j % ByteBits
  BY <1>1, <1>4, <1>8 DEF bitmap_test, bitmap_reset
<1>. QED
  BY <1>6, <1>7, <1>8

\* Each operation leaves the map's own blocks marked, given numbers below AvailBlocks.
LEMMA MarkedStep ==
    ASSUME Ids \subseteq 0 .. (AvailBlocks - 1), TypeOK, Marked(data), [Next]_vars
    PROVE  Marked(data')
<1>. USE DEF TypeOK
<1>1. CASE block_store_create
  BY <1>1, NewDeviceMarked DEF block_store_create
<1>2. CASE block_store_allocate \/ block_store_inode_allocate
  BY <1>2, SetKeepsMarked DEF block_store_allocate, block_store_inode_allocate
<1>3. ASSUME NEW id \in Ids, block_store_request(id) PROVE Marked(data')
  BY <1>3, SetKeepsMarked DEF block_store_request
<1>4. ASSUME NEW id \in Ids, block_store_release(id) PROVE Marked(data')
  BY <1>4, Layout, ResetKeepsMarked DEF block_store_release
<1>5. ASSUME NEW id \in Ids, NEW buffer \in Buffer(BlockBytes), block_store_write(id, buffer)
      PROVE  Marked(data')
  <2>1. id * BlockBytes \in Nat /\ id * BlockBytes + BlockBytes <= MapAt
    BY Layout, InBlocks
  <2>2. Marked(memcpy(data, id * BlockBytes, buffer))
    BY <2>1, CopyKeepsMarked
  <2>. QED
    BY <1>5, <2>2 DEF block_store_write
<1>6. ASSUME NEW id \in Ids, NEW offset \in 0 .. BlockBytes, NEW n \in 1 .. BlockBytes,
             NEW buffer \in Buffer(n), block_store_n_write(id, offset, buffer)
      PROVE  Marked(data')
  <2>1. id * BlockBytes \in Nat /\ id * BlockBytes + BlockBytes <= MapAt
    BY Layout, InBlocks
  <2>2. offset + n <= BlockBytes
    <3>1. Len(buffer) = n
      BY DEF Buffer
    <3>. QED
      BY <1>6, <3>1 DEF block_store_n_write, InBlock
  <2>3. id * BlockBytes + offset \in Nat /\ id * BlockBytes + offset + n <= MapAt
    BY <2>1, <2>2, Layout
  <2>4. Marked(memcpy(data, id * BlockBytes + offset, buffer))
    BY <2>3, CopyKeepsMarked
  <2>. QED
    BY <1>6, <2>4 DEF block_store_n_write
<1>7. ASSUME NEW i \in Inode, block_store_inode_release(i) PROVE Marked(data')
  <2>1. InodeMapAt + (i \div ByteBits) \in 0 .. (MapAt - 1) /\ MapAt \in Nat /\ NumBytes \in Nat
    BY InInodeMap, Layout
  <2>2. \A a \in MapAt .. (NumBytes - 1) : bitmap_reset(data, InodeMapAt, i)[a] = data[a]
    BY <2>1 DEF bitmap_reset
  <2>. QED
    BY <1>7, <2>2, BeforeMapKeepsMarked DEF block_store_inode_release
<1>8. ASSUME NEW i \in Inode, NEW buffer \in Buffer(InodeBytes), block_store_inode_write(i, buffer)
      PROVE  Marked(data')
  <2>1. Marked(memcpy(data, RecordAt(i), buffer))
    BY InInodes, CopyKeepsMarked
  <2>. QED
    BY <1>8, <2>1 DEF block_store_inode_write
<1>9. CASE UNCHANGED data
  BY <1>9
<1>. QED
  BY <1>1, <1>2, <1>3, <1>4, <1>5, <1>6, <1>7, <1>8, <1>9
     DEF Next, vars, block_store_fd_create, block_store_fd_allocate, block_store_fd_release,
         block_store_fd_write

\* When clients keep to the numbers below BLOCK_STORE_AVAIL_BLOCKS, the map's own
\* blocks stay marked whatever they do: no write to a block, a part of one or an
\* inode reaches the map, and no release clears another block's bit
\* (block_store.c:16).
THEOREM MapStaysReserved ==
    ASSUME Ids \subseteq 0 .. (AvailBlocks - 1)
    PROVE  Spec => []MapIsReserved
<1>1. Init => MapIsReserved
  BY NewDeviceMarked, MarkedIsReserved DEF Init
<1>2. TypeOK /\ MapIsReserved /\ [Next]_vars => MapIsReserved'
  <2>. SUFFICES ASSUME TypeOK, MapIsReserved, [Next]_vars PROVE MapIsReserved'
    OBVIOUS
  <2>1. Marked(data')
    BY MarkedStep, MarkedIsReserved
  <2>2. OwnBlocks \subseteq 0 .. (NumBlocks - 1)
    BY Layout DEF OwnBlocks
  <2>. QED
    BY <2>1, <2>2 DEF Marked, MapIsReserved, fbm, Bits, OwnBlocks
<1>. QED
  BY <1>1, <1>2, TypeCorrect, PTL DEF Spec

-----------------------------------------------------------------------------
(* Three devices in two memories *)

\* The bytes of a bitmap of n bits at an address are in a memory of N bytes.
HoldsBitmap(N, at, n) == \A j \in 0 .. (n - 1) : at + (j \div ByteBits) \in 0 .. (N - 1)

\* Two memories have the same bytes from one address up to another.
SameBytes(new, mem, from, to) == \A a \in from .. (to - 1) : new[a] = mem[a]

\* Setting a bit adds its number to the bitmap's set, and touches one byte.
LEMMA BitsAfterSet ==
    ASSUME NEW N, NEW mem \in [0 .. (N - 1) -> Byte],
           NEW n \in Nat, NEW at \in Nat, NEW i \in 0 .. (n - 1),
           HoldsBitmap(N, at, n)
    PROVE  /\ Bits(bitmap_set(mem, at, i), at, n) = Bits(mem, at, n) \cup {i}
           /\ \A a \in 0 .. (N - 1) :
                a # at + (i \div ByteBits) => bitmap_set(mem, at, i)[a] = mem[a]
<1>1. \A j \in 0 .. (n - 1) :
         bitmap_test(bitmap_set(mem, at, i), at, j) <=> bitmap_test(mem, at, j) \/ j = i
  <2>. SUFFICES ASSUME NEW j \in 0 .. (n - 1)
                PROVE  bitmap_test(bitmap_set(mem, at, i), at, j)
                         <=> bitmap_test(mem, at, j) \/ j = i
    OBVIOUS
  <2>1. PICK x, y, b, c : /\ x = at + (i \div ByteBits) /\ y = at + (j \div ByteBits)
                          /\ b = i % ByteBits /\ c = j % ByteBits
    OBVIOUS
  <2>2. x \in 0 .. (N - 1) /\ y \in 0 .. (N - 1)
    BY <2>1 DEF HoldsBitmap
  <2>3. (x = y /\ b = c) <=> j = i
    <3>0. i \in Nat /\ j \in Nat
      OBVIOUS
    <3>1. i # j => i \div ByteBits # j \div ByteBits \/ b # c
      BY <2>1, <3>0, BitsApart
    <3>2. i \div ByteBits \in Nat /\ j \div ByteBits \in Nat
      BY <3>0, DivMod
    <3>. QED
      BY <2>1, <3>1, <3>2
  <2>4. /\ bitmap_test(mem, at, j) <=> c \in mem[y]
        /\ bitmap_test(bitmap_set(mem, at, i), at, j)
             <=> c \in [mem EXCEPT ![x] = @ \cup {b}][y]
    BY <2>1 DEF bitmap_test, bitmap_set
  <2>5. [mem EXCEPT ![x] = @ \cup {b}][y] = IF y = x THEN mem[x] \cup {b} ELSE mem[y]
    BY <2>2
  <2>. QED
    BY <2>3, <2>4, <2>5
<1>2. \A a \in 0 .. (N - 1) :
         a # at + (i \div ByteBits) => bitmap_set(mem, at, i)[a] = mem[a]
  BY DEF bitmap_set
<1>. QED
  BY <1>1, <1>2 DEF Bits

\* Clearing a bit takes its number out of the bitmap's set, and touches one byte.
LEMMA BitsAfterReset ==
    ASSUME NEW N, NEW mem \in [0 .. (N - 1) -> Byte],
           NEW n \in Nat, NEW at \in Nat, NEW i \in 0 .. (n - 1),
           HoldsBitmap(N, at, n)
    PROVE  /\ Bits(bitmap_reset(mem, at, i), at, n) = Bits(mem, at, n) \ {i}
           /\ \A a \in 0 .. (N - 1) :
                a # at + (i \div ByteBits) => bitmap_reset(mem, at, i)[a] = mem[a]
<1>1. \A j \in 0 .. (n - 1) :
         bitmap_test(bitmap_reset(mem, at, i), at, j) <=> bitmap_test(mem, at, j) /\ j # i
  <2>. SUFFICES ASSUME NEW j \in 0 .. (n - 1)
                PROVE  bitmap_test(bitmap_reset(mem, at, i), at, j)
                         <=> bitmap_test(mem, at, j) /\ j # i
    OBVIOUS
  <2>1. PICK x, y, b, c : /\ x = at + (i \div ByteBits) /\ y = at + (j \div ByteBits)
                          /\ b = i % ByteBits /\ c = j % ByteBits
    OBVIOUS
  <2>2. x \in 0 .. (N - 1) /\ y \in 0 .. (N - 1)
    BY <2>1 DEF HoldsBitmap
  <2>3. (x = y /\ b = c) <=> j = i
    <3>0. i \in Nat /\ j \in Nat
      OBVIOUS
    <3>1. i # j => i \div ByteBits # j \div ByteBits \/ b # c
      BY <2>1, <3>0, BitsApart
    <3>2. i \div ByteBits \in Nat /\ j \div ByteBits \in Nat
      BY <3>0, DivMod
    <3>. QED
      BY <2>1, <3>1, <3>2
  <2>4. /\ bitmap_test(mem, at, j) <=> c \in mem[y]
        /\ bitmap_test(bitmap_reset(mem, at, i), at, j)
             <=> c \in [mem EXCEPT ![x] = @ \ {b}][y]
    BY <2>1 DEF bitmap_test, bitmap_reset
  <2>5. [mem EXCEPT ![x] = @ \ {b}][y] = IF y = x THEN mem[x] \ {b} ELSE mem[y]
    BY <2>2
  <2>. QED
    BY <2>3, <2>4, <2>5
<1>2. \A a \in 0 .. (N - 1) :
         a # at + (i \div ByteBits) => bitmap_reset(mem, at, i)[a] = mem[a]
  BY DEF bitmap_reset
<1>. QED
  BY <1>1, <1>2 DEF Bits

\* A bitmap whose bytes are the same is the same set.
LEMMA BitsKept ==
    ASSUME NEW n \in Nat, NEW mem, NEW new, NEW at,
           \A j \in 0 .. (n - 1) : new[at + (j \div ByteBits)] = mem[at + (j \div ByteBits)]
    PROVE  Bits(new, at, n) = Bits(mem, at, n)
BY DEF Bits, bitmap_test

\* A record whose bytes are the same is the same.
LEMMA RecordKept ==
    ASSUME NEW n \in Nat, NEW mem, NEW new, NEW at \in Nat, SameBytes(new, mem, at, at + n)
    PROVE  Copied(new, at, n) = Copied(mem, at, n)
<1>1. \A k \in 1 .. n : at + k - 1 \in at .. (at + n - 1)
  OBVIOUS
<1>. QED
  BY <1>1 DEF SameBytes, Copied

\* A copy changes nothing before or after the bytes it stores.
LEMMA CopyElsewhere ==
    ASSUME NEW N \in Nat, NEW mem \in [0 .. (N - 1) -> Byte],
           NEW n \in Nat, NEW buffer \in Buffer(n),
           NEW at \in Nat, at + n <= N
    PROVE  \A a \in 0 .. (N - 1) : a < at \/ at + n <= a => memcpy(mem, at, buffer)[a] = mem[a]
<1>1. Len(buffer) = n /\ DOMAIN buffer = 1 .. n
  BY DEF Buffer
<1>. QED
  BY <1>1 DEF memcpy

\* A record read from memory is a sequence of bytes.
LEMMA RecordType ==
    ASSUME NEW N \in Nat, NEW mem \in [0 .. (N - 1) -> Byte],
           NEW n \in Nat, NEW at \in Nat, at + n <= N
    PROVE  Copied(mem, at, n) \in [1 .. n -> Byte]
<1>1. \A k \in 1 .. n : at + k - 1 \in 0 .. (N - 1)
  OBVIOUS
<1>. QED
  BY <1>1 DEF Copied

\* Records of one size one after the other do not overlap.
LEMMA RecordsApart ==
    ASSUME NEW n \in Nat, NEW i \in Nat, NEW j \in Nat, i # j
    PROVE  i * n + n <= j * n \/ j * n + n <= i * n
<1>1. \A k, l \in Nat : k < l => k * n + n <= l * n
  <2>. SUFFICES ASSUME NEW k \in Nat, NEW l \in Nat, k < l PROVE k * n + n <= l * n
    OBVIOUS
  <2>1. (k + 1) * n <= l * n
    BY TimesMonotone
  <2>2. (k + 1) * n = k * n + n
    OBVIOUS
  <2>. QED
    BY <2>1, <2>2
<1>2. i < j \/ j < i
  OBVIOUS
<1>. QED
  BY <1>1, <1>2

\* The three bitmaps lie in their memories.
LEMMA BitmapsHeld ==
    /\ HoldsBitmap(NumBytes, MapAt, NumBlocks)
    /\ HoldsBitmap(NumBytes, InodeMapAt, Inodes)
    /\ HoldsBitmap(byte_count(Fds), 0, Fds)
<1>1. ASSUME NEW j \in 0 .. (NumBlocks - 1)
      PROVE  MapAt + (j \div ByteBits) \in 0 .. (NumBytes - 1)
  <2>1. MapAt + (j \div ByteBits) \in MapAt .. (NumBytes - 1)
    BY InMap
  <2>. QED
    BY <2>1, Layout
<1>2. ASSUME NEW j \in 0 .. (Inodes - 1)
      PROVE  InodeMapAt + (j \div ByteBits) \in 0 .. (NumBytes - 1)
  <2>1. InodeMapAt + (j \div ByteBits) \in 0 .. (MapAt - 1)
    BY InInodeMap DEF Inode
  <2>. QED
    BY <2>1, Layout
<1>3. ASSUME NEW j \in 0 .. (Fds - 1)
      PROVE  0 + (j \div ByteBits) \in 0 .. (byte_count(Fds) - 1)
  <2>1. j \div ByteBits \in 0 .. (byte_count(Fds) - 1)
    BY InFds DEF Fd
  <2>. QED
    BY <2>1
<1>. QED
  BY <1>1, <1>2, <1>3 DEF HoldsBitmap

\* The user's blocks lie after the inodes and before the map.
LEMMA InUserBlocks ==
    ASSUME NEW b \in UserBlocks
    PROVE  /\ b \in Nat /\ b < AvailBlocks
           /\ b * BlockBytes \in Nat
           /\ MetaBlocks * BlockBytes \in Nat
           /\ BlockBytes <= MetaBlocks * BlockBytes
           /\ MetaBlocks * BlockBytes <= b * BlockBytes
           /\ b * BlockBytes + BlockBytes <= MapAt
<1>1. MetaBlocks \in Nat \ {0}
  <2>1. Inodes * InodeBytes \in Nat
    BY TimesNat
  <2>. QED
    BY <2>1, DivMod DEF MetaBlocks
<1>2. b \in Nat /\ MetaBlocks <= b /\ b < AvailBlocks
  BY <1>1, Layout DEF UserBlocks
<1>3. b * BlockBytes \in Nat /\ MetaBlocks * BlockBytes \in Nat
  BY <1>1, <1>2, TimesNat
<1>4. MetaBlocks * BlockBytes <= b * BlockBytes
  BY <1>1, <1>2, TimesMonotone
<1>5. b * BlockBytes + BlockBytes <= MapAt
  <2>1. (b + 1) * BlockBytes <= AvailBlocks * BlockBytes
    BY <1>2, Layout, TimesMonotone
  <2>2. (b + 1) * BlockBytes = b * BlockBytes + BlockBytes
    BY <1>2
  <2>. QED
    BY <2>1, <2>2 DEF MapAt
<1>6. BlockBytes <= MetaBlocks * BlockBytes
  <2>1. 1 * BlockBytes <= MetaBlocks * BlockBytes
    BY <1>1, TimesMonotone
  <2>. QED
    BY <2>1
<1>. QED
  BY <1>2, <1>3, <1>4, <1>5, <1>6

\* What keeps the bytes of the map keeps the map; likewise the bitmap of the
\* inodes, their records, and the user's blocks.
LEMMA RegionsKept ==
    ASSUME NEW mem, NEW new
    PROVE  /\ SameBytes(new, mem, MapAt, NumBytes)
                => Bits(new, MapAt, NumBlocks) = Bits(mem, MapAt, NumBlocks)
           /\ SameBytes(new, mem, 0, BlockBytes)
                => Bits(new, InodeMapAt, Inodes) = Bits(mem, InodeMapAt, Inodes)
           /\ SameBytes(new, mem, BlockBytes, MetaBlocks * BlockBytes)
                => \A i \in Inode :
                     Copied(new, RecordAt(i), InodeBytes) = Copied(mem, RecordAt(i), InodeBytes)
           /\ SameBytes(new, mem, MetaBlocks * BlockBytes, MapAt)
                => \A b \in UserBlocks :
                     Copied(new, b * BlockBytes, BlockBytes) = Copied(mem, b * BlockBytes, BlockBytes)
<1>1. ASSUME SameBytes(new, mem, MapAt, NumBytes)
      PROVE  Bits(new, MapAt, NumBlocks) = Bits(mem, MapAt, NumBlocks)
  <2>1. \A j \in 0 .. (NumBlocks - 1) :
           new[MapAt + (j \div ByteBits)] = mem[MapAt + (j \div ByteBits)]
    BY <1>1, InMap DEF SameBytes
  <2>. QED
    BY <2>1, BitsKept, Layout, ZenonT(30)
<1>2. ASSUME SameBytes(new, mem, 0, BlockBytes)
      PROVE  Bits(new, InodeMapAt, Inodes) = Bits(mem, InodeMapAt, Inodes)
  <2>1. \A j \in 0 .. (Inodes - 1) : InodeMapAt + (j \div ByteBits) \in 0 .. (BlockBytes - 1)
    <3>. SUFFICES ASSUME NEW j \in 0 .. (Inodes - 1)
                  PROVE  InodeMapAt + (j \div ByteBits) \in 0 .. (BlockBytes - 1)
      OBVIOUS
    <3>1. j \in Nat /\ j < ByteBits * BlockBytes
      <4>1. ByteBits * BlockBytes \in Nat
        BY TimesNat
      <4>. QED
        BY <4>1, StoreAssumption
    <3>2. j \div ByteBits \in Nat /\ j \div ByteBits < BlockBytes
      BY <3>1, DivMod, DivLess
    <3>. QED
      BY <3>2 DEF InodeMapAt
  <2>2. \A j \in 0 .. (Inodes - 1) :
           new[InodeMapAt + (j \div ByteBits)] = mem[InodeMapAt + (j \div ByteBits)]
    BY <1>2, <2>1 DEF SameBytes
  <2>. QED
    BY <2>2, BitsKept
<1>3. ASSUME SameBytes(new, mem, BlockBytes, MetaBlocks * BlockBytes), NEW i \in Inode
      PROVE  Copied(new, RecordAt(i), InodeBytes) = Copied(mem, RecordAt(i), InodeBytes)
  <2>1. PICK at \in Nat, hi \in Nat :
           /\ at = RecordAt(i) /\ hi = MetaBlocks * BlockBytes
           /\ BlockBytes <= at /\ at + InodeBytes <= hi
    BY InInodes
  <2>2. SameBytes(new, mem, at, at + InodeBytes)
    BY <1>3, <2>1 DEF SameBytes
  <2>. QED
    BY <2>1, <2>2, RecordKept
<1>4. ASSUME SameBytes(new, mem, MetaBlocks * BlockBytes, MapAt), NEW b \in UserBlocks
      PROVE  Copied(new, b * BlockBytes, BlockBytes) = Copied(mem, b * BlockBytes, BlockBytes)
  <2>1. PICK at \in Nat, lo \in Nat :
           /\ at = b * BlockBytes /\ lo = MetaBlocks * BlockBytes
           /\ lo <= at /\ at + BlockBytes <= MapAt
    BY InUserBlocks
  <2>2. SameBytes(new, mem, at, at + BlockBytes)
    BY <1>4, <2>1, Layout DEF SameBytes
  <2>. QED
    BY <2>1, <2>2, RecordKept
<1>. QED
  BY <1>1, <1>2, <1>3, <1>4

\* A bit of the map is after every block and every record of an inode.
LEMMA BitOfMapElsewhere ==
    ASSUME NEW mem \in [0 .. (NumBytes - 1) -> Byte], NEW id \in 0 .. (NumBlocks - 1)
    PROVE  /\ SameBytes(bitmap_set(mem, MapAt, id), mem, 0, MapAt)
           /\ SameBytes(bitmap_reset(mem, MapAt, id), mem, 0, MapAt)
<1>1. PICK x : x = MapAt + (id \div ByteBits) /\ x \in MapAt .. (NumBytes - 1)
  BY InMap
<1>2. \A a \in 0 .. (MapAt - 1) : a \in 0 .. (NumBytes - 1) /\ a # x
  BY <1>1, Layout
<1>. QED
  BY <1>1, <1>2 DEF SameBytes, bitmap_set, bitmap_reset

\* And one of the inodes' bitmap is before every record and block.
LEMMA BitOfInodeElsewhere ==
    ASSUME NEW mem \in [0 .. (NumBytes - 1) -> Byte], NEW i \in Inode
    PROVE  /\ SameBytes(bitmap_set(mem, InodeMapAt, i), mem, BlockBytes, NumBytes)
           /\ SameBytes(bitmap_reset(mem, InodeMapAt, i), mem, BlockBytes, NumBytes)
<1>1. i \in Nat /\ i < ByteBits * BlockBytes
  <2>1. ByteBits * BlockBytes \in Nat
    BY TimesNat
  <2>. QED
    BY <2>1, StoreAssumption DEF Inode
<1>2. PICK x : x = InodeMapAt + (i \div ByteBits) /\ x \in 0 .. (BlockBytes - 1)
  <2>1. i \div ByteBits \in Nat /\ i \div ByteBits < BlockBytes
    BY <1>1, DivMod, DivLess
  <2>. QED
    BY <2>1 DEF InodeMapAt
<1>3. \A a \in BlockBytes .. (NumBytes - 1) : a \in 0 .. (NumBytes - 1) /\ a # x
  BY <1>2
<1>. QED
  BY <1>2, <1>3 DEF SameBytes, bitmap_set, bitmap_reset

\* A copy into a block or a part of it stays in that block.
LEMMA CopyInBlockElsewhere ==
    ASSUME NEW mem \in [0 .. (NumBytes - 1) -> Byte], NEW id \in 0 .. (AvailBlocks - 1),
           NEW offset \in Nat, NEW n \in Nat, offset + n <= BlockBytes,
           NEW buffer \in Buffer(n), NEW new, new = memcpy(mem, id * BlockBytes + offset, buffer)
    PROVE  /\ new \in [0 .. (NumBytes - 1) -> Byte]
           /\ SameBytes(new, mem, MapAt, NumBytes)
           /\ id \in UserBlocks => SameBytes(new, mem, 0, MetaBlocks * BlockBytes)
           /\ \A b \in UserBlocks \ {id} :
                Copied(new, b * BlockBytes, BlockBytes) = Copied(mem, b * BlockBytes, BlockBytes)
<1>1. PICK at \in Nat : at = id * BlockBytes /\ at + BlockBytes <= MapAt
  <2>1. id \in Nat /\ id + 1 <= AvailBlocks /\ id + 1 \in Nat
    BY Layout
  <2>2. (id + 1) * BlockBytes <= AvailBlocks * BlockBytes
    BY <2>1, Layout, TimesMonotone
  <2>3. (id + 1) * BlockBytes = id * BlockBytes + BlockBytes
    BY <2>1
  <2>4. id * BlockBytes \in Nat
    BY <2>1, TimesNat
  <2>. QED
    BY <2>2, <2>3, <2>4 DEF MapAt
<1>2. NumBytes \in Nat /\ MapAt \in Nat /\ MapAt <= NumBytes
  BY Layout
<1>3. new = memcpy(mem, at + offset, buffer)
  BY <1>1
<1>4. at + offset \in Nat /\ at + offset + n <= at + BlockBytes /\ at + offset + n <= NumBytes
  BY <1>1, <1>2
<1>5. new \in [0 .. (NumBytes - 1) -> Byte]
  BY <1>2, <1>3, <1>4, CopyKeepsMemory
<1>6. \A a \in 0 .. (NumBytes - 1) : a < at + offset \/ at + offset + n <= a => new[a] = mem[a]
  BY <1>2, <1>3, <1>4, CopyElsewhere
<1>7. \A a \in 0 .. (NumBytes - 1) : a < at \/ at + BlockBytes <= a => new[a] = mem[a]
  BY <1>1, <1>2, <1>4, <1>6
<1>8. SameBytes(new, mem, MapAt, NumBytes)
  BY <1>1, <1>2, <1>7 DEF SameBytes
<1>9. ASSUME id \in UserBlocks PROVE SameBytes(new, mem, 0, MetaBlocks * BlockBytes)
  <2>1. PICK lo \in Nat : lo = MetaBlocks * BlockBytes /\ lo <= id * BlockBytes
    BY <1>9, InUserBlocks
  <2>2. lo <= at
    BY <1>1, <2>1
  <2>3. \A a \in 0 .. (lo - 1) : a \in 0 .. (NumBytes - 1) /\ a < at
    BY <1>1, <1>2, <2>2
  <2>. QED
    BY <1>7, <2>1, <2>3 DEF SameBytes
<1>10. ASSUME NEW b \in UserBlocks, b # id
       PROVE  Copied(new, b * BlockBytes, BlockBytes) = Copied(mem, b * BlockBytes, BlockBytes)
  <2>1. PICK bt \in Nat : bt = b * BlockBytes /\ bt + BlockBytes <= MapAt
    BY InUserBlocks
  <2>2. at + BlockBytes <= bt \/ bt + BlockBytes <= at
    <3>1. id \in Nat /\ b \in Nat /\ id # b
      BY <1>10, InUserBlocks
    <3>2. BlockBytes \in Nat
      OBVIOUS
    <3>3. \/ id * BlockBytes + BlockBytes <= b * BlockBytes
          \/ b * BlockBytes + BlockBytes <= id * BlockBytes
      BY <3>1, <3>2, RecordsApart, Zenon
    <3>. QED
      BY <1>1, <2>1, <3>3
  <2>3. bt + BlockBytes <= MapAt
    BY <2>1
  <2>4. \A a \in bt .. (bt + BlockBytes - 1) :
           a \in 0 .. (NumBytes - 1) /\ (a < at \/ at + BlockBytes <= a)
    BY <1>2, <2>2, <2>3
  <2>5. SameBytes(new, mem, bt, bt + BlockBytes)
    BY <1>7, <2>4 DEF SameBytes
  <2>. QED
    BY <2>1, <2>5, RecordKept
<1>. QED
  BY <1>5, <1>8, <1>9, <1>10

\* And one into the record of an inode stays in that record.
LEMMA CopyInInodeElsewhere ==
    ASSUME NEW mem \in [0 .. (NumBytes - 1) -> Byte], NEW i \in Inode,
           NEW buffer \in Buffer(InodeBytes), NEW new, new = memcpy(mem, RecordAt(i), buffer)
    PROVE  /\ new \in [0 .. (NumBytes - 1) -> Byte]
           /\ SameBytes(new, mem, 0, BlockBytes)
           /\ SameBytes(new, mem, MetaBlocks * BlockBytes, NumBytes)
           /\ \A j \in Inode \ {i} :
                Copied(new, RecordAt(j), InodeBytes) = Copied(mem, RecordAt(j), InodeBytes)
<1>1. PICK at \in Nat, hi \in Nat :
         /\ at = RecordAt(i) /\ hi = MetaBlocks * BlockBytes
         /\ BlockBytes <= at /\ at + InodeBytes <= hi /\ hi <= MapAt
  BY InInodes
<1>2. NumBytes \in Nat /\ MapAt \in Nat /\ MapAt <= NumBytes
  BY Layout
<1>3. new \in [0 .. (NumBytes - 1) -> Byte]
  BY <1>1, <1>2, CopyKeepsMemory
<1>4. \A a \in 0 .. (NumBytes - 1) : a < at \/ at + InodeBytes <= a => new[a] = mem[a]
  BY <1>1, <1>2, CopyElsewhere
<1>5. SameBytes(new, mem, 0, BlockBytes) /\ SameBytes(new, mem, hi, NumBytes)
  BY <1>1, <1>2, <1>4 DEF SameBytes
<1>6. ASSUME NEW j \in Inode, j # i
      PROVE  Copied(new, RecordAt(j), InodeBytes) = Copied(mem, RecordAt(j), InodeBytes)
  <2>1. PICK jt \in Nat : jt = RecordAt(j) /\ jt + InodeBytes <= MapAt
    BY InInodes
  <2>2. at + InodeBytes <= jt \/ jt + InodeBytes <= at
    <3>1. i \in Nat /\ j \in Nat
      BY DEF Inode
    <3>2. i * InodeBytes + InodeBytes <= j * InodeBytes \/ j * InodeBytes + InodeBytes <= i * InodeBytes
      BY <1>6, <3>1, RecordsApart
    <3>3. i * InodeBytes \in Nat /\ j * InodeBytes \in Nat
      BY <3>1, TimesNat
    <3>. QED
      BY <1>1, <2>1, <3>2, <3>3, SMTT(30) DEF RecordAt, InodesAt
  <2>3. SameBytes(new, mem, jt, jt + InodeBytes)
    BY <1>1, <1>2, <1>4, <2>1, <2>2, SMTT(30) DEF SameBytes
  <2>. QED
    BY <2>1, <2>3, RecordKept
<1>. QED
  BY <1>1, <1>3, <1>5, <1>6

-----------------------------------------------------------------------------
(* The user's blocks are a device *)

\* What its client sees of the device in the given bytes.
BlocksOf(mem)   == Bits(mem, MapAt, NumBlocks) \cap UserBlocks
ContentsOf(mem) == [b \in UserBlocks |-> Copied(mem, b * BlockBytes, BlockBytes)]

\* The steps of the abstract device, in the bytes.
LEMMA DeviceSteps ==
    /\ \A b \in UserBlocks :
         /\ /\ b \notin BlocksOf(data)
            /\ BlocksOf(data') = BlocksOf(data) \cup {b}
            /\ ContentsOf(data') = ContentsOf(data)
            => Device!DevNext
         /\ /\ b \in BlocksOf(data)
            /\ BlocksOf(data') = BlocksOf(data) \ {b}
            /\ ContentsOf(data') = ContentsOf(data)
            => Device!DevNext
         /\ /\ BlocksOf(data') = BlocksOf(data)
            /\ ContentsOf(data') \in [UserBlocks -> [1 .. BlockBytes -> Byte]]
            /\ \A c \in UserBlocks \ {b} : ContentsOf(data')[c] = ContentsOf(data)[c]
            => Device!DevNext
    /\ /\ BlocksOf(data') = {}
       /\ ContentsOf(data') = [b \in UserBlocks |-> Zeroes(BlockBytes)]
       => Device!DevNext
    /\ /\ BlocksOf(data') = BlocksOf(data)
       /\ ContentsOf(data') = ContentsOf(data)
       => UNCHANGED Device!devVars
BY DEF Device!DevNext, Device!Take, Device!GiveBack, Device!Put, Device!Renew, Device!devVars,
       BlocksOf, ContentsOf, fbm, block_store_read

\* Bytes that are the same outside the inodes show the same device.
LEMMA SameDevice ==
    ASSUME NEW mem, NEW new, SameBytes(new, mem, MapAt, NumBytes),
           SameBytes(new, mem, MetaBlocks * BlockBytes, MapAt)
    PROVE  BlocksOf(new) = BlocksOf(mem) /\ ContentsOf(new) = ContentsOf(mem)
BY RegionsKept DEF BlocksOf, ContentsOf

\* A new device has no block marked below the map, and nothing but zeroes there.
LEMMA NewDeviceBlank ==
    /\ \A a \in 0 .. (MapAt - 1) : NewDevice[a] = {}
    /\ \A i \in 0 .. (AvailBlocks - 1) : ~bitmap_test(NewDevice, MapAt, i)
<1>1. PICK q \in Nat, n \in Nat :
         /\ q = FbmBlocks \div ByteBits /\ n = FbmBlocks * BlockBytes
         /\ FbmBlocks = ByteBits * q /\ q <= n
  <2>1. FbmBlocks \div ByteBits \in Nat /\ FbmBlocks = ByteBits * (FbmBlocks \div ByteBits)
    BY DivMod, StoreAssumption
  <2>2. FbmBlocks <= FbmBlocks * BlockBytes /\ FbmBlocks * BlockBytes \in Nat
    OBVIOUS
  <2>3. FbmBlocks \div ByteBits <= FbmBlocks
    BY <2>1
  <2>. QED
    BY <2>1, <2>2, <2>3
<1>2. /\ NumBlocks = ByteBits * n /\ NumBytes = MapAt + n /\ MapAt \in Nat
      /\ NumBlocks = AvailBlocks + FbmBlocks /\ AvailBlocks \in Nat
  BY <1>1, Layout
<1>3. AvailBlocks = ByteBits * (n - q)
  BY <1>1, <1>2
<1>4. \A a \in 0 .. (NumBytes - q - 1) : NewDevice[a] = {}
  BY <1>1, <1>2 DEF NewDevice
<1>5. ASSUME NEW i \in 0 .. (AvailBlocks - 1) PROVE ~bitmap_test(NewDevice, MapAt, i)
  <2>1. i \in Nat /\ i < ByteBits * (n - q) /\ n - q \in Nat
    BY <1>1, <1>2, <1>3
  <2>2. i \div ByteBits \in Nat /\ i \div ByteBits < n - q
    BY <2>1, DivMod, DivLess
  <2>3. MapAt + (i \div ByteBits) \in 0 .. (NumBytes - q - 1)
    BY <1>1, <1>2, <2>2
  <2>. QED
    BY <1>4, <2>3 DEF bitmap_test
<1>6. \A a \in 0 .. (MapAt - 1) : a \in 0 .. (NumBytes - q - 1)
  BY <1>1, <1>2
<1>. QED
  BY <1>4, <1>5, <1>6

\* So it shows a device with no block in use, all of them blank, and no inode.
LEMMA NewDeviceShows ==
    /\ BlocksOf(NewDevice) = {}
    /\ ContentsOf(NewDevice) = [b \in UserBlocks |-> Zeroes(BlockBytes)]
<1>1. BlocksOf(NewDevice) = {}
  BY NewDeviceBlank, InUserBlocks DEF BlocksOf, Bits, UserBlocks
<1>2. ASSUME NEW b \in UserBlocks
      PROVE  Copied(NewDevice, b * BlockBytes, BlockBytes) = Zeroes(BlockBytes)
  <2>1. PICK at \in Nat : at = b * BlockBytes /\ at + BlockBytes <= MapAt
    BY InUserBlocks
  <2>2. at + BlockBytes <= MapAt
    BY <2>1
  <2>3. \A k \in 1 .. BlockBytes : at + k - 1 \in 0 .. (MapAt - 1)
    BY <2>2, Layout
  <2>4. Copied(NewDevice, at, BlockBytes) = Zeroes(BlockBytes)
    BY <2>3, NewDeviceBlank DEF Copied, Zeroes
  <2>. QED
    BY <2>1, <2>4
<1>. QED
  BY <1>1, <1>2 DEF ContentsOf

\* The operations on the map hand out or take back one block, or one of no client.
LEMMA MapSteps ==
    ASSUME TypeOK, NEW id \in 0 .. (NumBlocks - 1),
           \/ id \notin fbm /\ data' = bitmap_set(data, MapAt, id)
           \/ id \in fbm /\ data' = bitmap_reset(data, MapAt, id)
    PROVE  [Device!DevNext]_(Device!devVars)
<1>1. data \in [0 .. (NumBytes - 1) -> Byte] /\ MapAt \in Nat /\ NumBlocks \in Nat
  BY Layout DEF TypeOK
<1>2. SameBytes(data', data, 0, MapAt)
  BY <1>1, BitOfMapElsewhere
<1>3. ContentsOf(data') = ContentsOf(data)
  <2>1. ASSUME NEW b \in UserBlocks
        PROVE  Copied(data', b * BlockBytes, BlockBytes) = Copied(data, b * BlockBytes, BlockBytes)
    <3>1. PICK lo : lo = MetaBlocks * BlockBytes /\ lo \in Nat
      BY InUserBlocks
    <3>2. SameBytes(data', data, lo, MapAt)
      BY <1>2, <3>1 DEF SameBytes
    <3>. QED
      BY <3>1, <3>2, RegionsKept
  <2>. QED
    BY <2>1 DEF ContentsOf
<1>4. CASE id \notin fbm /\ data' = bitmap_set(data, MapAt, id)
  <2>1. Bits(data', MapAt, NumBlocks) = fbm \cup {id}
    BY <1>1, <1>4, BitmapsHeld, BitsAfterSet DEF fbm
  <2>2. CASE id \in UserBlocks
    <3>1. id \notin BlocksOf(data) /\ BlocksOf(data') = BlocksOf(data) \cup {id}
      BY <1>4, <2>1, <2>2 DEF BlocksOf, fbm
    <3>. QED
      BY <1>3, <2>2, <3>1, DeviceSteps
  <2>3. CASE id \notin UserBlocks
    <3>1. BlocksOf(data') = BlocksOf(data)
      BY <2>1, <2>3 DEF BlocksOf, fbm
    <3>. QED
      BY <1>3, <3>1, DeviceSteps
  <2>. QED
    BY <2>2, <2>3
<1>5. CASE id \in fbm /\ data' = bitmap_reset(data, MapAt, id)
  <2>1. Bits(data', MapAt, NumBlocks) = fbm \ {id}
    BY <1>1, <1>5, BitmapsHeld, BitsAfterReset DEF fbm
  <2>2. CASE id \in UserBlocks
    <3>1. id \in BlocksOf(data) /\ BlocksOf(data') = BlocksOf(data) \ {id}
      BY <1>5, <2>1, <2>2 DEF BlocksOf, fbm
    <3>. QED
      BY <1>3, <2>2, <3>1, DeviceSteps
  <2>3. CASE id \notin UserBlocks
    <3>1. BlocksOf(data') = BlocksOf(data)
      BY <2>1, <2>3 DEF BlocksOf, fbm
    <3>. QED
      BY <1>3, <3>1, DeviceSteps
  <2>. QED
    BY <2>2, <2>3
<1>. QED
  BY <1>4, <1>5

\* A write to a block, or to a part of one, is a write to that block alone.
LEMMA WriteSteps ==
    ASSUME TypeOK, NEW id \in 0 .. (AvailBlocks - 1),
           NEW offset \in Nat, NEW n \in Nat, offset + n <= BlockBytes, NEW buffer \in Buffer(n),
           data' = memcpy(data, id * BlockBytes + offset, buffer)
    PROVE  [Device!DevNext]_(Device!devVars)
<1>1. data \in [0 .. (NumBytes - 1) -> Byte] /\ NumBytes \in Nat /\ MapAt <= NumBytes
  BY Layout DEF TypeOK
<1>2. /\ data' \in [0 .. (NumBytes - 1) -> Byte]
      /\ SameBytes(data', data, MapAt, NumBytes)
      /\ \A b \in UserBlocks \ {id} :
           Copied(data', b * BlockBytes, BlockBytes) = Copied(data, b * BlockBytes, BlockBytes)
  BY <1>1, CopyInBlockElsewhere
<1>3. BlocksOf(data') = BlocksOf(data)
  BY <1>2, RegionsKept DEF BlocksOf
<1>4. \A b \in UserBlocks \ {id} : ContentsOf(data')[b] = ContentsOf(data)[b]
  BY <1>2 DEF ContentsOf
<1>5. ContentsOf(data') \in [UserBlocks -> [1 .. BlockBytes -> Byte]]
  <2>1. ASSUME NEW b \in UserBlocks
        PROVE  Copied(data', b * BlockBytes, BlockBytes) \in [1 .. BlockBytes -> Byte]
    <3>1. PICK bt \in Nat : bt = b * BlockBytes /\ bt + BlockBytes <= MapAt
      BY InUserBlocks
    <3>2. bt + BlockBytes <= NumBytes
      BY <1>1, <3>1, Layout
    <3>3. Copied(data', bt, BlockBytes) \in [1 .. BlockBytes -> Byte]
      BY <1>1, <1>2, <3>2, RecordType
    <3>. QED
      BY <3>1, <3>3
  <2>. QED
    BY <2>1 DEF ContentsOf
<1>6. CASE id \in UserBlocks
  BY <1>3, <1>4, <1>5, <1>6, DeviceSteps
<1>7. CASE id \notin UserBlocks
  <2>1. ContentsOf(data') = ContentsOf(data)
    BY <1>4, <1>7 DEF ContentsOf
  <2>. QED
    BY <1>3, <2>1, DeviceSteps
<1>. QED
  BY <1>6, <1>7

\* A change in the inodes or their bitmap shows nothing of itself in the blocks.
LEMMA InodesApartFromBlocks ==
    ASSUME TypeOK, NEW i \in Inode,
           \/ data' = bitmap_set(data, InodeMapAt, i)
           \/ data' = bitmap_reset(data, InodeMapAt, i)
           \/ \E buffer \in Buffer(InodeBytes) : data' = memcpy(data, RecordAt(i), buffer)
    PROVE  UNCHANGED Device!devVars
<1>1. data \in [0 .. (NumBytes - 1) -> Byte]
  BY DEF TypeOK
<1>2. PICK lo \in Nat : lo = MetaBlocks * BlockBytes /\ BlockBytes <= lo /\ lo <= MapAt
  <2>1. /\ RecordAt(i) \in Nat /\ BlockBytes <= RecordAt(i)
        /\ MetaBlocks * BlockBytes \in Nat
        /\ RecordAt(i) + InodeBytes <= MetaBlocks * BlockBytes
        /\ MetaBlocks * BlockBytes <= MapAt
    BY InInodes
  <2>. QED
    BY <2>1
<1>3. SameBytes(data', data, lo, NumBytes)
  <2>1. CASE data' = bitmap_set(data, InodeMapAt, i) \/ data' = bitmap_reset(data, InodeMapAt, i)
    <3>1. SameBytes(data', data, BlockBytes, NumBytes)
      BY <1>1, <2>1, BitOfInodeElsewhere
    <3>. QED
      BY <1>2, <3>1 DEF SameBytes
  <2>2. ASSUME NEW buffer \in Buffer(InodeBytes), data' = memcpy(data, RecordAt(i), buffer)
        PROVE  SameBytes(data', data, lo, NumBytes)
    BY <1>1, <1>2, <2>2, CopyInInodeElsewhere
  <2>. QED
    BY <2>1, <2>2
<1>4. SameBytes(data', data, lo, MapAt) /\ SameBytes(data', data, MapAt, NumBytes)
  BY <1>2, <1>3, Layout DEF SameBytes
<1>5. BlocksOf(data') = BlocksOf(data) /\ ContentsOf(data') = ContentsOf(data)
  BY <1>2, <1>4, SameDevice
<1>. QED
  BY <1>5, DeviceSteps

\* Every operation is one of the abstract device, or shows nothing of itself in it.
LEMMA DeviceStep ==
    ASSUME TypeOK, [Next]_vars, Ids \subseteq 0 .. (AvailBlocks - 1)
    PROVE  [Device!DevNext]_(Device!devVars)
<1>1. CASE block_store_create
  <2>1. data' = NewDevice
    BY <1>1 DEF block_store_create
  <2>. QED
    BY <2>1, NewDeviceShows, DeviceSteps
<1>2. CASE block_store_allocate
  <2>1. PICK id : id = bitmap_ffz(data, MapAt, NumBlocks) /\ id # B!SIZE_MAX
    BY <1>2 DEF block_store_allocate
  <2>2. id \in 0 .. (NumBlocks - 1) /\ id \notin fbm
    BY <2>1, FfzIsClear, Layout DEF fbm
  <2>3. data' = bitmap_set(data, MapAt, id)
    BY <1>2, <2>1 DEF block_store_allocate
  <2>. QED
    BY <2>2, <2>3, MapSteps
<1>3. ASSUME NEW id \in Ids, block_store_request(id) \/ block_store_release(id)
      PROVE  [Device!DevNext]_(Device!devVars)
  <2>1. id \in 0 .. (NumBlocks - 1)
    BY Layout
  <2>2. id \in fbm <=> bitmap_test(data, MapAt, id)
    BY <2>1 DEF fbm, Bits
  <2>. QED
    BY <1>3, <2>1, <2>2, MapSteps DEF block_store_request, block_store_release
<1>4. ASSUME NEW id \in Ids, NEW buffer \in Buffer(BlockBytes), block_store_write(id, buffer)
      PROVE  [Device!DevNext]_(Device!devVars)
  <2>1. id \in 0 .. (AvailBlocks - 1) /\ id \in Nat
    BY Layout
  <2>2. id * BlockBytes + 0 = id * BlockBytes
    BY <2>1, TimesNat
  <2>3. data' = memcpy(data, id * BlockBytes + 0, buffer)
    BY <1>4, <2>2 DEF block_store_write
  <2>4. 0 \in Nat /\ BlockBytes \in Nat /\ 0 + BlockBytes <= BlockBytes
    OBVIOUS
  <2>. QED
    BY <2>1, <2>3, <2>4, WriteSteps
<1>5. ASSUME NEW id \in Ids, NEW offset \in 0 .. BlockBytes, NEW n \in 1 .. BlockBytes,
             NEW buffer \in Buffer(n), block_store_n_write(id, offset, buffer)
      PROVE  [Device!DevNext]_(Device!devVars)
  <2>1. Len(buffer) = n
    BY DEF Buffer
  <2>2. offset \in Nat /\ n \in Nat /\ offset + n <= BlockBytes
    BY <1>5, <2>1 DEF block_store_n_write, InBlock
  <2>. QED
    BY <1>5, <2>2, WriteSteps DEF block_store_n_write
<1>6. CASE block_store_inode_allocate
  <2>1. bitmap_ffz(data, InodeMapAt, Inodes) \in Inode
    BY <1>6, FfzIsClear DEF block_store_inode_allocate, Inode
  <2>. QED
    BY <1>6, <2>1, InodesApartFromBlocks DEF block_store_inode_allocate
<1>7. ASSUME NEW i \in Inode,
             \/ block_store_inode_release(i)
             \/ \E buffer \in Buffer(InodeBytes) : block_store_inode_write(i, buffer)
      PROVE  [Device!DevNext]_(Device!devVars)
  BY <1>7, InodesApartFromBlocks DEF block_store_inode_release, block_store_inode_write
<1>8. CASE UNCHANGED data
  BY <1>8, DeviceSteps
<1>. QED
  BY <1>1, <1>2, <1>3, <1>4, <1>5, <1>6, <1>7, <1>8
     DEF Next, vars, block_store_fd_create, block_store_fd_allocate, block_store_fd_release,
         block_store_fd_write

\* When clients keep to the numbers below BLOCK_STORE_AVAIL_BLOCKS, the store is
\* the abstract device on the user's blocks: allocate hands out a block that was
\* free, a write changes the block it names and no other, and neither the map nor
\* the inodes in the same bytes are ever in a block (block_store.c:138-426).
THEOREM StoreIsDevice ==
    ASSUME Ids \subseteq 0 .. (AvailBlocks - 1)
    PROVE  Spec => IsBlockDevice
<1>1. Init => Device!DevInit
  BY NewDeviceShows DEF Init, Device!DevInit, BlocksOf, ContentsOf, fbm, block_store_read
<1>2. TypeOK /\ [Next]_vars => [Device!DevNext]_(Device!devVars)
  BY DeviceStep
<1>. QED
  BY <1>1, <1>2, TypeCorrect, PTL DEF Spec, IsBlockDevice, Device!DevSpec

-----------------------------------------------------------------------------
(* The inodes and the descriptors are tables *)

\* What F17FS sees of its inodes in the given bytes of the device.
InodesOf(mem)  == Bits(mem, InodeMapAt, Inodes)
RecordsOf(mem) == [i \in Inode |-> Copied(mem, RecordAt(i), InodeBytes)]

\* The steps of the abstract table of inodes, in the bytes.
LEMMA InodeTableSteps ==
    /\ \A i \in Inode :
         /\ /\ i \notin InodesOf(data)
            /\ InodesOf(data') = InodesOf(data) \cup {i}
            /\ RecordsOf(data') = RecordsOf(data)
            => InodeTable!DevNext
         /\ /\ i \in InodesOf(data)
            /\ InodesOf(data') = InodesOf(data) \ {i}
            /\ RecordsOf(data') = RecordsOf(data)
            => InodeTable!DevNext
         /\ /\ InodesOf(data') = InodesOf(data)
            /\ RecordsOf(data') \in [Inode -> [1 .. InodeBytes -> Byte]]
            /\ \A j \in Inode \ {i} : RecordsOf(data')[j] = RecordsOf(data)[j]
            => InodeTable!DevNext
    /\ /\ InodesOf(data') = {}
       /\ RecordsOf(data') = [i \in Inode |-> Zeroes(InodeBytes)]
       => InodeTable!DevNext
    /\ /\ InodesOf(data') = InodesOf(data)
       /\ RecordsOf(data') = RecordsOf(data)
       => UNCHANGED InodeTable!devVars
BY DEF InodeTable!DevNext, InodeTable!Take, InodeTable!GiveBack, InodeTable!Put, InodeTable!Renew,
       InodeTable!devVars, InodesOf, RecordsOf, RecordAt, block_store_inode_read

\* A new device has no inode in use, and all of them blank.
LEMMA NewDeviceHasNoInodes ==
    /\ InodesOf(NewDevice) = {}
    /\ RecordsOf(NewDevice) = [i \in Inode |-> Zeroes(InodeBytes)]
<1>1. ASSUME NEW i \in Inode PROVE ~bitmap_test(NewDevice, InodeMapAt, i)
  <2>1. InodeMapAt + (i \div ByteBits) \in 0 .. (MapAt - 1)
    BY InInodeMap
  <2>. QED
    BY <2>1, NewDeviceBlank DEF bitmap_test
<1>2. ASSUME NEW i \in Inode
      PROVE  Copied(NewDevice, RecordAt(i), InodeBytes) = Zeroes(InodeBytes)
  <2>1. PICK at \in Nat : at = RecordAt(i) /\ at + InodeBytes <= MapAt
    BY InInodes
  <2>2. \A k \in 1 .. InodeBytes : at + k - 1 \in 0 .. (MapAt - 1)
    BY <2>1, Layout
  <2>3. Copied(NewDevice, at, InodeBytes) = Zeroes(InodeBytes)
    BY <2>2, NewDeviceBlank DEF Copied, Zeroes
  <2>. QED
    BY <2>1, <2>3
<1>. QED
  BY <1>1, <1>2 DEF InodesOf, RecordsOf, Bits, Inode

\* Bytes that are the same before the user's blocks show the same inodes.
LEMMA SameInodes ==
    ASSUME NEW mem, NEW new, NEW lo \in Nat, MetaBlocks * BlockBytes <= lo,
           SameBytes(new, mem, 0, lo)
    PROVE  InodesOf(new) = InodesOf(mem) /\ RecordsOf(new) = RecordsOf(mem)
<1>1. 0 \in Inode
  BY DEF Inode
<1>2. PICK meta \in Nat : meta = MetaBlocks * BlockBytes /\ BlockBytes <= meta
  <2>1. /\ RecordAt(0) \in Nat /\ BlockBytes <= RecordAt(0)
        /\ MetaBlocks * BlockBytes \in Nat
        /\ RecordAt(0) + InodeBytes <= MetaBlocks * BlockBytes
    BY <1>1, InInodes
  <2>. QED
    BY <2>1
<1>3. meta <= lo
  BY <1>2
<1>4. SameBytes(new, mem, 0, BlockBytes) /\ SameBytes(new, mem, BlockBytes, meta)
  BY <1>2, <1>3 DEF SameBytes
<1>. QED
  BY <1>2, <1>4, RegionsKept DEF InodesOf, RecordsOf

\* The operations on inodes take, give back or change one inode.
LEMMA InodeSteps ==
    ASSUME TypeOK, NEW i \in Inode,
           \/ i \notin InodesOf(data) /\ data' = bitmap_set(data, InodeMapAt, i)
           \/ i \in InodesOf(data) /\ data' = bitmap_reset(data, InodeMapAt, i)
           \/ \E buffer \in Buffer(InodeBytes) : data' = memcpy(data, RecordAt(i), buffer)
    PROVE  InodeTable!DevNext
<1>1. /\ data \in [0 .. (NumBytes - 1) -> Byte] /\ NumBytes \in Nat
      /\ i \in 0 .. (Inodes - 1) /\ InodeMapAt \in Nat /\ Inodes \in Nat
  BY Layout DEF TypeOK, Inode, InodeMapAt
<1>2. ASSUME data' = bitmap_set(data, InodeMapAt, i) \/ data' = bitmap_reset(data, InodeMapAt, i)
      PROVE  RecordsOf(data') = RecordsOf(data)
  <2>1. SameBytes(data', data, BlockBytes, NumBytes)
    BY <1>1, <1>2, BitOfInodeElsewhere
  <2>2. MetaBlocks * BlockBytes \in Nat /\ MetaBlocks * BlockBytes <= MapAt
    BY InInodes
  <2>3. SameBytes(data', data, BlockBytes, MetaBlocks * BlockBytes)
    <3>1. PICK meta \in Nat : meta = MetaBlocks * BlockBytes /\ meta <= MapAt
      BY <2>2
    <3>2. meta <= NumBytes
      BY <3>1, Layout
    <3>. QED
      BY <1>1, <2>1, <3>1, <3>2 DEF SameBytes
  <2>. QED
    BY <2>3, RegionsKept DEF RecordsOf
<1>3. CASE i \notin InodesOf(data) /\ data' = bitmap_set(data, InodeMapAt, i)
  <2>1. InodesOf(data') = InodesOf(data) \cup {i}
    BY <1>1, <1>3, BitmapsHeld, BitsAfterSet DEF InodesOf
  <2>. QED
    BY <1>2, <1>3, <2>1, InodeTableSteps
<1>4. CASE i \in InodesOf(data) /\ data' = bitmap_reset(data, InodeMapAt, i)
  <2>1. InodesOf(data') = InodesOf(data) \ {i}
    BY <1>1, <1>4, BitmapsHeld, BitsAfterReset DEF InodesOf
  <2>. QED
    BY <1>2, <1>4, <2>1, InodeTableSteps
<1>5. ASSUME NEW buffer \in Buffer(InodeBytes), data' = memcpy(data, RecordAt(i), buffer)
      PROVE  InodeTable!DevNext
  <2>1. /\ data' \in [0 .. (NumBytes - 1) -> Byte]
        /\ SameBytes(data', data, 0, BlockBytes)
        /\ \A j \in Inode \ {i} :
             Copied(data', RecordAt(j), InodeBytes) = Copied(data, RecordAt(j), InodeBytes)
    BY <1>1, <1>5, CopyInInodeElsewhere
  <2>2. InodesOf(data') = InodesOf(data)
    BY <2>1, RegionsKept DEF InodesOf
  <2>3. \A j \in Inode \ {i} : RecordsOf(data')[j] = RecordsOf(data)[j]
    BY <2>1 DEF RecordsOf
  <2>4. ASSUME NEW j \in Inode
        PROVE  Copied(data', RecordAt(j), InodeBytes) \in [1 .. InodeBytes -> Byte]
    <3>1. PICK at \in Nat : at = RecordAt(j) /\ at + InodeBytes <= MapAt
      BY InInodes
    <3>2. at + InodeBytes <= NumBytes
      BY <3>1, Layout
    <3>3. Copied(data', at, InodeBytes) \in [1 .. InodeBytes -> Byte]
      BY <1>1, <2>1, <3>2, RecordType
    <3>. QED
      BY <3>1, <3>3
  <2>5. RecordsOf(data') \in [Inode -> [1 .. InodeBytes -> Byte]]
    BY <2>4 DEF RecordsOf
  <2>. QED
    BY <2>2, <2>3, <2>5, InodeTableSteps
<1>. QED
  BY <1>3, <1>4, <1>5

\* Every operation is one of the table of inodes, or shows nothing of itself in it.
LEMMA InodeTableStep ==
    ASSUME TypeOK, [Next]_vars, Ids \subseteq UserBlocks
    PROVE  [InodeTable!DevNext]_(InodeTable!devVars)
<1>. DEFINE Kept == UNCHANGED InodeTable!devVars
<1>0. data \in [0 .. (NumBytes - 1) -> Byte]
  BY DEF TypeOK
<1>1. CASE block_store_create
  BY <1>1, NewDeviceHasNoInodes, InodeTableSteps DEF block_store_create
<1>2. ASSUME NEW id \in 0 .. (NumBlocks - 1),
             data' = bitmap_set(data, MapAt, id) \/ data' = bitmap_reset(data, MapAt, id)
      PROVE  Kept
  <2>1. SameBytes(data', data, 0, MapAt)
    BY <1>0, <1>2, BitOfMapElsewhere
  <2>2. 0 \in Inode
    BY DEF Inode
  <2>3. MetaBlocks * BlockBytes <= MapAt /\ MapAt \in Nat
    BY <2>2, InInodes, Layout
  <2>4. InodesOf(data') = InodesOf(data) /\ RecordsOf(data') = RecordsOf(data)
    BY <2>1, <2>3, SameInodes
  <2>. QED
    BY <2>4, InodeTableSteps
<1>3. CASE block_store_allocate
  <2>1. bitmap_ffz(data, MapAt, NumBlocks) \in 0 .. (NumBlocks - 1)
    BY <1>3, Layout, FfzIsClear DEF block_store_allocate
  <2>. QED
    BY <1>2, <1>3, <2>1 DEF block_store_allocate
<1>4. \A id \in Ids : id \in UserBlocks /\ id \in 0 .. (AvailBlocks - 1) /\ id \in 0 .. (NumBlocks - 1)
  BY InUserBlocks, Layout
<1>5. ASSUME NEW id \in Ids, block_store_request(id) \/ block_store_release(id)
      PROVE  Kept
  BY <1>2, <1>4, <1>5 DEF block_store_request, block_store_release
<1>6. ASSUME NEW id \in Ids, NEW offset \in Nat, NEW n \in Nat, offset + n <= BlockBytes,
             NEW buffer \in Buffer(n), data' = memcpy(data, id * BlockBytes + offset, buffer)
      PROVE  Kept
  <2>1. SameBytes(data', data, 0, MetaBlocks * BlockBytes)
    BY <1>0, <1>4, <1>6, CopyInBlockElsewhere
  <2>2. MetaBlocks * BlockBytes \in Nat
    BY <1>4, InUserBlocks
  <2>3. InodesOf(data') = InodesOf(data) /\ RecordsOf(data') = RecordsOf(data)
    BY <2>1, <2>2, SameInodes
  <2>. QED
    BY <2>3, InodeTableSteps
<1>7. ASSUME NEW id \in Ids, NEW buffer \in Buffer(BlockBytes), block_store_write(id, buffer)
      PROVE  Kept
  <2>1. id * BlockBytes + 0 = id * BlockBytes
    BY <1>4, InUserBlocks
  <2>2. data' = memcpy(data, id * BlockBytes + 0, buffer)
    BY <1>7, <2>1 DEF block_store_write
  <2>3. 0 \in Nat /\ BlockBytes \in Nat /\ 0 + BlockBytes <= BlockBytes
    OBVIOUS
  <2>. QED
    BY <1>6, <2>2, <2>3
<1>8. ASSUME NEW id \in Ids, NEW offset \in 0 .. BlockBytes, NEW n \in 1 .. BlockBytes,
             NEW buffer \in Buffer(n), block_store_n_write(id, offset, buffer)
      PROVE  Kept
  <2>1. Len(buffer) = n
    BY DEF Buffer
  <2>2. offset \in Nat /\ n \in Nat /\ offset + n <= BlockBytes
    BY <1>8, <2>1 DEF block_store_n_write, InBlock
  <2>. QED
    BY <1>6, <1>8, <2>2 DEF block_store_n_write
<1>9. CASE block_store_inode_allocate
  <2>1. PICK i : i = bitmap_ffz(data, InodeMapAt, Inodes) /\ i # B!SIZE_MAX
    BY <1>9 DEF block_store_inode_allocate
  <2>2. i \in Inode /\ i \notin InodesOf(data)
    BY <2>1, FfzIsClear DEF Inode, InodesOf
  <2>3. data' = bitmap_set(data, InodeMapAt, i)
    BY <1>9, <2>1 DEF block_store_inode_allocate
  <2>. QED
    BY <2>2, <2>3, InodeSteps
<1>10. ASSUME NEW i \in Inode,
              \/ block_store_inode_release(i)
              \/ \E buffer \in Buffer(InodeBytes) : block_store_inode_write(i, buffer)
       PROVE  InodeTable!DevNext
  <2>1. i \in InodesOf(data) <=> bitmap_test(data, InodeMapAt, i)
    BY DEF InodesOf, Bits, Inode
  <2>. QED
    BY <1>10, <2>1, InodeSteps DEF block_store_inode_release, block_store_inode_write
<1>11. CASE UNCHANGED data
  BY <1>11, InodeTableSteps
<1>. QED
  BY <1>1, <1>3, <1>5, <1>7, <1>8, <1>9, <1>10, <1>11
     DEF Next, vars, block_store_fd_create, block_store_fd_allocate, block_store_fd_release,
         block_store_fd_write

\* What F17FS sees of its descriptors.
FdsOf(map)       == Bits(map, 0, Fds)
FdRecordsOf(mem) == [f \in Fd |-> Copied(mem, f * FdBytes, FdBytes)]

\* The steps of the abstract table of descriptors, in the bytes.
LEMMA FdTableSteps ==
    /\ \A f \in Fd :
         /\ /\ f \notin FdsOf(fdmap)
            /\ FdsOf(fdmap') = FdsOf(fdmap) \cup {f}
            /\ FdRecordsOf(fddata') = FdRecordsOf(fddata)
            => FdTable!DevNext
         /\ /\ f \in FdsOf(fdmap)
            /\ FdsOf(fdmap') = FdsOf(fdmap) \ {f}
            /\ FdRecordsOf(fddata') = FdRecordsOf(fddata)
            => FdTable!DevNext
         /\ /\ FdsOf(fdmap') = FdsOf(fdmap)
            /\ FdRecordsOf(fddata') \in [Fd -> [1 .. FdBytes -> Byte]]
            /\ \A g \in Fd \ {f} : FdRecordsOf(fddata')[g] = FdRecordsOf(fddata)[g]
            => FdTable!DevNext
    /\ /\ FdsOf(fdmap') = {}
       /\ FdRecordsOf(fddata') = [f \in Fd |-> Zeroes(FdBytes)]
       => FdTable!DevNext
    /\ fdmap' = fdmap /\ fddata' = fddata => UNCHANGED FdTable!devVars
BY DEF FdTable!DevNext, FdTable!Take, FdTable!GiveBack, FdTable!Put, FdTable!Renew,
       FdTable!devVars, FdsOf, FdRecordsOf, block_store_fd_read

\* A new descriptor store has none in use, and all of them blank.
LEMMA NewFdsShow ==
    /\ FdsOf(bitmap_create(Fds)) = {}
    /\ FdRecordsOf(NewFds) = [f \in Fd |-> Zeroes(FdBytes)]
<1>1. ASSUME NEW f \in Fd PROVE ~bitmap_test(bitmap_create(Fds), 0, f)
  <2>1. 0 + (f \div ByteBits) \in 0 .. (byte_count(Fds) - 1)
    BY InFds
  <2>. QED
    BY <2>1 DEF bitmap_test, bitmap_create
<1>2. ASSUME NEW f \in Fd PROVE Copied(NewFds, f * FdBytes, FdBytes) = Zeroes(FdBytes)
  <2>1. PICK at \in Nat, end \in Nat :
           at = f * FdBytes /\ end = Fds * FdBytes /\ at + FdBytes <= end
    BY InFds, TimesNat
  <2>2. \A k \in 1 .. FdBytes : at + k - 1 \in 0 .. (end - 1)
    BY <2>1
  <2>3. Copied(NewFds, at, FdBytes) = Zeroes(FdBytes)
    BY <2>1, <2>2 DEF Copied, Zeroes, NewFds
  <2>. QED
    BY <2>1, <2>3
<1>. QED
  BY <1>1, <1>2 DEF FdsOf, FdRecordsOf, Bits, Fd

\* The operations on descriptors take, give back or change one of them.
LEMMA FdSteps ==
    ASSUME TypeOK, NEW f \in Fd,
           \/ f \notin FdsOf(fdmap) /\ fdmap' = bitmap_set(fdmap, 0, f) /\ fddata' = fddata
           \/ f \in FdsOf(fdmap) /\ fdmap' = bitmap_reset(fdmap, 0, f) /\ fddata' = fddata
           \/ \E buffer \in Buffer(FdBytes) :
                fddata' = memcpy(fddata, f * FdBytes, buffer) /\ fdmap' = fdmap
    PROVE  FdTable!DevNext
<1>1. /\ fdmap \in [0 .. (byte_count(Fds) - 1) -> Byte]
      /\ f \in 0 .. (Fds - 1) /\ Fds \in Nat
  BY DEF TypeOK, Fd
<1>2. CASE f \notin FdsOf(fdmap) /\ fdmap' = bitmap_set(fdmap, 0, f) /\ fddata' = fddata
  <2>1. FdsOf(fdmap') = FdsOf(fdmap) \cup {f}
    BY <1>1, <1>2, BitmapsHeld, BitsAfterSet DEF FdsOf
  <2>. QED
    BY <1>2, <2>1, FdTableSteps DEF FdRecordsOf
<1>3. CASE f \in FdsOf(fdmap) /\ fdmap' = bitmap_reset(fdmap, 0, f) /\ fddata' = fddata
  <2>1. FdsOf(fdmap') = FdsOf(fdmap) \ {f}
    BY <1>1, <1>3, BitmapsHeld, BitsAfterReset, SMTT(30) DEF FdsOf
  <2>. QED
    BY <1>3, <2>1, FdTableSteps DEF FdRecordsOf
<1>4. ASSUME NEW buffer \in Buffer(FdBytes),
             fddata' = memcpy(fddata, f * FdBytes, buffer), fdmap' = fdmap
      PROVE  FdTable!DevNext
  <2>1. PICK at \in Nat, end \in Nat :
           at = f * FdBytes /\ end = Fds * FdBytes /\ at + FdBytes <= end
    BY InFds, TimesNat
  <2>2. at + FdBytes <= end
    BY <2>1
  <2>3. fddata \in [0 .. (end - 1) -> Byte]
    BY <2>1 DEF TypeOK
  <2>4. fddata' = memcpy(fddata, at, buffer)
    BY <1>4, <2>1
  <2>5. fddata' \in [0 .. (end - 1) -> Byte]
    BY <2>2, <2>3, <2>4, CopyKeepsMemory
  <2>6. \A a \in 0 .. (end - 1) : a < at \/ at + FdBytes <= a => fddata'[a] = fddata[a]
    BY <2>2, <2>3, <2>4, CopyElsewhere
  <2>7. ASSUME NEW g \in Fd
        PROVE  /\ Copied(fddata', g * FdBytes, FdBytes) \in [1 .. FdBytes -> Byte]
               /\ g # f => Copied(fddata', g * FdBytes, FdBytes) = Copied(fddata, g * FdBytes, FdBytes)
    <3>1. PICK gt \in Nat : gt = g * FdBytes /\ gt + FdBytes <= end
      BY <2>1, InFds
    <3>2. gt + FdBytes <= end
      BY <3>1
    <3>3. Copied(fddata', gt, FdBytes) \in [1 .. FdBytes -> Byte]
      BY <2>5, <3>2, RecordType
    <3>4. ASSUME g # f PROVE Copied(fddata', gt, FdBytes) = Copied(fddata, gt, FdBytes)
      <4>1. at + FdBytes <= gt \/ gt + FdBytes <= at
        <5>1. f \in Nat /\ g \in Nat /\ f # g /\ FdBytes \in Nat
          BY <3>4 DEF Fd
        <5>2. f * FdBytes + FdBytes <= g * FdBytes \/ g * FdBytes + FdBytes <= f * FdBytes
          BY <5>1, RecordsApart, Zenon
        <5>. QED
          BY <2>1, <3>1, <5>2
      <4>2. \A a \in gt .. (gt + FdBytes - 1) :
               a \in 0 .. (end - 1) /\ (a < at \/ at + FdBytes <= a)
        BY <3>2, <4>1
      <4>3. SameBytes(fddata', fddata, gt, gt + FdBytes)
        BY <2>6, <4>2 DEF SameBytes
      <4>. QED
        BY <4>3, RecordKept
    <3>. QED
      BY <3>1, <3>3, <3>4
  <2>8. /\ FdRecordsOf(fddata') \in [Fd -> [1 .. FdBytes -> Byte]]
        /\ \A g \in Fd \ {f} : FdRecordsOf(fddata')[g] = FdRecordsOf(fddata)[g]
    BY <2>7 DEF FdRecordsOf
  <2>. QED
    BY <1>4, <2>8, FdTableSteps
<1>. QED
  BY <1>2, <1>3, <1>4

\* Every operation is one of the table of descriptors, or leaves it alone.
LEMMA FdTableStep ==
    ASSUME TypeOK, [Next]_vars
    PROVE  [FdTable!DevNext]_(FdTable!devVars)
<1>1. CASE block_store_fd_create
  BY <1>1, NewFdsShow, FdTableSteps DEF block_store_fd_create
<1>2. CASE block_store_fd_allocate
  <2>1. PICK f : f = bitmap_ffz(fdmap, 0, Fds) /\ f # B!SIZE_MAX
    BY <1>2 DEF block_store_fd_allocate
  <2>2. f \in Fd /\ f \notin FdsOf(fdmap)
    BY <2>1, FfzIsClear DEF Fd, FdsOf
  <2>. QED
    BY <1>2, <2>1, <2>2, FdSteps DEF block_store_fd_allocate
<1>3. ASSUME NEW f \in Fd,
             \/ block_store_fd_release(f)
             \/ \E buffer \in Buffer(FdBytes) : block_store_fd_write(f, buffer)
      PROVE  FdTable!DevNext
  <2>1. f \in FdsOf(fdmap) <=> bitmap_test(fdmap, 0, f)
    BY DEF FdsOf, Bits, Fd
  <2>. QED
    BY <1>3, <2>1, FdSteps DEF block_store_fd_release, block_store_fd_write
<1>4. CASE fdmap' = fdmap /\ fddata' = fddata
  BY <1>4, FdTableSteps
<1>. QED
  BY <1>1, <1>2, <1>3, <1>4
     DEF Next, vars, block_store_create, block_store_allocate, block_store_request,
         block_store_release, block_store_write, block_store_n_write,
         block_store_inode_allocate, block_store_inode_release, block_store_inode_write

\* When clients keep to the user's blocks, as F17FS.c does, the inodes, whose
\* bitmap and records are in the first blocks of the device, and the descriptors
\* are tables of their own: no block written reaches an inode, and of the calls
\* on them each reaches one record (block_store.c:98-139, 192-290, 361-430).
THEOREM StoresAreTables ==
    ASSUME Ids \subseteq UserBlocks
    PROVE  Spec => AreTables
<1>1. Init => InodeTable!DevInit /\ FdTable!DevInit
  BY NewDeviceHasNoInodes, NewFdsShow
     DEF Init, InodeTable!DevInit, FdTable!DevInit, InodesOf, RecordsOf, RecordAt, FdsOf, FdRecordsOf,
         block_store_inode_read, block_store_fd_read
<1>2. TypeOK /\ [Next]_vars
        => [InodeTable!DevNext]_(InodeTable!devVars) /\ [FdTable!DevNext]_(FdTable!devVars)
  BY InodeTableStep, FdTableStep
<1>. QED
  BY <1>1, <1>2, TypeCorrect, PTL
     DEF Spec, AreTables, InodeTable!DevSpec, FdTable!DevSpec

-----------------------------------------------------------------------------
(* The count of free blocks *)

\* Bit c of byte q is bit w * q + c of the bitmap.
LEMMA BitOfByte ==
    ASSUME NEW w \in Nat \ {0}, NEW q \in Nat, NEW c \in 0 .. (w - 1)
    PROVE  /\ w * q + c \in Nat
           /\ (w * q + c) \div w = q
           /\ (w * q + c) % w = c
<1>1. PICK i \in Nat : i = w * q + c
  OBVIOUS
<1>2. i \div w \in Nat /\ i % w \in 0 .. (w - 1) /\ i = w * (i \div w) + (i % w)
  BY DivMod
<1>3. i \div w = q
  <2>1. PICK k \in Nat, r \in 0 .. (w - 1) : k = i \div w /\ r = i % w /\ i = w * k + r
    BY <1>2
  <2>2. ASSUME k < q PROVE FALSE
    <3>1. (k + 1) * w <= q * w
      BY <2>2, TimesMonotone
    <3>2. (k + 1) * w = w * k + w /\ q * w = w * q /\ w * k \in Nat /\ w * q \in Nat
      OBVIOUS
    <3>. QED
      BY <1>1, <2>1, <3>1, <3>2
  <2>3. ASSUME q < k PROVE FALSE
    <3>1. (q + 1) * w <= k * w
      BY <2>3, TimesMonotone
    <3>2. (q + 1) * w = w * q + w /\ k * w = w * k /\ w * k \in Nat /\ w * q \in Nat
      OBVIOUS
    <3>. QED
      BY <1>1, <2>1, <3>1, <3>2
  <2>. QED
    BY <2>1, <2>2, <2>3
<1>4. i % w = c
  <2>1. PICK m \in Nat : m = w * q
    OBVIOUS
  <2>2. i = m + (i % w)
    BY <1>2, <1>3, <2>1
  <2>. QED
    BY <1>1, <1>2, <2>1, <2>2
<1>. QED
  BY <1>1, <1>3, <1>4

\* The total of bytes that all have all bits set.  The sum is a recursive function
\* of sets: a multiple of the number of elements solves its equation, and nothing
\* else does, or there would be a smallest set to differ on.
LEMMA TotalOfFullBytes ==
    ASSUME NEW mem, NEW S, IsFiniteSet(S), \A a \in S : mem[a] = Bit
    PROVE  TotalOfBytes(mem, S) = ByteBits * Cardinality(S)
<1>. DEFINE one(s) == CHOOSE y \in s : TRUE
            Sums(it) == it = [s \in SUBSET S |->
                                IF s = {} THEN 0 ELSE Cardinality(mem[one(s)]) + it[s \ {one(s)}]]
            all == [s \in SUBSET S |-> ByteBits * Cardinality(s)]
<1>1. TotalOfBytes(mem, S) = (CHOOSE it : Sums(it))[S]
  BY DEF TotalOfBytes, MapThenSumSet, MapThenFoldSet
<1>2. Cardinality(Bit) = ByteBits
  BY FS_Interval DEF Bit
<1>3. \A s \in SUBSET S : IsFiniteSet(s) /\ Cardinality(s) \in Nat
  BY FS_Subset, FS_CardinalityType
<1>4. ASSUME NEW s \in SUBSET S, s # {}
      PROVE  /\ one(s) \in s /\ Cardinality(mem[one(s)]) = ByteBits
             /\ s \ {one(s)} \in SUBSET S
             /\ Cardinality(s \ {one(s)}) = Cardinality(s) - 1
             /\ ByteBits * Cardinality(s) = ByteBits + ByteBits * Cardinality(s \ {one(s)})
  <2>1. one(s) \in s
    BY <1>4
  <2>. HIDE DEF one
  <2>2. Cardinality(mem[one(s)]) = ByteBits
    <3>1. mem[one(s)] = Bit
      BY <2>1
    <3>. QED
      BY <1>2, <3>1
  <2>3. Cardinality(s \ {one(s)}) = Cardinality(s) - 1
    BY <1>3, <2>1, FS_RemoveElement
  <2>4. PICK n \in Nat, m \in Nat :
           n = Cardinality(s) /\ m = Cardinality(s \ {one(s)}) /\ n = m + 1
    <3>1. s \ {one(s)} \in SUBSET S
      OBVIOUS
    <3>2. Cardinality(s) \in Nat /\ Cardinality(s \ {one(s)}) \in Nat
      BY <1>3, <3>1
    <3>. QED
      BY <2>3, <3>2
  <2>5. ByteBits * (m + 1) = ByteBits + ByteBits * m
    OBVIOUS
  <2>. HIDE DEF one
  <2>. QED
    BY <2>1, <2>2, <2>3, <2>4, <2>5
<1>. HIDE DEF one
<1>5. Sums(all)
  <2>1. ASSUME NEW s \in SUBSET S
        PROVE  all[s] = IF s = {} THEN 0 ELSE Cardinality(mem[one(s)]) + all[s \ {one(s)}]
    <3>1. CASE s = {}
      <4>1. Cardinality(s) = 0
        BY <3>1, FS_EmptySet
      <4>. QED
        BY <3>1, <4>1
    <3>2. CASE s # {}
      BY <1>4, <3>2
    <3>. QED
      BY <3>1, <3>2
  <2>. QED
    BY <2>1
<1>6. ASSUME NEW it, Sums(it) PROVE it[S] = ByteBits * Cardinality(S)
  <2>. DEFINE Wrong == {n \in Nat : \E s \in SUBSET S : Cardinality(s) = n /\ it[s] # ByteBits * n}
  <2>1. \A s \in SUBSET S :
           it[s] = IF s = {} THEN 0 ELSE Cardinality(mem[one(s)]) + it[s \ {one(s)}]
    BY <1>6
  <2>. HIDE DEF Sums
  <2>2. ASSUME Wrong # {} PROVE FALSE
    <3>1. Min(Wrong) \in Wrong /\ \A y \in Wrong : Min(Wrong) <= y
      BY <2>2, MinProperties
    <3>2. PICK n \in Nat : n = Min(Wrong)
      BY <3>1
    <3>3. PICK s \in SUBSET S : Cardinality(s) = n /\ it[s] # ByteBits * n
      BY <3>1, <3>2
    <3>4. s # {}
      <4>. SUFFICES ASSUME s = {} PROVE FALSE
        OBVIOUS
      <4>1. it[s] = 0
        BY <2>1
      <4>2. n = 0
        BY <3>3, FS_EmptySet
      <4>3. ByteBits * n = 0
        BY <4>2
      <4>. QED
        BY <3>3, <4>1, <4>3
    <3>5. PICK t \in SUBSET S : t = s \ {one(s)}
      OBVIOUS
    <3>6. Cardinality(t) = n - 1 /\ Cardinality(t) \in Nat
      BY <1>3, <1>4, <3>3, <3>4, <3>5
    <3>7. it[t] = ByteBits * Cardinality(t)
      <4>1. Cardinality(t) \notin Wrong
        BY <3>1, <3>2, <3>6
      <4>. QED
        BY <3>6, <4>1
    <3>8. it[s] = ByteBits + it[t]
      BY <1>4, <2>1, <3>4, <3>5
    <3>9. ByteBits * Cardinality(s) = ByteBits + ByteBits * Cardinality(t)
      BY <1>4, <3>4, <3>5
    <3>. QED
      BY <3>3, <3>7, <3>8, <3>9
  <2>3. S \in SUBSET S /\ Cardinality(S) \in Nat
    BY <1>3
  <2>. QED
    BY <2>2, <2>3
<1>. HIDE DEF Sums, all
<1>7. Sums(CHOOSE it : Sums(it))
  BY <1>5
<1>. QED
  BY <1>1, <1>6, <1>7

\* When every bit of the map is set, the count of free blocks is zero.
LEMMA FullMapCount ==
    ASSUME TypeOK, fbm = 0 .. (NumBlocks - 1)
    PROVE  block_store_get_free_blocks = 0
<1>1. PICK n \in Nat :
         n = FbmBlocks * BlockBytes /\ NumBlocks = ByteBits * n /\ NumBytes = MapAt + n
  BY Layout
<1>2. MapAt \in Nat /\ NumBlocks \in Nat
  BY Layout
<1>3. NumBlocks \div ByteBits = n /\ NumBlocks % ByteBits = 0
  <2>1. ByteBits * n + 0 = NumBlocks /\ 0 \in 0 .. (ByteBits - 1)
    BY <1>1, <1>2
  <2>2. (ByteBits * n + 0) \div ByteBits = n /\ (ByteBits * n + 0) % ByteBits = 0
    BY <2>1, BitOfByte
  <2>. QED
    BY <2>1, <2>2
<1>4. ASSUME NEW a \in MapAt .. (MapAt + n - 1) PROVE data[a] = Bit
  <2>1. data[a] \subseteq Bit
    BY <1>1, <1>2 DEF TypeOK, Byte
  <2>2. ASSUME NEW c \in Bit PROVE c \in data[a]
    <3>1. PICK q \in Nat : q = a - MapAt /\ q <= n - 1
      BY <1>2
    <3>2. PICK i \in Nat : i = ByteBits * q + c /\ i \div ByteBits = q /\ i % ByteBits = c
      BY BitOfByte DEF Bit
    <3>3. i < NumBlocks
      <4>1. (q + 1) * ByteBits <= n * ByteBits
        BY <3>1, TimesMonotone
      <4>2. /\ (q + 1) * ByteBits = ByteBits * q + ByteBits
            /\ n * ByteBits = ByteBits * n /\ ByteBits * q \in Nat
        OBVIOUS
      <4>. QED
        BY <1>1, <3>2, <4>1, <4>2 DEF Bit
    <3>4. bitmap_test(data, MapAt, i)
      <4>1. i \in fbm
        BY <1>2, <3>2, <3>3
      <4>. QED
        BY <4>1 DEF fbm, Bits
    <3>5. MapAt + q = a /\ a \in Int
      BY <1>2, <3>1
    <3>. QED
      BY <3>2, <3>4, <3>5 DEF bitmap_test
  <2>. QED
    BY <2>1, <2>2
<1>5. PICK S : S = MapAt .. (MapAt + n - 1)
  OBVIOUS
<1>6. IsFiniteSet(S) /\ Cardinality(S) = n
  BY <1>2, <1>5, FS_Interval
<1>7. TotalOfBytes(data, S) = NumBlocks
  BY <1>1, <1>4, <1>5, <1>6, TotalOfFullBytes
<1>8. bitmap_total_set(data, MapAt, NumBlocks) = TotalOfBytes(data, S) + 0
  BY <1>3, <1>5 DEF bitmap_total_set
<1>. QED
  BY <1>2, <1>7, <1>8 DEF block_store_get_free_blocks, block_store_get_used_blocks

\* The count of free blocks tells the truth: when it is not zero, allocate finds a
\* block, and one below the map (block_store.c:176-190, 293-320; get_data_block_id,
\* F17FS.c:557-640, asks for the count and uses what allocate returns without a test).
THEOREM CountIsHonest ==
    ASSUME Ids \subseteq 0 .. (AvailBlocks - 1)
    PROVE  Spec => []FreeCountHonest
<1>1. TypeOK /\ MapIsReserved => FreeCountHonest
  <2>. SUFFICES ASSUME TypeOK, MapIsReserved, block_store_get_free_blocks >= 1
                PROVE  bitmap_ffz(data, MapAt, NumBlocks) \in 0 .. (AvailBlocks - 1)
    BY DEF FreeCountHonest
  <2>. DEFINE clear == (0 .. (NumBlocks - 1)) \ fbm
  <2>1. fbm # 0 .. (NumBlocks - 1)
    BY FullMapCount
  <2>2. clear # {}
    BY <2>1 DEF fbm, Bits
  <2>3. Min(clear) \in clear
    BY <2>2, Layout, MinProperties
  <2>4. bitmap_ffz(data, MapAt, NumBlocks) = Min(clear)
    BY <2>2 DEF bitmap_ffz, First, fbm
  <2>5. Min(clear) \in 0 .. (NumBlocks - 1) /\ Min(clear) \notin AvailBlocks .. (NumBlocks - 1)
    BY <2>3 DEF MapIsReserved
  <2>. QED
    BY <2>4, <2>5, Layout
<1>. QED
  BY <1>1, TypeCorrect, MapStaysReserved, PTL
=============================================================================
