-------------------------- MODULE FileIOInvariant ---------------------------
(***************************************************************************)
(* The inductive invariant of FileIO: which pointers of a file are set and *)
(* where they lead.                                                        *)
(*                                                                         *)
(* The pointers of a file are numbered.  The n-th data block is at place   *)
(* n, the indirect pointer at -1, the double indirect one at -2, and the   *)
(* entry o of the outer index table at -3 - o.  A file of n blocks has set *)
(* the pointers at the places that come First before n.                    *)
(*                                                                         *)
(* It is stated of a map F, blocks B, records R of the files and counts C  *)
(* of their data blocks, so that it can be asked of a call in progress.    *)
(***************************************************************************)
EXTENDS FileIO

Meta == 0 .. (MetaBlocks - 1)

Bytes == [Offset -> Byte \cup {Stale}]
Table == [Index -> Block]

\* The first data block below the double indirect pointer, and below none.
Below2 == DIRECT_BLOCKS + INDIRECT_BLOCKS
Below3 == Below2 + INDIRECT_BLOCKS * INDIRECT_BLOCKS

\* The first data block of an inner index table; the table of a data block and
\* its place in it.
Row(o)      == Below2 + o * INDIRECT_BLOCKS
RowOf(n)    == (n - Below2) \div INDIRECT_BLOCKS
ColumnOf(n) == (n - Below2) % INDIRECT_BLOCKS

Place == (-(INDIRECT_BLOCKS + 2)) .. (Below3 - 1)

\* The data block that is the first one to need the pointer.
First(p) ==
    IF p >= 0 THEN p
    ELSE IF p = -1 THEN DIRECT_BLOCKS
    ELSE IF p = -2 THEN Below2
    ELSE Row(-3 - p)

\* The places of the pointers that a file of n blocks has set.
Set(n) == {p \in Place : First(p) < n}

\* The n-th data block of the file with the record r.
Nth(r, B, n) ==
    IF n < DIRECT_BLOCKS THEN r.directPointer[n]
    ELSE IF n < Below2 THEN B[r.indirectPointer][n - DIRECT_BLOCKS]
    ELSE B[B[r.doubleIndirectPointer][RowOf(n)]][ColumnOf(n)]

\* What the pointer at place p is.
Ptr(r, B, p) ==
    IF p >= 0 THEN Nth(r, B, p)
    ELSE IF p = -1 THEN r.indirectPointer
    ELSE IF p = -2 THEN r.doubleIndirectPointer
    ELSE B[r.doubleIndirectPointer][-3 - p]

\* A file of n blocks has set the pointers it needs, and no others.
Shape(r, B, n) ==
    /\ n <= Below3
    /\ \A k \in Order : r.directPointer[k] # 0 <=> k < n
    /\ r.indirectPointer # 0 <=> DIRECT_BLOCKS < n
    /\ r.doubleIndirectPointer # 0 <=> Below2 < n
    /\ DIRECT_BLOCKS < n =>
         /\ B[r.indirectPointer] \in Table
         /\ \A k \in Index : B[r.indirectPointer][k] # 0 <=> DIRECT_BLOCKS + k < n
    /\ Below2 < n =>
         /\ B[r.doubleIndirectPointer] \in Table
         /\ \A o \in Index : B[r.doubleIndirectPointer][o] # 0 <=> Row(o) < n
    /\ \A o \in Index : Row(o) < n =>
         LET inner == B[r.doubleIndirectPointer][o]
         IN  /\ B[inner] \in Table
             /\ \A k \in Index : B[inner][k] # 0 <=> Row(o) + k < n

Typed(F, B, R, C) ==
    /\ F \subseteq Block
    /\ B \in [Block -> Bytes \cup Table]
    /\ R \in [File -> InodeRecord]
    /\ C \in [File -> Nat]

\* The pointers lead to blocks in use, each to one of its own.
PointersApart(F, B, R, C) ==
    /\ \A i \in File : \A p \in Set(C[i]) : Ptr(R[i], B, p) \in F \ Meta
    /\ \A i, j \in File : \A p \in Set(C[i]), q \in Set(C[j]) :
         Ptr(R[i], B, p) = Ptr(R[j], B, q) => i = j /\ p = q

\* No block is lost.
AllPointedTo(F, B, R, C) ==
    /\ Meta \subseteq F
    /\ \A b \in F \ Meta : \E i \in File : \E p \in Set(C[i]) : b = Ptr(R[i], B, p)

\* Data blocks hold bytes, and free ones nothing that was written.
BlocksHold(F, B, R, C) ==
    /\ \A i \in File : \A n \in 0 .. (C[i] - 1) : B[Nth(R[i], B, n)] \in Bytes
    /\ \A b \in Block \ F : B[b] = Unwritten

Sound(F, B, R, C) ==
    /\ Typed(F, B, R, C)
    /\ \A i \in File : Shape(R[i], B, C[i])
    /\ PointersApart(F, B, R, C)
    /\ AllPointedTo(F, B, R, C)
    /\ BlocksHold(F, B, R, C)

\* The number of data blocks of each file.
Sizes == [i \in File |-> CeilDiv(inode[i].fileSize, BLOCK_SIZE_BYTES)]

\* A descriptor is on a file there is, and not past its end.
FdSound(d) ==
    /\ d.inodeNum \in imap
    /\ InTable(d) => getFileSize(d) <= inode[d.inodeNum].fileSize

\* As long as no remove was torn, the pointers of each file are those its size
\* needs, they lead to blocks of its own, and its descriptors stay within it:
\* what get_data_block_id, fs_write and fs_remove rely on and never test
\* (F17FS.c:543-664, 689-767, 856-912).
FilesSound ==
    ~torn =>
        /\ Sound(fbm, block, inode, Sizes)
        /\ \A i \in File \ imap : inode[i] = EmptyInode
        /\ \A f \in OpenFds : FdSound(fd[f])

\* The locations that seek does not find: of the last block of the direct
\* pointers all but the start (F17FS.c:992-1005).
Gap(x) == x \div BLOCK_SIZE_BYTES = DIRECT_BLOCKS - 1 /\ x % BLOCK_SIZE_BYTES # 0

NoSeekIntoGap == \A x \in Locations : ~Gap(x)

\* The inductive invariant.
FilesInv == TypeOK /\ FilesSound
=============================================================================
