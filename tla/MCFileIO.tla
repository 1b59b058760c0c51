------------------------------ MODULE MCFileIO ------------------------------
(***************************************************************************)
(* Instances of FileIO for TLC: one direct pointer and index tables of two *)
(* entries, over blocks of one byte or two.                                *)
(***************************************************************************)
EXTENDS FileIOInvariant, TLC

CONSTANTS x, y, f1, f2

\* A buffer within a block, and one that reaches into a third one.
ShortAndLong == {<<x>>, <<y, x, y>>}

\* The same with one byte value, for runs that tell files apart and not bytes.
OneByteOrThree == {<<x>>, <<x, x, x>>}

AroundTheEnds == {-1, 1}

\* The locations a seek finds, and all of them: of the last block of the direct
\* pointers only the start is found.
LocationsFound == {n \in 0 .. 64 : n \notin
    ((DIRECT_BLOCKS - 1) * BLOCK_SIZE_BYTES + 1) .. (DIRECT_BLOCKS * BLOCK_SIZE_BYTES - 1)}
AllLocations == 0 .. 64

Whole == ~torn

FileSymmetry == Permutations(File)
=============================================================================
