------------------------------- MODULE Bitmap -------------------------------
(***************************************************************************)
(* The bitmaps of bitmap.c, as far as the file system uses them.  A bitmap *)
(* of n bits is the set of the positions, in 0 .. n-1, whose bit is set.   *)
(***************************************************************************)
EXTENDS Integers, FiniteSetsExt

\* The error result of the operations that return a size_t.
SIZE_MAX == -1

\* Mutant: the scan runs one position past the end.
ClearBitsInclusive(bits, n) == (0 .. n) \ bits

\* The positions of a bitmap of n bits whose bit is clear.
ClearBits(bits, n) == (0 .. (n - 1)) \ bits

bitmap_set(bits, i) == bits \cup {i}

\* Mutant: the bit is not cleared.
bitmap_keep(bits, i) == bits

bitmap_reset(bits, i) == bits \ {i}

bitmap_test(bits, i) == i \in bits

bitmap_total_set(bits) == Cardinality(bits)

\* The scan for the first clear bit: the least clear position, or SIZE_MAX
\* when it runs off the end of the bitmap.
bitmap_ffz(bits, n) ==
    IF ClearBits(bits, n) = {} THEN SIZE_MAX ELSE Min(ClearBits(bits, n))
=============================================================================
