---------------------------- MODULE BitmapBytes ----------------------------
(***************************************************************************)
(* The bitmaps of bitmap.c as bytes in memory.  Memory is a function from  *)
(* addresses to bytes, a byte the set of its bits that are set; a bitmap   *)
(* of n bits is the byte_count(n) bytes from its address on, of which the  *)
(* last may have bits past the end, with any value.  An overlay is a       *)
(* bitmap at an address in the memory of something else.                   *)
(***************************************************************************)
EXTENDS Integers, Sequences, FiniteSetsExt

CONSTANT ByteBits       \* 8

ASSUME ByteAssumption == ByteBits \in Nat \ {0}

Bit  == 0 .. (ByteBits - 1)
Byte == SUBSET Bit

\* The same bitmap as the set of the positions of its bits that are set.
B == INSTANCE Bitmap

byte_count(n) == (n \div ByteBits) + (IF n % ByteBits = 0 THEN 0 ELSE 1)

bitmap_create(n) == [a \in 0 .. (byte_count(n) - 1) |-> {}]

bitmap_set(mem, at, i) ==
    [mem EXCEPT ![at + (i \div ByteBits)] = @ \cup {i % ByteBits}]

\* Mutant: the mask clears the whole byte.
bitmap_reset_byte(mem, at, i) == [mem EXCEPT ![at + (i \div ByteBits)] = {}]

bitmap_reset(mem, at, i) ==
    [mem EXCEPT ![at + (i \div ByteBits)] = @ \ {i % ByteBits}]

bitmap_test(mem, at, i) == i % ByteBits \in mem[at + (i \div ByteBits)]

bitmap_flip(mem, at, i) ==
    [mem EXCEPT ![at + (i \div ByteBits)] = (@ \ {i % ByteBits}) \cup ({i % ByteBits} \ @)]

\* Every byte of the bitmap, the bits past its end included.
OnBytes(mem, at, n, Op(_)) ==
    [a \in DOMAIN mem |-> IF a \in at .. (at + byte_count(n) - 1) THEN Op(mem[a]) ELSE mem[a]]

bitmap_invert(mem, at, n) == OnBytes(mem, at, n, LAMBDA byte : Bit \ byte)

bitmap_format(mem, at, n, pattern) == OnBytes(mem, at, n, LAMBDA byte : pattern)

Bits(mem, at, n) == {i \in 0 .. (n - 1) : bitmap_test(mem, at, i)}

First(S) == IF S = {} THEN B!SIZE_MAX ELSE Min(S)

bitmap_ffs(mem, at, n) == First(Bits(mem, at, n))

bitmap_ffz(mem, at, n) == First((0 .. (n - 1)) \ Bits(mem, at, n))

TotalOfBytes(mem, S) == MapThenSumSet(LAMBDA a : Cardinality(mem[a]), S)

\* Mutant: the bits past the end are counted too.
UnmaskedTotal(mem, at, n) == TotalOfBytes(mem, at .. (at + byte_count(n) - 1))

\* The whole bytes by a table of totals, and the last one masked.
bitmap_total_set(mem, at, n) ==
    LET whole == n \div ByteBits
        left  == n % ByteBits
    IN  TotalOfBytes(mem, at .. (at + whole - 1))
        + (IF left = 0 THEN 0 ELSE Cardinality(mem[at + whole] \cap 0 .. (left - 1)))

\* The positions the function is called with, in the order of the calls.
bitmap_for_each(mem, at, n) ==
    SelectSeq([i \in 1 .. n |-> i - 1], LAMBDA i : bitmap_test(mem, at, i))

bitmap_import(n, source) == [a \in 0 .. (byte_count(n) - 1) |-> source[a]]

-----------------------------------------------------------------------------
\* On a bitmap of n bits, whatever is in the bits past its end, each operation
\* on the bytes does what it does on the set of positions, and leaves the
\* memory around it alone: here a byte before and a byte after.
AgreesWithSet(n) ==
    LET last  == byte_count(n) + 1
        Around(mem) == mem[0] = Bit /\ mem[last] = Bit
    IN  \A data \in [1 .. byte_count(n) -> Byte] :
          LET mem == [a \in 0 .. last |-> IF a \in {0, last} THEN Bit ELSE data[a]]
              set == Bits(mem, 1, n)
              Is(m, s) == Around(m) /\ Bits(m, 1, n) = s
          IN  /\ \A i \in 0 .. (n - 1) :
                   /\ Is(bitmap_set(mem, 1, i), B!bitmap_set(set, i))
                   /\ Is(bitmap_reset(mem, 1, i), B!bitmap_reset(set, i))
                   /\ Is(bitmap_flip(mem, 1, i),
                         IF i \in set THEN B!bitmap_reset(set, i) ELSE B!bitmap_set(set, i))
                   /\ bitmap_test(mem, 1, i) = B!bitmap_test(set, i)
              /\ Is(bitmap_invert(mem, 1, n), B!ClearBits(set, n))
              /\ \A pattern \in Byte :
                   Is(bitmap_format(mem, 1, n, pattern),
                      {i \in 0 .. (n - 1) : i % ByteBits \in pattern})
              /\ bitmap_ffz(mem, 1, n) = B!bitmap_ffz(set, n)
              /\ bitmap_ffs(mem, 1, n) = B!bitmap_ffz(B!ClearBits(set, n), n)
              /\ bitmap_total_set(mem, 1, n) = B!bitmap_total_set(set)
              /\ LET calls == bitmap_for_each(mem, 1, n)
                 IN  /\ {calls[k] : k \in DOMAIN calls} = set
                     /\ \A k, l \in DOMAIN calls : k < l => calls[k] < calls[l]
              /\ Bits(bitmap_import(n, [a \in 0 .. (last - 2) |-> data[a + 1]]), 0, n) = set
=============================================================================
