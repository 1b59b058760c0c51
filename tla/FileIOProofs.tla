---------------------------- MODULE FileIOProofs -----------------------------
(***************************************************************************)
(* Theorems about FileIO, for every value of its constants: the invariant  *)
(* of FileIOInvariant is inductive, and the properties that follow from it.*)
(*                                                                         *)
(* The long part is get_data_block_id: each of its six ways to take blocks *)
(* for a file gives the file one data block more, with the index tables it *)
(* is the first to need, and moves no pointer that there was.  A read or a *)
(* write is then followed turn by turn.                                    *)
(***************************************************************************)
EXTENDS FileIOInvariant, BitmapProofs

-----------------------------------------------------------------------------
(* Numbers *)

\* The sizes, from the assumption on the constants.
LEMMA Sizing ==
    /\ NumFds \in Nat
    /\ MetaBlocks \in Nat \ {0} /\ NumBlocks \in Nat /\ MetaBlocks <= NumBlocks
    /\ DIRECT_BLOCKS \in Nat \ {0}
    /\ INDIRECT_BLOCKS \in Nat \ {0}
    /\ BLOCK_SIZE_BYTES \in Nat \ {0}
    /\ NumBlocks <= 65536 /\ DIRECT_BLOCKS <= 65536 /\ INDIRECT_BLOCKS < 65536
BY FileIOAssumption

\* The product of two naturals, and of the larger of two.
LEMMA Products ==
    ASSUME NEW a \in Nat, NEW b \in Nat, NEW c \in Nat
    PROVE  /\ a * c \in Nat
           /\ (a + 1) * c = a * c + c
           /\ a <= b => a * c <= b * c
<1>1. a * c \in Nat /\ b * c \in Nat
  OBVIOUS
<1>2. (a + 1) * c = a * c + c
  OBVIOUS
<1>3. a <= b => a * c <= b * c
  OBVIOUS
<1>. QED
  BY <1>1, <1>2, <1>3

\* Division with a remainder.
LEMMA Division ==
    ASSUME NEW n \in Nat, NEW w \in Nat \ {0}
    PROVE  /\ n \div w \in Nat
           /\ n % w \in 0 .. (w - 1)
           /\ n = (n \div w) * w + (n % w)
OBVIOUS

\* There is one way to divide.
LEMMA DivisionUnique ==
    ASSUME NEW w \in Nat \ {0}, NEW o \in Nat, NEW k \in 0 .. (w - 1)
    PROVE  (o * w + k) \div w = o /\ (o * w + k) % w = k
<1> DEFINE n == o * w + k
<1>1. n \in Nat
  BY Products
<1> HIDE DEF n
<1> DEFINE q == n \div w
<1> DEFINE m == n % w
<1>2. q \in Nat /\ m \in 0 .. (w - 1) /\ n = q * w + m
  BY <1>1, Division
<1> HIDE DEF q, m
<1>3. q * w + m = o * w + k
  BY <1>2 DEF n
<1>4. ~(q < o)
  <2>1. SUFFICES ASSUME q + 1 <= o PROVE FALSE
    BY <1>2
  <2>2. (q + 1) * w <= o * w /\ (q + 1) * w = q * w + w
    BY <1>2, <2>1, Products
  <2>3. q * w \in Nat /\ o * w \in Nat
    BY <1>2, Products
  <2>. QED
    BY <1>2, <1>3, <2>2, <2>3
<1>5. ~(o < q)
  <2>1. SUFFICES ASSUME o + 1 <= q PROVE FALSE
    BY <1>2
  <2>2. (o + 1) * w <= q * w /\ (o + 1) * w = o * w + w
    BY <1>2, <2>1, Products
  <2>3. q * w \in Nat /\ o * w \in Nat
    BY <1>2, Products
  <2>. QED
    BY <1>2, <1>3, <2>2, <2>3
<1>6. q = o
  BY <1>2, <1>4, <1>5
<1>7. q * w = o * w /\ o * w \in Nat
  BY <1>6, Products
<1>8. m = k
  BY <1>2, <1>3, <1>7
<1>. QED
  BY <1>6, <1>8 DEF q, m, n

\* The inner index tables follow each other.
LEMMA Rows ==
    /\ Below2 \in Nat /\ Below3 \in Nat /\ DIRECT_BLOCKS < Below2 /\ Below2 < Below3
    /\ Below2 = DIRECT_BLOCKS + INDIRECT_BLOCKS
    /\ 0 \in Index
    /\ Row(0) = Below2
    /\ \A o \in Index : Row(o) \in Nat /\ Below2 <= Row(o) /\ Row(o) + INDIRECT_BLOCKS <= Below3
    /\ \A o, u \in Index : o < u => Row(o) + INDIRECT_BLOCKS <= Row(u)
<1> DEFINE w == INDIRECT_BLOCKS
<1>1. w \in Nat \ {0} /\ DIRECT_BLOCKS \in Nat \ {0}
  BY Sizing
<1>2. Below2 \in Nat /\ Below2 = DIRECT_BLOCKS + w /\ DIRECT_BLOCKS < Below2
  BY <1>1 DEF Below2
<1>3. w * w \in Nat /\ w <= w * w
  <2>1. 1 * w <= w * w /\ 1 * w = w
    BY <1>1, Products
  <2>. QED
    BY <1>1, <2>1, Products
<1>4. Below3 = Below2 + w * w
  BY DEF Below3
<1>5. Index = 0 .. (w - 1)
  BY DEF Index
<1>6. \A o : Row(o) = Below2 + o * w
  BY DEF Row
<1> HIDE DEF w
<1>7. Row(0) = Below2
  BY <1>1, <1>2, <1>6
<1>8. ASSUME NEW o \in Index
      PROVE  /\ Row(o) \in Nat /\ Below2 <= Row(o)
             /\ Row(o) + w <= Below3
             /\ \A u \in Index : o < u => Row(o) + w <= Row(u)
  <2>1. o \in Nat /\ o + 1 <= w
    BY <1>1, <1>5
  <2>2. o * w \in Nat /\ (o + 1) * w = o * w + w /\ (o + 1) * w <= w * w
    BY <1>1, <2>1, Products
  <2>3. ASSUME NEW u \in Index, o < u
        PROVE  Row(o) + w <= Row(u)
    <3>1. u \in Nat /\ o + 1 <= u
      BY <1>1, <1>5, <2>1, <2>3
    <3>2. (o + 1) * w <= u * w /\ u * w \in Nat
      BY <1>1, <2>1, <3>1, Products
    <3>. QED
      BY <1>1, <1>2, <1>6, <2>2, <3>2
  <2>. QED
    BY <1>1, <1>2, <1>3, <1>4, <1>6, <2>2, <2>3
<1>. QED
  BY <1>1, <1>2, <1>3, <1>4, <1>5, <1>7, <1>8 DEF w

\* Where the data blocks below the double indirect pointer are.
LEMMA RowSplit ==
    ASSUME NEW n \in Nat, Below2 <= n, n < Below3
    PROVE  /\ RowOf(n) \in Index /\ ColumnOf(n) \in Index
           /\ n = Row(RowOf(n)) + ColumnOf(n)
<1> DEFINE w == INDIRECT_BLOCKS
<1> DEFINE m == n - Below2
<1>1. w \in Nat \ {0} /\ Below2 \in Nat
  BY Sizing, Rows
<1>2. m \in Nat /\ m < w * w
  BY <1>1, Rows DEF Below3
<1>3. Index = 0 .. (w - 1)
  BY DEF Index
<1>4. RowOf(n) = m \div w /\ ColumnOf(n) = m % w
  BY DEF RowOf, ColumnOf
<1> HIDE DEF w, m
<1>5. m \div w \in Nat /\ m % w \in 0 .. (w - 1) /\ m = (m \div w) * w + (m % w)
  BY <1>1, <1>2, Division
<1>6. m \div w < w
  <2>1. SUFFICES ASSUME w <= m \div w PROVE FALSE
    BY <1>1, <1>5
  <2>2. w * w <= (m \div w) * w /\ w * w \in Nat /\ (m \div w) * w \in Nat
    BY <1>1, <1>5, <2>1, Products
  <2>. QED
    BY <1>1, <1>2, <1>5, <2>2
<1>7. n = Row(m \div w) + (m % w)
  <2>1. Row(m \div w) = Below2 + (m \div w) * w
    BY DEF Row, w
  <2>2. n = Below2 + m
    BY <1>1 DEF m
  <2>3. (m \div w) * w \in Nat
    BY <1>1, <1>5, Products
  <2>. QED
    BY <1>1, <1>2, <1>5, <2>1, <2>2, <2>3
<1>. QED
  BY <1>1, <1>3, <1>4, <1>5, <1>6, <1>7

\* The entry of an inner table that is a data block, back from the block.
LEMMA RowJoin ==
    ASSUME NEW o \in Index, NEW k \in Index
    PROVE  /\ Row(o) + k \in Nat /\ Below2 <= Row(o) + k /\ Row(o) + k < Below3
           /\ RowOf(Row(o) + k) = o /\ ColumnOf(Row(o) + k) = k
<1>1. INDIRECT_BLOCKS \in Nat \ {0} /\ Below2 \in Nat /\ Index = 0 .. (INDIRECT_BLOCKS - 1)
  BY Sizing, Rows DEF Index
<1>2. Row(o) \in Nat /\ Below2 <= Row(o) /\ Row(o) + INDIRECT_BLOCKS <= Below3 /\ Below3 \in Nat
  BY Rows
<1>3. o \in Nat /\ o * INDIRECT_BLOCKS \in Nat
  BY <1>1, Products
<1>4. (Row(o) + k) - Below2 = o * INDIRECT_BLOCKS + k
  BY <1>1, <1>3 DEF Row
<1>5. /\ (o * INDIRECT_BLOCKS + k) \div INDIRECT_BLOCKS = o
      /\ (o * INDIRECT_BLOCKS + k) % INDIRECT_BLOCKS = k
  BY <1>1, <1>3, DivisionUnique
<1>6. RowOf(Row(o) + k) = o /\ ColumnOf(Row(o) + k) = k
  <2>1. /\ RowOf(Row(o) + k) = ((Row(o) + k) - Below2) \div INDIRECT_BLOCKS
        /\ ColumnOf(Row(o) + k) = ((Row(o) + k) - Below2) % INDIRECT_BLOCKS
    BY DEF RowOf, ColumnOf
  <2>. QED
    BY <1>4, <1>5, <2>1, Zenon
<1>. QED
  BY <1>1, <1>2, <1>6

-----------------------------------------------------------------------------
(* The free blocks *)

\* The blocks up to one are those up to the one before, and it.
LEMMA CountUpTo ==
    ASSUME NEW G \in SUBSET Nat, NEW b \in Nat
    PROVE  /\ IsFiniteSet(G \cap 0 .. b)
           /\ Cardinality(G \cap 0 .. b) \in Nat
           /\ b = 0 => Cardinality(G \cap 0 .. b) <= 1
           /\ b \notin G /\ b > 0 =>
                 Cardinality(G \cap 0 .. b) = Cardinality(G \cap 0 .. (b - 1))
           /\ b \in G /\ b > 0 =>
                 Cardinality(G \cap 0 .. b) = Cardinality(G \cap 0 .. (b - 1)) + 1
           /\ b \notin G /\ b = 0 => Cardinality(G \cap 0 .. b) = 0
<1>1. \A c \in Int : IsFiniteSet(0 .. c) /\ IsFiniteSet(G \cap 0 .. c)
  <2>1. ASSUME NEW c \in Int
        PROVE  IsFiniteSet(0 .. c) /\ IsFiniteSet(G \cap 0 .. c)
    <3>1. 0 \in Int
      OBVIOUS
    <3>2. IsFiniteSet(0 .. c)
      BY <3>1, FS_Interval, Zenon
    <3>3. IsFiniteSet(G \cap 0 .. c)
      BY <3>2, FS_Intersection, Zenon
    <3>. QED
      BY <3>2, <3>3
  <2>. QED
    BY <2>1
<1>2. \A c \in Int : Cardinality(G \cap 0 .. c) \in Nat
  BY <1>1, FS_CardinalityType
<1>3. b = 0 => Cardinality(G \cap 0 .. b) <= 1
  <2>1. 0 .. 0 = {0} /\ 0 \in Int
    OBVIOUS
  <2>2. Cardinality(0 .. 0) = 1
    BY <2>1, FS_Singleton, Zenon
  <2>3. IsFiniteSet(0 .. 0)
    BY <1>1, <2>1
  <2>4. Cardinality(G \cap 0 .. 0) <= Cardinality(0 .. 0)
    BY <2>3, FS_Intersection, Zenon
  <2>. QED
    BY <2>2, <2>4
<1>4. b \notin G /\ b > 0 =>
         Cardinality(G \cap 0 .. b) = Cardinality(G \cap 0 .. (b - 1))
  <2>1. b \notin G /\ b > 0 => G \cap 0 .. b = G \cap 0 .. (b - 1)
    OBVIOUS
  <2>. QED
    BY <2>1
<1>5. b \in G /\ b > 0 =>
         Cardinality(G \cap 0 .. b) = Cardinality(G \cap 0 .. (b - 1)) + 1
  <2>1. SUFFICES ASSUME b \in G, b > 0
                 PROVE  Cardinality(G \cap 0 .. b) = Cardinality(G \cap 0 .. (b - 1)) + 1
    OBVIOUS
  <2>2. PICK X : X = G \cap 0 .. (b - 1)
    OBVIOUS
  <2>3. G \cap 0 .. b = X \cup {b} /\ b \notin X
    BY <2>1, <2>2
  <2>4. b - 1 \in Int
    OBVIOUS
  <2>5. IsFiniteSet(X)
    BY <1>1, <2>2, <2>4
  <2>6. Cardinality(X \cup {b}) = Cardinality(X) + 1
    BY <2>3, <2>5, FS_AddElement
  <2>. QED
    BY <2>2, <2>3, <2>6, Zenon
<1>6. b \notin G /\ b = 0 => Cardinality(G \cap 0 .. b) = 0
  <2>1. b \notin G /\ b = 0 => G \cap 0 .. b = {}
    OBVIOUS
  <2>. QED
    BY <2>1, FS_EmptySet
<1>. QED
  BY <1>1, <1>2, <1>3, <1>4, <1>5, <1>6

\* When k blocks are free the k-th is there.
LEMMA NthFreeIs ==
    ASSUME NEW t, t.fbm \in SUBSET Block, NEW k \in Nat \ {0}, Free(t, k)
    PROVE  /\ NthFree(t, k) \in Block \ t.fbm
           /\ Cardinality((Block \ t.fbm) \cap 0 .. NthFree(t, k)) = k
<1> DEFINE G == Block \ t.fbm
<1> DEFINE c(b) == Cardinality(G \cap 0 .. b)
<1>1. NumBlocks \in Nat /\ Block = 0 .. (NumBlocks - 1) /\ G \in SUBSET Nat
  BY Sizing DEF Block
<1>2. Cardinality(G) = NumBlocks - Cardinality(t.fbm) /\ Cardinality(G) >= k
  <2>1. IsFiniteSet(Block) /\ Cardinality(Block) = NumBlocks
    <3>1. 0 \in Int /\ NumBlocks - 1 \in Int /\ (0 > NumBlocks - 1 <=> NumBlocks = 0)
      BY <1>1
    <3>2. (NumBlocks - 1) - 0 + 1 = NumBlocks
      BY <1>1
    <3>3. /\ IsFiniteSet(0 .. (NumBlocks - 1))
          /\ Cardinality(0 .. (NumBlocks - 1))
               = IF 0 > NumBlocks - 1 THEN 0 ELSE (NumBlocks - 1) - 0 + 1
      BY <3>1, FS_Interval, Zenon
    <3>. QED
      BY <1>1, <3>1, <3>2, <3>3
  <2>2. Cardinality(G) = Cardinality(Block) - Cardinality(Block \cap t.fbm)
    BY <2>1, FS_Difference
  <2>3. Block \cap t.fbm = t.fbm
    OBVIOUS
  <2>4. IsFiniteSet(t.fbm) /\ Cardinality(t.fbm) \in Nat
    BY <2>1, FS_Subset, FS_CardinalityType
  <2>. QED
    BY <1>1, <2>1, <2>2, <2>3, <2>4 DEF Free, bitmap_total_set
<1>3. \A b \in Nat : c(b) \in Nat
  BY <1>1, CountUpTo
<1> DEFINE S == {b \in Block : c(b) >= k}
<1>4. S \in SUBSET Nat /\ S # {}
  <2>1. NumBlocks # 0
    <3>1. NumBlocks = 0 => G = {}
      BY <1>1
    <3>. QED
      BY <1>2, <3>1, FS_EmptySet
  <2>2. NumBlocks - 1 \in Block /\ G \cap 0 .. (NumBlocks - 1) = G
    BY <1>1, <2>1
  <2>3. c(NumBlocks - 1) >= k
    BY <1>2, <2>2
  <2>4. NumBlocks - 1 \in S
    BY <2>2, <2>3, Zenon
  <2>5. S \subseteq Block
    BY Zenon
  <2>6. Block \subseteq Nat
    BY <1>1
  <2>. QED
    BY <2>4, <2>5, <2>6, Zenon
<1>5. PICK m \in S : \A b \in S : m <= b
  BY <1>4, MinProperties
<1>6. m \in Nat /\ m \in Block /\ c(m) >= k
  BY <1>1, <1>5
<1> HIDE DEF S
<1>7. CASE m = 0
  <2>1. c(m) <= 1 /\ (m \notin G => c(m) = 0)
    BY <1>1, <1>7, CountUpTo
  <2>2. c(m) \in Nat
    BY <1>3, <1>6
  <2>. QED
    <3>1. m \in G /\ c(m) = k
      BY <1>6, <2>1, <2>2
    <3>. QED
      BY <3>1 DEF NthFree
<1>8. CASE m # 0
  <2>1. m - 1 \in Block /\ m - 1 \in Nat /\ m > 0
    BY <1>1, <1>6, <1>8
  <2>2. c(m - 1) < k
    <3>1. m - 1 \notin S
      BY <1>5, <1>6, <2>1
    <3>2. c(m - 1) \in Nat
      BY <1>3, <2>1
    <3>. QED
      BY <2>1, <3>1, <3>2 DEF S
  <2>3. (m \notin G => c(m) = c(m - 1)) /\ (m \in G => c(m) = c(m - 1) + 1)
    BY <1>1, <1>6, <2>1, CountUpTo
  <2>4. c(m) \in Nat /\ c(m - 1) \in Nat
    BY <1>3, <1>6, <2>1
  <2>5. m \in G /\ c(m) = k
    BY <1>6, <2>2, <2>3, <2>4
  <2>. QED
    BY <2>5 DEF NthFree
<1>. QED
  BY <1>7, <1>8

\* A call that takes one, two or three free blocks takes different ones.
LEMMA FreeBlocks ==
    ASSUME NEW t, t.fbm \in SUBSET Block, NEW n \in 1 .. 3, Free(t, n)
    PROVE  /\ \A k \in 1 .. n : NthFree(t, k) \in Block \ t.fbm
           /\ \A j, k \in 1 .. n : j # k => NthFree(t, j) # NthFree(t, k)
<1>1. ASSUME NEW k \in 1 .. n
      PROVE  Free(t, k)
  <2>1. IsFiniteSet(t.fbm)
    <3>1. NumBlocks - 1 \in Int /\ 0 \in Int
      BY Sizing
    <3>2. IsFiniteSet(Block)
      BY <3>1, FS_Interval, Zenon DEF Block
    <3>. QED
      BY <3>2, FS_Subset
  <2>2. Cardinality(t.fbm) \in Nat
    BY <2>1, FS_CardinalityType
  <2>. QED
    BY <2>2, Sizing DEF Free, bitmap_total_set
<1>2. \A k \in 1 .. n :
         /\ NthFree(t, k) \in Block \ t.fbm
         /\ Cardinality((Block \ t.fbm) \cap 0 .. NthFree(t, k)) = k
  BY <1>1, NthFreeIs
<1>. QED
  BY <1>2

-----------------------------------------------------------------------------
(* Places and pointers *)

\* The places and what is at them.
LEMMA Places ==
    /\ \A n \in 0 .. (Below3 - 1) : n \in Place /\ First(n) = n
    /\ -1 \in Place /\ First(-1) = DIRECT_BLOCKS
    /\ -2 \in Place /\ First(-2) = Below2
    /\ \A o \in Index : -3 - o \in Place /\ First(-3 - o) = Row(o)
    /\ \A p \in Place : \/ p \in 0 .. (Below3 - 1)
                        \/ p = -1
                        \/ p = -2
                        \/ \E o \in Index : p = -3 - o
    /\ \A p \in Place : p \in Int /\ First(p) \in Nat /\ First(p) < Below3
<1> USE Sizing, Rows
<1>1. Index = 0 .. (INDIRECT_BLOCKS - 1)
  BY DEF Index
<1>2. Place = (-(INDIRECT_BLOCKS + 2)) .. (Below3 - 1)
  BY DEF Place
<1>3. ASSUME NEW n \in 0 .. (Below3 - 1)
      PROVE  n \in Place /\ First(n) = n
  BY <1>2 DEF First
<1>4. -1 \in Place /\ First(-1) = DIRECT_BLOCKS
  BY <1>2 DEF First
<1>5. -2 \in Place /\ First(-2) = Below2
  BY <1>2 DEF First
<1>6. ASSUME NEW o \in Index
      PROVE  -3 - o \in Place /\ First(-3 - o) = Row(o)
  <2>1. -3 - o \in Int /\ -3 - o < -2 /\ -3 - (-3 - o) = o
    BY <1>1
  <2>2. First(-3 - o) = Row(-3 - (-3 - o))
    BY <2>1 DEF First
  <2>. QED
    BY <1>1, <1>2, <2>1, <2>2
<1>7. ASSUME NEW p \in Place, p \notin 0 .. (Below3 - 1), p # -1, p # -2
      PROVE  \E o \in Index : p = -3 - o
  <2>1. -3 - p \in Index /\ p = -3 - (-3 - p)
    BY <1>1, <1>2, <1>7
  <2>. QED
    BY <2>1
<1>8. ASSUME NEW p \in Place
      PROVE  p \in Int /\ First(p) \in Nat /\ First(p) < Below3
  <2>1. CASE \E o \in Index : p = -3 - o
    <3>1. PICK o \in Index : p = -3 - o
      BY <2>1
    <3>2. First(p) = Row(o) /\ p \in Int
      BY <1>1, <1>6, <3>1
    <3>3. Row(o) \in Nat /\ Row(o) + INDIRECT_BLOCKS <= Below3
      BY Rows
    <3>. QED
      BY <3>2, <3>3
  <2>2. CASE p \in 0 .. (Below3 - 1)
    <3>1. First(p) = p /\ p \in Nat /\ p < Below3
      BY <1>2, <1>3, <2>2
    <3>. QED
      BY <3>1
  <2>3. CASE p = -1
    BY <1>2, <1>4, <2>3
  <2>4. CASE p = -2
    BY <1>2, <1>5, <2>4
  <2>. QED
    BY <1>7, <2>1, <2>2, <2>3, <2>4
<1>. QED
  BY <1>3, <1>4, <1>5, <1>6, <1>7, <1>8

\* The places that a file of n blocks has set, of each kind.
LEMMA SetHas ==
    ASSUME NEW n \in Nat, n <= Below3
    PROVE  /\ \A m \in 0 .. (n - 1) : m \in Set(n)
           /\ DIRECT_BLOCKS < n => -1 \in Set(n)
           /\ Below2 < n => -2 \in Set(n)
           /\ \A o \in Index : Row(o) < n => -3 - o \in Set(n)
           /\ \A p \in Set(n) : \/ p \in 0 .. (n - 1)
                                \/ p = -1 /\ DIRECT_BLOCKS < n
                                \/ p = -2 /\ Below2 < n
                                \/ \E o \in Index : p = -3 - o /\ Row(o) < n
<1>1. \A m \in 0 .. (n - 1) : m \in 0 .. (Below3 - 1) /\ m < n
  BY Rows
<1>2. \A m \in 0 .. (n - 1) : m \in Set(n)
  BY <1>1, Places DEF Set
<1>3. /\ DIRECT_BLOCKS < n => -1 \in Set(n)
      /\ Below2 < n => -2 \in Set(n)
      /\ \A o \in Index : Row(o) < n => -3 - o \in Set(n)
  BY Places DEF Set
<1>4. ASSUME NEW p \in Set(n)
      PROVE  \/ p \in 0 .. (n - 1)
             \/ p = -1 /\ DIRECT_BLOCKS < n
             \/ p = -2 /\ Below2 < n
             \/ \E o \in Index : p = -3 - o /\ Row(o) < n
  <2>1. p \in Place /\ First(p) < n
    BY DEF Set
  <2>2. CASE p \in 0 .. (Below3 - 1)
    BY <2>1, <2>2, Places
  <2>3. CASE p = -1
    BY <2>1, <2>3, Places
  <2>4. CASE p = -2
    BY <2>1, <2>4, Places
  <2>5. CASE \E o \in Index : p = -3 - o
    BY <2>1, <2>5, Places
  <2>. QED
    BY <2>1, <2>2, <2>3, <2>4, <2>5, Places
<1>. QED
  BY <1>2, <1>3, <1>4

\* The three kinds of data blocks.
LEMMA DataCases ==
    ASSUME NEW n \in 0 .. (Below3 - 1)
    PROVE  \/ n \in Order
           \/ \E k \in Index : n = DIRECT_BLOCKS + k
           \/ \E o, k \in Index : n = Row(o) + k
<1>1. n \in Nat /\ n < Below3 /\ DIRECT_BLOCKS \in Nat /\ INDIRECT_BLOCKS \in Nat
  BY Sizing, Rows
<1>2. CASE n < DIRECT_BLOCKS
  BY <1>1, <1>2 DEF Order
<1>3. CASE DIRECT_BLOCKS <= n /\ n < Below2
  <2>1. n - DIRECT_BLOCKS \in Index /\ n = DIRECT_BLOCKS + (n - DIRECT_BLOCKS)
    BY <1>1, <1>3, Rows DEF Index
  <2>. QED
    BY <2>1
<1>4. CASE Below2 <= n
  BY <1>1, <1>4, RowSplit
<1>. QED
  BY <1>1, <1>2, <1>3, <1>4, Rows

\* What each kind of data block is found through.
LEMMA NthAt ==
    ASSUME NEW r, NEW B
    PROVE  /\ \A k \in Order : Nth(r, B, k) = r.directPointer[k]
           /\ \A k \in Index : Nth(r, B, DIRECT_BLOCKS + k) = B[r.indirectPointer][k]
           /\ \A o, k \in Index :
                Nth(r, B, Row(o) + k) = B[B[r.doubleIndirectPointer][o]][k]
<1>1. /\ DIRECT_BLOCKS \in Nat /\ INDIRECT_BLOCKS \in Nat
      /\ Order = 0 .. (DIRECT_BLOCKS - 1) /\ Index = 0 .. (INDIRECT_BLOCKS - 1)
      /\ Below2 = DIRECT_BLOCKS + INDIRECT_BLOCKS
  BY Sizing, Rows DEF Order, Index
<1>2. ASSUME NEW k \in Order
      PROVE  Nth(r, B, k) = r.directPointer[k]
  <2>1. k < DIRECT_BLOCKS
    BY <1>1
  <2>. QED
    BY <2>1 DEF Nth
<1>3. ASSUME NEW k \in Index
      PROVE  Nth(r, B, DIRECT_BLOCKS + k) = B[r.indirectPointer][k]
  <2>1. /\ ~(DIRECT_BLOCKS + k < DIRECT_BLOCKS) /\ DIRECT_BLOCKS + k < Below2
        /\ (DIRECT_BLOCKS + k) - DIRECT_BLOCKS = k
    BY <1>1
  <2>. QED
    BY <2>1 DEF Nth
<1>4. ASSUME NEW o \in Index, NEW k \in Index
      PROVE  Nth(r, B, Row(o) + k) = B[B[r.doubleIndirectPointer][o]][k]
  <2>1. /\ Below2 <= Row(o) + k /\ Row(o) + k \in Nat
        /\ RowOf(Row(o) + k) = o /\ ColumnOf(Row(o) + k) = k
    BY RowJoin
  <2>2. ~(Row(o) + k < DIRECT_BLOCKS) /\ ~(Row(o) + k < Below2)
    BY <1>1, <2>1
  <2>. QED
    BY <2>1, <2>2, Zenon DEF Nth
<1>. QED
  BY <1>2, <1>3, <1>4

\* The second of the three, by itself.
LEMMA IndirectAt ==
    ASSUME NEW r, NEW B, NEW k \in Index
    PROVE  Nth(r, B, DIRECT_BLOCKS + k) = B[r.indirectPointer][k]
BY NthAt

\* What each kind of place leads to.
LEMMA PtrAt ==
    ASSUME NEW r, NEW B
    PROVE  /\ \A n \in Nat : Ptr(r, B, n) = Nth(r, B, n)
           /\ Ptr(r, B, -1) = r.indirectPointer
           /\ Ptr(r, B, -2) = r.doubleIndirectPointer
           /\ \A o \in Index : Ptr(r, B, -3 - o) = B[r.doubleIndirectPointer][o]
<1>1. \A n \in Nat : Ptr(r, B, n) = Nth(r, B, n)
  BY DEF Ptr
<1>2. Ptr(r, B, -1) = r.indirectPointer
  BY DEF Ptr
<1>3. Ptr(r, B, -2) = r.doubleIndirectPointer
  BY DEF Ptr
<1>4. ASSUME NEW o \in Index
      PROVE  Ptr(r, B, -3 - o) = B[r.doubleIndirectPointer][o]
  <2>1. -3 - o \in Int /\ -3 - o < -2 /\ -3 - (-3 - o) = o
    BY Sizing DEF Index
  <2>. QED
    BY <2>1 DEF Ptr
<1>. QED
  BY <1>1, <1>2, <1>3, <1>4

\* Of a file of n blocks, the record r2 over the blocks B has every pointer that
\* r has over A.
SamePointers(r, A, n, r2, B) ==
    /\ \A k \in Order : k < n => r2.directPointer[k] = r.directPointer[k]
    /\ DIRECT_BLOCKS < n =>
         /\ r2.indirectPointer = r.indirectPointer
         /\ \A k \in Index : DIRECT_BLOCKS + k < n =>
              B[r.indirectPointer][k] = A[r.indirectPointer][k]
    /\ Below2 < n => r2.doubleIndirectPointer = r.doubleIndirectPointer
    /\ \A o \in Index : Row(o) < n =>
         LET inner == A[r.doubleIndirectPointer][o]
         IN  /\ B[r.doubleIndirectPointer][o] = inner
             /\ \A k \in Index : Row(o) + k < n => B[inner][k] = A[inner][k]

\* A file whose records and tables have the same entries has the same pointers.
LEMMA PointersSame ==
    ASSUME NEW r, NEW A, NEW n \in Nat, n <= Below3, NEW r2, NEW B,
           SamePointers(r, A, n, r2, B), NEW p \in Set(n)
    PROVE  Ptr(r2, B, p) = Ptr(r, A, p)
<1>1. ASSUME NEW o \in Index, Row(o) < n
      PROVE  /\ r2.doubleIndirectPointer = r.doubleIndirectPointer
             /\ B[r.doubleIndirectPointer][o] = A[r.doubleIndirectPointer][o]
             /\ \A k \in Index : Row(o) + k < n =>
                  B[A[r.doubleIndirectPointer][o]][k] = A[A[r.doubleIndirectPointer][o]][k]
  <2>1. Below2 < n
    BY <1>1, Rows
  <2>. QED
    BY <1>1, <2>1, Zenon DEF SamePointers
<1>2. CASE p = -1 /\ DIRECT_BLOCKS < n
  BY <1>2, PtrAt DEF SamePointers
<1>3. CASE p = -2 /\ Below2 < n
  BY <1>3, PtrAt DEF SamePointers
<1>4. CASE \E o \in Index : p = -3 - o /\ Row(o) < n
  <2>1. PICK o \in Index : p = -3 - o /\ Row(o) < n
    BY <1>4
  <2>2. /\ Ptr(r2, B, p) = B[r2.doubleIndirectPointer][o]
        /\ Ptr(r, A, p) = A[r.doubleIndirectPointer][o]
    BY <2>1, PtrAt
  <2>. QED
    BY <1>1, <2>1, <2>2
<1>5. CASE p \in 0 .. (n - 1)
  <2>1. p \in 0 .. (Below3 - 1) /\ p \in Nat /\ p < n
    BY <1>5, Rows
  <2>2. Ptr(r2, B, p) = Nth(r2, B, p) /\ Ptr(r, A, p) = Nth(r, A, p)
    BY <2>1, PtrAt, Zenon
  <2>3. CASE p \in Order
    <3>1. Nth(r2, B, p) = r2.directPointer[p] /\ Nth(r, A, p) = r.directPointer[p]
      BY <2>3, NthAt, Zenon
    <3>. QED
      BY <2>1, <2>2, <2>3, <3>1 DEF SamePointers
  <2>4. CASE \E k \in Index : p = DIRECT_BLOCKS + k
    <3>1. PICK k \in Index : p = DIRECT_BLOCKS + k
      BY <2>4
    <3>2. DIRECT_BLOCKS < n /\ DIRECT_BLOCKS + k < n
      BY <2>1, <3>1, Sizing DEF Index
    <3>3. /\ Nth(r2, B, p) = B[r2.indirectPointer][k]
          /\ Nth(r, A, p) = A[r.indirectPointer][k]
      BY <3>1, NthAt
    <3>. QED
      BY <2>2, <3>2, <3>3 DEF SamePointers
  <2>5. CASE \E o, k \in Index : p = Row(o) + k
    <3>1. PICK o \in Index, k \in Index : p = Row(o) + k
      BY <2>5
    <3>2. Row(o) < n /\ Row(o) + k < n
      BY <2>1, <3>1, Rows, Sizing DEF Index
    <3>3. ASSUME NEW s, NEW X
          PROVE  Nth(s, X, Row(o) + k) = X[X[s.doubleIndirectPointer][o]][k]
      BY NthAt
    <3>4. Nth(r2, B, p) = B[B[r2.doubleIndirectPointer][o]][k]
      BY <3>1, <3>3, Zenon
    <3>5. Nth(r, A, p) = A[A[r.doubleIndirectPointer][o]][k]
      BY <3>1, <3>3, Zenon
    <3>. QED
      BY <1>1, <2>2, <3>2, <3>4, <3>5
  <2>. QED
    BY <2>1, <2>3, <2>4, <2>5, DataCases
<1>. QED
  BY <1>2, <1>3, <1>4, <1>5, SetHas

\* The index tables of B are those of A, wherever the record r leads to one.
SameTables(r, n, A, B) ==
    \A p \in Set(n) : p < 0 => B[Ptr(r, A, p)] = A[Ptr(r, A, p)]

\* The tables of a file, when the blocks at its negative places are the same.
LEMMA TablesAre ==
    ASSUME NEW r, NEW n \in Nat, n <= Below3, NEW A, NEW B, SameTables(r, n, A, B)
    PROVE  /\ DIRECT_BLOCKS < n => B[r.indirectPointer] = A[r.indirectPointer]
           /\ Below2 < n => B[r.doubleIndirectPointer] = A[r.doubleIndirectPointer]
           /\ \A o \in Index : Row(o) < n =>
                /\ Below2 < n
                /\ B[A[r.doubleIndirectPointer][o]] = A[A[r.doubleIndirectPointer][o]]
<1>1. DIRECT_BLOCKS < n => B[r.indirectPointer] = A[r.indirectPointer]
  <2>1. DIRECT_BLOCKS < n => -1 \in Set(n)
    BY SetHas
  <2>2. -1 < 0
    OBVIOUS
  <2>. QED
    BY <2>1, <2>2, PtrAt DEF SameTables
<1>2. Below2 < n => B[r.doubleIndirectPointer] = A[r.doubleIndirectPointer]
  <2>1. Below2 < n => -2 \in Set(n)
    BY SetHas
  <2>2. -2 < 0
    OBVIOUS
  <2>. QED
    BY <2>1, <2>2, PtrAt DEF SameTables
<1>3. ASSUME NEW o \in Index, Row(o) < n
      PROVE  /\ Below2 < n
             /\ B[A[r.doubleIndirectPointer][o]] = A[A[r.doubleIndirectPointer][o]]
  <2>1. -3 - o \in Set(n) /\ -3 - o < 0
    BY <1>3, SetHas, Sizing DEF Index
  <2>2. Below2 < n
    BY <1>3, Rows
  <2>3. Ptr(r, A, -3 - o) = A[r.doubleIndirectPointer][o]
    BY PtrAt
  <2>4. B[Ptr(r, A, -3 - o)] = A[Ptr(r, A, -3 - o)]
    BY <2>1, Zenon DEF SameTables
  <2>. QED
    BY <2>2, <2>3, <2>4
<1>. QED
  BY <1>1, <1>2, <1>3

\* A file whose index tables nobody writes to keeps its pointers.
LEMMA PointersKept ==
    ASSUME NEW r, NEW n \in Nat, NEW A, NEW B, Shape(r, A, n), SameTables(r, n, A, B)
    PROVE  /\ Shape(r, B, n)
           /\ \A p \in Set(n) : Ptr(r, B, p) = Ptr(r, A, p)
<1>1. n <= Below3
  BY DEF Shape
<1>2. Shape(r, B, n) /\ SamePointers(r, A, n, r, B)
  <2>1. /\ DIRECT_BLOCKS < n => B[r.indirectPointer] = A[r.indirectPointer]
        /\ Below2 < n => B[r.doubleIndirectPointer] = A[r.doubleIndirectPointer]
        /\ \A o \in Index : Row(o) < n =>
             /\ Below2 < n
             /\ B[A[r.doubleIndirectPointer][o]] = A[A[r.doubleIndirectPointer][o]]
    BY <1>1, TablesAre
  <2>. QED
    BY <2>1 DEF Shape, SamePointers
<1>. QED
  BY <1>1, <1>2, PointersSame

-----------------------------------------------------------------------------
(* A file gets a block *)

\* The places whose pointers a file of n blocks needs for one block more.
New(n) == {p \in Place : First(p) = n}

\* One block more needs the pointers that the block is the first to need.
LEMMA SetNext ==
    ASSUME NEW n \in Nat
    PROVE  Set(n + 1) = Set(n) \cup New(n) /\ Set(n) \cap New(n) = {}
BY Places DEF Set, New

\* A file r of n blocks has become r2, with one block more: what it pointed to
\* it still points to, its new pointers are to different blocks that were free,
\* and blocks were written only where they are index tables of the file.
Extended(F, A, r, n, F2, B, r2) ==
    /\ F2 = F \cup {Ptr(r2, B, p) : p \in New(n)}
    /\ B \in [Block -> Bytes \cup Table]
    /\ r2 \in InodeRecord /\ r2.fileSize = r.fileSize
    /\ Shape(r2, B, n + 1)
    /\ \A p \in Set(n) : Ptr(r2, B, p) = Ptr(r, A, p)
    /\ \A p \in New(n) : Ptr(r2, B, p) \in Block \ F
    /\ \A p, q \in New(n) : Ptr(r2, B, p) = Ptr(r2, B, q) => p = q
    /\ \A b \in Block : \/ B[b] = A[b]
                        \/ \E p \in Set(n) : p < 0 /\ b = Ptr(r, A, p)
                        \/ \E p \in New(n) : p < 0 /\ b = Ptr(r2, B, p)

\* The data blocks there were are where they were, and hold what they held.
DataKept(A, R, C, B, R2) ==
    \A j \in File : \A m \in 0 .. (C[j] - 1) :
        /\ Nth(R2[j], B, m) = Nth(R[j], A, m)
        /\ B[Nth(R[j], A, m)] = A[Nth(R[j], A, m)]

\* A file that gets its next block, and the tables it takes, leaves the volume
\* sound, and every data block there was what and where it was.
LEMMA GrowSound ==
    ASSUME NEW F, NEW A, NEW R, NEW C, Sound(F, A, R, C), NEW i \in File,
           NEW n, n = C[i], NEW F2, NEW B, NEW r2, Extended(F, A, R[i], n, F2, B, r2),
           NEW R2, R2 = [R EXCEPT ![i] = r2], NEW C2, C2 = [C EXCEPT ![i] = n + 1]
    PROVE  Sound(F2, B, R2, C2) /\ DataKept(A, R, C, B, R2)
<1>1. /\ F \subseteq Block /\ A \in [Block -> Bytes \cup Table]
      /\ R \in [File -> InodeRecord] /\ C \in [File -> Nat] /\ n \in Nat
  BY DEF Sound, Typed
<1>2. /\ R2[i] = r2 /\ C2[i] = n + 1
      /\ \A j \in File \ {i} : R2[j] = R[j] /\ C2[j] = C[j]
  BY <1>1
<1>3. /\ \A j \in File : \A p \in Set(C[j]) : Ptr(R[j], A, p) \in F \ Meta
      /\ \A j, k \in File : \A p \in Set(C[j]), q \in Set(C[k]) :
           Ptr(R[j], A, p) = Ptr(R[k], A, q) => j = k /\ p = q
  BY DEF Sound, PointersApart
<1>4. /\ \A p \in New(n) : Ptr(r2, B, p) \in Block \ F
      /\ \A b \in Block : \/ B[b] = A[b]
                          \/ \E p \in Set(n) : p < 0 /\ b = Ptr(R[i], A, p)
                          \/ \E p \in New(n) : p < 0 /\ b = Ptr(r2, B, p)
  BY DEF Extended
<1>5. \A j \in File : Shape(R[j], A, C[j]) /\ C[j] <= Below3
  BY DEF Sound, Shape
<1>6. ASSUME NEW j \in File \ {i}
      PROVE  Shape(R[j], B, C[j]) /\ \A p \in Set(C[j]) : Ptr(R[j], B, p) = Ptr(R[j], A, p)
  <2>1. SameTables(R[j], C[j], A, B)
    <3>1. ASSUME NEW p \in Set(C[j]), p < 0
          PROVE  B[Ptr(R[j], A, p)] = A[Ptr(R[j], A, p)]
      <4>1. Ptr(R[j], A, p) \in F /\ Ptr(R[j], A, p) \in Block
        BY <1>1, <1>3
      <4>2. ~ \E q \in Set(n) : q < 0 /\ Ptr(R[j], A, p) = Ptr(R[i], A, q)
        BY <1>3
      <4>3. ~ \E q \in New(n) : q < 0 /\ Ptr(R[j], A, p) = Ptr(r2, B, q)
        BY <1>4, <4>1
      <4>. QED
        BY <1>4, <4>1, <4>2, <4>3
    <3>. QED
      BY <3>1 DEF SameTables
  <2>2. C[j] \in Nat
    BY <1>1
  <2>. QED
    BY <1>5, <2>1, <2>2, PointersKept
<1>7. \A j \in File : \A p \in Set(C[j]) : Ptr(R2[j], B, p) = Ptr(R[j], A, p)
  <2>1. \A p \in Set(n) : Ptr(r2, B, p) = Ptr(R[i], A, p)
    BY DEF Extended
  <2>. QED
    BY <1>2, <1>6, <2>1
<1>8. /\ Set(C2[i]) = Set(C[i]) \cup New(n) /\ Set(C[i]) \cap New(n) = {}
      /\ \A j \in File \ {i} : Set(C2[j]) = Set(C[j])
  BY <1>1, <1>2, SetNext
<1>9. F2 = F \cup {Ptr(R2[i], B, p) : p \in New(n)}
  BY <1>2 DEF Extended
<1>10. Typed(F2, B, R2, C2)
  <2>1. B \in [Block -> Bytes \cup Table] /\ r2 \in InodeRecord
    BY DEF Extended
  <2>2. F2 \subseteq Block
    BY <1>1, <1>2, <1>4, <1>9
  <2>3. R2 \in [File -> InodeRecord] /\ C2 \in [File -> Nat]
    BY <1>1, <2>1
  <2>. QED
    BY <2>1, <2>2, <2>3 DEF Typed
<1>11. \A j \in File : Shape(R2[j], B, C2[j])
  <2>1. Shape(r2, B, n + 1)
    BY DEF Extended
  <2>. QED
    BY <1>2, <1>6, <2>1
<1>12. Meta \subseteq F
  BY DEF Sound, AllPointedTo
<1>13. PointersApart(F2, B, R2, C2)
  <2>1. ASSUME NEW j \in File, NEW p \in Set(C2[j])
        PROVE  /\ Ptr(R2[j], B, p) \in F2 \ Meta
               /\ p \in Set(C[j]) => Ptr(R2[j], B, p) \in F
               /\ p \notin Set(C[j]) => j = i /\ p \in New(n) /\ Ptr(R2[j], B, p) \notin F
    <3>1. CASE p \in Set(C[j])
      BY <1>3, <1>7, <1>9, <3>1
    <3>2. CASE p \notin Set(C[j])
      <4>1. j = i /\ p \in New(n)
        BY <1>8, <3>2
      <4>. QED
        BY <1>2, <1>4, <1>9, <1>12, <3>2, <4>1
    <3>. QED
      BY <3>1, <3>2
  <2>2. ASSUME NEW j \in File, NEW k \in File, NEW p \in Set(C2[j]), NEW q \in Set(C2[k]),
               Ptr(R2[j], B, p) = Ptr(R2[k], B, q)
        PROVE  j = k /\ p = q
    <3>1. CASE p \in Set(C[j]) /\ q \in Set(C[k])
      BY <1>3, <1>7, <2>2, <3>1
    <3>2. CASE p \notin Set(C[j]) /\ q \notin Set(C[k])
      <4>1. \A u, v \in New(n) : Ptr(r2, B, u) = Ptr(r2, B, v) => u = v
        BY DEF Extended
      <4>. QED
        BY <1>2, <2>1, <2>2, <3>2, <4>1
    <3>. QED
      BY <2>1, <2>2, <3>1, <3>2
  <2>. QED
    BY <2>1, <2>2 DEF PointersApart
<1>14. AllPointedTo(F2, B, R2, C2)
  <2>1. ASSUME NEW b \in F2 \ Meta
        PROVE  \E j \in File : \E p \in Set(C2[j]) : b = Ptr(R2[j], B, p)
    <3>1. CASE b \in F
      <4>1. PICK j \in File : \E p \in Set(C[j]) : b = Ptr(R[j], A, p)
        BY <2>1, <3>1 DEF Sound, AllPointedTo
      <4>2. PICK p \in Set(C[j]) : b = Ptr(R[j], A, p)
        BY <4>1
      <4>3. p \in Set(C2[j])
        BY <1>8
      <4>. QED
        BY <1>7, <4>2, <4>3
    <3>2. CASE b \notin F
      <4>1. PICK p \in New(n) : b = Ptr(R2[i], B, p)
        BY <1>9, <2>1, <3>2
      <4>. QED
        BY <1>8, <4>1
    <3>. QED
      BY <3>1, <3>2
  <2>. QED
    BY <1>9, <1>12, <2>1 DEF AllPointedTo
<1>15. ASSUME NEW j \in File, NEW m \in 0 .. (C[j] - 1)
       PROVE  /\ Nth(R2[j], B, m) = Nth(R[j], A, m)
              /\ B[Nth(R[j], A, m)] = A[Nth(R[j], A, m)]
  <2>1. m \in Nat /\ m \in Set(C[j]) /\ ~(m < 0)
    BY <1>1, <1>5, SetHas
  <2>2. \A r, X : Nth(r, X, m) = Ptr(r, X, m)
    BY <2>1, PtrAt
  <2>3. Nth(R2[j], B, m) = Nth(R[j], A, m)
    BY <1>7, <2>1, <2>2
  <2>4. Ptr(R[j], A, m) \in F /\ Ptr(R[j], A, m) \in Block
    BY <1>1, <1>3, <2>1
  <2>5. ~ \E q \in Set(n) : q < 0 /\ Ptr(R[j], A, m) = Ptr(R[i], A, q)
    BY <1>3, <2>1
  <2>6. ~ \E q \in New(n) : q < 0 /\ Ptr(R[j], A, m) = Ptr(r2, B, q)
    BY <1>4, <2>4
  <2>. QED
    BY <1>4, <2>2, <2>3, <2>4, <2>5, <2>6
<1>16. BlocksHold(F2, B, R2, C2)
  <2>1. ASSUME NEW j \in File, NEW m \in 0 .. (C[j] - 1)
        PROVE  B[Nth(R2[j], B, m)] \in Bytes
    <3>1. A[Nth(R[j], A, m)] \in Bytes
      BY DEF Sound, BlocksHold
    <3>. QED
      BY <1>15, <3>1
  <2>2. B[Nth(R2[i], B, n)] \in Bytes
    <3>1. n + 1 <= Below3
      BY <1>2, <1>11 DEF Shape
    <3>2. n \in New(n) /\ n \in Nat /\ ~(n < 0)
      BY <1>1, <3>1, Places, Rows DEF New
    <3>3. Nth(R2[i], B, n) = Ptr(r2, B, n)
      <4>1. Nth(r2, B, n) = Ptr(r2, B, n)
        BY <3>2, PtrAt, Zenon
      <4>. QED
        BY <1>2, <4>1
    <3>4. Ptr(r2, B, n) \in Block \ F
      BY <1>4, <3>2
    <3>5. ~ \E p \in Set(n) : p < 0 /\ Ptr(r2, B, n) = Ptr(R[i], A, p)
      BY <1>3, <3>4
    <3>6. ~ \E p \in New(n) : p < 0 /\ Ptr(r2, B, n) = Ptr(r2, B, p)
      BY <3>2 DEF Extended
    <3>7. B[Ptr(r2, B, n)] = A[Ptr(r2, B, n)]
      BY <1>4, <3>4, <3>5, <3>6
    <3>8. A[Ptr(r2, B, n)] = Unwritten
      BY <3>4 DEF Sound, BlocksHold
    <3>9. Unwritten \in Bytes
      BY DEF Unwritten, Bytes
    <3>. QED
      BY <3>3, <3>7, <3>8, <3>9
  <2>3. ASSUME NEW j \in File, NEW m \in 0 .. (C2[j] - 1)
        PROVE  B[Nth(R2[j], B, m)] \in Bytes
    <3>1. m \in 0 .. (C[j] - 1) \/ (j = i /\ m = n)
      BY <1>1, <1>2
    <3>. QED
      BY <2>1, <2>2, <3>1
  <2>4. ASSUME NEW b \in Block \ F2
        PROVE  B[b] = Unwritten
    <3>1. b \in Block \ F
      BY <1>9
    <3>2. A[b] = Unwritten
      BY <3>1 DEF Sound, BlocksHold
    <3>3. ~ \E p \in Set(n) : p < 0 /\ b = Ptr(R[i], A, p)
      BY <1>3, <3>1
    <3>4. ~ \E p \in New(n) : p < 0 /\ b = Ptr(r2, B, p)
      BY <1>2, <1>9, <2>4
    <3>. QED
      BY <1>4, <3>1, <3>2, <3>3, <3>4
  <2>. QED
    BY <2>3, <2>4 DEF BlocksHold
<1>. QED
  BY <1>10, <1>11, <1>13, <1>14, <1>15, <1>16 DEF Sound, DataKept

-----------------------------------------------------------------------------
(* The six ways to get a block *)

\* The pointers that the block n is the first to need.
LEMMA NewPlaces ==
    ASSUME NEW n \in 0 .. (Below3 - 1)
    PROVE  /\ n < DIRECT_BLOCKS => New(n) = {n}
           /\ n = DIRECT_BLOCKS => New(n) = {-1, n}
           /\ DIRECT_BLOCKS < n /\ n < Below2 => New(n) = {n}
           /\ n = Below2 => New(n) = {-2, -3, n}
           /\ \A o \in Index : n = Row(o) /\ n # Below2 => New(n) = {-3 - o, n}
           /\ \A o \in Index, k \in Index : n = Row(o) + k /\ k # 0 => New(n) = {n}
<1>1. /\ DIRECT_BLOCKS \in Nat /\ INDIRECT_BLOCKS \in Nat /\ DIRECT_BLOCKS < Below2
      /\ Below2 \in Nat /\ Below3 \in Nat /\ n \in Nat /\ n < Below3
      /\ Index = 0 .. (INDIRECT_BLOCKS - 1) /\ 0 \in Index /\ Row(0) = Below2
  BY Sizing, Rows DEF Index
<1>2. /\ \A m \in 0 .. (Below3 - 1) : m \in Place /\ First(m) = m
      /\ -1 \in Place /\ First(-1) = DIRECT_BLOCKS
      /\ -2 \in Place /\ First(-2) = Below2
      /\ \A o \in Index : -3 - o \in Place /\ First(-3 - o) = Row(o)
      /\ \A p \in Place : \/ p \in 0 .. (Below3 - 1)
                          \/ p = -1
                          \/ p = -2
                          \/ \E o \in Index : p = -3 - o
  BY Places
<1>4. \A o \in Index : Row(o) \in Nat /\ Below2 <= Row(o) /\ Row(o) + INDIRECT_BLOCKS <= Below3
  BY Rows
<1>5. \A o, u \in Index : o < u => Row(o) + INDIRECT_BLOCKS <= Row(u)
  BY Rows
<1>3. ASSUME NEW p \in New(n)
      PROVE  \/ p = n
             \/ p = -1 /\ n = DIRECT_BLOCKS
             \/ p = -2 /\ n = Below2
             \/ \E o \in Index : p = -3 - o /\ n = Row(o)
  <2>1. p \in Place /\ First(p) = n
    BY DEF New
  <2>2. CASE p \in 0 .. (Below3 - 1)
    BY <1>2, <2>1, <2>2
  <2>3. CASE p = -1
    BY <1>2, <2>1, <2>3
  <2>4. CASE p = -2
    BY <1>2, <2>1, <2>4
  <2>5. CASE \E o \in Index : p = -3 - o
    BY <1>2, <2>1, <2>5
  <2>. QED
    BY <1>2, <2>1, <2>2, <2>3, <2>4, <2>5, Zenon
<1>13. /\ n \in New(n)
       /\ n = DIRECT_BLOCKS => -1 \in New(n)
       /\ n = Below2 => -2 \in New(n)
       /\ \A o \in Index : n = Row(o) => -3 - o \in New(n)
  BY <1>2 DEF New
<1>6. ASSUME n < DIRECT_BLOCKS
      PROVE  New(n) = {n}
  <2>1. \A o \in Index : n # Row(o)
    BY <1>1, <1>4, <1>6
  <2>2. \A p \in New(n) : p = n
    BY <1>1, <1>3, <1>6, <2>1
  <2>. QED
    BY <1>13, <2>2
<1>7. ASSUME n = DIRECT_BLOCKS
      PROVE  New(n) = {-1, n}
  <2>1. \A o \in Index : n # Row(o)
    BY <1>1, <1>4, <1>7
  <2>2. \A p \in New(n) : p = n \/ p = -1
    BY <1>1, <1>3, <1>7, <2>1
  <2>. QED
    BY <1>7, <1>13, <2>2
<1>8. ASSUME DIRECT_BLOCKS < n, n < Below2
      PROVE  New(n) = {n}
  <2>1. \A o \in Index : n # Row(o)
    BY <1>1, <1>4, <1>8
  <2>2. \A p \in New(n) : p = n
    BY <1>1, <1>3, <1>8, <2>1
  <2>. QED
    BY <1>13, <2>2
<1>9. \A o, u \in Index : Row(o) = Row(u) => o = u
  <2>1. ASSUME NEW o \in Index, NEW u \in Index, Row(o) = Row(u)
        PROVE  o = u
    <3>1. ~(o < u) /\ ~(u < o)
      BY <1>1, <1>4, <1>5, <2>1, Sizing
    <3>. QED
      BY <1>1, <3>1
  <2>. QED
    BY <2>1
<1>10. ASSUME n = Below2
       PROVE  New(n) = {-2, -3, n}
  <2>1. \A o \in Index : n = Row(o) => o = 0
    BY <1>1, <1>9, <1>10
  <2>2. -3 - 0 = -3
    OBVIOUS
  <2>3. -3 \in New(n)
    BY <1>1, <1>10, <1>13, <2>2
  <2>4. \A p \in New(n) : p = n \/ p = -2 \/ p = -3
    BY <1>1, <1>3, <1>10, <2>1, <2>2
  <2>. QED
    BY <1>10, <1>13, <2>3, <2>4
<1>11. ASSUME NEW o \in Index, n = Row(o), n # Below2
       PROVE  New(n) = {-3 - o, n}
  <2>1. n # DIRECT_BLOCKS
    BY <1>1, <1>4, <1>11
  <2>2. \A u \in Index : n = Row(u) => u = o
    BY <1>9, <1>11, Zenon
  <2>3. \A p \in New(n) : p = n \/ p = -3 - o
    BY <1>3, <1>11, <2>1, <2>2, Zenon
  <2>. QED
    BY <1>11, <1>13, <2>3
<1>12. ASSUME NEW o \in Index, NEW k \in Index, n = Row(o) + k, k # 0
       PROVE  New(n) = {n}
  <2>0. /\ Row(o) \in Nat /\ k \in Nat /\ k > 0 /\ k < INDIRECT_BLOCKS /\ n = Row(o) + k
        /\ Below2 <= Row(o) /\ DIRECT_BLOCKS < Below2 /\ DIRECT_BLOCKS \in Nat /\ Below2 \in Nat
    BY <1>1, <1>4, <1>12
  <2>1. n # DIRECT_BLOCKS /\ n # Below2
    BY <2>0
  <2>2. ASSUME NEW u \in Index
        PROVE  n # Row(u)
    <3>1. Row(o) < n /\ n < Row(o) + INDIRECT_BLOCKS
      BY <1>1, <2>0
    <3>2. u < o \/ u = o \/ o < u
      BY <1>1
    <3>3. /\ u < o => Row(u) + INDIRECT_BLOCKS <= Row(o)
          /\ o < u => Row(o) + INDIRECT_BLOCKS <= Row(u)
      BY <1>5, Zenon
    <3>4. Row(u) \in Nat
      BY <1>4, Zenon
    <3>5. u = o => Row(u) = Row(o)
      OBVIOUS
    <3>. QED
      BY <1>1, <2>0, <3>1, <3>2, <3>3, <3>4, <3>5
  <2>3. \A p \in New(n) : p = n
    BY <1>3, <2>1, <2>2
  <2>. QED
    BY <1>13, <2>3
<1>. QED
  BY <1>6, <1>7, <1>8, <1>10, <1>11, <1>12

\* A file of n blocks, by itself.
FileOf(F, A, r, n) ==
    /\ F \in SUBSET Block /\ Meta \subseteq F
    /\ A \in [Block -> Bytes \cup Table]
    /\ r \in InodeRecord
    /\ n \in Nat
    /\ Shape(r, A, n)
    /\ \A p \in Set(n) : Ptr(r, A, p) \in F
    /\ \A p, q \in Set(n) : Ptr(r, A, p) = Ptr(r, A, q) => p = q

\* Each file of a sound volume has the shape of its size and blocks of its own.
LEMMA SoundFile ==
    ASSUME NEW F, NEW A, NEW R, NEW C, Sound(F, A, R, C), NEW i \in File
    PROVE  FileOf(F, A, R[i], C[i])
BY DEF FileOf, Sound, Typed, PointersApart, AllPointedTo

\* A free block is not block 0, which a pointer not set holds.
LEMMA FreeNotZero ==
    ASSUME NEW F, Meta \subseteq F, NEW b \in Block \ F
    PROVE  b # 0 /\ b \in Nat
BY Sizing DEF Meta, Block

\* In the record: F17FS.c:555-569.
LEMMA DirectExtended ==
    ASSUME NEW F, NEW A, NEW r, NEW n, FileOf(F, A, r, n), n < DIRECT_BLOCKS,
           NEW b \in Block \ F,
           NEW r2, r2 = [r EXCEPT !.directPointer[n] = b]
    PROVE  Extended(F, A, r, n, F \cup {b}, A, r2) /\ Nth(r2, A, n) = b
<1>1. /\ DIRECT_BLOCKS \in Nat /\ n \in Nat /\ DIRECT_BLOCKS < Below2 /\ Below2 < Below3
      /\ Below2 \in Nat /\ Below3 \in Nat
      /\ n \in Order /\ Order = 0 .. (DIRECT_BLOCKS - 1)
  BY Sizing, Rows DEF FileOf, Order
<1>2. /\ r \in InodeRecord /\ Shape(r, A, n) /\ b # 0 /\ b \in Block
  BY FreeNotZero DEF FileOf
<1>3. /\ r2 \in InodeRecord /\ r2.fileSize = r.fileSize
      /\ \A k \in Order : r2.directPointer[k] = IF k = n THEN b ELSE r.directPointer[k]
      /\ r2.indirectPointer = r.indirectPointer
      /\ r2.doubleIndirectPointer = r.doubleIndirectPointer
  BY <1>1, <1>2 DEF InodeRecord
<1>4. New(n) = {n}
  BY <1>1, NewPlaces
<1>5. Nth(r2, A, n) = b /\ Ptr(r2, A, n) = b
  <2>1. Nth(r2, A, n) = r2.directPointer[n]
    BY <1>1, NthAt, Zenon
  <2>2. Ptr(r2, A, n) = Nth(r2, A, n)
    BY <1>1, PtrAt, Zenon
  <2>. QED
    BY <1>1, <1>3, <2>1, <2>2
<1>6. \A o \in Index : ~(Row(o) < n) /\ ~(Row(o) < n + 1)
  BY <1>1, Rows
<1>7. Shape(r2, A, n + 1)
  BY <1>1, <1>2, <1>3, <1>6 DEF Shape
<1>8. SamePointers(r, A, n, r2, A)
  BY <1>1, <1>3, <1>6 DEF SamePointers
<1>9. \A p \in Set(n) : Ptr(r2, A, p) = Ptr(r, A, p)
  BY <1>1, <1>8, PointersSame
<1>10. A \in [Block -> Bytes \cup Table]
  BY DEF FileOf
<1>. QED
  BY <1>3, <1>4, <1>5, <1>7, <1>9, <1>10 DEF Extended

\* An index table of one entry.
LEMMA TableOne ==
    ASSUME NEW b \in Block, b # 0
    PROVE  /\ TableWith(0, b) \in Table
           /\ TableWith(0, b)[0] = b
           /\ \A k \in Index : TableWith(0, b)[k] # 0 <=> k = 0
<1>1. 0 \in Block /\ 0 \in Index
  BY Sizing, Rows DEF Block
<1>. QED
  BY <1>1 DEF TableWith, Table

\* What the tables of a file are, and that they are different.
LEMMA FileTables ==
    ASSUME NEW F, NEW A, NEW r, NEW n, FileOf(F, A, r, n)
    PROVE  /\ DIRECT_BLOCKS < n => r.indirectPointer \in F /\ A[r.indirectPointer] \in Table
           /\ Below2 < n =>
                /\ r.doubleIndirectPointer \in F /\ A[r.doubleIndirectPointer] \in Table
                /\ r.doubleIndirectPointer # r.indirectPointer
           /\ \A o \in Index : Row(o) < n =>
                LET inner == A[r.doubleIndirectPointer][o]
                IN  /\ inner \in F /\ A[inner] \in Table
                    /\ inner # r.indirectPointer /\ inner # r.doubleIndirectPointer
                    /\ \A u \in Index : Row(u) < n =>
                         (A[r.doubleIndirectPointer][u] = inner => u = o)
<1>1. /\ n \in Nat /\ n <= Below3 /\ Shape(r, A, n)
      /\ \A p \in Set(n) : Ptr(r, A, p) \in F
      /\ \A p, q \in Set(n) : Ptr(r, A, p) = Ptr(r, A, q) => p = q
  BY DEF FileOf, Shape
<1>2. /\ DIRECT_BLOCKS < n => -1 \in Set(n)
      /\ Below2 < n => -2 \in Set(n)
      /\ \A o \in Index : Row(o) < n => -3 - o \in Set(n)
  BY <1>1, SetHas
<1>3. /\ Ptr(r, A, -1) = r.indirectPointer
      /\ Ptr(r, A, -2) = r.doubleIndirectPointer
      /\ \A o \in Index : Ptr(r, A, -3 - o) = A[r.doubleIndirectPointer][o]
  BY PtrAt
<1>4. /\ Below2 < n => DIRECT_BLOCKS < n
      /\ \A o \in Index : Row(o) < n => Below2 < n
  BY <1>1, Rows, Sizing
<1>5. /\ -1 # -2
      /\ \A o \in Index : -3 - o # -1 /\ -3 - o # -2
      /\ \A o, u \in Index : -3 - o = -3 - u => o = u
  BY Sizing DEF Index
<1>6. DIRECT_BLOCKS < n => r.indirectPointer \in F /\ A[r.indirectPointer] \in Table
  BY <1>1, <1>2, <1>3 DEF Shape
<1>7. Below2 < n =>
        /\ r.doubleIndirectPointer \in F /\ A[r.doubleIndirectPointer] \in Table
        /\ r.doubleIndirectPointer # r.indirectPointer
  <2>1. Below2 < n => r.doubleIndirectPointer \in F /\ A[r.doubleIndirectPointer] \in Table
    BY <1>1, <1>2, <1>3 DEF Shape
  <2>2. Below2 < n => r.doubleIndirectPointer # r.indirectPointer
    BY <1>1, <1>2, <1>3, <1>4, <1>5
  <2>. QED
    BY <2>1, <2>2
<1>8. ASSUME NEW o \in Index, Row(o) < n
      PROVE  LET inner == A[r.doubleIndirectPointer][o]
             IN  /\ inner \in F /\ A[inner] \in Table
                 /\ inner # r.indirectPointer /\ inner # r.doubleIndirectPointer
                 /\ \A u \in Index : Row(u) < n =>
                      (A[r.doubleIndirectPointer][u] = inner => u = o)
  <2> DEFINE inner == A[r.doubleIndirectPointer][o]
  <2>1. A[inner] \in Table
    BY <1>1, <1>8 DEF Shape
  <2>2. -3 - o \in Set(n) /\ -1 \in Set(n) /\ -2 \in Set(n)
    BY <1>2, <1>4, <1>8
  <2>3. inner = Ptr(r, A, -3 - o)
    BY <1>3
  <2>4. inner \in F
    BY <1>1, <2>2, <2>3
  <2>5. inner # r.indirectPointer /\ inner # r.doubleIndirectPointer
    BY <1>1, <1>3, <1>5, <2>2, <2>3
  <2>6. \A u \in Index : Row(u) < n => (A[r.doubleIndirectPointer][u] = inner => u = o)
    BY <1>1, <1>2, <1>3, <1>5, <2>2, <2>3
  <2>. QED
    BY <2>1, <2>4, <2>5, <2>6
<1>. QED
  BY <1>6, <1>7, <1>8

\* The first below the indirect pointer, with its table: F17FS.c:572-590.
FirstIndirect(A, r, a, b, B, r2) ==
    /\ r2 = [r EXCEPT !.indirectPointer = a]
    /\ B = [A EXCEPT ![a] = TableWith(0, b)]

\* The first block below the indirect pointer, with its index table.
LEMMA FirstIndirectExtended ==
    ASSUME NEW F, NEW A, NEW r, NEW n, FileOf(F, A, r, n), n = DIRECT_BLOCKS,
           NEW a \in Block \ F, NEW b \in Block \ F, a # b,
           NEW r2, NEW B, FirstIndirect(A, r, a, b, B, r2)
    PROVE  Extended(F, A, r, n, F \cup {a, b}, B, r2) /\ Nth(r2, B, n) = b
<1>1. /\ n \in Nat /\ n < Below2 /\ Below2 < Below3 /\ n = DIRECT_BLOCKS + 0
      /\ Below2 \in Nat /\ Below3 \in Nat /\ 0 \in Index /\ DIRECT_BLOCKS \in Nat
      /\ Order = 0 .. (DIRECT_BLOCKS - 1) /\ Index = 0 .. (INDIRECT_BLOCKS - 1)
      /\ INDIRECT_BLOCKS \in Nat
  BY Sizing, Rows DEF Order, Index
<1>2. /\ r \in InodeRecord /\ Shape(r, A, n) /\ a # 0 /\ a \in Block /\ b # 0 /\ b \in Block
      /\ A \in [Block -> Bytes \cup Table]
  BY FreeNotZero DEF FileOf
<1>3. /\ r2 \in InodeRecord /\ r2.fileSize = r.fileSize /\ r2.directPointer = r.directPointer /\ r2.indirectPointer = a
      /\ r2.doubleIndirectPointer = r.doubleIndirectPointer
  BY <1>2 DEF InodeRecord, FirstIndirect
<1>4. /\ TableWith(0, b) \in Table /\ TableWith(0, b)[0] = b
      /\ \A k \in Index : TableWith(0, b)[k] # 0 <=> k = 0
  BY <1>2, TableOne
<1>5. /\ B \in [Block -> Bytes \cup Table] /\ B[a] = TableWith(0, b)
      /\ \A x \in Block \ {a} : B[x] = A[x]
  BY <1>2, <1>4 DEF FirstIndirect
<1>6. New(n) = {-1, n}
  BY <1>1, NewPlaces
<1>7. Nth(r2, B, n) = b /\ Ptr(r2, B, n) = b /\ Ptr(r2, B, -1) = a
  <2>1. Nth(r2, B, DIRECT_BLOCKS + 0) = B[r2.indirectPointer][0]
    <3>1. 0 \in Index
      BY <1>1
    <3>. QED
      BY <3>1, IndirectAt, Zenon
  <2>2. Ptr(r2, B, n) = Nth(r2, B, n) /\ Ptr(r2, B, -1) = r2.indirectPointer
    BY <1>1, PtrAt, Zenon
  <2>3. Nth(r2, B, n) = B[r2.indirectPointer][0]
    BY <1>1, <2>1, Zenon
  <2>. QED
    BY <1>3, <1>4, <1>5, <2>2, <2>3
<1>8. \A o \in Index : ~(Row(o) < n) /\ ~(Row(o) < n + 1)
  BY <1>1, Rows
<1>9. Shape(r2, B, n + 1)
  <2>1. B[r2.indirectPointer] \in Table
    BY <1>3, <1>4, <1>5
  <2>2. \A k \in Index : B[r2.indirectPointer][k] # 0 <=> DIRECT_BLOCKS + k < n + 1
    <3>1. \A k \in Index : k = 0 <=> DIRECT_BLOCKS + k < n + 1
      BY <1>1
    <3>. QED
      BY <1>3, <1>4, <1>5, <3>1
  <2>3. \A k \in Order : r2.directPointer[k] # 0 <=> k < n + 1
    <3>1. \A k \in Order : k < n /\ k < n + 1
      BY <1>1
    <3>2. \A k \in Order : r.directPointer[k] # 0 <=> k < n
      BY <1>2 DEF Shape
    <3>. QED
      BY <1>3, <3>1, <3>2
  <2>4. ~(Below2 < n + 1) /\ ~(Below2 < n) /\ DIRECT_BLOCKS < n + 1 /\ n + 1 <= Below3
    BY <1>1
  <2>5. r2.doubleIndirectPointer = 0
    BY <1>2, <1>3, <2>4 DEF Shape
  <2>. QED
    BY <1>2, <1>3, <1>8, <2>1, <2>2, <2>3, <2>4, <2>5 DEF Shape
<1>10. SamePointers(r, A, n, r2, B)
  BY <1>1, <1>3, <1>8 DEF SamePointers
<1>11. \A p \in Set(n) : Ptr(r2, B, p) = Ptr(r, A, p)
  BY <1>1, <1>10, PointersSame
<1>12. /\ F \cup {a, b} = F \cup {Ptr(r2, B, p) : p \in New(n)}
       /\ \A p \in New(n) : Ptr(r2, B, p) \in Block \ F
       /\ \A p, q \in New(n) : Ptr(r2, B, p) = Ptr(r2, B, q) => p = q
  BY <1>6, <1>7
<1>13. \A x \in Block : B[x] = A[x] \/ \E p \in New(n) : p < 0 /\ x = Ptr(r2, B, p)
  BY <1>5, <1>6, <1>7
<1>. QED
  BY <1>3, <1>5, <1>7, <1>9, <1>11, <1>12, <1>13 DEF Extended

\* Below the indirect pointer: F17FS.c:591-607.
NextIndirect(A, r, n, b, B) ==
    B = [A EXCEPT ![r.indirectPointer][n - DIRECT_BLOCKS] = b]

\* A further block below the indirect pointer.
LEMMA IndirectExtended ==
    ASSUME NEW F, NEW A, NEW r, NEW n, FileOf(F, A, r, n),
           DIRECT_BLOCKS < n, n < Below2,
           NEW b \in Block \ F,
           NEW B, NextIndirect(A, r, n, b, B)
    PROVE  Extended(F, A, r, n, F \cup {b}, B, r) /\ Nth(r, B, n) = b
<1> DEFINE ip == r.indirectPointer
<1>0. PICK k0 \in Index : n = DIRECT_BLOCKS + k0 /\ k0 = n - DIRECT_BLOCKS
  <2>1. n - DIRECT_BLOCKS \in Index /\ n = DIRECT_BLOCKS + (n - DIRECT_BLOCKS)
    BY Sizing, Rows DEF Index, FileOf
  <2>. QED
    BY <2>1
<1>1. /\ n \in Nat /\ Below2 < Below3 /\ n = DIRECT_BLOCKS + k0 /\ k0 \in Index
      /\ Below2 \in Nat /\ Below3 \in Nat /\ DIRECT_BLOCKS \in Nat
      /\ Order = 0 .. (DIRECT_BLOCKS - 1) /\ Index = 0 .. (INDIRECT_BLOCKS - 1)
      /\ INDIRECT_BLOCKS \in Nat
  BY <1>0, Sizing, Rows DEF Order, Index, FileOf
<1>2. /\ r \in InodeRecord /\ Shape(r, A, n) /\ b # 0 /\ b \in Block
      /\ A \in [Block -> Bytes \cup Table] /\ F \subseteq Block
  BY FreeNotZero DEF FileOf
<1>3. ip \in F /\ A[ip] \in Table /\ ip \in Block
  BY <1>2, FileTables
<1>4. /\ B[ip] = [A[ip] EXCEPT ![k0] = b]
      /\ \A x \in Block \ {ip} : B[x] = A[x]
      /\ B = [A EXCEPT ![ip] = [A[ip] EXCEPT ![k0] = b]]
  <2>1. B = [A EXCEPT ![ip] = [A[ip] EXCEPT ![k0] = b]]
    BY <1>0 DEF NextIndirect
  <2>. QED
    BY <1>2, <1>3, <2>1
<1>5. /\ B[ip] \in Table /\ B[ip][k0] = b
      /\ \A k \in Index \ {k0} : B[ip][k] = A[ip][k]
  BY <1>1, <1>2, <1>3, <1>4 DEF Table
<1>6. B \in [Block -> Bytes \cup Table]
  BY <1>2, <1>3, <1>4, <1>5
<1>7. New(n) = {n} /\ -1 \in Set(n) /\ -1 < 0
  <2>1. n \in 0 .. (Below3 - 1) /\ n <= Below3
    BY <1>1
  <2>2. New(n) = {n}
    BY <2>1, NewPlaces, Zenon
  <2>. QED
    BY <1>1, <2>1, <2>2, SetHas
<1>8. Nth(r, B, n) = b /\ Ptr(r, B, n) = b /\ Ptr(r, A, -1) = ip
  <2>1. Nth(r, B, DIRECT_BLOCKS + k0) = B[ip][k0]
    BY <1>1, NthAt
  <2>2. Ptr(r, B, n) = Nth(r, B, n) /\ Ptr(r, A, -1) = ip
    BY <1>1, PtrAt, Zenon
  <2>. QED
    BY <1>1, <1>5, <2>1, <2>2
<1> HIDE DEF ip
<1>9. \A o \in Index : ~(Row(o) < n) /\ ~(Row(o) < n + 1)
  BY <1>1, Rows
<1>10. Shape(r, B, n + 1)
  <2>1. \A k \in Index : B[ip][k] # 0 <=> DIRECT_BLOCKS + k < n + 1
    <3>1. \A k \in Index : A[ip][k] # 0 <=> DIRECT_BLOCKS + k < n
      BY <1>2 DEF Shape, ip
    <3>2. \A k \in Index \ {k0} : DIRECT_BLOCKS + k < n <=> DIRECT_BLOCKS + k < n + 1
      BY <1>1
    <3>3. B[ip][k0] # 0 /\ DIRECT_BLOCKS + k0 < n + 1
      BY <1>1, <1>2, <1>5
    <3>4. \A k \in Index \ {k0} : B[ip][k] = A[ip][k]
      BY <1>5
    <3>. QED
      BY <3>1, <3>2, <3>3, <3>4, Zenon
  <2>2. \A k \in Order : r.directPointer[k] # 0 <=> k < n + 1
    <3>1. \A k \in Order : k < n /\ k < n + 1
      BY <1>1
    <3>. QED
      BY <1>2, <3>1 DEF Shape
  <2>3. ~(Below2 < n + 1) /\ ~(Below2 < n) /\ DIRECT_BLOCKS < n + 1 /\ n + 1 <= Below3
    BY <1>1
  <2>4. r.doubleIndirectPointer = 0 /\ ip # 0
    BY <1>2, <2>3 DEF Shape, ip
  <2>. QED
    BY <1>5, <1>9, <2>1, <2>2, <2>3, <2>4 DEF Shape, ip
<1>11. SamePointers(r, A, n, r, B)
  <2>1. \A k \in Index : DIRECT_BLOCKS + k < n => k # k0
    BY <1>1
  <2>2. \A k \in Index : DIRECT_BLOCKS + k < n => B[ip][k] = A[ip][k]
    BY <1>5, <2>1
  <2>. QED
    BY <1>9, <2>2 DEF SamePointers, ip
<1>12. \A p \in Set(n) : Ptr(r, B, p) = Ptr(r, A, p)
  BY <1>1, <1>11, PointersSame
<1>13. /\ F \cup {b} = F \cup {Ptr(r, B, p) : p \in New(n)}
       /\ \A p \in New(n) : Ptr(r, B, p) \in Block \ F
       /\ \A p, q \in New(n) : Ptr(r, B, p) = Ptr(r, B, q) => p = q
  BY <1>7, <1>8
<1>14. \A x \in Block : B[x] = A[x] \/ \E p \in Set(n) : p < 0 /\ x = Ptr(r, A, p)
  BY <1>4, <1>7, <1>8
<1>. QED
  BY <1>2, <1>6, <1>8, <1>10, <1>12, <1>13, <1>14 DEF Extended

\* Where the inner index tables are, seen from one of their blocks.
LEMMA RowOrder ==
    ASSUME NEW o \in Index, NEW k \in Index, NEW n, n = Row(o) + k
    PROVE  /\ n \in Nat /\ Below2 <= n /\ n < Below3
           /\ \A u \in Index : u < o => Row(u) + INDIRECT_BLOCKS <= n
           /\ \A u \in Index : o < u => n < Row(u)
           /\ \A u \in Index : (u # o \/ k # 0) => Row(u) # n
           /\ \A u \in Index : Row(u) < n + 1 <=> u <= o
           /\ \A u \in Index : Row(u) < n <=> (u < o \/ (u = o /\ k # 0))
           /\ \A u \in Index : u < o => \A j \in Index : Row(u) + j < n
<1>1. /\ INDIRECT_BLOCKS \in Nat /\ Index = 0 .. (INDIRECT_BLOCKS - 1) /\ Row(o) \in Nat
      /\ Below2 \in Nat /\ Below3 \in Nat
      /\ n \in Nat /\ Below2 <= n /\ n < Below3 /\ Row(o) <= n /\ n < Row(o) + INDIRECT_BLOCKS
  BY Sizing, Rows, RowJoin DEF Index
<1>2. /\ \A u \in Index : Row(u) \in Nat
      /\ \A u, v \in Index : u < v => Row(u) + INDIRECT_BLOCKS <= Row(v)
  BY Rows
<1>3. ASSUME NEW u \in Index
      PROVE  u \in Nat /\ o \in Nat /\ (u < o \/ u = o \/ o < u)
  BY <1>1
<1>6. k # 0 <=> Row(o) < n
  BY <1>1
<1>11. ASSUME NEW u \in Index
       PROVE  /\ u < o => Row(u) + INDIRECT_BLOCKS <= n /\ Row(u) < n
              /\ o < u => n < Row(u)
              /\ (u # o \/ k # 0) => Row(u) # n
              /\ Row(u) < n + 1 <=> u <= o
              /\ Row(u) < n <=> (u < o \/ (u = o /\ k # 0))
              /\ u < o => \A j \in Index : Row(u) + j < n
  <2>1. PICK w, v, h : w = Row(u) /\ v = Row(o) /\ h = INDIRECT_BLOCKS
    OBVIOUS
  <2>2. /\ w \in Nat /\ v \in Nat /\ h \in Nat /\ h > 0 /\ n \in Nat /\ u \in Nat /\ o \in Nat
        /\ v <= n /\ n < v + h /\ (k # 0 <=> v < n)
    BY <1>1, <1>2, <1>3, <1>6, <2>1
  <2>3. /\ u < o => w + h <= v
        /\ o < u => v + h <= w
    BY <1>2, <2>1, Zenon
  <2>4. u = o => w = v
    BY <2>1
  <2>5. u < o \/ u = o \/ o < u
    BY <2>2
  <2>6. /\ u < o => w + h <= n /\ w < n
        /\ o < u => n < w
    BY <2>2, <2>3
  <2>7. (u # o \/ k # 0) => w # n
    BY <2>2, <2>4, <2>5, <2>6
  <2>8. w < n + 1 <=> u <= o
    BY <2>2, <2>4, <2>5, <2>6
  <2>9. w < n <=> (u < o \/ (u = o /\ k # 0))
    BY <2>2, <2>4, <2>5, <2>6
  <2>10. ASSUME u < o, NEW j \in Index
         PROVE  w + j < n
    <3>1. j \in Nat /\ j < h
      BY <1>1, <2>1
    <3>. QED
      BY <2>2, <2>6, <2>10, <3>1
  <2>. QED
    BY <2>1, <2>6, <2>7, <2>8, <2>9, <2>10
<1>4. \A u \in Index : u < o => Row(u) + INDIRECT_BLOCKS <= n /\ Row(u) < n
  BY <1>11, Zenon
<1>5. \A u \in Index : o < u => n < Row(u)
  BY <1>11, Zenon
<1>7. \A u \in Index : (u # o \/ k # 0) => Row(u) # n
  BY <1>11, Zenon
<1>8. \A u \in Index : Row(u) < n + 1 <=> u <= o
  BY <1>11, Zenon
<1>9. \A u \in Index : Row(u) < n <=> (u < o \/ (u = o /\ k # 0))
  BY <1>11, Zenon
<1>10. \A u \in Index : u < o => \A j \in Index : Row(u) + j < n
  BY <1>11, Zenon
<1>. QED
  BY <1>1, <1>4, <1>5, <1>7, <1>8, <1>9, <1>10

\* The first below the double indirect pointer, with two tables: F17FS.c:612-634.
FirstDouble(A, r, a, c, b, B, r2) ==
    /\ r2 = [r EXCEPT !.doubleIndirectPointer = a]
    /\ B = [A EXCEPT ![a] = TableWith(0, c), ![c] = TableWith(0, b)]

\* The first block below the double indirect pointer, with its two tables.
LEMMA FirstDoubleExtended ==
    ASSUME NEW F, NEW A, NEW r, NEW n, FileOf(F, A, r, n), n = Below2,
           NEW a \in Block \ F, NEW c \in Block \ F, NEW b \in Block \ F,
           a # b, a # c, b # c,
           NEW r2, NEW B, FirstDouble(A, r, a, c, b, B, r2)
    PROVE  Extended(F, A, r, n, F \cup {a, c, b}, B, r2) /\ Nth(r2, B, n) = b
<1>1. /\ n \in Nat /\ DIRECT_BLOCKS < n /\ Below2 < Below3 /\ n = Row(0) + 0
      /\ Below2 \in Nat /\ Below3 \in Nat /\ 0 \in Index /\ DIRECT_BLOCKS \in Nat
      /\ Order = 0 .. (DIRECT_BLOCKS - 1) /\ Index = 0 .. (INDIRECT_BLOCKS - 1)
      /\ INDIRECT_BLOCKS \in Nat /\ n = DIRECT_BLOCKS + INDIRECT_BLOCKS
  BY Sizing, Rows DEF Order, Index
<1>2. /\ r \in InodeRecord /\ Shape(r, A, n)
      /\ A \in [Block -> Bytes \cup Table] /\ F \subseteq Block
  BY DEF FileOf
<1>22. a # 0 /\ a \in Block /\ b # 0 /\ b \in Block /\ c # 0 /\ c \in Block
  BY FreeNotZero DEF FileOf
<1>3. /\ r2 \in InodeRecord /\ r2.fileSize = r.fileSize /\ r2.directPointer = r.directPointer
      /\ r2.indirectPointer = r.indirectPointer
      /\ r2.doubleIndirectPointer = a
  BY <1>2, <1>22 DEF InodeRecord, FirstDouble
<1>4. /\ TableWith(0, b) \in Table /\ TableWith(0, b)[0] = b
      /\ \A k \in Index : TableWith(0, b)[k] # 0 <=> k = 0
      /\ TableWith(0, c) \in Table /\ TableWith(0, c)[0] = c
      /\ \A k \in Index : TableWith(0, c)[k] # 0 <=> k = 0
  BY <1>22, TableOne
<1>5. /\ B \in [Block -> Bytes \cup Table]
      /\ B[a] = TableWith(0, c) /\ B[c] = TableWith(0, b)
      /\ \A x \in Block \ {a, c} : B[x] = A[x]
  BY <1>2, <1>22, <1>4 DEF FirstDouble
<1>6. New(n) = {-2, -3, n}
  BY <1>1, NewPlaces
<1>7. Nth(r2, B, n) = b /\ Ptr(r2, B, n) = b /\ Ptr(r2, B, -2) = a /\ Ptr(r2, B, -3) = c
  <2>1. Nth(r2, B, Row(0) + 0) = B[B[r2.doubleIndirectPointer][0]][0]
    <3>1. \A u, k \in Index : Nth(r2, B, Row(u) + k) = B[B[r2.doubleIndirectPointer][u]][k]
      BY NthAt
    <3>. QED
      BY <1>1, <3>1, Zenon
  <2>2. /\ Ptr(r2, B, n) = Nth(r2, B, n) /\ Ptr(r2, B, -2) = r2.doubleIndirectPointer
        /\ Ptr(r2, B, -3 - 0) = B[r2.doubleIndirectPointer][0]
    BY <1>1, PtrAt, Zenon
  <2>3. Nth(r2, B, n) = B[B[r2.doubleIndirectPointer][0]][0]
    BY <1>1, <2>1, Zenon
  <2>4. -3 - 0 = -3
    OBVIOUS
  <2>5. Ptr(r2, B, -3) = B[r2.doubleIndirectPointer][0]
    BY <2>2, <2>4, Zenon
  <2>. QED
    BY <1>3, <1>4, <1>5, <2>2, <2>3, <2>5
<1>8. \A u \in Index : ~(Row(u) < n) /\ (Row(u) < n + 1 <=> u = 0)
  <2>1. ASSUME NEW u \in Index
        PROVE  ~(Row(u) < n) /\ (Row(u) < n + 1 <=> u = 0)
    <3>1. Row(u) \in Nat /\ n <= Row(u) /\ Row(0) = n
      BY Rows
    <3>2. u # 0 => 0 < u
      BY <1>1
    <3>3. 0 < u => Row(0) + INDIRECT_BLOCKS <= Row(u)
      BY <1>1, Rows
    <3>. QED
      BY <1>1, <3>1, <3>2, <3>3, Sizing
  <2>. QED
    BY <2>1
<1>9. r.indirectPointer \in Block \ {a, c} /\ B[r.indirectPointer] = A[r.indirectPointer]
  BY <1>1, <1>2, <1>5, FileTables
<1>10. Shape(r2, B, n + 1)
  <2>1. /\ \A k \in Order : r.directPointer[k] # 0 <=> k < n
        /\ r.indirectPointer # 0 /\ A[r.indirectPointer] \in Table
        /\ \A k \in Index : A[r.indirectPointer][k] # 0 <=> DIRECT_BLOCKS + k < n
    BY <1>1, <1>2 DEF Shape
  <2>2. \A k \in Order : r2.directPointer[k] # 0 <=> k < n + 1
    <3>1. \A k \in Order : k < n /\ k < n + 1
      BY <1>1
    <3>. QED
      BY <1>3, <2>1, <3>1
  <2>3. \A k \in Index : B[r2.indirectPointer][k] # 0 <=> DIRECT_BLOCKS + k < n + 1
    <3>1. \A k \in Index : DIRECT_BLOCKS + k < n /\ DIRECT_BLOCKS + k < n + 1
      BY <1>1
    <3>. QED
      BY <1>3, <1>9, <2>1, <3>1
  <2>4. B[r2.indirectPointer] \in Table /\ r2.indirectPointer # 0
    BY <1>3, <1>9, <2>1
  <2>5. \A u \in Index : B[r2.doubleIndirectPointer][u] # 0 <=> Row(u) < n + 1
    BY <1>3, <1>4, <1>5, <1>8
  <2>6. B[r2.doubleIndirectPointer] \in Table /\ r2.doubleIndirectPointer # 0
    BY <1>3, <1>4, <1>5, <1>22
  <2>7. ASSUME NEW u \in Index, Row(u) < n + 1
        PROVE  LET inner == B[r2.doubleIndirectPointer][u]
               IN  /\ B[inner] \in Table
                   /\ \A k \in Index : B[inner][k] # 0 <=> Row(u) + k < n + 1
    <3>1. u = 0 /\ B[r2.doubleIndirectPointer][u] = c /\ Row(u) = n
      <4>1. u = 0 /\ Row(0) = n
        BY <1>8, <2>7, Rows
      <4>. QED
        BY <1>3, <1>4, <1>5, <4>1
    <3>2. \A k \in Index : Row(u) + k < n + 1 <=> k = 0
      BY <1>1, <3>1
    <3>. QED
      BY <1>4, <1>5, <3>1, <3>2
  <2>8. Below2 < n + 1 /\ DIRECT_BLOCKS < n + 1 /\ n + 1 <= Below3
    BY <1>1
  <2>. QED
    BY <2>2, <2>3, <2>4, <2>5, <2>6, <2>7, <2>8, Zenon DEF Shape
<1>11. SamePointers(r, A, n, r2, B)
  <2>1. ~(Below2 < n)
    BY <1>1
  <2>. QED
    BY <1>3, <1>8, <1>9, <2>1 DEF SamePointers
<1>12. \A p \in Set(n) : Ptr(r2, B, p) = Ptr(r, A, p)
  BY <1>1, <1>11, PointersSame
<1>13. /\ F \cup {a, c, b} = F \cup {Ptr(r2, B, p) : p \in New(n)}
       /\ \A p \in New(n) : Ptr(r2, B, p) \in Block \ F
       /\ \A p, q \in New(n) : Ptr(r2, B, p) = Ptr(r2, B, q) => p = q
  BY <1>6, <1>7
<1>14. \A x \in Block : B[x] = A[x] \/ \E p \in New(n) : p < 0 /\ x = Ptr(r2, B, p)
  BY <1>5, <1>6, <1>7
<1>. QED
  BY <1>3, <1>5, <1>7, <1>10, <1>12, <1>13, <1>14 DEF Extended

\* The first of another inner table: F17FS.c:641-652.
FirstInner(A, r, o, a, b, B) ==
    B = [A EXCEPT ![r.doubleIndirectPointer][o] = a, ![a] = TableWith(0, b)]

\* The first block of a further inner table, with the table.
LEMMA FirstInnerExtended ==
    ASSUME NEW F, NEW A, NEW r, NEW n, FileOf(F, A, r, n),
           NEW o \in Index, o # 0, n = Row(o),
           NEW a \in Block \ F, NEW b \in Block \ F, a # b,
           NEW B, FirstInner(A, r, o, a, b, B)
    PROVE  Extended(F, A, r, n, F \cup {a, b}, B, r) /\ Nth(r, B, n) = b
<1> DEFINE dip == r.doubleIndirectPointer
<1>1. /\ n \in Nat /\ DIRECT_BLOCKS < n /\ Below2 < n /\ n < Below3 /\ n = Row(o) + 0
      /\ Below2 \in Nat /\ Below3 \in Nat /\ 0 \in Index /\ DIRECT_BLOCKS \in Nat
      /\ Order = 0 .. (DIRECT_BLOCKS - 1) /\ Index = 0 .. (INDIRECT_BLOCKS - 1)
      /\ INDIRECT_BLOCKS \in Nat /\ Below2 = DIRECT_BLOCKS + INDIRECT_BLOCKS
  <2>1. 0 \in Index /\ Index = 0 .. (INDIRECT_BLOCKS - 1) /\ 0 < o
    BY Rows DEF Index
  <2>2. Row(0) + INDIRECT_BLOCKS <= Row(o) /\ Row(0) = Below2
    BY <2>1, Rows
  <2>. QED
    BY <2>1, <2>2, Sizing, Rows DEF Order, Index
<1>2. /\ r \in InodeRecord /\ Shape(r, A, n)
      /\ A \in [Block -> Bytes \cup Table] /\ F \subseteq Block
  BY DEF FileOf
<1>3. a # 0 /\ a \in Block /\ b # 0 /\ b \in Block
  BY FreeNotZero DEF FileOf
<1>4. /\ TableWith(0, b) \in Table /\ TableWith(0, b)[0] = b
      /\ \A k \in Index : TableWith(0, b)[k] # 0 <=> k = 0
  BY <1>3, TableOne
<1>5. /\ r.indirectPointer \in F /\ A[r.indirectPointer] \in Table
      /\ dip \in F /\ A[dip] \in Table /\ dip # r.indirectPointer
      /\ \A u \in Index : Row(u) < n =>
           /\ A[dip][u] \in F /\ A[A[dip][u]] \in Table
           /\ A[dip][u] # dip
  BY <1>1, FileTables
<1>6. /\ dip \in Block /\ dip # a
      /\ B = [[A EXCEPT ![dip] = [A[dip] EXCEPT ![o] = a]] EXCEPT ![a] = TableWith(0, b)]
  BY <1>2, <1>5 DEF FirstInner
<1>7. /\ B[dip] = [A[dip] EXCEPT ![o] = a] /\ B[a] = TableWith(0, b)
      /\ \A x \in Block \ {dip, a} : B[x] = A[x]
  BY <1>2, <1>3, <1>6
<1>8. /\ B[dip] \in Table /\ B[dip][o] = a
      /\ \A u \in Index \ {o} : B[dip][u] = A[dip][u]
  BY <1>3, <1>5, <1>7 DEF Table
<1>9. B \in [Block -> Bytes \cup Table]
  <2>1. [A[dip] EXCEPT ![o] = a] \in Table
    BY <1>7, <1>8
  <2>. QED
    BY <1>2, <1>4, <1>6, <2>1
<1>10. New(n) = {-3 - o, n}
  <2>1. n \in 0 .. (Below3 - 1) /\ n # Below2
    BY <1>1
  <2>. QED
    BY <2>1, NewPlaces, Zenon
<1>11. /\ Nth(r, B, n) = b /\ Ptr(r, B, n) = b /\ Ptr(r, B, -3 - o) = a
       /\ Ptr(r, A, -2) = dip
  <2>1. Nth(r, B, Row(o) + 0) = B[B[dip][o]][0]
    <3>1. \A u, k \in Index : Nth(r, B, Row(u) + k) = B[B[r.doubleIndirectPointer][u]][k]
      BY NthAt
    <3>. QED
      BY <1>1, <3>1, Zenon
  <2>2. /\ Ptr(r, B, n) = Nth(r, B, n) /\ Ptr(r, A, -2) = dip
        /\ Ptr(r, B, -3 - o) = B[dip][o]
    BY <1>1, PtrAt, Zenon
  <2>3. Nth(r, B, n) = B[B[dip][o]][0]
    BY <1>1, <2>1, Zenon
  <2>. QED
    BY <1>4, <1>7, <1>8, <2>2, <2>3
<1> HIDE DEF dip
<1>12. /\ \A u \in Index : Row(u) < n + 1 <=> u <= o
       /\ \A u \in Index : Row(u) < n <=> u < o
       /\ \A u \in Index : u < o => \A k \in Index : Row(u) + k < n
  <2>1. /\ \A u \in Index : Row(u) < n + 1 <=> u <= o
        /\ \A u \in Index : Row(u) < n <=> (u < o \/ (u = o /\ 0 # 0))
        /\ \A u \in Index : u < o => \A k \in Index : Row(u) + k < n
    BY <1>1, RowOrder, Zenon
  <2>. QED
    BY <2>1
<1>13. \A u \in Index : u < o => B[A[dip][u]] = A[A[dip][u]] /\ B[dip][u] = A[dip][u]
  <2>1. ASSUME NEW u \in Index, u < o
        PROVE  B[A[dip][u]] = A[A[dip][u]] /\ B[dip][u] = A[dip][u]
    <3>1. A[dip][u] \in F /\ A[dip][u] # dip
      BY <1>5, <1>12, <2>1
    <3>2. A[dip][u] \in Block \ {dip, a}
      BY <1>2, <3>1
    <3>3. u # o
      BY <1>1, <2>1
    <3>. QED
      BY <1>7, <1>8, <3>2, <3>3
  <2>. QED
    BY <2>1
<1>14. B[r.indirectPointer] = A[r.indirectPointer]
  BY <1>2, <1>5, <1>7
<1>15. Shape(r, B, n + 1)
  <2>1. /\ \A k \in Order : r.directPointer[k] # 0 <=> k < n
        /\ r.indirectPointer # 0 /\ r.doubleIndirectPointer # 0
        /\ \A k \in Index : A[r.indirectPointer][k] # 0 <=> DIRECT_BLOCKS + k < n
        /\ \A u \in Index : A[dip][u] # 0 <=> Row(u) < n
        /\ \A u \in Index : Row(u) < n =>
             \A k \in Index : A[A[dip][u]][k] # 0 <=> Row(u) + k < n
    BY <1>1, <1>2 DEF Shape, dip
  <2>2. \A k \in Order : r.directPointer[k] # 0 <=> k < n + 1
    <3>1. \A k \in Order : k < n /\ k < n + 1
      BY <1>1
    <3>. QED
      BY <2>1, <3>1
  <2>3. \A k \in Index : B[r.indirectPointer][k] # 0 <=> DIRECT_BLOCKS + k < n + 1
    <3>1. \A k \in Index : DIRECT_BLOCKS + k < n /\ DIRECT_BLOCKS + k < n + 1
      BY <1>1
    <3>. QED
      BY <1>14, <2>1, <3>1
  <2>4. \A u \in Index : B[dip][u] # 0 <=> Row(u) < n + 1
    <3>1. ASSUME NEW u \in Index \ {o}
          PROVE  u <= o <=> u < o
      BY <1>1
    <3>2. o <= o
      BY <1>1
    <3>. QED
      BY <1>3, <1>8, <1>12, <2>1, <3>1, <3>2
  <2>5. ASSUME NEW u \in Index, Row(u) < n + 1
        PROVE  /\ B[B[dip][u]] \in Table
               /\ \A k \in Index : B[B[dip][u]][k] # 0 <=> Row(u) + k < n + 1
    <3>1. CASE u = o
      <4>1. \A k \in Index : Row(u) + k < n + 1 <=> k = 0
        <5>1. Row(u) = n
          BY <3>1
        <5>. QED
          BY <1>1, <5>1
      <4>. QED
        BY <1>4, <1>7, <1>8, <3>1, <4>1
    <3>2. CASE u # o
      <4>1. u < o /\ Row(u) < n
        BY <1>1, <1>12, <2>5, <3>2
      <4>2. \A k \in Index : Row(u) + k < n /\ Row(u) + k < n + 1
        <5>1. PICK w : w = Row(u)
          OBVIOUS
        <5>2. w \in Nat /\ n \in Nat
          BY <1>1, <5>1, Rows
        <5>3. \A k \in Index : w + k < n
          BY <1>12, <4>1, <5>1, Zenon
        <5>4. ASSUME NEW k \in Index
              PROVE  w + k < n /\ w + k < n + 1
          <6>1. k \in Nat
            BY <1>1
          <6>2. w + k < n
            BY <5>3, Zenon
          <6>. QED
            BY <5>2, <6>1, <6>2
        <5>. QED
          BY <5>1, <5>4, Zenon
      <4>3. B[A[dip][u]] = A[A[dip][u]] /\ B[dip][u] = A[dip][u]
        BY <1>13, <4>1
      <4>. QED
        BY <1>5, <2>1, <4>1, <4>2, <4>3
    <3>. QED
      BY <3>1, <3>2
  <2>6. Below2 < n + 1 /\ DIRECT_BLOCKS < n + 1 /\ n + 1 <= Below3
    BY <1>1
  <2>7. B[r.indirectPointer] \in Table /\ B[dip] \in Table
    BY <1>5, <1>8, <1>14
  <2>. QED
    BY <2>1, <2>2, <2>3, <2>4, <2>5, <2>6, <2>7, Zenon DEF Shape, dip
<1>16. SamePointers(r, A, n, r, B)
  <2>1. \A u \in Index : Row(u) < n => B[dip][u] = A[dip][u] /\ B[A[dip][u]] = A[A[dip][u]]
    BY <1>12, <1>13
  <2>. QED
    BY <1>14, <2>1 DEF SamePointers, dip
<1>17. \A p \in Set(n) : Ptr(r, B, p) = Ptr(r, A, p)
  BY <1>1, <1>16, PointersSame
<1>18. /\ F \cup {a, b} = F \cup {Ptr(r, B, p) : p \in New(n)}
       /\ \A p \in New(n) : Ptr(r, B, p) \in Block \ F
       /\ \A p, q \in New(n) : Ptr(r, B, p) = Ptr(r, B, q) => p = q
  BY <1>10, <1>11
<1>19. \A x \in Block : \/ B[x] = A[x]
                        \/ \E p \in Set(n) : p < 0 /\ x = Ptr(r, A, p)
                        \/ \E p \in New(n) : p < 0 /\ x = Ptr(r, B, p)
  <2>1. -2 \in Set(n) /\ -2 < 0 /\ -3 - o \in New(n) /\ -3 - o < 0
    BY <1>1, <1>10, SetHas
  <2>. QED
    BY <1>7, <1>11, <2>1
<1>. QED
  BY <1>2, <1>9, <1>11, <1>15, <1>17, <1>18, <1>19 DEF Extended

\* Below an inner table: F17FS.c:653-664.
NextInner(A, r, o, k, b, B) ==
    B = [A EXCEPT ![A[r.doubleIndirectPointer][o]][k] = b]

\* A further block of an inner table.
LEMMA NextInnerExtended ==
    ASSUME NEW F, NEW A, NEW r, NEW n, FileOf(F, A, r, n),
           NEW o \in Index, NEW k0 \in Index, k0 # 0, n = Row(o) + k0,
           NEW b \in Block \ F,
           NEW B, NextInner(A, r, o, k0, b, B)
    PROVE  Extended(F, A, r, n, F \cup {b}, B, r) /\ Nth(r, B, n) = b
<1> DEFINE dip == r.doubleIndirectPointer
<1> DEFINE inner == A[dip][o]
<1>0. /\ n \in Nat /\ Below2 <= n /\ n < Below3
      /\ \A u \in Index : Row(u) # n
      /\ \A u \in Index : Row(u) < n + 1 <=> u <= o
      /\ \A u \in Index : Row(u) < n <=> (u < o \/ u = o)
      /\ \A u \in Index : u < o => \A k \in Index : Row(u) + k < n
  BY RowOrder
<1>1. /\ n \in Nat /\ DIRECT_BLOCKS < n /\ Below2 < n /\ n < Below3
      /\ Below2 \in Nat /\ Below3 \in Nat /\ DIRECT_BLOCKS \in Nat
      /\ Order = 0 .. (DIRECT_BLOCKS - 1) /\ Index = 0 .. (INDIRECT_BLOCKS - 1)
      /\ INDIRECT_BLOCKS \in Nat /\ Below2 = DIRECT_BLOCKS + INDIRECT_BLOCKS
      /\ Row(o) < n /\ Row(o) \in Nat
  BY <1>0, Sizing, Rows DEF Order, Index
<1>2. /\ r \in InodeRecord /\ Shape(r, A, n)
      /\ A \in [Block -> Bytes \cup Table] /\ F \subseteq Block
  BY DEF FileOf
<1>3. b # 0 /\ b \in Block
  BY FreeNotZero DEF FileOf
<1>5. /\ r.indirectPointer \in F /\ A[r.indirectPointer] \in Table
      /\ dip \in F /\ A[dip] \in Table
      /\ inner \in F /\ A[inner] \in Table /\ inner # dip /\ inner # r.indirectPointer
      /\ \A u \in Index : Row(u) < n =>
           /\ A[dip][u] \in F /\ A[A[dip][u]] \in Table
           /\ A[dip][u] = inner => u = o
  BY <1>1, FileTables
<1>6. inner \in Block /\ B = [A EXCEPT ![inner] = [A[inner] EXCEPT ![k0] = b]]
  BY <1>2, <1>5 DEF NextInner
<1>7. /\ B[inner] = [A[inner] EXCEPT ![k0] = b]
      /\ \A x \in Block \ {inner} : B[x] = A[x]
  BY <1>2, <1>6
<1>8. /\ B[inner] \in Table /\ B[inner][k0] = b
      /\ \A k \in Index \ {k0} : B[inner][k] = A[inner][k]
  BY <1>3, <1>5, <1>7 DEF Table
<1>9. B \in [Block -> Bytes \cup Table]
  BY <1>2, <1>6, <1>7, <1>8
<1>10. New(n) = {n}
  <2>1. n \in 0 .. (Below3 - 1)
    BY <1>1
  <2>. QED
    BY <2>1, NewPlaces, Zenon
<1>14. B[r.indirectPointer] = A[r.indirectPointer] /\ B[dip] = A[dip]
  BY <1>2, <1>5, <1>7
<1>11. /\ Nth(r, B, n) = b /\ Ptr(r, B, n) = b
       /\ Ptr(r, A, -3 - o) = inner
  <2>1. Nth(r, B, Row(o) + k0) = B[B[dip][o]][k0]
    <3>1. \A u, k \in Index : Nth(r, B, Row(u) + k) = B[B[r.doubleIndirectPointer][u]][k]
      BY NthAt
    <3>. QED
      BY <1>1, <3>1, Zenon
  <2>2. Ptr(r, B, n) = Nth(r, B, n) /\ Ptr(r, A, -3 - o) = inner
    BY <1>1, PtrAt, Zenon
  <2>3. Nth(r, B, n) = B[B[dip][o]][k0]
    BY <1>1, <2>1, Zenon
  <2>. QED
    BY <1>8, <1>14, <2>2, <2>3
<1>13. \A u \in Index : u < o => B[A[dip][u]] = A[A[dip][u]]
  <2>1. ASSUME NEW u \in Index, u < o
        PROVE  B[A[dip][u]] = A[A[dip][u]]
    <3>1. Row(u) < n /\ u # o
      BY <1>0, <1>1, <2>1
    <3>2. A[dip][u] \in Block \ {inner}
      BY <1>2, <1>5, <3>1
    <3>. QED
      BY <1>7, <3>2
  <2>. QED
    BY <2>1
<1>100. inner = A[dip][o]
  OBVIOUS
<1> HIDE DEF dip, inner
<1>15. Shape(r, B, n + 1)
  <2>1. /\ \A k \in Order : r.directPointer[k] # 0 <=> k < n
        /\ r.indirectPointer # 0 /\ r.doubleIndirectPointer # 0
        /\ \A k \in Index : A[r.indirectPointer][k] # 0 <=> DIRECT_BLOCKS + k < n
        /\ \A u \in Index : A[dip][u] # 0 <=> Row(u) < n
        /\ \A u \in Index : Row(u) < n =>
             \A k \in Index : A[A[dip][u]][k] # 0 <=> Row(u) + k < n
    BY <1>1, <1>2 DEF Shape, dip
  <2>2. \A k \in Order : r.directPointer[k] # 0 <=> k < n + 1
    <3>1. \A k \in Order : k < n /\ k < n + 1
      BY <1>1
    <3>. QED
      BY <2>1, <3>1
  <2>3. \A k \in Index : B[r.indirectPointer][k] # 0 <=> DIRECT_BLOCKS + k < n + 1
    <3>1. \A k \in Index : DIRECT_BLOCKS + k < n /\ DIRECT_BLOCKS + k < n + 1
      BY <1>1
    <3>. QED
      BY <1>14, <2>1, <3>1
  <2>4. \A u \in Index : Row(u) < n <=> Row(u) < n + 1
    <3>1. \A u \in Index : u <= o <=> (u < o \/ u = o)
      BY <1>1
    <3>. QED
      BY <1>0, <3>1
  <2>8. \A u \in Index : B[dip][u] # 0 <=> Row(u) < n + 1
    BY <1>14, <2>1, <2>4
  <2>5. ASSUME NEW u \in Index, Row(u) < n + 1
        PROVE  /\ B[B[dip][u]] \in Table
               /\ \A k \in Index : B[B[dip][u]][k] # 0 <=> Row(u) + k < n + 1
    <3>0. Row(u) < n
      BY <2>4, <2>5
    <3>1. CASE u = o
      <4>1. B[B[dip][u]] = B[inner]
        BY <1>14, <1>100, <3>1
      <4>2. \A k \in Index : A[inner][k] # 0 <=> Row(o) + k < n
        BY <1>100, <2>1, <3>0, <3>1
      <4>3. \A k \in Index \ {k0} : Row(o) + k < n <=> Row(o) + k < n + 1
        BY <1>1
      <4>4. Row(o) + k0 < n + 1
        BY <1>1
      <4>5. \A k \in Index : B[inner][k] # 0 <=> Row(o) + k < n + 1
        BY <1>3, <1>8, <4>2, <4>3, <4>4
      <4>. QED
        BY <1>8, <3>1, <4>1, <4>5
    <3>2. CASE u # o
      <4>1. u < o
        BY <1>0, <3>0, <3>2
      <4>2. \A k \in Index : Row(u) + k < n /\ Row(u) + k < n + 1
        <5>1. Row(u) \in Nat
          BY Rows
        <5>2. \A k \in Index : Row(u) + k < n
          BY <1>0, <4>1
        <5>3. PICK w : w = Row(u)
          OBVIOUS
        <5>4. \A k \in Index : k \in Nat
          BY <1>1
        <5>5. ASSUME NEW k \in Index
              PROVE  w + k < n + 1
          <6>1. w + k < n /\ k \in Nat /\ w \in Nat /\ n \in Nat
            BY <1>1, <5>1, <5>2, <5>3, <5>4, Zenon
          <6>. QED
            BY <6>1
        <5>. QED
          BY <5>2, <5>3, <5>5, Zenon
      <4>3. B[A[dip][u]] = A[A[dip][u]] /\ B[dip][u] = A[dip][u]
        BY <1>13, <1>14, <4>1
      <4>4. PICK x : x = A[dip][u]
        OBVIOUS
      <4>5. B[B[dip][u]] = A[x]
        BY <4>3, <4>4, Zenon
      <4>6. A[x] \in Table
        BY <1>5, <3>0, <4>4, Zenon
      <4>7. \A k \in Index : A[x][k] # 0 <=> Row(u) + k < n
        BY <2>1, <3>0, <4>4, Zenon
      <4>. QED
        BY <4>2, <4>5, <4>6, <4>7, Zenon
    <3>. QED
      BY <3>1, <3>2
  <2>6. Below2 < n + 1 /\ DIRECT_BLOCKS < n + 1 /\ n + 1 <= Below3
    BY <1>1
  <2>7. B[r.indirectPointer] \in Table /\ B[dip] \in Table
    BY <1>5, <1>14
  <2>. QED
    BY <2>1, <2>2, <2>3, <2>8, <2>5, <2>6, <2>7, Zenon DEF Shape, dip
<1>16. SamePointers(r, A, n, r, B)
  <2>1. ASSUME NEW u \in Index, Row(u) < n, NEW k \in Index, Row(u) + k < n
        PROVE  B[A[dip][u]][k] = A[A[dip][u]][k]
    <3>1. CASE u = o
      <4>1. k # k0
        BY <1>1, <2>1, <3>1
      <4>. QED
        BY <1>8, <1>100, <3>1, <4>1
    <3>2. CASE u # o
      BY <1>0, <1>13, <2>1, <3>2
    <3>. QED
      BY <3>1, <3>2
  <2>. QED
    BY <1>14, <2>1 DEF SamePointers, dip
<1>17. \A p \in Set(n) : Ptr(r, B, p) = Ptr(r, A, p)
  BY <1>1, <1>16, PointersSame
<1>18. /\ F \cup {b} = F \cup {Ptr(r, B, p) : p \in New(n)}
       /\ \A p \in New(n) : Ptr(r, B, p) \in Block \ F
       /\ \A p, q \in New(n) : Ptr(r, B, p) = Ptr(r, B, q) => p = q
  BY <1>10, <1>11
<1>19. \A x \in Block : B[x] = A[x] \/ \E p \in Set(n) : p < 0 /\ x = Ptr(r, A, p)
  <2>1. -3 - o \in Set(n) /\ -3 - o < 0
    BY <1>1, SetHas
  <2>. QED
    BY <1>7, <1>11, <2>1
<1>. QED
  BY <1>2, <1>9, <1>11, <1>15, <1>17, <1>18, <1>19 DEF Extended

-----------------------------------------------------------------------------
(* get_data_block_id *)

\* A call in progress.
Calls == [fbm : SUBSET Block, ino : InodeRecord, block : [Block -> Bytes \cup Table],
          pos : FdRecord, id : Block, done : Nat, got : Seq(Byte \cup {Stale})]

\* A data block of a file is in use.
LEMMA NthUsed ==
    ASSUME NEW F, NEW A, NEW r, NEW n, FileOf(F, A, r, n), NEW m \in 0 .. (n - 1)
    PROVE  Nth(r, A, m) \in F /\ Nth(r, A, m) # 0 /\ Nth(r, A, m) \in Block
<1>1. /\ n \in Nat /\ n <= Below3 /\ Shape(r, A, n) /\ F \subseteq Block
      /\ \A p \in Set(n) : Ptr(r, A, p) \in F
      /\ m \in Nat /\ m < n /\ m \in 0 .. (Below3 - 1)
  BY Rows DEF FileOf, Shape
<1>2. Nth(r, A, m) \in F
  <2>1. m \in Set(n)
    BY <1>1, SetHas
  <2>2. Ptr(r, A, m) = Nth(r, A, m)
    BY <1>1, PtrAt, Zenon
  <2>. QED
    BY <1>1, <2>1, <2>2
<1>3. CASE m \in Order
  <2>1. Nth(r, A, m) = r.directPointer[m]
    BY <1>3, NthAt
  <2>2. r.directPointer[m] # 0
    BY <1>1, <1>3, Zenon DEF Shape
  <2>. QED
    BY <1>1, <1>2, <2>1, <2>2
<1>4. CASE \E k \in Index : m = DIRECT_BLOCKS + k
  <2>1. PICK k \in Index : m = DIRECT_BLOCKS + k
    BY <1>4
  <2>2. DIRECT_BLOCKS < n /\ DIRECT_BLOCKS + k < n
    BY <1>1, <2>1, Sizing DEF Index
  <2>3. \A j \in Index : Nth(r, A, DIRECT_BLOCKS + j) = A[r.indirectPointer][j]
    BY NthAt
  <2>4. Nth(r, A, m) = A[r.indirectPointer][k]
    BY <2>1, <2>3, Zenon
  <2>5. A[r.indirectPointer][k] # 0
    BY <1>1, <2>2, Zenon DEF Shape
  <2>. QED
    BY <1>1, <1>2, <2>4, <2>5
<1>5. CASE \E o, k \in Index : m = Row(o) + k
  <2>1. PICK o \in Index, k \in Index : m = Row(o) + k
    BY <1>5
  <2>2. Row(o) < n /\ Row(o) + k < n
    BY <1>1, <2>1, Rows, Sizing DEF Index
  <2>3. \A u, j \in Index : Nth(r, A, Row(u) + j) = A[A[r.doubleIndirectPointer][u]][j]
    BY NthAt
  <2>4. Nth(r, A, m) = A[A[r.doubleIndirectPointer][o]][k]
    BY <2>1, <2>3, Zenon
  <2>5. A[A[r.doubleIndirectPointer][o]][k] # 0
    BY <1>1, <2>2, Zenon DEF Shape
  <2>. QED
    BY <1>1, <1>2, <2>4, <2>5
<1>. QED
  BY <1>1, <1>2, <1>3, <1>4, <1>5, DataCases

\* The call found the n-th block.
Found(t, n, t2) == t2 = [t EXCEPT !.id = Nth(t.ino, t.block, n)]

\* The call added an n-th block to the file.
Grown(t, n, t2) ==
    /\ t2 \in Calls
    /\ Extended(t.fbm, t.block, t.ino, n, t2.fbm, t2.block, t2.ino)
    /\ t2.id = Nth(t2.ino, t2.block, n)
    /\ t2.pos = t.pos /\ t2.done = t.done /\ t2.got = t.got

\* The file of the call has n blocks.
Holds(t, n) == t \in Calls /\ FileOf(t.fbm, t.block, t.ino, n)

\* What an allocation of one, two or three blocks takes.
LEMMA TakenOne ==
    ASSUME NEW t \in Calls, Free(t, 1), NEW b, b = NthFree(t, 1)
    PROVE  /\ Allocated(t, 1) = [t EXCEPT !.fbm = t.fbm \cup {b}, !.id = b]
           /\ b \in Block \ t.fbm /\ t.fbm \cup {b} \subseteq Block /\ b \in Block
<1>1. t.fbm \in SUBSET Block
  BY DEF Calls
<1>2. 1 .. 1 = {1} /\ 1 \in 1 .. 3
  OBVIOUS
<1>3. \A k \in 1 .. 1 : NthFree(t, k) \in Block \ t.fbm
  BY <1>1, <1>2, FreeBlocks, Zenon
<1>4. {NthFree(t, k) : k \in 1 .. 1} = {b}
  BY <1>2
<1>5. Allocated(t, 1) = [t EXCEPT !.fbm = t.fbm \cup {b}, !.id = b]
  BY <1>4 DEF Allocated, Calls
<1>. QED
  BY <1>1, <1>2, <1>3, <1>5

\* Two blocks taken are free ones and differ.
LEMMA TakenTwo ==
    ASSUME NEW t \in Calls, Free(t, 2)
    PROVE  \E a, b :
             /\ a = NthFree(t, 1) /\ b = NthFree(t, 2)
             /\ Allocated(t, 2) = [t EXCEPT !.fbm = t.fbm \cup {a, b}, !.id = b]
             /\ a \in Block \ t.fbm /\ b \in Block \ t.fbm /\ a # b
             /\ t.fbm \cup {a, b} \subseteq Block /\ b \in Block
<1>01. PICK a : a = NthFree(t, 1)
  OBVIOUS
<1>02. PICK b : b = NthFree(t, 2)
  OBVIOUS
<1>1. t.fbm \in SUBSET Block
  BY DEF Calls
<1>2. 1 .. 2 = {1, 2} /\ 2 \in 1 .. 3
  OBVIOUS
<1>3. /\ \A k \in 1 .. 2 : NthFree(t, k) \in Block \ t.fbm
      /\ \A j, k \in 1 .. 2 : j # k => NthFree(t, j) # NthFree(t, k)
  BY <1>1, <1>2, FreeBlocks, Zenon
<1>4. {NthFree(t, k) : k \in 1 .. 2} = {a, b}
  BY <1>01, <1>02, <1>2
<1>5. Allocated(t, 2) = [t EXCEPT !.fbm = t.fbm \cup {a, b}, !.id = b]
  BY <1>02, <1>4 DEF Allocated, Calls
<1>6. /\ a \in Block \ t.fbm /\ b \in Block \ t.fbm /\ a # b
      /\ t.fbm \cup {a, b} \subseteq Block /\ b \in Block
  BY <1>01, <1>02, <1>1, <1>2, <1>3
<1>. QED
  BY <1>01, <1>02, <1>5, <1>6, Zenon

\* Three blocks taken are free ones and differ.
LEMMA TakenThree ==
    ASSUME NEW t \in Calls, Free(t, 3)
    PROVE  \E a, c, b :
             /\ a = NthFree(t, 1) /\ c = NthFree(t, 2) /\ b = NthFree(t, 3)
             /\ Allocated(t, 3) = [t EXCEPT !.fbm = t.fbm \cup {a, c, b}, !.id = b]
             /\ a \in Block \ t.fbm /\ b \in Block \ t.fbm /\ c \in Block \ t.fbm
             /\ a # b /\ a # c /\ b # c
             /\ t.fbm \cup {a, c, b} \subseteq Block /\ b \in Block
<1>01. PICK a : a = NthFree(t, 1)
  OBVIOUS
<1>02. PICK c : c = NthFree(t, 2)
  OBVIOUS
<1>03. PICK b : b = NthFree(t, 3)
  OBVIOUS
<1>1. t.fbm \in SUBSET Block
  BY DEF Calls
<1>2. 1 .. 3 = {1, 2, 3} /\ 3 \in 1 .. 3
  OBVIOUS
<1>3. /\ \A k \in 1 .. 3 : NthFree(t, k) \in Block \ t.fbm
      /\ \A j, k \in 1 .. 3 : j # k => NthFree(t, j) # NthFree(t, k)
  BY <1>1, <1>2, FreeBlocks, Zenon
<1>4. {NthFree(t, k) : k \in 1 .. 3} = {a, c, b}
  BY <1>01, <1>02, <1>03, <1>2
<1>5. Allocated(t, 3) = [t EXCEPT !.fbm = t.fbm \cup {a, c, b}, !.id = b]
  BY <1>03, <1>4 DEF Allocated, Calls
<1>6. /\ a \in Block \ t.fbm /\ b \in Block \ t.fbm /\ c \in Block \ t.fbm
      /\ a # b /\ a # c /\ b # c
      /\ t.fbm \cup {a, c, b} \subseteq Block /\ b \in Block
  BY <1>01, <1>02, <1>03, <1>1, <1>2, <1>3
<1>. QED
  BY <1>01, <1>02, <1>03, <1>5, <1>6, Zenon

\* A call that took the blocks of S, the last of which is b, and stored B and r.
Stored(t, F, b, B, r, t2) ==
    t2 = [t EXCEPT !.fbm = F, !.id = b, !.block = B, !.ino = r]

\* A call that stores an extended file has grown it.
LEMMA GrownBy ==
    ASSUME NEW t \in Calls, NEW n, NEW F, F \subseteq Block, NEW b \in Block, NEW B, NEW r,
           Extended(t.fbm, t.block, t.ino, n, F, B, r), Nth(r, B, n) = b,
           NEW t2, Stored(t, F, b, B, r, t2)
    PROVE  Grown(t, n, t2)
<1>0. B \in [Block -> Bytes \cup Table] /\ r \in InodeRecord
  BY DEF Extended
<1>1. /\ t2 \in Calls /\ t2.fbm = F /\ t2.id = b /\ t2.block = B /\ t2.ino = r
      /\ t2.pos = t.pos /\ t2.done = t.done /\ t2.got = t.got
  BY <1>0 DEF Calls, Stored
<1>. QED
  BY <1>1 DEF Grown

\* What DirectBlock finds, takes or fails to get.
LEMMA DirectGets ==
    ASSUME NEW t, NEW n, Holds(t, n), NEW k \in Order, NEW t2, t2 = DirectBlock(t, k)
    PROVE  /\ k < n => Found(t, k, t2)
           /\ k = n /\ Free(t, 1) => Grown(t, n, t2)
           /\ k = n /\ ~Free(t, 1) => t2 = None(t)
<1>1. /\ t \in Calls /\ FileOf(t.fbm, t.block, t.ino, n) /\ Shape(t.ino, t.block, n)
      /\ n \in Nat /\ k \in Nat /\ Order = 0 .. (DIRECT_BLOCKS - 1) /\ DIRECT_BLOCKS \in Nat
      /\ t.ino \in InodeRecord /\ t.fbm \subseteq Block
      /\ t.block \in [Block -> Bytes \cup Table]
  BY Sizing DEF Holds, FileOf, Order, Calls
<1>2. Nth(t.ino, t.block, k) = t.ino.directPointer[k]
  BY NthAt
<1>3. ASSUME k < n
      PROVE  Found(t, k, t2)
  <2>1. k \in 0 .. (n - 1)
    BY <1>1, <1>3
  <2>2. t.ino.directPointer[k] \in t.fbm /\ t.ino.directPointer[k] # 0
    BY <1>1, <1>2, <2>1, NthUsed
  <2>. QED
    BY <1>2, <2>2 DEF DirectBlock, Existing, bitmap_test, Found
<1>4. ASSUME k = n
      PROVE  t.ino.directPointer[k] = 0
  <2>1. ~(k < n)
    BY <1>1, <1>4
  <2>. QED
    BY <1>1, <2>1 DEF Shape
<1>5. ASSUME k = n, Free(t, 1)
      PROVE  Grown(t, n, t2)
  <2>0. PICK b : b = NthFree(t, 1)
    OBVIOUS
  <2>1. /\ Allocated(t, 1) = [t EXCEPT !.fbm = t.fbm \cup {b}, !.id = b]
        /\ b \in Block \ t.fbm /\ t.fbm \cup {b} \subseteq Block /\ b \in Block
    BY <1>1, <1>5, <2>0, TakenOne, Zenon
  <2>2. t2 = [Allocated(t, 1) EXCEPT !.ino.directPointer[k] = b]
    BY <1>4, <1>5, <2>0 DEF DirectBlock
  <2>3. PICK r : r = [t.ino EXCEPT !.directPointer[n] = b]
    OBVIOUS
  <2>4. n < DIRECT_BLOCKS
    BY <1>1, <1>5
  <2>5. Extended(t.fbm, t.block, t.ino, n, t.fbm \cup {b}, t.block, r) /\ Nth(r, t.block, n) = b
    BY <1>1, <2>1, <2>3, <2>4, DirectExtended
  <2>7. Stored(t, t.fbm \cup {b}, b, t.block, r, t2)
    BY <1>1, <1>5, <2>1, <2>2, <2>3 DEF Calls, Stored
  <2>8. t \in Calls /\ t.fbm \cup {b} \subseteq Block /\ b \in Block
    BY <1>1, <2>1
  <2>. QED
    BY <2>5, <2>7, <2>8, GrownBy
<1>6. ASSUME k = n, ~Free(t, 1)
      PROVE  t2 = None(t)
  BY <1>4, <1>6 DEF DirectBlock
<1>. QED
  BY <1>3, <1>5, <1>6

\* What IndirectBlock finds, takes or fails to get.
LEMMA IndirectGets ==
    ASSUME NEW t, NEW n, Holds(t, n), NEW k \in Index, NEW t2, t2 = IndirectBlock(t, k),
           NEW m, m = DIRECT_BLOCKS + k, NEW need, need = IF k = 0 THEN 2 ELSE 1
    PROVE  /\ m < n => Found(t, m, t2)
           /\ m = n /\ Free(t, need) => Grown(t, n, t2)
           /\ m = n /\ ~Free(t, need) => t2 = None(t)
<1>1. /\ t \in Calls /\ FileOf(t.fbm, t.block, t.ino, n) /\ Shape(t.ino, t.block, n)
      /\ n \in Nat /\ k \in Nat /\ k < INDIRECT_BLOCKS /\ DIRECT_BLOCKS \in Nat
      /\ m \in Nat /\ m < Below2 /\ DIRECT_BLOCKS <= m
      /\ t.ino \in InodeRecord /\ t.fbm \subseteq Block
      /\ t.block \in [Block -> Bytes \cup Table]
      /\ k = m - DIRECT_BLOCKS
  <2>1. /\ k \in Nat /\ k < INDIRECT_BLOCKS /\ DIRECT_BLOCKS \in Nat
        /\ m \in Nat /\ m < Below2 /\ DIRECT_BLOCKS <= m /\ k = m - DIRECT_BLOCKS
    BY Sizing, Rows DEF Index
  <2>. QED
    BY <2>1 DEF Holds, FileOf, Calls
<1> DEFINE ip == t.ino.indirectPointer
<1>2. Nth(t.ino, t.block, m) = t.block[ip][k]
  <2>1. PICK r, B : r = t.ino /\ B = t.block
    OBVIOUS
  <2>2. k \in Index /\ DIRECT_BLOCKS + k = m
    BY <1>1 DEF Index
  <2>4. Nth(r, B, DIRECT_BLOCKS + k) = B[r.indirectPointer][k]
    BY <2>2, IndirectAt, Zenon
  <2>. QED
    BY <2>1, <2>2, <2>4, Zenon
<1>3. DIRECT_BLOCKS < n => ip \in t.fbm /\ ip # 0 /\ ip \in Block /\ t.block[ip] \in Table
  <2>1. DIRECT_BLOCKS < n => ip \in t.fbm /\ t.block[ip] \in Table
    BY <1>1, FileTables
  <2>2. DIRECT_BLOCKS < n => ip # 0
    BY <1>1 DEF Shape
  <2>. QED
    BY <1>1, <2>1, <2>2
<1>4. ASSUME m < n
      PROVE  Found(t, m, t2)
  <2>1. m \in 0 .. (n - 1) /\ DIRECT_BLOCKS < n
    BY <1>1, <1>4
  <2>2. t.block[ip][k] \in t.fbm /\ t.block[ip][k] # 0
    BY <1>1, <1>2, <2>1, NthUsed
  <2>. QED
    BY <1>2, <1>3, <2>1, <2>2, Zenon
    DEF IndirectBlock, TableEntry, Existing, bitmap_test, Found
<1>5. ASSUME m = n, k = 0
      PROVE  /\ Free(t, 2) => Grown(t, n, t2)
             /\ ~Free(t, 2) => t2 = None(t)
  <2>1. n = DIRECT_BLOCKS /\ ~(DIRECT_BLOCKS < n)
    BY <1>1, <1>5
  <2>2. ip = 0
    BY <1>1, <2>1 DEF Shape
  <2>3. ~Free(t, 2) => t2 = None(t)
    BY <2>2 DEF IndirectBlock
  <2>4. ASSUME Free(t, 2)
        PROVE  Grown(t, n, t2)
    <3>1. PICK a, b :
             /\ a = NthFree(t, 1) /\ b = NthFree(t, 2)
             /\ Allocated(t, 2) = [t EXCEPT !.fbm = t.fbm \cup {a, b}, !.id = b]
             /\ a \in Block \ t.fbm /\ b \in Block \ t.fbm /\ a # b
             /\ t.fbm \cup {a, b} \subseteq Block /\ b \in Block
      <4>1. t \in Calls
        BY <1>1
      <4>. QED
        BY <2>4, <4>1, TakenTwo
    <3>2. t2 = [Allocated(t, 2) EXCEPT !.ino.indirectPointer = a,
                                       !.block[a] = TableWith(0, b)]
      BY <1>5, <2>2, <2>4, <3>1 DEF IndirectBlock
    <3>3. PICK r : r = [t.ino EXCEPT !.indirectPointer = a]
      OBVIOUS
    <3>4. PICK B : B = [t.block EXCEPT ![a] = TableWith(0, b)]
      OBVIOUS
    <3>5. FirstIndirect(t.block, t.ino, a, b, B, r)
      BY <3>3, <3>4 DEF FirstIndirect
    <3>6. Extended(t.fbm, t.block, t.ino, n, t.fbm \cup {a, b}, B, r) /\ Nth(r, B, n) = b
      <4>1. FileOf(t.fbm, t.block, t.ino, n) /\ n = DIRECT_BLOCKS
        BY <1>1, <2>1
      <4>. QED
        BY <3>1, <3>5, <4>1, FirstIndirectExtended
    <3>7. Stored(t, t.fbm \cup {a, b}, b, B, r, t2)
      BY <1>1, <3>1, <3>2, <3>3, <3>4 DEF Calls, Stored
    <3>8. t \in Calls /\ t.fbm \cup {a, b} \subseteq Block /\ b \in Block
      BY <1>1, <3>1
    <3>. QED
      BY <3>6, <3>7, <3>8, GrownBy
  <2>. QED
    BY <2>3, <2>4
<1>6. ASSUME m = n, k # 0
      PROVE  /\ Free(t, 1) => Grown(t, n, t2)
             /\ ~Free(t, 1) => t2 = None(t)
  <2>1. DIRECT_BLOCKS < n /\ n < Below2 /\ ~(DIRECT_BLOCKS + k < n)
    BY <1>1, <1>6
  <2>2. t.block[ip][k] = 0
    BY <1>1, <2>1 DEF Shape
  <2>3. ip # 0 /\ ip \in t.fbm
    BY <1>3, <2>1
  <2>4. ~Free(t, 1) => t2 = None(t)
    BY <2>2, <2>3, Zenon DEF IndirectBlock, TableEntry, bitmap_test
  <2>5. ASSUME Free(t, 1)
        PROVE  Grown(t, n, t2)
    <3>0. PICK b : b = NthFree(t, 1)
      OBVIOUS
    <3>1. /\ Allocated(t, 1) = [t EXCEPT !.fbm = t.fbm \cup {b}, !.id = b]
          /\ b \in Block \ t.fbm /\ t.fbm \cup {b} \subseteq Block /\ b \in Block
      BY <1>1, <2>5, <3>0, TakenOne, Zenon
    <3>2. t2 = [Allocated(t, 1) EXCEPT !.block[ip][k] = b]
      BY <2>2, <2>3, <2>5, <3>0, Zenon DEF IndirectBlock, TableEntry, bitmap_test
    <3>3. PICK B : B = [t.block EXCEPT ![ip][k] = b]
      OBVIOUS
    <3>4. NextIndirect(t.block, t.ino, n, b, B)
      BY <1>1, <1>6, <3>3 DEF NextIndirect
    <3>5. Extended(t.fbm, t.block, t.ino, n, t.fbm \cup {b}, B, t.ino) /\ Nth(t.ino, B, n) = b
      BY <1>1, <2>1, <3>1, <3>4, IndirectExtended
    <3>7. Stored(t, t.fbm \cup {b}, b, B, t.ino, t2)
      BY <1>1, <3>1, <3>2, <3>3 DEF Calls, Stored
    <3>8. t \in Calls /\ t.fbm \cup {b} \subseteq Block /\ b \in Block
      BY <1>1, <3>1
    <3>. QED
      BY <3>5, <3>7, <3>8, GrownBy
  <2>. QED
    BY <2>4, <2>5
<1>. QED
  BY <1>4, <1>5, <1>6

\* The entries that an order below the double indirect pointer is for.
At(order, o, k) == o = order \div INDIRECT_BLOCKS /\ k = order % INDIRECT_BLOCKS

\* What DoubleIndirectBlock finds, takes or fails to get.
LEMMA DoubleGets ==
    ASSUME NEW t, NEW n, Holds(t, n), NEW order,
           NEW o \in Index, NEW k \in Index,
           At(order, o, k),
           NEW t2, t2 = DoubleIndirectBlock(t, order),
           NEW m, m = Row(o) + k,
           NEW need, need = IF m = Below2 THEN 3 ELSE IF k = 0 THEN 2 ELSE 1
    PROVE  /\ m < n => Found(t, m, t2)
           /\ m = n /\ Free(t, need) => Grown(t, n, t2)
           /\ m = n /\ ~Free(t, need) => t2 = None(t)
<1> DEFINE dip == t.ino.doubleIndirectPointer
<1> DEFINE inner == t.block[dip][o]
<1>1. /\ t \in Calls /\ FileOf(t.fbm, t.block, t.ino, n) /\ Shape(t.ino, t.block, n)
      /\ n \in Nat /\ t.ino \in InodeRecord /\ t.fbm \subseteq Block
      /\ t.block \in [Block -> Bytes \cup Table]
  BY DEF Holds, FileOf, Calls
<1>2. /\ m \in Nat /\ Below2 <= m /\ m < Below3 /\ Below2 \in Nat
      /\ Row(o) \in Nat /\ Row(o) <= m /\ (Row(o) = m <=> k = 0)
      /\ o = 0 => Row(o) = Below2
      /\ o # 0 => Below2 < Row(o)
  <2>1. m \in Nat /\ Below2 <= m /\ m < Below3
    BY RowOrder
  <2>2. Row(o) \in Nat /\ o \in Nat /\ k \in Nat /\ 0 \in Index /\ INDIRECT_BLOCKS \in Nat \ {0}
        /\ Below2 \in Nat
    BY Rows, Sizing DEF Index
  <2>3. o # 0 => Row(0) + INDIRECT_BLOCKS <= Row(o)
    BY <2>2, Rows
  <2>. QED
    BY <2>1, <2>2, <2>3, Rows
<1>3. Nth(t.ino, t.block, m) = t.block[inner][k]
  <2>1. PICK r, B : r = t.ino /\ B = t.block
    OBVIOUS
  <2>2. Nth(r, B, Row(o) + k) = B[B[r.doubleIndirectPointer][o]][k]
    BY NthAt
  <2>. QED
    BY <2>1, <2>2, Zenon
<1>4. Below2 < n => dip \in t.fbm /\ dip # 0 /\ dip \in Block
  <2>1. Below2 < n => dip \in t.fbm
    BY <1>1, FileTables
  <2>2. Below2 < n => dip # 0
    BY <1>1, Zenon DEF Shape
  <2>. QED
    BY <1>1, <2>1, <2>2
<1>5. Row(o) < n => inner \in t.fbm /\ inner # 0 /\ inner \in Block
  <2>1. Row(o) < n => inner \in t.fbm
    BY <1>1, FileTables
  <2>2. Row(o) < n => Below2 < n
    BY <1>1, Rows
  <2>3. Row(o) < n => inner # 0
    BY <1>1, <2>2, Zenon DEF Shape
  <2>. QED
    BY <1>1, <2>1, <2>3
<1>6. ASSUME m < n
      PROVE  Found(t, m, t2)
  <2>1. m \in 0 .. (n - 1) /\ Below2 < n /\ Row(o) < n
    BY <1>1, <1>2, <1>6
  <2>2. t.block[inner][k] \in t.fbm /\ t.block[inner][k] # 0
    BY <1>1, <1>3, <2>1, NthUsed
  <2>3. t2 = TableEntry(t, inner, k)
    BY <1>4, <1>5, <2>1, Zenon DEF DoubleIndirectBlock, bitmap_test, At
  <2>. QED
    BY <1>3, <2>2, <2>3, Zenon DEF TableEntry, Existing, bitmap_test, Found
<1>7. ASSUME m = n, m = Below2
      PROVE  /\ Free(t, 3) => Grown(t, n, t2)
             /\ ~Free(t, 3) => t2 = None(t)
  <2>1. n = Below2 /\ ~(Below2 < n)
    BY <1>1, <1>2, <1>7
  <2>2. dip = 0
    BY <1>1, <2>1 DEF Shape
  <2>3. ~Free(t, 3) => t2 = None(t)
    BY <2>2, Zenon DEF DoubleIndirectBlock
  <2>4. ASSUME Free(t, 3)
        PROVE  Grown(t, n, t2)
    <3>1. PICK a, c, b :
             /\ a = NthFree(t, 1) /\ c = NthFree(t, 2) /\ b = NthFree(t, 3)
             /\ Allocated(t, 3) = [t EXCEPT !.fbm = t.fbm \cup {a, c, b}, !.id = b]
             /\ a \in Block \ t.fbm /\ b \in Block \ t.fbm /\ c \in Block \ t.fbm
             /\ a # b /\ a # c /\ b # c
             /\ t.fbm \cup {a, c, b} \subseteq Block /\ b \in Block
      <4>1. t \in Calls
        BY <1>1
      <4>. QED
        BY <2>4, <4>1, TakenThree
    <3>2. t2 = [Allocated(t, 3) EXCEPT !.ino.doubleIndirectPointer = a,
                                       !.block = [@ EXCEPT ![a] = TableWith(0, c),
                                                           ![c] = TableWith(0, b)]]
      BY <2>2, <2>4, <3>1, Zenon DEF DoubleIndirectBlock
    <3>3. PICK r : r = [t.ino EXCEPT !.doubleIndirectPointer = a]
      OBVIOUS
    <3>4. PICK B : B = [t.block EXCEPT ![a] = TableWith(0, c), ![c] = TableWith(0, b)]
      OBVIOUS
    <3>5. FirstDouble(t.block, t.ino, a, c, b, B, r)
      BY <3>3, <3>4 DEF FirstDouble
    <3>6. Extended(t.fbm, t.block, t.ino, n, t.fbm \cup {a, c, b}, B, r) /\ Nth(r, B, n) = b
      <4>1. FileOf(t.fbm, t.block, t.ino, n) /\ n = Below2
        BY <1>1, <2>1
      <4>. QED
        BY <3>1, <3>5, <4>1, FirstDoubleExtended
    <3>7. Stored(t, t.fbm \cup {a, c, b}, b, B, r, t2)
      <4>1. t \in Calls
        BY <1>1
      <4>2. PICK G : G = t.fbm \cup {a, c, b}
        OBVIOUS
      <4>3. t2 = [[t EXCEPT !.fbm = G, !.id = b]
                   EXCEPT !.ino = r, !.block = B]
        <5>1. PICK v : v = [t EXCEPT !.fbm = G, !.id = b]
          OBVIOUS
        <5>2. /\ v.ino = t.ino /\ v.block = t.block
              /\ DOMAIN v = DOMAIN t /\ "ino" \in DOMAIN v /\ "block" \in DOMAIN v
          BY <4>1, <5>1 DEF Calls
        <5>3. t2 = [v EXCEPT !.ino.doubleIndirectPointer = a,
                             !.block = [@ EXCEPT ![a] = TableWith(0, c), ![c] = TableWith(0, b)]]
          BY <3>1, <3>2, <4>2, <5>1, Zenon
        <5>. QED
          BY <3>3, <3>4, <5>1, <5>2, <5>3
      <4>4. t2 = [t EXCEPT !.fbm = G, !.id = b, !.block = B, !.ino = r]
        BY <4>1, <4>3 DEF Calls
      <4>. QED
        BY <4>2, <4>4, Zenon DEF Stored
    <3>8. t \in Calls /\ t.fbm \cup {a, c, b} \subseteq Block /\ b \in Block
      BY <1>1, <3>1
    <3>. QED
      BY <3>6, <3>7, <3>8, GrownBy
  <2>. QED
    BY <2>3, <2>4
<1>8. ASSUME m = n, m # Below2, k = 0
      PROVE  /\ Free(t, 2) => Grown(t, n, t2)
             /\ ~Free(t, 2) => t2 = None(t)
  <2>1. n = Row(o) /\ ~(Row(o) < n) /\ Below2 < n /\ o # 0
    BY <1>1, <1>2, <1>8
  <2>2. inner = 0
    BY <1>1, <2>1, Zenon DEF Shape
  <2>3. dip # 0 /\ dip \in t.fbm
    BY <1>4, <2>1
  <2>4. ~Free(t, 2) => t2 = None(t)
    BY <2>2, <2>3, Zenon DEF DoubleIndirectBlock, bitmap_test, At
  <2>5. ASSUME Free(t, 2)
        PROVE  Grown(t, n, t2)
    <3>1. PICK a, b :
             /\ a = NthFree(t, 1) /\ b = NthFree(t, 2)
             /\ Allocated(t, 2) = [t EXCEPT !.fbm = t.fbm \cup {a, b}, !.id = b]
             /\ a \in Block \ t.fbm /\ b \in Block \ t.fbm /\ a # b
             /\ t.fbm \cup {a, b} \subseteq Block /\ b \in Block
      <4>1. t \in Calls
        BY <1>1
      <4>. QED
        BY <2>5, <4>1, TakenTwo
    <3>2. t2 = [Allocated(t, 2) EXCEPT !.block = [@ EXCEPT ![dip][o] = a,
                                                           ![a] = TableWith(0, b)]]
      BY <1>8, <2>2, <2>3, <2>5, <3>1, Zenon DEF DoubleIndirectBlock, bitmap_test, At
    <3>4. PICK B : B = [t.block EXCEPT ![dip][o] = a, ![a] = TableWith(0, b)]
      OBVIOUS
    <3>5. FirstInner(t.block, t.ino, o, a, b, B)
      BY <3>4 DEF FirstInner
    <3>6. Extended(t.fbm, t.block, t.ino, n, t.fbm \cup {a, b}, B, t.ino) /\ Nth(t.ino, B, n) = b
      <4>1. FileOf(t.fbm, t.block, t.ino, n)
        BY <1>1
      <4>. QED
        BY <2>1, <3>1, <3>5, <4>1, FirstInnerExtended
    <3>7. Stored(t, t.fbm \cup {a, b}, b, B, t.ino, t2)
      BY <1>1, <3>1, <3>2, <3>4 DEF Calls, Stored
    <3>8. t \in Calls /\ t.fbm \cup {a, b} \subseteq Block /\ b \in Block
      BY <1>1, <3>1
    <3>. QED
      BY <3>6, <3>7, <3>8, GrownBy
  <2>. QED
    BY <2>4, <2>5
<1>9. ASSUME m = n, k # 0
      PROVE  /\ Free(t, 1) => Grown(t, n, t2)
             /\ ~Free(t, 1) => t2 = None(t)
  <2>1. /\ Below2 < n /\ Row(o) < n /\ ~(Row(o) + k < n) /\ n = Row(o) + k
    BY <1>1, <1>2, <1>9
  <2>2. t.block[inner][k] = 0
    BY <1>1, <2>1, Zenon DEF Shape
  <2>3. dip # 0 /\ dip \in t.fbm /\ inner # 0 /\ inner \in t.fbm
    BY <1>4, <1>5, <2>1
  <2>33. t2 = TableEntry(t, inner, k)
    BY <2>3, Zenon DEF DoubleIndirectBlock, bitmap_test, At
  <2>4. ~Free(t, 1) => t2 = None(t)
    BY <2>2, <2>33, Zenon DEF TableEntry
  <2>5. ASSUME Free(t, 1)
        PROVE  Grown(t, n, t2)
    <3>0. PICK b : b = NthFree(t, 1)
      OBVIOUS
    <3>1. /\ Allocated(t, 1) = [t EXCEPT !.fbm = t.fbm \cup {b}, !.id = b]
          /\ b \in Block \ t.fbm /\ t.fbm \cup {b} \subseteq Block /\ b \in Block
      BY <1>1, <2>5, <3>0, TakenOne, Zenon
    <3>2. t2 = [Allocated(t, 1) EXCEPT !.block[inner][k] = b]
      BY <2>2, <2>33, <2>5, <3>0, Zenon DEF TableEntry
    <3>3. PICK B : B = [t.block EXCEPT ![inner][k] = b]
      OBVIOUS
    <3>4. NextInner(t.block, t.ino, o, k, b, B)
      BY <3>3 DEF NextInner
    <3>5. Extended(t.fbm, t.block, t.ino, n, t.fbm \cup {b}, B, t.ino) /\ Nth(t.ino, B, n) = b
      <4>1. FileOf(t.fbm, t.block, t.ino, n)
        BY <1>1
      <4>. QED
        BY <1>9, <2>1, <3>1, <3>4, <4>1, NextInnerExtended
    <3>7. Stored(t, t.fbm \cup {b}, b, B, t.ino, t2)
      BY <1>1, <3>1, <3>2, <3>3 DEF Calls, Stored
    <3>8. t \in Calls /\ t.fbm \cup {b} \subseteq Block /\ b \in Block
      BY <1>1, <3>1
    <3>. QED
      BY <3>5, <3>7, <3>8, GrownBy
  <2>. QED
    BY <2>4, <2>5
<1>. QED
  <2>1. k # 0 => m # Below2
    BY <1>2
  <2>. QED
    BY <1>6, <1>7, <1>8, <1>9, <2>1

\* The block a position is in.
BlockOf(pos) ==
    pos.locate_order + (CASE pos.usage = 1 -> 0
                          [] pos.usage = 2 -> DIRECT_BLOCKS
                          [] pos.usage = 4 -> Below2)

\* What get_data_block_id does in a file of n blocks.
LEMMA Gets ==
    ASSUME NEW t, NEW n, Holds(t, n), InTable(t.pos), NEW t2, t2 = get_data_block_id(t)
    PROVE  /\ BlockOf(t.pos) \in Nat
           /\ BlockOf(t.pos) < n => Found(t, BlockOf(t.pos), t2)
           /\ BlockOf(t.pos) = n /\ Free(t, Needed(t.pos)) => Grown(t, n, t2)
           /\ BlockOf(t.pos) = n /\ ~Free(t, Needed(t.pos)) => t2 = None(t)
<1>1. PICK q : q = t.pos.locate_order
  OBVIOUS
<1>2. /\ q \in Nat /\ DIRECT_BLOCKS \in Nat /\ Below2 \in Nat /\ INDIRECT_BLOCKS \in Nat \ {0}
      /\ t.pos.usage \in {1, 2, 4} /\ Order \subseteq Nat /\ Index \subseteq Nat
  <2>1. t.pos \in FdRecord
    BY DEF Holds, Calls
  <2>2. t.pos.usage \in {1, 2, 4} /\ q \in Nat
    <3>1. t.pos.usage \in {1, 2, 4} /\ t.pos.locate_order \in 0 .. (Uint16 - 1)
      BY <2>1, Zenon DEF FdRecord
    <3>2. Uint16 \in Nat
      BY DEF Uint16
    <3>4. q \in Nat
      BY <1>1, <3>1, <3>2
    <3>. QED
      BY <3>1, <3>4
  <2>. QED
    BY <2>2, Sizing, Rows DEF Order, Index
<1>3. CASE t.pos.usage = 1
  <2>1. q \in Order /\ t2 = DirectBlock(t, q) /\ BlockOf(t.pos) = q /\ Needed(t.pos) = 1
    BY <1>1, <1>2, <1>3 DEF InTable, get_data_block_id, BlockOf, Needed
  <2>2. /\ q < n => Found(t, q, t2)
        /\ q = n /\ Free(t, 1) => Grown(t, n, t2)
        /\ q = n /\ ~Free(t, 1) => t2 = None(t)
    BY <2>1, DirectGets
  <2>. QED
    BY <1>2, <2>1, <2>2
<1>4. CASE t.pos.usage = 2
  <2>1. q \in Index /\ t2 = IndirectBlock(t, q) /\ BlockOf(t.pos) = DIRECT_BLOCKS + q
    BY <1>1, <1>2, <1>4 DEF InTable, get_data_block_id, BlockOf
  <2>2. Needed(t.pos) = IF q = 0 THEN 2 ELSE 1
    BY <1>1, <1>4 DEF Needed
  <2>3. PICK m, need : m = DIRECT_BLOCKS + q /\ need = IF q = 0 THEN 2 ELSE 1
    OBVIOUS
  <2>4. /\ m < n => Found(t, m, t2)
        /\ m = n /\ Free(t, need) => Grown(t, n, t2)
        /\ m = n /\ ~Free(t, need) => t2 = None(t)
    BY <2>1, <2>3, IndirectGets
  <2>5. m \in Nat /\ BlockOf(t.pos) = m /\ Needed(t.pos) = need
    BY <1>2, <2>1, <2>2, <2>3
  <2>. QED
    BY <2>4, <2>5
<1>5. CASE t.pos.usage = 4
  <2>1. /\ q \div INDIRECT_BLOCKS \in Index
        /\ t2 = DoubleIndirectBlock(t, q) /\ BlockOf(t.pos) = Below2 + q
    BY <1>1, <1>2, <1>5 DEF InTable, get_data_block_id, BlockOf
  <2>2. /\ q % INDIRECT_BLOCKS \in Index
        /\ q = (q \div INDIRECT_BLOCKS) * INDIRECT_BLOCKS + (q % INDIRECT_BLOCKS)
    BY <1>2, Division DEF Index
  <2>3. PICK o \in Index, k \in Index :
           /\ o = q \div INDIRECT_BLOCKS /\ k = q % INDIRECT_BLOCKS
           /\ At(q, o, k)
    BY <2>1, <2>2 DEF At
  <2>4. PICK m : m = Row(o) + k
    OBVIOUS
  <2>5. m = Below2 + q /\ (m = Below2 <=> q = 0)
    <3>1. o * INDIRECT_BLOCKS \in Nat /\ k \in Nat
      BY <1>2, <2>3, Products
    <3>2. q = o * INDIRECT_BLOCKS + k
      BY <2>2, <2>3
    <3>3. Row(o) = Below2 + o * INDIRECT_BLOCKS
      BY DEF Row
    <3>. QED
      BY <1>2, <2>4, <3>1, <3>2, <3>3
  <2>6. PICK need : need = IF m = Below2 THEN 3 ELSE IF k = 0 THEN 2 ELSE 1
    OBVIOUS
  <2>7. Needed(t.pos) = need
    BY <1>1, <1>5, <2>3, <2>5, <2>6 DEF Needed
  <2>8. /\ m < n => Found(t, m, t2)
        /\ m = n /\ Free(t, need) => Grown(t, n, t2)
        /\ m = n /\ ~Free(t, need) => t2 = None(t)
    BY <2>1, <2>3, <2>4, <2>6, DoubleGets
  <2>9. m \in Nat /\ BlockOf(t.pos) = m
    BY <1>2, <2>1, <2>5
  <2>. QED
    BY <2>7, <2>8, <2>9
<1>. QED
  BY <1>2, <1>3, <1>4, <1>5

-----------------------------------------------------------------------------
(* A file is smaller than its tables *)

\* The data blocks of a file are blocks of the volume, and the volume has fewer
\* than a file has places for.
LEMMA FileSmall ==
    ASSUME NEW F, NEW A, NEW R, NEW C, Sound(F, A, R, C), NEW i \in File
    PROVE  C[i] \in Nat /\ C[i] < Below3 /\ C[i] < Uint16
<1> DEFINE n == C[i]
<1> DEFINE D == Block \ Meta
<1>1. /\ n \in Nat /\ n <= Below3 /\ F \subseteq Block
      /\ \A p \in Set(n) : Ptr(R[i], A, p) \in F \ Meta
      /\ \A p, q \in Set(n) : Ptr(R[i], A, p) = Ptr(R[i], A, q) => p = q
  BY DEF Sound, Typed, Shape, PointersApart
<1>2. /\ MetaBlocks \in Nat \ {0} /\ NumBlocks \in Nat /\ MetaBlocks <= NumBlocks
      /\ NumBlocks <= 65536 /\ INDIRECT_BLOCKS \in Nat /\ DIRECT_BLOCKS \in Nat
      /\ Block = 0 .. (NumBlocks - 1) /\ Meta = 0 .. (MetaBlocks - 1)
      /\ Below2 \in Nat /\ Below3 \in Nat
  BY Sizing, Rows DEF Block, Meta
<1>3. D = MetaBlocks .. (NumBlocks - 1)
  BY <1>2
<1>4. IsFiniteSet(D) /\ Cardinality(D) = NumBlocks - MetaBlocks
  <2>1. MetaBlocks \in Int /\ NumBlocks - 1 \in Int
    BY <1>2
  <2>2. /\ IsFiniteSet(MetaBlocks .. (NumBlocks - 1))
        /\ Cardinality(MetaBlocks .. (NumBlocks - 1))
             = IF MetaBlocks > NumBlocks - 1 THEN 0 ELSE (NumBlocks - 1) - MetaBlocks + 1
    BY <2>1, FS_Interval, Zenon
  <2>3. (IF MetaBlocks > NumBlocks - 1 THEN 0 ELSE (NumBlocks - 1) - MetaBlocks + 1)
          = NumBlocks - MetaBlocks
    BY <1>2
  <2>. QED
    BY <1>3, <2>2, <2>3, Zenon
<1>5. \A S \in SUBSET Set(n) : Cardinality(S) <= NumBlocks - MetaBlocks
  <2>1. SUFFICES ASSUME NEW S \in SUBSET Set(n)
                 PROVE  Cardinality(S) <= Cardinality(D)
    BY <1>4
  <2> DEFINE x == [p \in S |-> Ptr(R[i], A, p)]
  <2>2. x \in [S -> D]
    BY <1>1
  <2>3. \A p, q \in S : x[p] = x[q] => p = q
    BY <1>1
  <2> HIDE DEF x, D
  <2>4. x \in Injection(S, D)
    BY <2>2, <2>3 DEF Injection, IsInjective
  <2>. QED
    BY <1>4, <2>4, FS_Injection
<1>6. n < 65536
  <2>1. 0 .. (n - 1) \subseteq Set(n)
    BY <1>1, SetHas
  <2>2. Cardinality(0 .. (n - 1)) = n
    <3>1. 0 \in Int /\ n - 1 \in Int
      BY <1>1
    <3>2. Cardinality(0 .. (n - 1)) = IF 0 > n - 1 THEN 0 ELSE (n - 1) - 0 + 1
      BY <3>1, FS_Interval, Zenon
    <3>. QED
      BY <1>1, <3>2
  <2>. QED
    BY <1>1, <1>2, <1>5, <2>1, <2>2
<1>7. n # Below3
  <2>1. SUFFICES ASSUME n = Below3 PROVE FALSE
    OBVIOUS
  <2>2. Place \subseteq Set(n)
    BY <2>1, Places DEF Set
  <2>3. Cardinality(Place) = Below3 + INDIRECT_BLOCKS + 2
    <3>1. -(INDIRECT_BLOCKS + 2) \in Int /\ Below3 - 1 \in Int
      BY <1>2
    <3>2. Cardinality(Place) = IF -(INDIRECT_BLOCKS + 2) > Below3 - 1 THEN 0
                               ELSE (Below3 - 1) - (-(INDIRECT_BLOCKS + 2)) + 1
      BY <3>1, FS_Interval, Zenon DEF Place
    <3>. QED
      BY <1>2, <3>2
  <2>4. Below3 + INDIRECT_BLOCKS + 2 <= NumBlocks - MetaBlocks
    BY <1>5, <2>2, <2>3
  <2>5. INDIRECT_BLOCKS * INDIRECT_BLOCKS \in Nat
    BY <1>2, Products
  <2>. QED
    BY <1>2, <2>4, <2>5, FileIOAssumption DEF Below3, Below2
<1>. QED
  BY <1>1, <1>2, <1>6, <1>7 DEF Uint16

-----------------------------------------------------------------------------
(* Positions *)

\* The lesser of two.
LEMMA MinTwo ==
    ASSUME NEW a \in Int, NEW b \in Int
    PROVE  Min({a, b}) = IF a <= b THEN a ELSE b
<1> DEFINE m == IF a <= b THEN a ELSE b
<1>1. m \in {a, b} /\ \A y \in {a, b} : m <= y
  OBVIOUS
<1>2. \A x \in {a, b} : (\A y \in {a, b} : x <= y) => x = m
  OBVIOUS
<1>. QED
  BY <1>1, <1>2 DEF Min

\* The greater of two.
LEMMA MaxTwo ==
    ASSUME NEW a \in Int, NEW b \in Int
    PROVE  Max({a, b}) = IF a >= b THEN a ELSE b
<1> DEFINE m == IF a >= b THEN a ELSE b
<1>1. m \in {a, b} /\ \A y \in {a, b} : m >= y
  OBVIOUS
<1>2. \A x \in {a, b} : (\A y \in {a, b} : x >= y) => x = m
  OBVIOUS
<1>. QED
  BY <1>1, <1>2 DEF Max

\* How many blocks the bytes up to a place in block n are.
LEMMA CeilAt ==
    ASSUME NEW n \in Nat, NEW o \in Nat, o <= BLOCK_SIZE_BYTES
    PROVE  CeilDiv(n * BLOCK_SIZE_BYTES + o, BLOCK_SIZE_BYTES) = IF o = 0 THEN n ELSE n + 1
<1> DEFINE w == BLOCK_SIZE_BYTES
<1>1. w \in Nat \ {0} /\ n * w \in Nat /\ (n + 1) * w = n * w + w
  BY Sizing, Products
<1>2. CASE o = 0
  <2>1. (n * w + o) + w - 1 = n * w + (w - 1) /\ w - 1 \in 0 .. (w - 1)
    BY <1>1, <1>2
  <2>2. (n * w + (w - 1)) \div w = n
    BY <1>1, <2>1, DivisionUnique
  <2>. QED
    BY <1>2, <2>1, <2>2 DEF CeilDiv
<1>3. CASE o # 0
  <2>1. (n * w + o) + w - 1 = (n + 1) * w + (o - 1) /\ o - 1 \in 0 .. (w - 1) /\ n + 1 \in Nat
    BY <1>1, <1>3
  <2>2. ((n + 1) * w + (o - 1)) \div w = n + 1
    BY <1>1, <2>1, DivisionUnique
  <2>. QED
    BY <1>3, <2>1, <2>2 DEF CeilDiv
<1>. QED
  BY <1>2, <1>3

\* More bytes are not fewer blocks, and the blocks are enough.
LEMMA CeilGrows ==
    ASSUME NEW x \in Nat, NEW y \in Nat
    PROVE  /\ CeilDiv(x, BLOCK_SIZE_BYTES) \in Nat
           /\ CeilDiv(0, BLOCK_SIZE_BYTES) = 0
           /\ x <= y => CeilDiv(x, BLOCK_SIZE_BYTES) <= CeilDiv(y, BLOCK_SIZE_BYTES)
<1> DEFINE w == BLOCK_SIZE_BYTES
<1>1. w \in Nat \ {0}
  BY Sizing
<1>2. /\ x \div w \in Nat /\ x % w \in 0 .. (w - 1) /\ x = (x \div w) * w + (x % w)
      /\ y \div w \in Nat /\ y % w \in 0 .. (w - 1) /\ y = (y \div w) * w + (y % w)
  BY <1>1, Division
<1>3. PICK a, o, b, u : a = x \div w /\ o = x % w /\ b = y \div w /\ u = y % w
  OBVIOUS
<1>4. /\ a \in Nat /\ o \in Nat /\ o < w /\ x = a * w + o
      /\ b \in Nat /\ u \in Nat /\ u < w /\ y = b * w + u
  BY <1>1, <1>2, <1>3
<1>5. CeilDiv(x, w) = IF o = 0 THEN a ELSE a + 1
  <2>1. o <= w
    BY <1>1, <1>4
  <2>2. CeilDiv(a * w + o, w) = IF o = 0 THEN a ELSE a + 1
    BY <1>4, <2>1, CeilAt, Zenon
  <2>. QED
    BY <1>4, <2>2, Zenon
<1>6. CeilDiv(y, w) = IF u = 0 THEN b ELSE b + 1
  <2>1. u <= w
    BY <1>1, <1>4
  <2>2. CeilDiv(b * w + u, w) = IF u = 0 THEN b ELSE b + 1
    BY <1>4, <2>1, CeilAt, Zenon
  <2>. QED
    BY <1>4, <2>2, Zenon
<1>7. CeilDiv(0, w) = 0
  <2>1. 0 * w + 0 = 0
    BY <1>1
  <2>2. CeilDiv(0 * w + 0, w) = 0
    BY <1>1, CeilAt
  <2>. QED
    BY <2>1, <2>2
<1>8. ASSUME x <= y
      PROVE  CeilDiv(x, w) <= CeilDiv(y, w)
  <2>1. a * w \in Nat /\ b * w \in Nat
    BY <1>1, <1>4, Products
  <2>2. a <= b
    <3>1. SUFFICES ASSUME b + 1 <= a PROVE FALSE
      BY <1>4
    <3>2. (b + 1) * w = b * w + w /\ (b + 1) * w <= a * w
      BY <1>1, <1>4, <3>1, Products
    <3>. QED
      BY <1>1, <1>4, <1>8, <2>1, <3>2
  <2>3. a = b => o <= u
    <3>1. a = b => a * w = b * w
      OBVIOUS
    <3>. QED
      BY <1>1, <1>4, <1>8, <2>1, <3>1
  <2>. QED
    BY <1>4, <1>5, <1>6, <2>2, <2>3
<1>. QED
  BY <1>4, <1>5, <1>7, <1>8

\* A position, as a block and an offset in it.
LEMMA PosBytes ==
    ASSUME NEW pos \in FdRecord
    PROVE  /\ BlockOf(pos) \in Nat
           /\ pos.locate_offset \in Nat /\ pos.locate_offset < BLOCK_SIZE_BYTES
           /\ BlockOf(pos) * BLOCK_SIZE_BYTES \in Nat
           /\ getFileSize(pos) = BlockOf(pos) * BLOCK_SIZE_BYTES + pos.locate_offset
           /\ getFileSize(pos) \in Nat
<1>1. /\ pos.usage \in {1, 2, 4} /\ pos.locate_order \in Nat
      /\ pos.locate_offset \in Nat /\ pos.locate_offset < BLOCK_SIZE_BYTES
  <2>1. /\ pos.usage \in {1, 2, 4} /\ pos.locate_order \in 0 .. (Uint16 - 1)
        /\ pos.locate_offset \in 0 .. (BLOCK_SIZE_BYTES - 1)
    BY DEF FdRecord, Offset
  <2>2. Uint16 \in Nat
    BY DEF Uint16
  <2>. QED
    BY <2>1, <2>2, Sizing
<1>2. DIRECT_BLOCKS \in Nat /\ INDIRECT_BLOCKS \in Nat /\ BLOCK_SIZE_BYTES \in Nat
  BY Sizing
<1>3. PICK before \in Nat :
        /\ BlockOf(pos) = pos.locate_order + before
        /\ getFileSize(pos) = BLOCK_SIZE_BYTES * (before + pos.locate_order) + pos.locate_offset
  BY <1>1, <1>2 DEF BlockOf, getFileSize, Below2
<1>4. BLOCK_SIZE_BYTES * (before + pos.locate_order)
        = (pos.locate_order + before) * BLOCK_SIZE_BYTES
  BY <1>1, <1>2
<1>5. (pos.locate_order + before) * BLOCK_SIZE_BYTES \in Nat
  BY <1>1, <1>2, Products
<1>. QED
  BY <1>1, <1>2, <1>3, <1>4, <1>5

\* The next position is in a table as long as the next block is below the end of them.
LEMMA NextBlockIs ==
    ASSUME NEW pos \in FdRecord, InTable(pos), BlockOf(pos) + 1 < Below3,
           BlockOf(pos) + 1 < Uint16, NEW next, next = NextBlock(pos)
    PROVE  /\ next \in FdRecord /\ next.inodeNum = pos.inodeNum
           /\ InTable(next) /\ BlockOf(next) = BlockOf(pos) + 1 /\ next.locate_offset = 0
<1>1. pos.usage \in {1, 2, 4} /\ pos.inodeNum \in File /\ pos.locate_order \in 0 .. (Uint16 - 1)
  BY Zenon DEF FdRecord
<1>2. /\ DIRECT_BLOCKS \in Nat \ {0} /\ INDIRECT_BLOCKS \in Nat \ {0} /\ INDIRECT_BLOCKS < Uint16
      /\ DIRECT_BLOCKS <= Uint16
      /\ BLOCK_SIZE_BYTES \in Nat \ {0} /\ Below2 = DIRECT_BLOCKS + INDIRECT_BLOCKS
      /\ Order = 0 .. (DIRECT_BLOCKS - 1) /\ Index = 0 .. (INDIRECT_BLOCKS - 1)
      /\ Uint16 \in Nat \ {0} /\ 0 \in Offset
  BY Sizing, Rows DEF Order, Index, Uint16, Offset
<1>3. 0 \in 0 .. (Uint16 - 1)
  BY <1>2
<1>4. CASE pos.usage = 1 /\ pos.locate_order = DIRECT_BLOCKS - 1
  <2>1. next = [pos EXCEPT !.usage = 2, !.locate_order = 0, !.locate_offset = 0]
    BY <1>4 DEF NextBlock
  <2>2. /\ next \in FdRecord /\ next.inodeNum = pos.inodeNum /\ next.usage = 2
        /\ next.locate_order = 0 /\ next.locate_offset = 0
    BY <1>2, <1>3, <2>1 DEF FdRecord
  <2>3. InTable(next) /\ BlockOf(next) = DIRECT_BLOCKS /\ BlockOf(pos) = DIRECT_BLOCKS - 1
    BY <1>2, <1>4, <2>2 DEF InTable, BlockOf
  <2>. QED
    BY <1>2, <2>2, <2>3
<1>5. CASE pos.usage = 2 /\ pos.locate_order = INDIRECT_BLOCKS - 1
  <2>1. next = [pos EXCEPT !.usage = 4, !.locate_order = 0, !.locate_offset = 0]
    BY <1>5 DEF NextBlock
  <2>2. /\ next \in FdRecord /\ next.inodeNum = pos.inodeNum /\ next.usage = 4
        /\ next.locate_order = 0 /\ next.locate_offset = 0
    BY <1>2, <1>3, <2>1 DEF FdRecord
  <2>3. BlockOf(next) = Below2 /\ BlockOf(pos) = Below2 - 1
    BY <1>2, <1>5, <2>2 DEF BlockOf
  <2>4. 0 \div INDIRECT_BLOCKS \in Index
    BY <1>2
  <2>. QED
    BY <1>2, <2>2, <2>3, <2>4 DEF InTable
<1>6. CASE ~(pos.usage = 1 /\ pos.locate_order = DIRECT_BLOCKS - 1)
           /\ ~(pos.usage = 2 /\ pos.locate_order = INDIRECT_BLOCKS - 1)
  <2> DEFINE q == pos.locate_order + 1
  <2>1. q < Uint16
    <3>1. pos.locate_order \in Nat
      BY <1>1, <1>2
    <3>2. CASE pos.usage = 1
      BY <1>2, <3>1, <3>2 DEF BlockOf
    <3>3. CASE pos.usage = 2
      BY <1>2, <3>1, <3>3 DEF BlockOf
    <3>4. CASE pos.usage = 4
      BY <1>2, <3>1, <3>4 DEF BlockOf
    <3>. QED
      BY <1>1, <3>2, <3>3, <3>4
  <2>2. q % Uint16 = q /\ q \in 0 .. (Uint16 - 1)
    <3>1. q \in Nat /\ 0 * Uint16 + q = q
      BY <1>1, <1>2
    <3>2. q \in 0 .. (Uint16 - 1)
      BY <1>2, <2>1, <3>1
    <3>3. (0 * Uint16 + q) % Uint16 = q
      BY <1>2, <3>2, DivisionUnique
    <3>. QED
      BY <3>1, <3>2, <3>3
  <2>3. next = [pos EXCEPT !.locate_order = q, !.locate_offset = 0]
    BY <1>2, <1>6, <2>2 DEF NextBlock
  <2>4. /\ next \in FdRecord /\ next.inodeNum = pos.inodeNum /\ next.usage = pos.usage
        /\ next.locate_order = q /\ next.locate_offset = 0
    BY <1>2, <1>3, <2>2, <2>3 DEF FdRecord
  <2>5. BlockOf(next) = BlockOf(pos) + 1
    <3>1. CASE pos.usage = 1
      BY <1>1, <2>4, <3>1 DEF BlockOf
    <3>2. CASE pos.usage = 2
      BY <1>1, <1>2, <2>4, <3>2 DEF BlockOf
    <3>3. CASE pos.usage = 4
      BY <1>1, <1>2, <2>4, <3>3 DEF BlockOf
    <3>. QED
      BY <1>1, <3>1, <3>2, <3>3
  <2>6. InTable(next)
    <3>1. CASE pos.usage = 1
      <4>1. pos.locate_order \in Order
        BY <3>1 DEF InTable
      <4>2. q \in Order
        BY <1>2, <1>6, <3>1, <4>1
      <4>. QED
        BY <2>4, <3>1, <4>2 DEF InTable
    <3>3. CASE pos.usage = 2
      <4>1. pos.locate_order \in Index
        BY <3>3 DEF InTable
      <4>2. q \in Index
        BY <1>2, <1>6, <3>3, <4>1
      <4>. QED
        BY <2>4, <3>3, <4>2 DEF InTable
    <3>2. CASE pos.usage = 4
      <4>1. Below2 + q < Below3 /\ q \in Nat
        <5>1. BlockOf(pos) = pos.locate_order + Below2
          BY <3>2 DEF BlockOf
        <5>2. pos.locate_order \in Nat
          BY <1>1, <1>2
        <5>. QED
          BY <1>2, <5>1, <5>2
      <4>2. RowOf(Below2 + q) \in Index
        BY <1>2, <4>1, RowSplit
      <4>3. (Below2 + q) - Below2 = q
        BY <1>2, <4>1
      <4>4. RowOf(Below2 + q) = ((Below2 + q) - Below2) \div INDIRECT_BLOCKS
        BY DEF RowOf
      <4>5. q \div INDIRECT_BLOCKS \in Index
        BY <4>2, <4>3, <4>4, Zenon
      <4>. QED
        BY <2>4, <3>2, <4>5 DEF InTable
    <3>. QED
      BY <1>1, <3>1, <3>2, <3>3
  <2>. QED
    BY <2>4, <2>5, <2>6
<1>. QED
  BY <1>4, <1>5, <1>6

\* A chunk that stays within the block moves the position by its bytes.
LEMMA Advances ==
    ASSUME NEW pos \in FdRecord, InTable(pos), BlockOf(pos) + 1 < Below3,
           BlockOf(pos) + 1 < Uint16,
           NEW n \in Nat, pos.locate_offset + n <= BLOCK_SIZE_BYTES,
           NEW next, next = Advance(pos, n)
    PROVE  /\ next \in FdRecord /\ next.inodeNum = pos.inodeNum /\ InTable(next)
           /\ getFileSize(next) = getFileSize(pos) + n
<1>1. /\ BlockOf(pos) \in Nat /\ BLOCK_SIZE_BYTES \in Nat
      /\ pos.locate_offset \in Nat /\ pos.locate_offset < BLOCK_SIZE_BYTES
      /\ BlockOf(pos) * BLOCK_SIZE_BYTES \in Nat
      /\ getFileSize(pos) = BlockOf(pos) * BLOCK_SIZE_BYTES + pos.locate_offset
  BY PosBytes, Sizing
<1>2. CASE pos.locate_offset + n < BLOCK_SIZE_BYTES
  <2>1. next = [pos EXCEPT !.locate_offset = pos.locate_offset + n]
    BY <1>2 DEF Advance
  <2>2. pos.locate_offset + n \in Offset
    BY <1>1, <1>2 DEF Offset
  <2>3. /\ next \in FdRecord /\ next.inodeNum = pos.inodeNum /\ next.usage = pos.usage
        /\ next.locate_order = pos.locate_order
        /\ next.locate_offset = pos.locate_offset + n
    BY <2>1, <2>2 DEF FdRecord
  <2>4. InTable(next) /\ BlockOf(next) = BlockOf(pos)
    BY <2>3 DEF InTable, BlockOf
  <2>5. getFileSize(next) = BlockOf(pos) * BLOCK_SIZE_BYTES + (pos.locate_offset + n)
    BY <2>3, <2>4, PosBytes
  <2>. QED
    BY <1>1, <2>3, <2>4, <2>5
<1>3. CASE ~(pos.locate_offset + n < BLOCK_SIZE_BYTES)
  <2>1. next = NextBlock(pos)
    BY <1>3 DEF Advance
  <2>2. /\ next \in FdRecord /\ next.inodeNum = pos.inodeNum
        /\ InTable(next) /\ BlockOf(next) = BlockOf(pos) + 1 /\ next.locate_offset = 0
    BY <2>1, NextBlockIs
  <2>3. getFileSize(next) = (BlockOf(pos) + 1) * BLOCK_SIZE_BYTES + 0
    BY <2>2, PosBytes
  <2>4. (BlockOf(pos) + 1) * BLOCK_SIZE_BYTES
          = BlockOf(pos) * BLOCK_SIZE_BYTES + BLOCK_SIZE_BYTES
    BY <1>1, Products
  <2>. QED
    BY <1>1, <1>3, <2>2, <2>3, <2>4
<1>. QED
  BY <1>2, <1>3

-----------------------------------------------------------------------------
(* fs_write *)

\* A data block is no index table: what is written to it moves no pointer.
Written(A, b, v, B) == B = [A EXCEPT ![b] = v]

\* What is written to a data block leaves the volume sound and moves no pointer.
LEMMA DataWritten ==
    ASSUME NEW F, NEW A, NEW R, NEW C, Sound(F, A, R, C), NEW i \in File,
           NEW n \in 0 .. (C[i] - 1), NEW b, b = Nth(R[i], A, n), NEW v \in Bytes,
           NEW B, Written(A, b, v, B)
    PROVE  /\ Sound(F, B, R, C)
           /\ \A j \in File : \A m \in 0 .. (C[j] - 1) : Nth(R[j], B, m) = Nth(R[j], A, m)
<1>1. /\ F \subseteq Block /\ A \in [Block -> Bytes \cup Table]
      /\ R \in [File -> InodeRecord] /\ C \in [File -> Nat]
      /\ \A j \in File : Shape(R[j], A, C[j]) /\ C[j] <= Below3
      /\ \A j \in File : \A p \in Set(C[j]) : Ptr(R[j], A, p) \in F \ Meta
      /\ \A j, k \in File : \A p \in Set(C[j]), q \in Set(C[k]) :
           Ptr(R[j], A, p) = Ptr(R[k], A, q) => j = k /\ p = q
  BY DEF Sound, Typed, Shape, PointersApart
<1>2. n \in Set(C[i]) /\ ~(n < 0) /\ b = Ptr(R[i], A, n)
  <2>1. n \in Nat /\ n \in Set(C[i])
    BY <1>1, SetHas
  <2>2. Ptr(R[i], A, n) = Nth(R[i], A, n)
    BY <2>1, PtrAt, Zenon
  <2>. QED
    BY <2>1, <2>2
<1>3. b \in F /\ b \in Block
  BY <1>1, <1>2
<1>4. B[b] = v /\ B \in [Block -> Bytes \cup Table] /\ \A x \in Block \ {b} : B[x] = A[x]
  BY <1>1, <1>3 DEF Written
<1>5. ASSUME NEW j \in File
      PROVE  Shape(R[j], B, C[j]) /\ \A p \in Set(C[j]) : Ptr(R[j], B, p) = Ptr(R[j], A, p)
  <2>1. ASSUME NEW p \in Set(C[j]), p < 0
        PROVE  B[Ptr(R[j], A, p)] = A[Ptr(R[j], A, p)]
    <3>1. p # n
      BY <1>2, <2>1
    <3>2. Ptr(R[j], A, p) # b
      BY <1>1, <1>2, <3>1
    <3>3. Ptr(R[j], A, p) \in Block
      BY <1>1
    <3>. QED
      BY <1>4, <3>2, <3>3
  <2>2. SameTables(R[j], C[j], A, B)
    BY <2>1 DEF SameTables
  <2>3. C[j] \in Nat
    BY <1>1
  <2>. QED
    <3>1. Shape(R[j], A, C[j])
      BY <1>1
    <3>. QED
      BY <2>2, <2>3, <3>1, PointersKept
<1>6. PointersApart(F, B, R, C)
  <2>1. \A j \in File : \A p \in Set(C[j]) : Ptr(R[j], B, p) = Ptr(R[j], A, p)
    BY <1>5
  <2>2. ASSUME NEW j \in File, NEW p \in Set(C[j])
        PROVE  Ptr(R[j], B, p) \in F \ Meta
    BY <1>1, <2>1
  <2>3. ASSUME NEW j \in File, NEW k \in File, NEW p \in Set(C[j]), NEW q \in Set(C[k]),
               Ptr(R[j], B, p) = Ptr(R[k], B, q)
        PROVE  j = k /\ p = q
    <3>1. Ptr(R[j], A, p) = Ptr(R[k], A, q)
      BY <2>1, <2>3
    <3>. QED
      BY <1>1, <3>1
  <2>. QED
    BY <2>2, <2>3, Zenon DEF PointersApart
<1>7. AllPointedTo(F, B, R, C)
  <2>1. AllPointedTo(F, A, R, C)
    BY DEF Sound
  <2>2. ASSUME NEW x \in F \ Meta
        PROVE  \E j \in File : \E p \in Set(C[j]) : x = Ptr(R[j], B, p)
    <3>1. PICK j \in File : \E p \in Set(C[j]) : x = Ptr(R[j], A, p)
      BY <2>1, Zenon DEF AllPointedTo
    <3>2. PICK p \in Set(C[j]) : x = Ptr(R[j], A, p)
      BY <3>1, Zenon
    <3>3. x = Ptr(R[j], B, p)
      BY <1>5, <3>2
    <3>. QED
      BY <3>2, <3>3, Zenon
  <2>. QED
    BY <2>1, <2>2 DEF AllPointedTo
<1>8. ASSUME NEW j \in File, NEW m \in 0 .. (C[j] - 1)
      PROVE  Nth(R[j], B, m) = Nth(R[j], A, m) /\ Nth(R[j], A, m) \in Block
  <2>1. m \in Nat /\ m \in Set(C[j])
    BY <1>1, SetHas
  <2>2. Ptr(R[j], A, m) = Nth(R[j], A, m) /\ Ptr(R[j], B, m) = Nth(R[j], B, m)
    BY <2>1, PtrAt, Zenon
  <2>. QED
    BY <1>1, <1>5, <2>1, <2>2
<1>9. BlocksHold(F, B, R, C)
  <2>1. BlocksHold(F, A, R, C)
    BY DEF Sound
  <2>2. ASSUME NEW j \in File, NEW m \in 0 .. (C[j] - 1)
        PROVE  B[Nth(R[j], B, m)] \in Bytes
    BY <1>4, <1>8, <2>1 DEF BlocksHold
  <2>3. ASSUME NEW x \in Block \ F
        PROVE  B[x] = Unwritten
    BY <1>3, <1>4, <2>1 DEF BlocksHold
  <2>. QED
    BY <2>2, <2>3 DEF BlocksHold
<1>10. Typed(F, B, R, C)
  BY <1>1, <1>4 DEF Typed
<1>11. \A j \in File : Shape(R[j], B, C[j])
  BY <1>5
<1>12. \A j \in File : \A m \in 0 .. (C[j] - 1) : Nth(R[j], B, m) = Nth(R[j], A, m)
  BY <1>8
<1>. QED
  BY <1>6, <1>7, <1>9, <1>10, <1>11, <1>12, Zenon DEF Sound

\* The number of blocks of file i is the larger of what it was and n.
Enough(C, i, n) == [C EXCEPT ![i] = GrownSize(@, n)]

\* The records, with that of the file of the call.
With(R, i, t) == [R EXCEPT ![i] = t.ino]

\* A call that starts at byte p of file i, on a volume of the records R, and has
\* moved some of its len bytes: the file has the blocks it had and those up to
\* the position.
Moving(t, R, C, i, p, len) ==
    /\ t \in Calls
    /\ Sound(t.fbm, t.block, With(R, i, t),
             Enough(C, i, CeilDiv(p + t.done, BLOCK_SIZE_BYTES)))
    /\ InTable(t.pos) /\ t.pos.inodeNum = i
    /\ getFileSize(t.pos) = p + t.done
    /\ t.done <= len
    /\ t.ino.fileSize = R[i].fileSize

\* A call that has the block of its position.
Ready(t, u, R, C, i) ==
    /\ u \in Calls /\ u.id # 0
    /\ u.pos = t.pos /\ u.done = t.done /\ u.got = t.got /\ u.ino.fileSize = t.ino.fileSize
    /\ Sound(u.fbm, u.block, With(R, i, u), Enough(C, i, BlockOf(t.pos) + 1))
    /\ BlockOf(t.pos) < Enough(C, i, BlockOf(t.pos) + 1)[i]
    /\ u.id = Nth(u.ino, u.block, BlockOf(t.pos))

\* A call whose next block does not exist, and cannot be made.
Stuck(t, C, i, p) ==
    /\ BlockOf(t.pos) = Enough(C, i, CeilDiv(p + t.done, BLOCK_SIZE_BYTES))[i]
    /\ ~Free(t, Needed(t.pos))

\* get_data_block_id finds or makes the block of a position in the file or at its
\* end, unless the volume is full.
LEMMA GetsReady ==
    ASSUME NEW R \in [File -> InodeRecord], NEW C \in [File -> Nat], NEW i \in File,
           NEW p \in Nat, NEW len \in Nat, NEW t, Moving(t, R, C, i, p, len),
           NEW u, u = get_data_block_id(t)
    PROVE  /\ \/ u = None(t) /\ Stuck(t, C, i, p) /\ ~(BlockOf(t.pos) < C[i])
              \/ Ready(t, u, R, C, i)
           /\ Stuck(t, C, i, p) => u = None(t)
<1> DEFINE n == BlockOf(t.pos)
<1> DEFINE o == t.pos.locate_offset
<1> DEFINE e == CeilDiv(p + t.done, BLOCK_SIZE_BYTES)
<1> DEFINE C1 == Enough(C, i, e)
<1> DEFINE R1 == With(R, i, t)
<1>1. /\ t \in Calls /\ t.pos \in FdRecord /\ t.done \in Nat /\ t.ino \in InodeRecord
      /\ Sound(t.fbm, t.block, R1, C1) /\ InTable(t.pos)
      /\ getFileSize(t.pos) = p + t.done
  BY DEF Moving, Calls
<1>2. /\ n \in Nat /\ o \in Nat /\ o < BLOCK_SIZE_BYTES
      /\ p + t.done = n * BLOCK_SIZE_BYTES + o
  BY <1>1, PosBytes
<1>3. e = IF o = 0 THEN n ELSE n + 1
  <2>1. o <= BLOCK_SIZE_BYTES
    BY <1>2, Sizing
  <2>2. CeilDiv(n * BLOCK_SIZE_BYTES + o, BLOCK_SIZE_BYTES) = IF o = 0 THEN n ELSE n + 1
    BY <1>2, <2>1, CeilAt, Zenon
  <2>. QED
    BY <1>2, <2>2, Zenon
<1> HIDE DEF n, o, e
<1>4. /\ C1 \in [File -> Nat] /\ C1[i] = GrownSize(C[i], e)
      /\ R1 \in [File -> InodeRecord] /\ R1[i] = t.ino
  BY <1>1, <1>2, <1>3 DEF Enough, With, GrownSize
<1>5. C1[i] \in Nat /\ n <= C1[i] /\ C[i] \in Nat /\ C[i] <= C1[i]
  BY <1>2, <1>3, <1>4 DEF GrownSize
<1>6. Holds(t, C1[i])
  <2>1. FileOf(t.fbm, t.block, R1[i], C1[i])
    BY <1>1, SoundFile
  <2>. QED
    BY <1>1, <1>4, <2>1 DEF Holds
<1>7. /\ n < C1[i] => Found(t, n, u)
      /\ n = C1[i] /\ Free(t, Needed(t.pos)) => Grown(t, n, u)
      /\ n = C1[i] /\ ~Free(t, Needed(t.pos)) => u = None(t)
  BY <1>1, <1>6, Gets DEF n
<1>8. C1[i] <= n + 1
      => GrownSize(C[i], n + 1) = n + 1
  BY <1>2, <1>3, <1>4, <1>5 DEF GrownSize
<1>9. ASSUME n < C1[i]
      PROVE  Ready(t, u, R, C, i)
  <2>1. u = [t EXCEPT !.id = Nth(t.ino, t.block, n)]
    BY <1>7, <1>9 DEF Found
  <2>2. Nth(t.ino, t.block, n) \in Block /\ Nth(t.ino, t.block, n) # 0
    <3>1. n \in 0 .. (C1[i] - 1)
      BY <1>2, <1>5, <1>9
    <3>2. FileOf(t.fbm, t.block, t.ino, C1[i])
      BY <1>6 DEF Holds
    <3>. QED
      BY <3>1, <3>2, NthUsed
  <2>3. /\ u \in Calls /\ u.id = Nth(t.ino, t.block, n) /\ u.fbm = t.fbm /\ u.block = t.block
        /\ u.ino = t.ino /\ u.pos = t.pos /\ u.done = t.done /\ u.got = t.got
    BY <1>1, <2>1, <2>2 DEF Calls
  <2>4. Enough(C, i, n + 1) = C1
    <3>1. GrownSize(C[i], n + 1) = GrownSize(C[i], e)
      BY <1>2, <1>3, <1>4, <1>5, <1>9 DEF GrownSize
    <3>. QED
      BY <3>1 DEF Enough
  <2>5. With(R, i, u) = R1
    BY <2>3 DEF With
  <2>6. Sound(u.fbm, u.block, With(R, i, u), Enough(C, i, n + 1))
    BY <1>1, <2>3, <2>4, <2>5
  <2>7. u.id # 0 /\ u.id = Nth(u.ino, u.block, n) /\ n < Enough(C, i, n + 1)[i]
    BY <1>9, <2>2, <2>3, <2>4
  <2>. QED
    BY <2>3, <2>6, <2>7 DEF Ready, n
<1>10. ASSUME n = C1[i], Grown(t, n, u)
       PROVE  Ready(t, u, R, C, i)
  <2>1. /\ u \in Calls /\ Extended(t.fbm, t.block, t.ino, n, u.fbm, u.block, u.ino)
        /\ u.id = Nth(u.ino, u.block, n)
        /\ u.pos = t.pos /\ u.done = t.done /\ u.got = t.got
        /\ u.ino.fileSize = t.ino.fileSize
    BY <1>10 DEF Grown, Extended
  <2>2. With(R, i, u) = [R1 EXCEPT ![i] = u.ino]
    BY DEF With
  <2>3. Enough(C, i, n + 1) = [C1 EXCEPT ![i] = n + 1]
    <3>1. GrownSize(C[i], n + 1) = n + 1
      BY <1>2, <1>5, <1>8, <1>10
    <3>. QED
      BY <3>1 DEF Enough
  <2>4. Sound(u.fbm, u.block, With(R, i, u), Enough(C, i, n + 1))
    <3>1. Extended(t.fbm, t.block, R1[i], n, u.fbm, u.block, u.ino)
      BY <1>4, <2>1, Zenon
    <3>2. Sound(t.fbm, t.block, R1, C1) /\ n = C1[i]
      BY <1>1, <1>10
    <3> HIDE DEF R1, C1
    <3>3. PICK R2, C2 : R2 = [R1 EXCEPT ![i] = u.ino] /\ C2 = [C1 EXCEPT ![i] = n + 1]
      OBVIOUS
    <3>4. Sound(u.fbm, u.block, R2, C2)
      BY <3>1, <3>2, <3>3, GrowSound
    <3>. QED
      BY <2>2, <2>3, <3>3, <3>4
  <2>5. Enough(C, i, n + 1)[i] = n + 1
    BY <1>4, <2>3
  <2>6. u.id # 0
    <3>1. With(R, i, u)[i] = u.ino
      BY DEF With
    <3>2. FileOf(u.fbm, u.block, u.ino, n + 1)
      BY <2>4, <2>5, <3>1, SoundFile
    <3>3. n \in 0 .. ((n + 1) - 1)
      BY <1>2
    <3>. QED
      BY <2>1, <3>2, <3>3, NthUsed
  <2>7. n < Enough(C, i, n + 1)[i]
    BY <1>2, <2>5
  <2>. QED
    BY <2>1, <2>4, <2>6, <2>7 DEF Ready, n
<1>11. n = C1[i] => ~(n < C[i])
  BY <1>1, <1>2, <1>5
<1>12. Stuck(t, C, i, p) <=> n = C1[i] /\ ~Free(t, Needed(t.pos))
  BY DEF Stuck, n, e
<1>. QED
  <2>1. n < C1[i] \/ n = C1[i]
    BY <1>2, <1>5
  <2>2. Stuck(t, C, i, p) => u = None(t)
    BY <1>7, <1>12
  <2>3. \/ u = None(t) /\ Stuck(t, C, i, p) /\ ~(n < C[i])
        \/ Ready(t, u, R, C, i)
    BY <1>7, <1>9, <1>10, <1>11, <1>12, <2>1
  <2>. QED
    BY <2>2, <2>3 DEF n

\* What a chunk of a write, of n bytes at offset o, leaves in its block.
Filled(c, o, n, done, buffer) ==
    [x \in Offset |-> IF x \in o .. (o + n - 1) THEN buffer[done + x - o + 1] ELSE c[x]]

\* A block filled with bytes of a buffer holds bytes.
LEMMA FilledBytes ==
    ASSUME NEW c \in Bytes, NEW o \in Nat, NEW n \in Nat, NEW done \in Nat,
           NEW buffer \in Seq(Byte), done + n <= Len(buffer)
    PROVE  Filled(c, o, n, done, buffer) \in Bytes
<1>1. ASSUME NEW x \in Offset, x \in o .. (o + n - 1)
      PROVE  buffer[done + x - o + 1] \in Byte
  <2>1. done + x - o + 1 \in 1 .. Len(buffer)
    <3>1. x \in Int /\ o <= x /\ x <= o + n - 1 /\ Len(buffer) \in Nat
      BY <1>1 DEF Offset
    <3>. QED
      BY <3>1
  <2>. QED
    BY <2>1
<1>. QED
  BY <1>1 DEF Filled, Bytes

\* The bytes of a chunk: some, and none beyond the block or the call.
LEMMA ChunkIs ==
    ASSUME NEW t, t.done \in Nat, t.pos.locate_offset \in Nat,
           t.pos.locate_offset < BLOCK_SIZE_BYTES, NEW len \in Nat, t.done < len
    PROVE  /\ Chunk(t, len) \in Nat /\ Chunk(t, len) > 0
           /\ t.pos.locate_offset + Chunk(t, len) <= BLOCK_SIZE_BYTES
           /\ t.done + Chunk(t, len) <= len
<1>1. PICK a, b : a = len - t.done /\ b = BLOCK_SIZE_BYTES - t.pos.locate_offset
  OBVIOUS
<1>2. a \in Int /\ b \in Int /\ a > 0 /\ b > 0
  BY <1>1, Sizing
<1>3. Chunk(t, len) = Min({a, b})
  BY <1>1 DEF Chunk
<1>4. Chunk(t, len) = IF a <= b THEN a ELSE b
  BY <1>2, <1>3, MinTwo
<1>. QED
  BY <1>1, <1>2, <1>4, Sizing

\* A call that has its block, and moves a chunk there: where it is then.
LEMMA ChunkMoved ==
    ASSUME NEW R \in [File -> InodeRecord], NEW C \in [File -> Nat], NEW i \in File,
           NEW p \in Nat, NEW len \in Nat, NEW t, Moving(t, R, C, i, p, len), t.done < len,
           NEW u, Ready(t, u, R, C, i), NEW n, n = Chunk(u, len),
           NEW next, next = Advance(u.pos, n)
    PROVE  /\ n \in Nat /\ n > 0 /\ u.done + n <= len
           /\ next \in FdRecord /\ next.inodeNum = i /\ InTable(next)
           /\ getFileSize(next) = p + (u.done + n)
           /\ Enough(C, i, BlockOf(t.pos) + 1)
                = Enough(C, i, CeilDiv(p + (u.done + n), BLOCK_SIZE_BYTES))
<1>1. /\ t.pos \in FdRecord /\ t.done \in Nat /\ InTable(t.pos) /\ t.pos.inodeNum = i
      /\ getFileSize(t.pos) = p + t.done
  BY DEF Moving, Calls
<1>2. u.pos = t.pos /\ u.done = t.done
  BY DEF Ready
<1>3. PICK m, o : m = BlockOf(t.pos) /\ o = t.pos.locate_offset
  OBVIOUS
<1>4. /\ m \in Nat /\ o \in Nat /\ o < BLOCK_SIZE_BYTES /\ m * BLOCK_SIZE_BYTES \in Nat
      /\ p + t.done = m * BLOCK_SIZE_BYTES + o
  BY <1>1, <1>3, PosBytes
<1>5. n \in Nat /\ n > 0 /\ o + n <= BLOCK_SIZE_BYTES /\ u.done + n <= len
  BY <1>1, <1>2, <1>3, <1>4, ChunkIs
<1>6. m + 1 < Below3 /\ m + 1 < Uint16
  <2>1. Sound(u.fbm, u.block, With(R, i, u), Enough(C, i, m + 1))
    BY <1>3 DEF Ready
  <2>2. /\ Enough(C, i, m + 1)[i] \in Nat
        /\ Enough(C, i, m + 1)[i] < Below3 /\ Enough(C, i, m + 1)[i] < Uint16
    BY <2>1, FileSmall
  <2>3. Enough(C, i, m + 1)[i] = GrownSize(C[i], m + 1) /\ C[i] \in Nat
    BY DEF Enough
  <2>4. m + 1 <= Enough(C, i, m + 1)[i]
    BY <1>4, <2>3 DEF GrownSize
  <2>. QED
    BY <1>4, <2>2, <2>4, Rows DEF Uint16
<1>7. /\ next \in FdRecord /\ next.inodeNum = i /\ InTable(next)
      /\ getFileSize(next) = (p + t.done) + n
  BY <1>1, <1>2, <1>3, <1>5, <1>6, Advances
<1>8. p + (u.done + n) = m * BLOCK_SIZE_BYTES + (o + n)
  BY <1>1, <1>2, <1>4, <1>5
<1>9. CeilDiv(p + (u.done + n), BLOCK_SIZE_BYTES) = m + 1
  <2>1. o + n \in Nat /\ o + n # 0
    BY <1>4, <1>5
  <2>2. CeilDiv(m * BLOCK_SIZE_BYTES + (o + n), BLOCK_SIZE_BYTES) = m + 1
    BY <1>4, <1>5, <2>1, CeilAt
  <2>. QED
    BY <1>8, <2>2
<1>. QED
  BY <1>1, <1>2, <1>3, <1>5, <1>7, <1>9

\* A chunk of a write leaves a sound volume.
LEMMA ChunkWritten ==
    ASSUME NEW R \in [File -> InodeRecord], NEW C \in [File -> Nat], NEW i \in File,
           NEW p \in Nat, NEW buffer \in Seq(Byte),
           NEW t, Moving(t, R, C, i, p, Len(buffer)), t.done < Len(buffer),
           NEW u, Ready(t, u, R, C, i), NEW w, w = WriteChunk(u, buffer)
    PROVE  Moving(w, R, C, i, p, Len(buffer)) /\ t.done < w.done
<1>1. PICK n, o, next : n = Chunk(u, Len(buffer)) /\ o = u.pos.locate_offset
                        /\ next = Advance(u.pos, n)
  OBVIOUS
<1>2. PICK len : len = Len(buffer)
  OBVIOUS
<1>3. len \in Nat
  BY <1>2
<1>4. /\ n \in Nat /\ n > 0 /\ u.done + n <= len
      /\ next \in FdRecord /\ next.inodeNum = i /\ InTable(next)
      /\ getFileSize(next) = p + (u.done + n)
      /\ Enough(C, i, BlockOf(t.pos) + 1)
           = Enough(C, i, CeilDiv(p + (u.done + n), BLOCK_SIZE_BYTES))
  BY <1>1, <1>2, <1>3, ChunkMoved
<1>5. /\ u \in Calls /\ u.done = t.done /\ u.ino.fileSize = t.ino.fileSize
      /\ Sound(u.fbm, u.block, With(R, i, u), Enough(C, i, BlockOf(t.pos) + 1))
      /\ u.id = Nth(u.ino, u.block, BlockOf(t.pos))
      /\ BlockOf(t.pos) < Enough(C, i, BlockOf(t.pos) + 1)[i]
      /\ u.pos = t.pos
  BY DEF Ready
<1>6. /\ t.pos \in FdRecord /\ t.ino.fileSize = R[i].fileSize
  BY DEF Moving, Calls
<1>7. PICK c, v : c = u.block[u.id] /\ v = Filled(c, o, n, u.done, buffer)
  OBVIOUS
<1>8. PICK B : Written(u.block, u.id, v, B)
  BY DEF Written
<1>9. w = [u EXCEPT !.block = B, !.pos = next, !.done = u.done + n]
  <2>1. w = [u EXCEPT !.block[u.id] = v, !.pos = next, !.done = u.done + n]
    BY <1>1, <1>7 DEF WriteChunk, Filled
  <2>2. B = [u.block EXCEPT ![u.id] = v]
    BY <1>8 DEF Written
  <2>. QED
    BY <1>5, <2>1, <2>2 DEF Calls
<1>10. BlockOf(t.pos) \in Nat /\ o \in Nat
  BY <1>1, <1>5, <1>6, PosBytes
<1>11. With(R, i, u)[i] = u.ino
  BY DEF With
<1>12. PICK C2 : C2 = Enough(C, i, BlockOf(t.pos) + 1)
  OBVIOUS
<1>13. C2[i] \in Nat
  BY <1>5, <1>12, FileSmall
<1>14. BlockOf(t.pos) \in 0 .. (C2[i] - 1)
  BY <1>5, <1>10, <1>12, <1>13
<1>15. c \in Bytes /\ u.id \in Block
  <2>1. BlocksHold(u.fbm, u.block, With(R, i, u), C2)
    BY <1>5, <1>12 DEF Sound
  <2>2. u.block[Nth(With(R, i, u)[i], u.block, BlockOf(t.pos))] \in Bytes
    BY <1>14, <2>1 DEF BlocksHold
  <2>. QED
    BY <1>5, <1>7, <1>11, <2>2 DEF Calls
<1>16. v \in Bytes
  BY <1>2, <1>4, <1>5, <1>7, <1>10, <1>15, FilledBytes DEF Calls
<1>17. Sound(u.fbm, B, With(R, i, u), C2)
  BY <1>5, <1>8, <1>11, <1>12, <1>14, <1>16, DataWritten
<1>18. B \in [Block -> Bytes \cup Table]
  BY <1>17 DEF Sound, Typed
<1>19. /\ w \in Calls /\ w.fbm = u.fbm /\ w.block = B /\ w.ino = u.ino /\ w.pos = next
       /\ w.done = u.done + n
  <2>1. PICK d : d = u.done + n
    OBVIOUS
  <2>2. d \in Nat
    BY <1>4, <1>5, <2>1 DEF Calls
  <2>3. w = [u EXCEPT !.block = B, !.pos = next, !.done = d]
    BY <1>9, <2>1
  <2>4. /\ w \in Calls /\ w.fbm = u.fbm /\ w.block = B /\ w.ino = u.ino /\ w.pos = next
        /\ w.done = d
    BY <1>4, <1>5, <1>18, <2>2, <2>3 DEF Calls
  <2>. QED
    BY <2>1, <2>4
<1>20. With(R, i, w) = With(R, i, u)
  BY <1>19 DEF With
<1>21. w.done <= len /\ t.done < w.done
  BY <1>4, <1>5, <1>19 DEF Calls
<1>22. Sound(w.fbm, w.block, With(R, i, w),
             Enough(C, i, CeilDiv(p + w.done, BLOCK_SIZE_BYTES)))
  BY <1>4, <1>12, <1>17, <1>19, <1>20
<1>. QED
  BY <1>2, <1>4, <1>5, <1>6, <1>19, <1>21, <1>22 DEF Moving

\* A call that found no block has changed nothing.
LEMMA NoneMoves ==
    ASSUME NEW R, NEW C, NEW i \in File, NEW p, NEW len, NEW t, Moving(t, R, C, i, p, len)
    PROVE  /\ Moving(None(t), R, C, i, p, len)
           /\ None(t).fbm = t.fbm /\ None(t).pos = t.pos /\ None(t).done = t.done
           /\ None(t).ino = t.ino /\ None(t).block = t.block /\ None(t).got = t.got
<1>1. t \in Calls
  BY DEF Moving
<1>2. 0 \in Block
  BY Sizing DEF Block
<1>3. /\ None(t) \in Calls /\ None(t).fbm = t.fbm /\ None(t).pos = t.pos
      /\ None(t).done = t.done /\ None(t).ino = t.ino /\ None(t).block = t.block
      /\ None(t).got = t.got
  BY <1>1, <1>2 DEF Calls, None
<1>4. With(R, i, None(t)) = With(R, i, t)
  BY <1>3 DEF With
<1>. QED
  BY <1>3, <1>4 DEF Moving

\* A turn of fs_write keeps the volume sound, and moves a byte or more unless it
\* has none left or its next block cannot be made.
LEMMA WriteTurns ==
    ASSUME NEW R \in [File -> InodeRecord], NEW C \in [File -> Nat], NEW i \in File,
           NEW p \in Nat, NEW buffer \in Seq(Byte),
           NEW t, Moving(t, R, C, i, p, Len(buffer)),
           NEW w, w = WriteTurn(t, buffer)
    PROVE  /\ Moving(w, R, C, i, p, Len(buffer))
           /\ \/ t.done < w.done
              \/ t.done = Len(buffer) /\ w = t
              \/ Stuck(t, C, i, p) /\ Stuck(w, C, i, p)
           /\ Stuck(t, C, i, p) => Stuck(w, C, i, p)
<1>1. PICK u : u = get_data_block_id(t)
  OBVIOUS
<1>2. w = IF t.done = Len(buffer) THEN t ELSE IF u.id = 0 THEN u ELSE WriteChunk(u, buffer)
  BY <1>1 DEF WriteTurn
<1>3. Len(buffer) \in Nat /\ t.done \in Nat /\ t.done <= Len(buffer)
  BY DEF Moving, Calls
<1>4. /\ \/ u = None(t) /\ Stuck(t, C, i, p)
         \/ Ready(t, u, R, C, i)
      /\ Stuck(t, C, i, p) => u = None(t)
  BY <1>1, <1>3, GetsReady
<1>5. CASE t.done = Len(buffer)
  BY <1>2, <1>5
<1>6. CASE t.done # Len(buffer) /\ ~Stuck(t, C, i, p)
  <2>1. Ready(t, u, R, C, i)
    BY <1>4, <1>6
  <2>2. u.id # 0
    BY <2>1 DEF Ready
  <2>3. w = WriteChunk(u, buffer)
    BY <1>2, <1>6, <2>2
  <2>4. t.done < Len(buffer)
    BY <1>3, <1>6
  <2>5. Moving(w, R, C, i, p, Len(buffer)) /\ t.done < w.done
    BY <2>1, <2>3, <2>4, ChunkWritten
  <2>. QED
    BY <1>6, <2>5
<1>7. CASE t.done # Len(buffer) /\ Stuck(t, C, i, p)
  <2>1. u = None(t)
    BY <1>4, <1>7
  <2>2. u.id = 0
    BY <2>1 DEF None, Moving, Calls
  <2>3. w = None(t)
    BY <1>2, <1>7, <2>1, <2>2
  <2>4. /\ Moving(w, R, C, i, p, Len(buffer))
        /\ w.fbm = t.fbm /\ w.pos = t.pos /\ w.done = t.done
    <3>1. /\ Moving(None(t), R, C, i, p, Len(buffer))
          /\ None(t).fbm = t.fbm /\ None(t).pos = t.pos /\ None(t).done = t.done
      BY NoneMoves
    <3>. QED
      BY <2>3, <3>1
  <2>5. Stuck(w, C, i, p)
    BY <1>7, <2>4 DEF Stuck, Free
  <2>. QED
    BY <1>7, <2>4, <2>5
<1>. QED
  BY <1>5, <1>6, <1>7

\* The turns of a write that begins as b, up to the N-th.
Writing(w, b, buffer, N) ==
    w = [k \in 0 .. N |-> IF k = 0 THEN b ELSE WriteTurn(w[k - 1], buffer)]

\* There are as many turns as one likes: the least number without would be one
\* turn after turns that there are.
LEMMA WritingExists ==
    ASSUME NEW N \in Nat, NEW b, NEW buffer
    PROVE  \E w : Writing(w, b, buffer, N)
<1>. DEFINE S == {k \in 0 .. N : ~ \E w : Writing(w, b, buffer, k)}
<1>. SUFFICES ASSUME S # {} PROVE FALSE
  OBVIOUS
<1>1. S \in SUBSET Nat
  OBVIOUS
<1>2. PICK m \in S : \A y \in S : m <= y
  BY <1>1, MinProperties
<1>3. m # 0
  <2>1. Writing([k \in 0 .. 0 |-> b], b, buffer, 0)
    BY DEF Writing
  <2>. QED
    BY <2>1
<1>4. PICK w : Writing(w, b, buffer, m - 1)
  BY <1>2, <1>3
<1>. DEFINE v == [k \in 0 .. m |-> IF k = m THEN WriteTurn(w[m - 1], buffer) ELSE w[k]]
<1>5. \A k \in 0 .. (m - 1) :
        w[k] = IF k = 0 THEN b ELSE WriteTurn(w[k - 1], buffer)
  BY <1>4 DEF Writing
<1>6. \A k \in 0 .. m : v[k] = IF k = 0 THEN b ELSE WriteTurn(v[k - 1], buffer)
  <2>. SUFFICES ASSUME NEW k \in 0 .. m
                PROVE  v[k] = IF k = 0 THEN b ELSE WriteTurn(v[k - 1], buffer)
    OBVIOUS
  <2>1. CASE k = 0
    BY <2>1, <1>1, <1>2, <1>3, <1>5
  <2>2. CASE k # 0
    <3>1. v[k - 1] = w[k - 1]
      BY <2>2, <1>1, <1>2
    <3>2. v[k] = WriteTurn(w[k - 1], buffer)
      BY <2>2, <1>1, <1>2, <1>5
    <3>. QED
      BY <2>2, <3>1, <3>2
  <2>. QED
    BY <2>1, <2>2
<1>7. Writing(v, b, buffer, m)
  BY <1>6 DEF Writing
<1>. QED
  BY <1>2, <1>7

\* What a write comes to is its last turn.
LEMMA WriteEnds ==
    ASSUME NEW f, NEW buffer, Len(buffer) \in Nat
    PROVE  \E w : /\ Writing(w, Begin(f), buffer, Len(buffer))
                  /\ WriteLoop(f, buffer) = w[Len(buffer)]
<1>. DEFINE loop[k \in 0 .. Len(buffer)] ==
              IF k = 0 THEN Begin(f) ELSE WriteTurn(loop[k - 1], buffer)
<1>1. \E w : w = [k \in 0 .. Len(buffer) |->
                    IF k = 0 THEN Begin(f) ELSE WriteTurn(w[k - 1], buffer)]
  <2>1. \E w : Writing(w, Begin(f), buffer, Len(buffer))
    BY WritingExists
  <2>. QED
    BY <2>1, Zenon DEF Writing
<1>2. loop = [k \in 0 .. Len(buffer) |->
                IF k = 0 THEN Begin(f) ELSE WriteTurn(loop[k - 1], buffer)]
  BY <1>1
<1>3. WriteLoop(f, buffer) = loop[Len(buffer)]
  BY DEF WriteLoop
<1>. HIDE DEF loop
<1>. QED
  BY <1>2, <1>3 DEF Writing

\* A write keeps the volume sound, and when it stops short its next block cannot
\* be made.
LEMMA WritingMoves ==
    ASSUME NEW R \in [File -> InodeRecord], NEW C \in [File -> Nat], NEW i \in File,
           NEW p \in Nat, NEW buffer \in Seq(Byte),
           NEW b, Moving(b, R, C, i, p, Len(buffer)),
           NEW w, Writing(w, b, buffer, Len(buffer)), NEW t, t = w[Len(buffer)]
    PROVE  /\ Moving(t, R, C, i, p, Len(buffer))
           /\ t.done < Len(buffer) => Stuck(t, C, i, p)
<1>. DEFINE Good(k) ==
       /\ Moving(w[k], R, C, i, p, Len(buffer))
       /\ k <= w[k].done \/ w[k].done = Len(buffer) \/ Stuck(w[k], C, i, p)
<1>. DEFINE S == {k \in 0 .. Len(buffer) : ~Good(k)}
<1>1. /\ Len(buffer) \in Nat
      /\ \A k \in 0 .. Len(buffer) :
           w[k] = IF k = 0 THEN b ELSE WriteTurn(w[k - 1], buffer)
  <2>1. Len(buffer) \in Nat
    OBVIOUS
  <2>. HIDE DEF Good
  <2>2. PICK N : N = Len(buffer)
    OBVIOUS
  <2>3. w = [k \in 0 .. N |-> IF k = 0 THEN b ELSE WriteTurn(w[k - 1], buffer)]
    BY <2>2 DEF Writing
  <2>4. \A k \in 0 .. N : w[k] = IF k = 0 THEN b ELSE WriteTurn(w[k - 1], buffer)
    BY <2>3, Zenon
  <2>. QED
    BY <2>1, <2>2, <2>4
<1>2. Good(0)
  <2>1. w[0] = b
    BY <1>1
  <2>2. b.done \in Nat
    BY DEF Moving, Calls
  <2>. QED
    BY <2>1, <2>2
<1>3. ASSUME NEW k \in 1 .. Len(buffer), Good(k - 1)
      PROVE  Good(k)
  <2>1. PICK u, v : u = w[k - 1] /\ v = w[k]
    OBVIOUS
  <2>2. v = WriteTurn(u, buffer)
    BY <1>1, <2>1
  <2>3. Moving(u, R, C, i, p, Len(buffer))
    BY <1>3, <2>1
  <2>4. /\ Moving(v, R, C, i, p, Len(buffer))
        /\ \/ u.done < v.done
           \/ u.done = Len(buffer) /\ v = u
           \/ Stuck(v, C, i, p)
        /\ Stuck(u, C, i, p) => Stuck(v, C, i, p)
    BY <2>2, <2>3, WriteTurns
  <2>5. u.done \in Nat /\ v.done \in Nat /\ v.done <= Len(buffer)
    BY <2>3, <2>4 DEF Moving, Calls
  <2>6. k - 1 <= u.done \/ u.done = Len(buffer) \/ Stuck(u, C, i, p)
    BY <1>3, <2>1
  <2>7. k <= v.done \/ v.done = Len(buffer) \/ Stuck(v, C, i, p)
    BY <1>1, <2>4, <2>5, <2>6
  <2>. QED
    BY <2>1, <2>4, <2>7
<1>. HIDE DEF Good
<1>4. S = {}
  <2>. SUFFICES ASSUME S # {} PROVE FALSE
    OBVIOUS
  <2>1. S \in SUBSET Nat
    OBVIOUS
  <2>2. PICK m \in S : \A y \in S : m <= y
    BY <2>1, MinProperties
  <2>3. m \in 1 .. Len(buffer)
    BY <1>1, <1>2, <2>2
  <2>4. Good(m - 1)
    BY <1>1, <2>2, <2>3
  <2>. QED
    BY <1>3, <2>2, <2>3, <2>4
<1>5. Good(Len(buffer))
  BY <1>1, <1>4
<1>. QED
  <2>1. t.done \in Nat /\ t.done <= Len(buffer)
    BY <1>5 DEF Good, Moving, Calls
  <2>. QED
    BY <1>1, <1>5, <2>1 DEF Good

\* The pointers of a record do not depend on its size.
SameButSize(r, r2) ==
    /\ r2.directPointer = r.directPointer
    /\ r2.indirectPointer = r.indirectPointer
    /\ r2.doubleIndirectPointer = r.doubleIndirectPointer

\* Records that differ only in their sizes have the same pointers.
LEMMA PointersOfRecord ==
    ASSUME NEW r, NEW r2, SameButSize(r, r2), NEW B, NEW n
    PROVE  /\ Nth(r2, B, n) = Nth(r, B, n)
           /\ Ptr(r2, B, n) = Ptr(r, B, n)
           /\ Shape(r2, B, n) <=> Shape(r, B, n)
<1>1. \A m : Nth(r2, B, m) = Nth(r, B, m)
  BY Zenon DEF Nth, SameButSize
<1>2. Ptr(r2, B, n) = Ptr(r, B, n)
  BY <1>1, Zenon DEF Ptr, SameButSize
<1>3. Shape(r2, B, n) <=> Shape(r, B, n)
  BY Zenon DEF Shape, SameButSize
<1>. QED
  BY <1>1, <1>2, <1>3

\* The size of a record is nothing to the blocks.
LEMMA SizeSound ==
    ASSUME NEW F, NEW A, NEW R, NEW C, Sound(F, A, R, C),
           NEW R2 \in [File -> InodeRecord], \A i \in File : SameButSize(R[i], R2[i])
    PROVE  Sound(F, A, R2, C)
<1>1. Typed(F, A, R2, C)
  BY DEF Sound, Typed
<1>2. \A j \in File : \A n : /\ Nth(R2[j], A, n) = Nth(R[j], A, n)
                             /\ Ptr(R2[j], A, n) = Ptr(R[j], A, n)
                             /\ Shape(R2[j], A, n) <=> Shape(R[j], A, n)
  BY PointersOfRecord
<1>3. \A j \in File : Shape(R2[j], A, C[j])
  BY <1>2 DEF Sound
<1>4. PointersApart(F, A, R2, C)
  <2>1. PointersApart(F, A, R, C)
    BY DEF Sound
  <2>2. ASSUME NEW j \in File, NEW p \in Set(C[j])
        PROVE  Ptr(R2[j], A, p) \in F \ Meta
    BY <1>2, <2>1 DEF PointersApart
  <2>3. ASSUME NEW j \in File, NEW k \in File, NEW p \in Set(C[j]), NEW q \in Set(C[k]),
               Ptr(R2[j], A, p) = Ptr(R2[k], A, q)
        PROVE  j = k /\ p = q
    <3>1. Ptr(R[j], A, p) = Ptr(R[k], A, q)
      BY <1>2, <2>3
    <3>. QED
      BY <2>1, <3>1 DEF PointersApart
  <2>. QED
    BY <2>2, <2>3, Zenon DEF PointersApart
<1>5. AllPointedTo(F, A, R2, C)
  <2>1. AllPointedTo(F, A, R, C)
    BY DEF Sound
  <2>2. ASSUME NEW x \in F \ Meta
        PROVE  \E j \in File : \E p \in Set(C[j]) : x = Ptr(R2[j], A, p)
    <3>1. PICK j \in File : \E p \in Set(C[j]) : x = Ptr(R[j], A, p)
      BY <2>1, Zenon DEF AllPointedTo
    <3>2. PICK p \in Set(C[j]) : x = Ptr(R[j], A, p)
      BY <3>1, Zenon
    <3>3. x = Ptr(R2[j], A, p)
      BY <1>2, <3>2
    <3>. QED
      BY <3>2, <3>3, Zenon
  <2>. QED
    BY <2>1, <2>2 DEF AllPointedTo
<1>6. BlocksHold(F, A, R2, C)
  BY <1>2 DEF Sound, BlocksHold
<1>. QED
  BY <1>1, <1>3, <1>4, <1>5, <1>6 DEF Sound

\* The larger of two sizes needs the larger number of blocks.
LEMMA CeilOfGrown ==
    ASSUME NEW x \in Nat, NEW y \in Nat
    PROVE  CeilDiv(GrownSize(x, y), BLOCK_SIZE_BYTES)
             = GrownSize(CeilDiv(x, BLOCK_SIZE_BYTES), CeilDiv(y, BLOCK_SIZE_BYTES))
<1>1. PICK a, b : a = CeilDiv(x, BLOCK_SIZE_BYTES) /\ b = CeilDiv(y, BLOCK_SIZE_BYTES)
  OBVIOUS
<1>2. /\ a \in Nat /\ b \in Nat
      /\ x <= y => a <= b
      /\ y <= x => b <= a
  BY <1>1, CeilGrows
<1>3. CASE x < y
  BY <1>1, <1>2, <1>3 DEF GrownSize
<1>4. CASE ~(x < y)
  BY <1>1, <1>2, <1>4 DEF GrownSize
<1>. QED
  BY <1>3, <1>4

\* What the types say of an open descriptor and its file.
LEMMA OnFile ==
    ASSUME FilesInv, ~torn, NEW f \in OpenFds
    PROVE  /\ f \in Fd /\ fd[f] \in FdRecord /\ fd[f].inodeNum \in File
           /\ fd[f].inodeNum \in imap
           /\ inode[fd[f].inodeNum] \in InodeRecord
           /\ inode[fd[f].inodeNum].fileSize \in Nat
           /\ getFileSize(fd[f]) \in Nat
           /\ InTable(fd[f]) => getFileSize(fd[f]) <= inode[fd[f].inodeNum].fileSize
<1>1. f \in Fd /\ fd[f] \in FdRecord
  BY DEF FilesInv, TypeOK, OpenFds
<1>2. fd[f].inodeNum \in File /\ inode[fd[f].inodeNum] \in InodeRecord
  BY <1>1 DEF FilesInv, TypeOK, FdRecord
<1>3. inode[fd[f].inodeNum].fileSize \in Nat
  BY <1>2 DEF InodeRecord
<1>4. FdSound(fd[f])
  BY DEF FilesInv, FilesSound
<1>. QED
  BY <1>1, <1>2, <1>3, <1>4, PosBytes DEF FdSound

\* Sizes are counts of blocks.
LEMMA SizesNat ==
    ASSUME FilesInv
    PROVE  /\ Sizes \in [File -> Nat]
           /\ \A i \in File : /\ inode[i].fileSize \in Nat
                              /\ Sizes[i] = CeilDiv(inode[i].fileSize, BLOCK_SIZE_BYTES)
<1>1. \A i \in File : inode[i].fileSize \in Nat
  BY DEF FilesInv, TypeOK, InodeRecord
<1>2. \A i \in File : CeilDiv(inode[i].fileSize, BLOCK_SIZE_BYTES) \in Nat
  BY <1>1, CeilGrows
<1>. QED
  BY <1>1, <1>2 DEF Sizes

\* A call as it begins.
LEMMA BeginIs ==
    ASSUME FilesInv, ~torn, NEW f \in OpenFds, NEW b, b = Begin(f)
    PROVE  /\ b \in Calls /\ b.fbm = fbm /\ b.ino = inode[fd[f].inodeNum]
           /\ b.block = block /\ b.pos = fd[f] /\ b.done = 0 /\ b.got = <<>>
<1>1. 0 \in Block /\ <<>> \in Seq(Byte \cup {Stale})
  BY Sizing DEF Block
<1>2. fd[f] \in FdRecord /\ inode[fd[f].inodeNum] \in InodeRecord
  BY OnFile
<1>3. fbm \in SUBSET Block /\ block \in [Block -> Bytes \cup Table]
  BY DEF FilesInv, TypeOK, Bytes, Table
<1>. QED
  BY <1>1, <1>2, <1>3 DEF Begin, Calls

\* A call on a descriptor begins as one that has moved nothing.
LEMMA BeginMoves ==
    ASSUME FilesInv, ~torn, NEW f \in OpenFds, InTable(fd[f]), NEW len \in Nat,
           NEW b, b = Begin(f), NEW i, i = fd[f].inodeNum, NEW p, p = getFileSize(fd[f])
    PROVE  Moving(b, inode, Sizes, i, p, len)
<1>1. /\ b \in Calls /\ b.fbm = fbm /\ b.ino = inode[i]
      /\ b.block = block /\ b.pos = fd[f] /\ b.done = 0
  BY BeginIs
<1>2. i \in File /\ p \in Nat /\ inode[i].fileSize \in Nat /\ p <= inode[i].fileSize
  BY OnFile
<1>3. With(inode, i, b) = inode
  BY <1>1, <1>2 DEF With, FilesInv, TypeOK
<1>4. Enough(Sizes, i, CeilDiv(p + b.done, BLOCK_SIZE_BYTES)) = Sizes
  <2>1. p + b.done = p
    BY <1>1, <1>2
  <2>2. PICK e, s : e = CeilDiv(p, BLOCK_SIZE_BYTES) /\ s = Sizes[i]
    OBVIOUS
  <2>3. e \in Nat /\ s \in Nat /\ e <= s
    BY <1>2, <2>2, CeilGrows, SizesNat
  <2>4. GrownSize(s, e) = s
    BY <2>3 DEF GrownSize
  <2>5. [Sizes EXCEPT ![i] = s] = Sizes
    BY <1>2, <2>2, SizesNat
  <2>. QED
    BY <2>1, <2>2, <2>4, <2>5 DEF Enough
<1>5. Sound(fbm, block, inode, Sizes)
  BY DEF FilesInv, FilesSound
<1>6. getFileSize(b.pos) = p + b.done /\ b.done <= len
  BY <1>1, <1>2
<1>. QED
  BY <1>1, <1>3, <1>4, <1>5, <1>6 DEF Moving

\* What a write comes to.
LEMMA WriteMoves ==
    ASSUME FilesInv, ~torn, NEW f \in OpenFds, InTable(fd[f]), NEW buffer \in Seq(Byte),
           NEW i, i = fd[f].inodeNum, NEW p, p = getFileSize(fd[f]),
           NEW t, t = WriteLoop(f, buffer)
    PROVE  /\ Moving(t, inode, Sizes, i, p, Len(buffer))
           /\ t.done < Len(buffer) => Stuck(t, Sizes, i, p)
<1>1. Len(buffer) \in Nat
  OBVIOUS
<1>2. Moving(Begin(f), inode, Sizes, i, p, Len(buffer))
  BY <1>1, BeginMoves
<1>3. PICK w : Writing(w, Begin(f), buffer, Len(buffer)) /\ t = w[Len(buffer)]
  BY <1>1, WriteEnds
<1>4. inode \in [File -> InodeRecord] /\ Sizes \in [File -> Nat] /\ i \in File /\ p \in Nat
  BY OnFile, SizesNat DEF FilesInv, TypeOK
<1>. QED
  BY <1>2, <1>3, <1>4, WritingMoves

\* fs_write keeps the invariant.
LEMMA WriteKeeps ==
    ASSUME FilesInv, ~torn, NEW f \in Fd, NEW buffer \in Buffers, fs_write(f, buffer)
    PROVE  FilesInv'
<1>1. PICK t, i, p : /\ t = WriteLoop(f, buffer) /\ i = fd[f].inodeNum
                     /\ p = getFileSize(fd[f])
  OBVIOUS
<1>2. buffer \in Seq(Byte)
  BY FileIOAssumption
<1>3. f \in OpenFds /\ InTable(fd[f])
  BY DEF fs_write
<1>4. Moving(t, inode, Sizes, i, p, Len(buffer))
  BY <1>1, <1>2, <1>3, WriteMoves
<1>5. PICK end, size : end = p + t.done /\ size = GrownSize(inode[i].fileSize, end)
  OBVIOUS
<1>6. /\ i \in File /\ i \in imap /\ p \in Nat /\ inode[i].fileSize \in Nat
      /\ inode[i] \in InodeRecord
  BY <1>1, <1>3, OnFile
<1>7. /\ t \in Calls /\ t.done \in Nat /\ t.ino \in InodeRecord /\ t.pos \in FdRecord
      /\ t.pos.inodeNum = i /\ InTable(t.pos) /\ getFileSize(t.pos) = end
      /\ t.ino.fileSize = inode[i].fileSize
  BY <1>4, <1>5 DEF Moving, Calls
<1>8. end \in Nat /\ size \in Nat /\ inode[i].fileSize <= size /\ end <= size
  BY <1>5, <1>6, <1>7 DEF GrownSize
<1>9. PICK r2 : r2 = [t.ino EXCEPT !.fileSize = size]
  OBVIOUS
<1>10. r2 \in InodeRecord /\ SameButSize(t.ino, r2) /\ r2.fileSize = size
  BY <1>7, <1>8, <1>9 DEF InodeRecord, SameButSize
<1>11. /\ fbm' = t.fbm /\ block' = t.block
       /\ inode' = [inode EXCEPT ![i] = r2]
       /\ fd' = [fd EXCEPT ![f] = t.pos]
       /\ imap' = imap /\ torn' = torn
  BY <1>1, <1>5, <1>7, <1>9 DEF fs_write
<1>12. inode' \in [File -> InodeRecord] /\ inode'[i] = r2
       /\ \A j \in File \ {i} : inode'[j] = inode[j]
  BY <1>6, <1>10, <1>11 DEF FilesInv, TypeOK
<1>13. Sizes' = Enough(Sizes, i, CeilDiv(p + t.done, BLOCK_SIZE_BYTES))
  <2>1. Sizes' = [j \in File |-> CeilDiv(inode'[j].fileSize, BLOCK_SIZE_BYTES)]
    BY DEF Sizes
  <2>2. Sizes'[i] = GrownSize(Sizes[i], CeilDiv(end, BLOCK_SIZE_BYTES))
    <3>1. inode'[i].fileSize = size
      BY <1>10, <1>12
    <3>2. CeilDiv(size, BLOCK_SIZE_BYTES)
            = GrownSize(CeilDiv(inode[i].fileSize, BLOCK_SIZE_BYTES),
                        CeilDiv(end, BLOCK_SIZE_BYTES))
      BY <1>5, <1>6, <1>8, CeilOfGrown
    <3>3. Sizes[i] = CeilDiv(inode[i].fileSize, BLOCK_SIZE_BYTES)
      BY <1>6, SizesNat
    <3>. QED
      BY <1>6, <2>1, <3>1, <3>2, <3>3
  <2>3. \A j \in File \ {i} : Sizes'[j] = Sizes[j]
    BY <1>12, <2>1, SizesNat
  <2>4. PICK s : s = GrownSize(Sizes[i], CeilDiv(end, BLOCK_SIZE_BYTES))
    OBVIOUS
  <2>5. Enough(Sizes, i, CeilDiv(p + t.done, BLOCK_SIZE_BYTES)) = [Sizes EXCEPT ![i] = s]
    BY <1>5, <2>4 DEF Enough
  <2>6. PICK S2 : S2 = Sizes'
    OBVIOUS
  <2>7. S2 = [j \in File |-> S2[j]]
    BY <2>1, <2>6
  <2>8. PICK S1 : S1 = Sizes
    OBVIOUS
  <2>9. S1 \in [File -> Nat]
    BY <2>8, SizesNat
  <2>10. S2 = [S1 EXCEPT ![i] = s]
    BY <1>6, <2>2, <2>3, <2>4, <2>6, <2>7, <2>8, <2>9
  <2>. QED
    BY <2>5, <2>6, <2>8, <2>10
<1>14. Sound(fbm', block', inode', Sizes')
  <2>1. PICK R1 : R1 = With(inode, i, t)
    OBVIOUS
  <2>2. Sound(t.fbm, t.block, R1, Sizes')
    BY <1>4, <1>13, <2>1 DEF Moving
  <2>3. R1[i] = t.ino /\ \A j \in File \ {i} : R1[j] = inode[j]
    BY <1>6, <2>1 DEF With, FilesInv, TypeOK
  <2>4. \A j \in File : SameButSize(R1[j], inode'[j])
    <3>1. SameButSize(R1[i], inode'[i])
      BY <1>10, <1>12, <2>3
    <3>2. \A j \in File \ {i} : SameButSize(R1[j], inode'[j])
      BY <1>12, <2>3 DEF SameButSize
    <3>. QED
      BY <3>1, <3>2
  <2>5. Sound(t.fbm, t.block, inode', Sizes')
    BY <1>12, <2>2, <2>4, SizeSound
  <2>. QED
    BY <1>11, <2>5
<1>15. fd' \in [Fd -> FdRecord \cup {Closed}]
  BY <1>7, <1>11 DEF FilesInv, TypeOK
<1>16. TypeOK'
  <2>1. Typed(fbm', block', inode', Sizes')
    BY <1>14 DEF Sound
  <2>. QED
    BY <1>11, <1>12, <1>15, <2>1 DEF Typed, TypeOK, FilesInv, Bytes, Table
<1>17. \A j \in File \ imap' : inode'[j] = EmptyInode
  BY <1>6, <1>11, <1>12 DEF FilesInv, FilesSound
<1>18. ASSUME NEW g \in OpenFds'
       PROVE  FdSound(fd[g])'
  <2>1. CASE g = f
    <3>1. fd'[g] = t.pos
      BY <1>3, <1>11, <2>1 DEF OpenFds, FilesInv, TypeOK
    <3>2. t.pos.inodeNum \in imap' /\ inode'[t.pos.inodeNum].fileSize = size
      BY <1>6, <1>7, <1>10, <1>11, <1>12
    <3>. QED
      BY <1>7, <1>8, <3>1, <3>2 DEF FdSound
  <2>2. CASE g # f
    <3>1. g \in OpenFds /\ fd'[g] = fd[g]
      BY <1>11, <2>2 DEF OpenFds, FilesInv, TypeOK
    <3>2. PICK d, j : d = fd[g] /\ j = d.inodeNum
      OBVIOUS
    <3>3. /\ j \in File /\ j \in imap /\ getFileSize(d) \in Nat /\ inode[j].fileSize \in Nat
          /\ InTable(d) => getFileSize(d) <= inode[j].fileSize
      BY <3>1, <3>2, OnFile
    <3>4. inode'[j].fileSize \in Nat /\ inode[j].fileSize <= inode'[j].fileSize
      <4>1. CASE j = i
        BY <1>6, <1>8, <1>10, <1>12, <4>1
      <4>2. CASE j # i
        <5>1. inode'[j] = inode[j]
          BY <1>12, <3>3, <4>2
        <5>. QED
          BY <3>3, <5>1
      <4>. QED
        BY <4>1, <4>2
    <3>5. j \in imap' /\ (InTable(d) => getFileSize(d) <= inode'[j].fileSize)
      BY <1>11, <3>3, <3>4
    <3>. QED
      BY <3>1, <3>2, <3>5 DEF FdSound
  <2>. QED
    BY <2>1, <2>2
<1>. QED
  BY <1>14, <1>16, <1>17, <1>18 DEF FilesInv, FilesSound

\* Byte x of a file, from 0.
ByteAt(A, r, x) == A[Nth(r, A, x \div BLOCK_SIZE_BYTES)][x % BLOCK_SIZE_BYTES]

\* A file of n blocks that hold bytes.
DataFile(F, A, r, n) ==
    /\ FileOf(F, A, r, n)
    /\ n < Below3 /\ n < Uint16
    /\ \A m \in 0 .. (n - 1) : A[Nth(r, A, m)] \in Bytes

\* Each file of a sound volume is one of data blocks that hold bytes.
LEMMA SoundData ==
    ASSUME NEW F, NEW A, NEW R, NEW C, Sound(F, A, R, C), NEW i \in File
    PROVE  DataFile(F, A, R[i], C[i])
<1>1. FileOf(F, A, R[i], C[i])
  BY SoundFile
<1>2. C[i] < Below3 /\ C[i] < Uint16
  BY FileSmall
<1>3. \A m \in 0 .. (C[i] - 1) : A[Nth(R[i], A, m)] \in Bytes
  BY DEF Sound, BlocksHold
<1>. QED
  BY <1>1, <1>2, <1>3 DEF DataFile

\* A read that starts at byte p and has got some of its len bytes.
Reading(t, F, A, r, i, p, len) ==
    /\ t \in Calls
    /\ t.fbm = F /\ t.block = A /\ t.ino = r
    /\ InTable(t.pos) /\ t.pos.inodeNum = i
    /\ getFileSize(t.pos) = p + t.done
    /\ t.done <= len
    /\ Len(t.got) = t.done
    /\ \A x \in 1 .. t.done : t.got[x] = ByteAt(A, r, p + (x - 1))

\* The bytes of a chunk.
Piece(c, o, n) == [x \in 1 .. n |-> c[o + x - 1]]

\* A piece of a block is a sequence of its bytes.
LEMMA PieceIs ==
    ASSUME NEW c \in Bytes, NEW o \in Nat, NEW n \in Nat, o + n <= BLOCK_SIZE_BYTES
    PROVE  /\ Piece(c, o, n) \in Seq(Byte \cup {Stale}) /\ Len(Piece(c, o, n)) = n
           /\ \A x \in 1 .. n : Piece(c, o, n)[x] = c[o + (x - 1)]
<1>1. ASSUME NEW x \in 1 .. n
      PROVE  c[o + x - 1] \in Byte \cup {Stale}
  <2>1. o + x - 1 \in Offset
    BY Sizing DEF Offset
  <2>. QED
    BY <2>1 DEF Bytes
<1>2. Piece(c, o, n) \in [1 .. n -> Byte \cup {Stale}]
  BY <1>1 DEF Piece
<1>3. PICK s : s = Piece(c, o, n)
  OBVIOUS
<1>4. s \in Seq(Byte \cup {Stale}) /\ Len(s) = n
  BY <1>2, <1>3
<1>5. ASSUME NEW x \in 1 .. n
      PROVE  s[x] = c[o + (x - 1)]
  <2>1. s[x] = c[o + x - 1]
    BY <1>3, Zenon DEF Piece
  <2>2. o + x - 1 = o + (x - 1)
    OBVIOUS
  <2>. QED
    BY <2>1, <2>2
<1>. QED
  BY <1>3, <1>4, <1>5, Zenon

\* What follows the bytes read so far.
LEMMA GotMore ==
    ASSUME NEW got \in Seq(Byte \cup {Stale}), NEW more \in Seq(Byte \cup {Stale}),
           NEW all, all = got \o more
    PROVE  /\ all \in Seq(Byte \cup {Stale}) /\ Len(all) = Len(got) + Len(more)
           /\ \A x \in 1 .. Len(got) : all[x] = got[x]
           /\ \A x \in 1 .. Len(more) : all[Len(got) + x] = more[x]
OBVIOUS

\* A place in a block, as a place in the file.
LEMMA ByteOfBlock ==
    ASSUME NEW A, NEW r, NEW m \in Nat, NEW o \in Nat, o < BLOCK_SIZE_BYTES
    PROVE  ByteAt(A, r, m * BLOCK_SIZE_BYTES + o) = A[Nth(r, A, m)][o]
<1>1. o \in 0 .. (BLOCK_SIZE_BYTES - 1) /\ BLOCK_SIZE_BYTES \in Nat \ {0}
  BY Sizing
<1>2. /\ (m * BLOCK_SIZE_BYTES + o) \div BLOCK_SIZE_BYTES = m
      /\ (m * BLOCK_SIZE_BYTES + o) % BLOCK_SIZE_BYTES = o
  BY <1>1, DivisionUnique
<1>. QED
  BY <1>2, Zenon DEF ByteAt

\* A turn of fs_read inside the file gets bytes of the file, and changes nothing.
LEMMA ReadTurns ==
    ASSUME NEW F, NEW A, NEW r, NEW n, DataFile(F, A, r, n), NEW i,
           NEW p \in Nat, NEW len \in Nat, p + len <= n * BLOCK_SIZE_BYTES,
           NEW t, Reading(t, F, A, r, i, p, len), t.done < len,
           NEW w, w = ReadTurn(t, len)
    PROVE  Reading(w, F, A, r, i, p, len) /\ t.done < w.done
<1>1. /\ t \in Calls /\ t.fbm = F /\ t.block = A /\ t.ino = r
      /\ t.pos \in FdRecord /\ t.done \in Nat /\ t.got \in Seq(Byte \cup {Stale})
      /\ InTable(t.pos) /\ t.pos.inodeNum = i /\ getFileSize(t.pos) = p + t.done
      /\ Len(t.got) = t.done
  BY DEF Reading, Calls
<1>2. /\ FileOf(F, A, r, n) /\ n \in Nat /\ n < Below3 /\ n < Uint16
      /\ \A k \in 0 .. (n - 1) : A[Nth(r, A, k)] \in Bytes
  BY DEF DataFile, FileOf
<1>3. PICK m, o : m = BlockOf(t.pos) /\ o = t.pos.locate_offset
  OBVIOUS
<1>4. /\ m \in Nat /\ o \in Nat /\ o < BLOCK_SIZE_BYTES /\ m * BLOCK_SIZE_BYTES \in Nat
      /\ p + t.done = m * BLOCK_SIZE_BYTES + o
  BY <1>1, <1>3, PosBytes
<1>5. m < n
  <2>1. PICK x, y : x = m * BLOCK_SIZE_BYTES /\ y = n * BLOCK_SIZE_BYTES
    OBVIOUS
  <2>2. x \in Nat /\ y \in Nat /\ (n <= m => y <= x)
    BY <1>2, <1>4, <2>1, Products, Sizing
  <2>3. x < y
    BY <1>1, <1>4, <2>1, <2>2
  <2>. QED
    BY <1>2, <1>4, <2>2, <2>3
<1>6. PICK u, b, c : u = get_data_block_id(t) /\ b = Nth(r, A, m) /\ c = A[b]
  OBVIOUS
<1>7. b # 0 /\ b \in Block /\ c \in Bytes
  <2>1. m \in 0 .. (n - 1)
    BY <1>2, <1>4, <1>5
  <2>. QED
    BY <1>2, <1>6, <2>1, NthUsed
<1>8. u = [t EXCEPT !.id = b]
  <2>1. Holds(t, n)
    BY <1>1, <1>2 DEF Holds
  <2>2. Found(t, m, u)
    BY <1>1, <1>3, <1>5, <1>6, <2>1, Gets
  <2>. QED
    BY <1>1, <1>6, <2>2 DEF Found
<1>9. /\ u \in Calls /\ u.fbm = F /\ u.block = A /\ u.ino = r /\ u.id = b
      /\ u.pos = t.pos /\ u.done = t.done /\ u.got = t.got
  BY <1>1, <1>7, <1>8 DEF Calls
<1>10. PICK l, more, next : /\ l = Chunk(u, len) /\ more = Piece(c, o, l)
                            /\ next = Advance(u.pos, l)
  OBVIOUS
<1>11. l \in Nat /\ l > 0 /\ o + l <= BLOCK_SIZE_BYTES /\ u.done + l <= len
  BY <1>1, <1>3, <1>4, <1>9, <1>10, ChunkIs
<1>12. w = [u EXCEPT !.got = u.got \o more, !.pos = next, !.done = u.done + l]
  <2>1. w = ReadChunk(u, len)
    BY <1>1, <1>6, <1>7, <1>9 DEF ReadTurn
  <2>. QED
    BY <1>3, <1>6, <1>9, <1>10, <2>1 DEF ReadChunk, Piece
<1>13. /\ next \in FdRecord /\ next.inodeNum = i /\ InTable(next)
       /\ getFileSize(next) = (p + t.done) + l
  <2>1. m + 1 < Below3 \/ m + 1 = Below3
    BY <1>2, <1>4, <1>5, Rows
  <2>2. m + 1 < Below3 /\ m + 1 < Uint16
    BY <1>2, <1>4, <1>5, Rows DEF Uint16
  <2>. QED
    BY <1>1, <1>3, <1>9, <1>10, <1>11, <2>2, Advances
<1>14. /\ more \in Seq(Byte \cup {Stale}) /\ Len(more) = l
       /\ \A x \in 1 .. l : more[x] = c[o + (x - 1)]
  <2>1. c \in Bytes /\ o \in Nat /\ l \in Nat /\ o + l <= BLOCK_SIZE_BYTES
    BY <1>4, <1>7, <1>11
  <2>2. /\ Piece(c, o, l) \in Seq(Byte \cup {Stale}) /\ Len(Piece(c, o, l)) = l
        /\ \A x \in 1 .. l : Piece(c, o, l)[x] = c[o + (x - 1)]
    BY <2>1, PieceIs
  <2>. QED
    BY <1>10, <2>2, Zenon
<1>15. PICK all, d : all = u.got \o more /\ d = u.done + l
  OBVIOUS
<1>16. /\ all \in Seq(Byte \cup {Stale}) /\ Len(all) = Len(t.got) + Len(more)
       /\ \A x \in 1 .. Len(t.got) : all[x] = t.got[x]
       /\ \A x \in 1 .. Len(more) : all[Len(t.got) + x] = more[x]
  <2>1. PICK g : g = t.got
    OBVIOUS
  <2>2. g \in Seq(Byte \cup {Stale}) /\ more \in Seq(Byte \cup {Stale}) /\ all = g \o more
    BY <1>1, <1>9, <1>14, <1>15, <2>1
  <2>3. /\ all \in Seq(Byte \cup {Stale}) /\ Len(all) = Len(g) + Len(more)
        /\ \A x \in 1 .. Len(g) : all[x] = g[x]
        /\ \A x \in 1 .. Len(more) : all[Len(g) + x] = more[x]
    BY <2>2, GotMore
  <2>. QED
    BY <2>1, <2>3
<1>17. d \in Nat /\ d = t.done + l /\ Len(all) = d /\ d <= len
  BY <1>1, <1>9, <1>11, <1>14, <1>15, <1>16
<1>18. /\ w \in Calls /\ w.fbm = F /\ w.block = A /\ w.ino = r /\ w.pos = next
       /\ w.done = d /\ w.got = all
  <2>1. w = [u EXCEPT !.got = all, !.pos = next, !.done = d]
    BY <1>12, <1>15, Zenon
  <2>2. all \in Seq(Byte \cup {Stale}) /\ next \in FdRecord /\ d \in Nat
    BY <1>13, <1>16, <1>17
  <2>3. w \in Calls
    BY <1>9, <2>1, <2>2 DEF Calls
  <2>4. /\ w.fbm = u.fbm /\ w.block = u.block /\ w.ino = u.ino /\ w.pos = next
        /\ w.done = d /\ w.got = all
    BY <1>9, <2>1 DEF Calls
  <2>. QED
    BY <1>9, <2>3, <2>4
<1>19. ASSUME NEW x \in 1 .. d
       PROVE  all[x] = ByteAt(A, r, p + (x - 1))
  <2>1. CASE x <= t.done
    <3>1. x \in 1 .. t.done
      BY <1>1, <1>17, <2>1
    <3>2. all[x] = t.got[x]
      BY <1>1, <1>16, <3>1
    <3>. QED
      BY <3>1, <3>2 DEF Reading
  <2>2. CASE ~(x <= t.done)
    <3>0. PICK e : e = t.done
      OBVIOUS
    <3>1. PICK y : y = x - e
      OBVIOUS
    <3>2. y \in 1 .. l /\ x = t.done + y
      <4>1. e \in Nat /\ l \in Nat /\ d = e + l /\ d \in Nat /\ ~(x <= e)
        BY <1>1, <1>11, <1>17, <2>2, <3>0
      <4>2. x \in Nat /\ x <= d
        BY <4>1
      <4>3. y \in Nat /\ y >= 1 /\ y <= l /\ x = e + y
        BY <3>1, <4>1, <4>2
      <4>. QED
        BY <3>0, <4>1, <4>3
    <3>3. all[x] = c[o + (y - 1)]
      <4>1. all[Len(t.got) + y] = more[y] /\ more[y] = c[o + (y - 1)]
        BY <1>14, <1>16, <3>2
      <4>. QED
        BY <1>1, <3>2, <4>1
    <3>4. PICK q : q = o + (y - 1)
      OBVIOUS
    <3>5. q \in Nat /\ q < BLOCK_SIZE_BYTES /\ p + (x - 1) = m * BLOCK_SIZE_BYTES + q
      <4>1. PICK z : z = m * BLOCK_SIZE_BYTES
        OBVIOUS
      <4>2. /\ e \in Nat /\ p + e = z + o /\ z \in Nat /\ o \in Nat /\ l \in Nat
            /\ o + l <= BLOCK_SIZE_BYTES /\ y \in 1 .. l /\ x = e + y
            /\ BLOCK_SIZE_BYTES \in Nat
        BY <1>1, <1>4, <1>11, <3>0, <3>2, <4>1, Sizing
      <4>3. q \in Nat /\ q < BLOCK_SIZE_BYTES
        BY <3>4, <4>2
      <4>4. p + (x - 1) = z + q
        BY <3>4, <4>2
      <4>. QED
        BY <4>1, <4>3, <4>4
    <3>6. ByteAt(A, r, p + (x - 1)) = A[Nth(r, A, m)][q]
      BY <1>4, <3>5, ByteOfBlock
    <3>. QED
      BY <1>6, <3>3, <3>4, <3>6
  <2>. QED
    BY <2>1, <2>2
<1>20. getFileSize(w.pos) = p + w.done /\ t.done < w.done
  BY <1>1, <1>11, <1>13, <1>17, <1>18
<1>. QED
  BY <1>13, <1>17, <1>18, <1>19, <1>20 DEF Reading

\* The turns of a read that begins as b, up to the N-th.
Reads(w, b, n, N) ==
    w = [k \in 0 .. N |-> IF k = 0 THEN b ELSE ReadTurn(w[k - 1], n)]

\* There are as many turns as one likes: the least number without would be one
\* turn after turns that there are.
LEMMA ReadsExist ==
    ASSUME NEW N \in Nat, NEW b, NEW n
    PROVE  \E w : Reads(w, b, n, N)
<1>. DEFINE S == {k \in 0 .. N : ~ \E w : Reads(w, b, n, k)}
<1>. SUFFICES ASSUME S # {} PROVE FALSE
  OBVIOUS
<1>1. S \in SUBSET Nat
  OBVIOUS
<1>2. PICK m \in S : \A y \in S : m <= y
  BY <1>1, MinProperties
<1>3. m # 0
  <2>1. Reads([k \in 0 .. 0 |-> b], b, n, 0)
    BY DEF Reads
  <2>. QED
    BY <2>1
<1>4. PICK w : Reads(w, b, n, m - 1)
  BY <1>2, <1>3
<1>. DEFINE v == [k \in 0 .. m |-> IF k = m THEN ReadTurn(w[m - 1], n) ELSE w[k]]
<1>5. \A k \in 0 .. (m - 1) :
        w[k] = IF k = 0 THEN b ELSE ReadTurn(w[k - 1], n)
  BY <1>4 DEF Reads
<1>6. \A k \in 0 .. m : v[k] = IF k = 0 THEN b ELSE ReadTurn(v[k - 1], n)
  <2>. SUFFICES ASSUME NEW k \in 0 .. m
                PROVE  v[k] = IF k = 0 THEN b ELSE ReadTurn(v[k - 1], n)
    OBVIOUS
  <2>1. CASE k = 0
    BY <2>1, <1>1, <1>2, <1>3, <1>5
  <2>2. CASE k # 0
    <3>1. v[k - 1] = w[k - 1]
      BY <2>2, <1>1, <1>2
    <3>2. v[k] = ReadTurn(w[k - 1], n)
      BY <2>2, <1>1, <1>2, <1>5
    <3>. QED
      BY <2>2, <3>1, <3>2
  <2>. QED
    BY <2>1, <2>2
<1>7. Reads(v, b, n, m)
  BY <1>6 DEF Reads
<1>. QED
  BY <1>2, <1>7

\* What a read comes to is its last turn.
LEMMA ReadEnds ==
    ASSUME NEW f, NEW n \in Nat
    PROVE  \E w : /\ Reads(w, Begin(f), n, n)
                  /\ ReadLoop(f, n) = w[n]
<1>. DEFINE loop[k \in 0 .. n] ==
              IF k = 0 THEN Begin(f) ELSE ReadTurn(loop[k - 1], n)
<1>1. \E w : w = [k \in 0 .. n |->
                    IF k = 0 THEN Begin(f) ELSE ReadTurn(w[k - 1], n)]
  <2>1. \E w : Reads(w, Begin(f), n, n)
    BY ReadsExist
  <2>. QED
    BY <2>1, Zenon DEF Reads
<1>2. loop = [k \in 0 .. n |->
                IF k = 0 THEN Begin(f) ELSE ReadTurn(loop[k - 1], n)]
  BY <1>1
<1>3. ReadLoop(f, n) = loop[n]
  BY DEF ReadLoop
<1>. HIDE DEF loop
<1>. QED
  BY <1>2, <1>3 DEF Reads

\* The blocks of a size have room for it.
LEMMA CeilCovers ==
    ASSUME NEW x \in Nat
    PROVE  /\ CeilDiv(x, BLOCK_SIZE_BYTES) * BLOCK_SIZE_BYTES \in Nat
           /\ x <= CeilDiv(x, BLOCK_SIZE_BYTES) * BLOCK_SIZE_BYTES
<1>1. PICK q, o : q = x \div BLOCK_SIZE_BYTES /\ o = x % BLOCK_SIZE_BYTES
  OBVIOUS
<1>2. /\ q \in Nat /\ o \in Nat /\ o <= BLOCK_SIZE_BYTES
      /\ x = q * BLOCK_SIZE_BYTES + o
  BY <1>1, Division, Sizing
<1>3. CeilDiv(x, BLOCK_SIZE_BYTES) = IF o = 0 THEN q ELSE q + 1
  BY <1>2, CeilAt
<1>4. PICK y : y = q * BLOCK_SIZE_BYTES
  OBVIOUS
<1>5. /\ y \in Nat /\ (q + 1) * BLOCK_SIZE_BYTES = y + BLOCK_SIZE_BYTES
      /\ BLOCK_SIZE_BYTES \in Nat
  BY <1>2, <1>4, Products, Sizing
<1>6. CASE o = 0
  BY <1>2, <1>3, <1>4, <1>5, <1>6
<1>7. CASE o # 0
  BY <1>2, <1>3, <1>4, <1>5, <1>7
<1>. QED
  BY <1>6, <1>7

\* A read inside the file gets all its bytes.
LEMMA ReadingMoves ==
    ASSUME NEW F, NEW A, NEW r, NEW n, DataFile(F, A, r, n), NEW i,
           NEW p \in Nat, NEW len \in Nat, p + len <= n * BLOCK_SIZE_BYTES,
           NEW b, Reading(b, F, A, r, i, p, len),
           NEW w, Reads(w, b, len, len), NEW t, t = w[len]
    PROVE  Reading(t, F, A, r, i, p, len) /\ t.done = len
<1>. DEFINE Good(k) ==
       /\ Reading(w[k], F, A, r, i, p, len)
       /\ k <= w[k].done
<1>. DEFINE S == {k \in 0 .. len : ~Good(k)}
<1>1. \A k \in 0 .. len :
        w[k] = IF k = 0 THEN b ELSE ReadTurn(w[k - 1], len)
  <2>. HIDE DEF Good
  <2>1. w = [k \in 0 .. len |-> IF k = 0 THEN b ELSE ReadTurn(w[k - 1], len)]
    BY DEF Reads
  <2>. QED
    BY <2>1, Zenon
<1>2. Good(0)
  <2>1. w[0] = b
    BY <1>1
  <2>2. b.done \in Nat
    BY DEF Reading, Calls
  <2>. QED
    BY <2>1, <2>2
<1>3. ASSUME NEW k \in 1 .. len, Good(k - 1)
      PROVE  Good(k)
  <2>1. PICK u, v : u = w[k - 1] /\ v = w[k]
    OBVIOUS
  <2>2. v = ReadTurn(u, len)
    BY <1>1, <2>1
  <2>3. Reading(u, F, A, r, i, p, len) /\ k - 1 <= u.done
    BY <1>3, <2>1
  <2>4. u.done \in Nat /\ u.done <= len
    BY <2>3 DEF Reading, Calls
  <2>5. CASE u.done < len
    <3>1. Reading(v, F, A, r, i, p, len) /\ u.done < v.done
      BY <2>2, <2>3, <2>5, ReadTurns
    <3>2. v.done \in Nat
      BY <3>1 DEF Reading, Calls
    <3>3. k <= v.done
      BY <2>3, <2>4, <3>1, <3>2
    <3>. QED
      BY <2>1, <3>1, <3>3
  <2>6. CASE u.done = len
    <3>1. v = u
      BY <2>2, <2>6 DEF ReadTurn
    <3>. QED
      BY <2>1, <2>3, <2>6, <3>1
  <2>. QED
    BY <2>4, <2>5, <2>6
<1>. HIDE DEF Good
<1>4. S = {}
  <2>. SUFFICES ASSUME S # {} PROVE FALSE
    OBVIOUS
  <2>1. S \in SUBSET Nat
    OBVIOUS
  <2>2. PICK m \in S : \A y \in S : m <= y
    BY <2>1, MinProperties
  <2>3. m \in 1 .. len
    BY <1>2, <2>2
  <2>4. Good(m - 1)
    BY <2>2, <2>3
  <2>. QED
    BY <1>3, <2>2, <2>3, <2>4
<1>5. Good(len)
  BY <1>4
<1>. QED
  <2>1. t.done \in Nat /\ t.done <= len
    BY <1>5 DEF Good, Reading, Calls
  <2>. QED
    BY <1>5, <2>1 DEF Good

\* What a read comes to: the bytes of the file from the position on.
LEMMA ReadMoves ==
    ASSUME FilesInv, ~torn, NEW f \in OpenFds, InTable(fd[f]), NEW nbyte \in Nat,
           NEW i, i = fd[f].inodeNum, NEW p, p = getFileSize(fd[f]),
           NEW n, n = ReadCount(f, nbyte), NEW t, t = ReadLoop(f, n)
    PROVE  /\ n \in Nat /\ n = (IF p + nbyte <= inode[i].fileSize
                                THEN nbyte ELSE inode[i].fileSize - p)
           /\ p + n <= inode[i].fileSize
           /\ Reading(t, fbm, block, inode[i], i, p, n) /\ t.done = n
<1>1. /\ i \in File /\ p \in Nat /\ inode[i].fileSize \in Nat /\ p <= inode[i].fileSize
  BY OnFile
<1>2. PICK s : s = inode[i].fileSize
  OBVIOUS
<1>3. n = IF nbyte <= s - p THEN nbyte ELSE s - p
  <2>1. PICK left : left = s - p
    OBVIOUS
  <2>2. left \in Int /\ left >= 0
    BY <1>1, <1>2, <2>1
  <2>3. n = Min({nbyte, left})
    BY <1>2, <2>1, <2>2 DEF ReadCount
  <2>4. n = IF nbyte <= left THEN nbyte ELSE left
    BY <2>2, <2>3, MinTwo
  <2>. QED
    BY <2>1, <2>4
<1>4. /\ n \in Nat /\ n = (IF p + nbyte <= s THEN nbyte ELSE s - p)
      /\ p + n <= s
  BY <1>1, <1>2, <1>3
<1>5. PICK e, y : e = CeilDiv(s, BLOCK_SIZE_BYTES) /\ y = e * BLOCK_SIZE_BYTES
  OBVIOUS
<1>6. p + n <= e * BLOCK_SIZE_BYTES
  <2>1. y \in Nat /\ s <= y
    BY <1>1, <1>2, <1>5, CeilCovers
  <2>2. p + n <= y
    BY <1>1, <1>2, <1>4, <2>1
  <2>. QED
    BY <1>5, <2>2
<1>7. DataFile(fbm, block, inode[i], e)
  <2>1. Sound(fbm, block, inode, Sizes)
    BY DEF FilesInv, FilesSound
  <2>2. Sizes[i] = e
    BY <1>1, <1>2, <1>5, SizesNat
  <2>. QED
    BY <1>1, <2>1, <2>2, SoundData
<1>8. Reading(Begin(f), fbm, block, inode[i], i, p, n)
  <2>1. PICK b : b = Begin(f)
    OBVIOUS
  <2>2. /\ b \in Calls /\ b.fbm = fbm /\ b.ino = inode[i]
        /\ b.block = block /\ b.pos = fd[f] /\ b.done = 0 /\ b.got = <<>>
    BY <2>1, BeginIs
  <2>3. Len(b.got) = b.done
    BY <2>2
  <2>4. getFileSize(b.pos) = p + b.done /\ b.done <= n
    BY <1>1, <1>4, <2>2
  <2>5. \A x \in 1 .. b.done : b.got[x] = ByteAt(block, inode[i], p + (x - 1))
    BY <2>2
  <2>. QED
    BY <2>1, <2>2, <2>3, <2>4, <2>5 DEF Reading
<1>9. PICK w : Reads(w, Begin(f), n, n) /\ t = w[n]
  BY <1>4, ReadEnds
<1>10. Reading(t, fbm, block, inode[i], i, p, n) /\ t.done = n
  BY <1>1, <1>4, <1>6, <1>7, <1>8, <1>9, ReadingMoves
<1>. QED
  BY <1>2, <1>4, <1>10

\* A call that only moves a descriptor within its file keeps the invariant.
LEMMA MovedKeeps ==
    ASSUME FilesInv, ~torn, UNCHANGED <<fbm, imap, inode, block, torn>>,
           NEW f \in Fd, NEW d \in FdRecord \cup {Closed}, d # Closed => FdSound(d),
           fd' = [fd EXCEPT ![f] = d]
    PROVE  FilesInv'
<1>1. TypeOK'
  BY DEF FilesInv, TypeOK
<1>2. Sizes' = Sizes
  BY DEF Sizes
<1>3. Sound(fbm, block, inode, Sizes)'
  <2>1. Sound(fbm, block, inode, Sizes)
    BY DEF FilesInv, FilesSound
  <2>2. Sound(fbm', block', inode', Sizes')
    BY <1>2, <2>1
  <2>. QED
    BY <2>2
<1>4. \A j \in File \ imap' : inode'[j] = EmptyInode
  BY DEF FilesInv, FilesSound
<1>5. ASSUME NEW g \in OpenFds'
      PROVE  FdSound(fd[g])'
  <2>1. CASE g = f
    <3>1. fd'[g] = d /\ d # Closed
      BY <2>1 DEF OpenFds, FilesInv, TypeOK
    <3>2. FdSound(d)
      BY <3>1
    <3>. QED
      BY <3>1, <3>2 DEF FdSound
  <2>2. CASE g # f
    <3>1. g \in OpenFds /\ fd'[g] = fd[g]
      BY <2>2 DEF OpenFds, FilesInv, TypeOK
    <3>2. FdSound(fd[g])
      BY <3>1 DEF FilesInv, FilesSound
    <3>. QED
      BY <3>1, <3>2 DEF FdSound
  <2>. QED
    BY <2>1, <2>2
<1>. QED
  BY <1>1, <1>3, <1>4, <1>5 DEF FilesInv, FilesSound

\* fs_read keeps the invariant, and changes nothing but its position.
LEMMA ReadKeeps ==
    ASSUME FilesInv, ~torn, NEW f \in Fd, NEW nbyte \in Counts, fs_read(f, nbyte)
    PROVE  /\ FilesInv'
           /\ UNCHANGED <<fbm, imap, inode, block, torn>>
           /\ fd' = [fd EXCEPT ![f] = ReadLoop(f, ReadCount(f, nbyte)).pos]
<1>1. PICK t, i, p, n : /\ n = ReadCount(f, nbyte) /\ t = ReadLoop(f, n)
                        /\ i = fd[f].inodeNum /\ p = getFileSize(fd[f])
  OBVIOUS
<1>2. nbyte \in Nat
  BY FileIOAssumption
<1>3. f \in OpenFds /\ InTable(fd[f])
  BY DEF fs_read
<1>4. /\ n \in Nat /\ p + n <= inode[i].fileSize
      /\ Reading(t, fbm, block, inode[i], i, p, n) /\ t.done = n
  BY <1>1, <1>2, <1>3, ReadMoves
<1>5. /\ t.fbm = fbm /\ t.block = block /\ t.ino = inode[i] /\ t.pos \in FdRecord
      /\ t.pos.inodeNum = i /\ getFileSize(t.pos) = p + n
  BY <1>4 DEF Reading, Calls
<1>6. i \in File /\ i \in imap
  BY <1>1, <1>3, OnFile
<1>7. [inode EXCEPT ![i] = t.ino] = inode
  BY <1>5, <1>6 DEF FilesInv, TypeOK
<1>8. /\ UNCHANGED <<fbm, imap, inode, block, torn>>
      /\ fd' = [fd EXCEPT ![f] = t.pos]
  BY <1>1, <1>4, <1>5, <1>7 DEF fs_read
<1>9. FdSound(t.pos)
  BY <1>4, <1>5, <1>6 DEF FdSound
<1>10. FilesInv'
  BY <1>5, <1>8, <1>9, MovedKeeps
<1>. QED
  BY <1>1, <1>8, <1>10

-----------------------------------------------------------------------------
(* fs_create, fs_open, fs_close, fs_seek *)

\* fs_create keeps the invariant: the record it stores is the one there was.
LEMMA CreateKeeps ==
    ASSUME FilesInv, ~torn, NEW i \in File, fs_create(i)
    PROVE  FilesInv'
<1>1. /\ i \notin imap /\ imap' = imap \cup {i} /\ inode' = [inode EXCEPT ![i] = EmptyInode]
      /\ fbm' = fbm /\ block' = block /\ fd' = fd /\ torn' = torn
  BY DEF fs_create, bitmap_set
<1>2. inode[i] = EmptyInode
  BY <1>1 DEF FilesInv, FilesSound
<1>3. inode' = inode
  BY <1>1, <1>2 DEF FilesInv, TypeOK
<1>4. TypeOK'
  BY <1>1, <1>3 DEF FilesInv, TypeOK
<1>5. Sound(fbm', block', inode', Sizes')
  <2>1. Sizes' = Sizes
    BY <1>3 DEF Sizes
  <2>2. Sound(fbm, block, inode, Sizes)
    BY DEF FilesInv, FilesSound
  <2>. QED
    BY <1>1, <1>3, <2>1, <2>2
<1>6. \A j \in File \ imap' : inode'[j] = EmptyInode
  BY <1>1, <1>3 DEF FilesInv, FilesSound
<1>7. ASSUME NEW g \in OpenFds'
      PROVE  FdSound(fd[g])'
  <2>1. g \in OpenFds /\ fd'[g] = fd[g]
    BY <1>1 DEF OpenFds
  <2>2. FdSound(fd[g])
    BY <2>1 DEF FilesInv, FilesSound
  <2>. QED
    BY <1>1, <1>3, <2>1, <2>2 DEF FdSound
<1>. QED
  BY <1>4, <1>5, <1>6, <1>7 DEF FilesInv, FilesSound

\* fs_open keeps the invariant: a new descriptor is at the start of its file.
LEMMA OpenKeeps ==
    ASSUME FilesInv, ~torn, NEW i \in File, fs_open(i)
    PROVE  FilesInv'
<1>1. PICK f, d : /\ f = bitmap_ffz(OpenFds, NumFds)
                  /\ d = [inodeNum |-> i, usage |-> 1,
                          locate_order |-> 0, locate_offset |-> 0]
  OBVIOUS
<1>2. /\ i \in imap /\ f # SIZE_MAX /\ fd' = [fd EXCEPT ![f] = d]
      /\ UNCHANGED <<fbm, imap, inode, block, torn>>
  BY <1>1 DEF fs_open
<1>3. f \in Fd
  BY <1>1, <1>2, Sizing, FfzSpec DEF Fd
<1>4. d \in FdRecord
  BY <1>1, Sizing DEF FdRecord, Uint16, Offset
<1>5. FdSound(d)
  <2>1. getFileSize(d) = 0
    <3>1. BlockOf(d) = 0
      BY <1>1 DEF BlockOf
    <3>2. getFileSize(d) = 0 * BLOCK_SIZE_BYTES + 0
      BY <1>1, <1>4, <3>1, PosBytes
    <3>. QED
      BY <3>2, Sizing
  <2>2. inode[i].fileSize \in Nat
    BY SizesNat
  <2>. QED
    BY <1>1, <1>2, <2>1, <2>2 DEF FdSound
<1>. QED
  BY <1>2, <1>3, <1>4, <1>5, MovedKeeps

\* fs_close keeps the invariant.
LEMMA CloseKeeps ==
    ASSUME FilesInv, ~torn, NEW f \in Fd, fs_close(f)
    PROVE  FilesInv'
BY MovedKeeps DEF fs_close

\* What a location before the first table, stored in the 16 bits of an order, is.
LEMMA WrapsAround ==
    ASSUME NEW w \in Nat \ {0}
    PROVE  (0 - 1) % w = w - 1
OBVIOUS

\* The usage and order that a location comes to: the order is one before the
\* first of the table when the location is in the last block of the direct
\* pointers and not at its start.
LEMMA LocateIs ==
    ASSUME NEW i, NEW std \in Nat, NEW d, d = Locate(i, std),
           NEW n, n = std \div BLOCK_SIZE_BYTES, NEW o, o = std % BLOCK_SIZE_BYTES
    PROVE  /\ n \in Nat /\ o \in Nat /\ o < BLOCK_SIZE_BYTES /\ o \in Offset
           /\ std = n * BLOCK_SIZE_BYTES + o
           /\ \E u, k : /\ u \in {1, 2, 4} /\ k \in Int
                        /\ d = [inodeNum |-> i, usage |-> u,
                                locate_order |-> k % Uint16, locate_offset |-> o]
                        /\ \/ u = 4 /\ n = Below2 + k /\ k \in Nat
                           \/ /\ u = 2 /\ n = DIRECT_BLOCKS + k /\ n < Below2
                              /\ k \in Nat \/ (k = 0 - 1 /\ o # 0)
                           \/ u = 1 /\ n = k /\ k \in Nat /\ n < DIRECT_BLOCKS
<1>2. /\ n \in Nat /\ o \in Nat /\ o < BLOCK_SIZE_BYTES /\ o \in Offset
      /\ std = n * BLOCK_SIZE_BYTES + o
  <2>1. /\ n \in Nat /\ o \in 0 .. (BLOCK_SIZE_BYTES - 1)
        /\ std = n * BLOCK_SIZE_BYTES + o
    <3>1. BLOCK_SIZE_BYTES \in Nat \ {0}
      BY Sizing
    <3>2. /\ std \div BLOCK_SIZE_BYTES \in Nat
          /\ std % BLOCK_SIZE_BYTES \in 0 .. (BLOCK_SIZE_BYTES - 1)
          /\ std = (std \div BLOCK_SIZE_BYTES) * BLOCK_SIZE_BYTES + (std % BLOCK_SIZE_BYTES)
      BY <3>1, Division, Zenon
    <3>. QED
      BY <3>2, Zenon
  <2>2. o \in Nat /\ o < BLOCK_SIZE_BYTES
    BY <2>1, Sizing
  <2>. QED
    BY <2>1, <2>2 DEF Offset
<1>3. CeilDiv(std, BLOCK_SIZE_BYTES) = IF o = 0 THEN n ELSE n + 1
  <2>1. o <= BLOCK_SIZE_BYTES
    BY <1>2, Sizing
  <2>. QED
    <3>1. n \in Nat /\ o \in Nat /\ std = n * BLOCK_SIZE_BYTES + o
      BY <1>2
    <3>2. CeilDiv(n * BLOCK_SIZE_BYTES + o, BLOCK_SIZE_BYTES) = IF o = 0 THEN n ELSE n + 1
      BY <2>1, <3>1, CeilAt, Zenon
    <3>. QED
      BY <3>1, <3>2, Zenon
<1>4. Below2 = DIRECT_BLOCKS + INDIRECT_BLOCKS /\ Below2 \in Nat
  BY Rows
<1>5. \E u, k : /\ u \in {1, 2, 4} /\ k \in Int
               /\ d = [inodeNum |-> i, usage |-> u,
                       locate_order |-> k % Uint16, locate_offset |-> o]
               /\ \/ u = 4 /\ n = Below2 + k /\ k \in Nat
                  \/ /\ u = 2 /\ n = DIRECT_BLOCKS + k /\ n < Below2
                     /\ k \in Nat \/ (k = 0 - 1 /\ o # 0)
                  \/ u = 1 /\ n = k /\ k \in Nat /\ n < DIRECT_BLOCKS
  <2>1. CASE n >= DIRECT_BLOCKS + INDIRECT_BLOCKS
    <3>1. PICK k : k = n - (DIRECT_BLOCKS + INDIRECT_BLOCKS)
      OBVIOUS
    <3>2. k \in Nat /\ n = Below2 + k
      BY <1>2, <1>4, <2>1, <3>1, Sizing
    <3>3. d = [inodeNum |-> i, usage |-> 4,
               locate_order |-> k % Uint16, locate_offset |-> o]
      BY <2>1, <3>1 DEF Locate
    <3>4. /\ 4 \in {1, 2, 4} /\ k \in Int
          /\ d = [inodeNum |-> i, usage |-> 4,
                  locate_order |-> k % Uint16, locate_offset |-> o]
          /\ \/ 4 = 4 /\ n = Below2 + k /\ k \in Nat
             \/ /\ 4 = 2 /\ n = DIRECT_BLOCKS + k /\ n < Below2
                /\ k \in Nat \/ (k = 0 - 1 /\ o # 0)
             \/ 4 = 1 /\ n = k /\ k \in Nat /\ n < DIRECT_BLOCKS
      BY <3>2, <3>3
    <3>. QED
      BY <3>4, Zenon
  <2>2. CASE ~(n >= DIRECT_BLOCKS + INDIRECT_BLOCKS)
             /\ CeilDiv(std, BLOCK_SIZE_BYTES) >= DIRECT_BLOCKS
    <3>1. PICK k : k = n - DIRECT_BLOCKS
      OBVIOUS
    <3>2. n = DIRECT_BLOCKS + k /\ n < Below2 /\ (k \in Nat \/ (k = 0 - 1 /\ o # 0))
      BY <1>2, <1>3, <1>4, <2>2, <3>1, Sizing
    <3>3. d = [inodeNum |-> i, usage |-> 2,
               locate_order |-> k % Uint16, locate_offset |-> o]
      BY <2>2, <3>1 DEF Locate
    <3>4. /\ 2 \in {1, 2, 4} /\ k \in Int
          /\ d = [inodeNum |-> i, usage |-> 2,
                  locate_order |-> k % Uint16, locate_offset |-> o]
          /\ \/ 2 = 4 /\ n = Below2 + k /\ k \in Nat
             \/ /\ 2 = 2 /\ n = DIRECT_BLOCKS + k /\ n < Below2
                /\ k \in Nat \/ (k = 0 - 1 /\ o # 0)
             \/ 2 = 1 /\ n = k /\ k \in Nat /\ n < DIRECT_BLOCKS
      BY <3>2, <3>3
    <3>. QED
      BY <3>4, Zenon
  <2>3. CASE ~(n >= DIRECT_BLOCKS + INDIRECT_BLOCKS)
             /\ ~(CeilDiv(std, BLOCK_SIZE_BYTES) >= DIRECT_BLOCKS)
    <3>2. n < DIRECT_BLOCKS
      BY <1>2, <1>3, <2>3, Sizing
    <3>3. d = [inodeNum |-> i, usage |-> 1,
               locate_order |-> n % Uint16, locate_offset |-> o]
      BY <2>3 DEF Locate
    <3>4. /\ 1 \in {1, 2, 4} /\ n \in Int
          /\ d = [inodeNum |-> i, usage |-> 1,
                  locate_order |-> n % Uint16, locate_offset |-> o]
          /\ \/ 1 = 4 /\ n = Below2 + n /\ n \in Nat
             \/ /\ 1 = 2 /\ n = DIRECT_BLOCKS + n /\ n < Below2
                /\ n \in Nat \/ (n = 0 - 1 /\ o # 0)
             \/ 1 = 1 /\ n = n /\ n \in Nat /\ n < DIRECT_BLOCKS
      BY <1>2, <3>2, <3>3
    <3>. QED
      BY <3>4, Zenon
  <2>. QED
    BY <2>1, <2>2, <2>3
<1>. QED
  BY <1>2, <1>5, Zenon

\* A location is found where it is, or not at all, and never behind it.
LEMMA LocatedAt ==
    ASSUME NEW i \in File, NEW std \in Nat, NEW d, d = Locate(i, std)
    PROVE  /\ d \in FdRecord /\ d.inodeNum = i
           /\ InTable(d) => getFileSize(d) <= std
<1>1. PICK n, o : n = std \div BLOCK_SIZE_BYTES /\ o = std % BLOCK_SIZE_BYTES
  OBVIOUS
<1>2. /\ n \in Nat /\ o \in Nat /\ o < BLOCK_SIZE_BYTES /\ o \in Offset
      /\ std = n * BLOCK_SIZE_BYTES + o
  BY <1>1, LocateIs
<1>4. Uint16 \in Nat \ {0}
  BY DEF Uint16
<1>5. PICK u, k : /\ u \in {1, 2, 4} /\ k \in Int
                  /\ d = [inodeNum |-> i, usage |-> u,
                          locate_order |-> k % Uint16, locate_offset |-> o]
                  /\ \/ u = 4 /\ n = Below2 + k /\ k \in Nat
                     \/ /\ u = 2 /\ n = DIRECT_BLOCKS + k /\ n < Below2
                        /\ k \in Nat \/ (k = 0 - 1 /\ o # 0)
                     \/ u = 1 /\ n = k /\ k \in Nat /\ n < DIRECT_BLOCKS
  BY <1>1, LocateIs
<1>6. PICK r : r = k % Uint16
  OBVIOUS
<1>7. /\ r \in 0 .. (Uint16 - 1)
      /\ k \in Nat => r <= k
      /\ k = 0 - 1 => r = Uint16 - 1
  <2>1. CASE k \in Nat
    <3>1. PICK q : q = k \div Uint16
      OBVIOUS
    <3>2. r \in 0 .. (Uint16 - 1) /\ q * Uint16 \in Nat /\ k = q * Uint16 + r
      BY <1>4, <1>6, <2>1, <3>1, Division, Products
    <3>. QED
      BY <1>4, <2>1, <3>2
  <2>2. CASE k = 0 - 1
    BY <1>4, <1>6, <2>2, WrapsAround
  <2>. QED
    BY <1>5, <2>1, <2>2
<1>8. d = [inodeNum |-> i, usage |-> u, locate_order |-> r, locate_offset |-> o]
  BY <1>5, <1>6
<1>9. d \in FdRecord
  BY <1>2, <1>5, <1>7, <1>8 DEF FdRecord
<1>10. ASSUME InTable(d)
       PROVE  BlockOf(d) <= n
  <2>1. r \in Nat
    BY <1>4, <1>7
  <2>2. k # 0 - 1
    <3>1. SUFFICES ASSUME k = 0 - 1 PROVE FALSE
      OBVIOUS
    <3>2. u = 2
      BY <1>5, <3>1
    <3>3. r \in Index
      BY <1>8, <1>10, <3>2 DEF InTable
    <3>4. INDIRECT_BLOCKS < Uint16 /\ INDIRECT_BLOCKS \in Nat
      BY Sizing DEF Uint16
    <3>. QED
      BY <1>4, <1>7, <3>1, <3>3, <3>4 DEF Index
  <2>3. k \in Nat /\ r <= k
    BY <1>5, <1>7, <2>2
  <2>4. BlockOf(d) = r + (CASE u = 1 -> 0 [] u = 2 -> DIRECT_BLOCKS [] u = 4 -> Below2)
    <3>1. d.usage = u /\ d.locate_order = r
      BY <1>8
    <3>. QED
      BY <3>1, Zenon DEF BlockOf
  <2>5. u = 4 => BlockOf(d) = r + Below2
    BY <2>4
  <2>6. u = 2 => BlockOf(d) = r + DIRECT_BLOCKS
    BY <2>4
  <2>7. u = 1 => BlockOf(d) = r
    BY <2>1, <2>4
  <2>. QED
    BY <1>5, <2>1, <2>2, <2>3, <2>5, <2>6, <2>7, Sizing, Rows
<1>11. ASSUME InTable(d)
       PROVE  getFileSize(d) <= std
  <2>1. PICK m, x, y : m = BlockOf(d) /\ x = m * BLOCK_SIZE_BYTES /\ y = n * BLOCK_SIZE_BYTES
    OBVIOUS
  <2>2. m \in Nat /\ m <= n /\ x \in Nat /\ getFileSize(d) = x + o
    BY <1>8, <1>9, <1>10, <1>11, <2>1, PosBytes
  <2>3. y \in Nat /\ x <= y
    BY <1>2, <2>1, <2>2, Products, Sizing
  <2>. QED
    BY <1>2, <2>1, <2>2, <2>3
<1>. QED
  BY <1>8, <1>9, <1>11

\* The location a seek asks for is in the file.
LEMMA StdInFile ==
    ASSUME FilesInv, ~torn, NEW f \in OpenFds, NEW offset \in Offsets, NEW whence \in Whence,
           NEW std, std = StdOffset(f, offset, whence),
           NEW size, size = inode[fd[f].inodeNum].fileSize
    PROVE  std \in Nat /\ size \in Nat /\ std <= size
<1>1. size \in Nat /\ getFileSize(fd[f]) \in Nat
  BY OnFile
<1>2. PICK from : from = (CASE whence = "FS_SEEK_SET" -> 0
                            [] whence = "FS_SEEK_CUR" -> getFileSize(fd[f])
                            [] whence = "FS_SEEK_END" -> size)
  OBVIOUS
<1>3. from \in Nat
  BY <1>1, <1>2 DEF Whence
<1>4. PICK x, y : x = from + offset /\ y = Min({x, size})
  OBVIOUS
<1>5. x \in Int
  BY <1>3, <1>4, FileIOAssumption
<1>6. y = IF x <= size THEN x ELSE size
  BY <1>1, <1>4, <1>5, MinTwo
<1>7. y \in Int /\ y <= size
  BY <1>1, <1>5, <1>6
<1>8. std = Max({0, y})
  BY <1>2, <1>4 DEF StdOffset
<1>9. std = IF 0 >= y THEN 0 ELSE y
  BY <1>7, <1>8, MaxTwo
<1>. QED
  BY <1>1, <1>7, <1>9

\* fs_seek keeps the invariant: the position it finds is not past the location.
LEMMA SeekKeeps ==
    ASSUME FilesInv, ~torn, NEW f \in Fd, NEW offset \in Offsets, NEW whence \in Whence,
           fs_seek(f, offset, whence)
    PROVE  FilesInv'
<1>1. PICK std, i, size : /\ std = StdOffset(f, offset, whence) /\ i = fd[f].inodeNum
                          /\ size = inode[i].fileSize
  OBVIOUS
<1>2. /\ f \in OpenFds /\ fd' = [fd EXCEPT ![f] = Locate(i, std)]
      /\ UNCHANGED <<fbm, imap, inode, block, torn>>
  BY <1>1 DEF fs_seek
<1>3. i \in File /\ i \in imap /\ size \in Nat
  BY <1>1, <1>2, OnFile
<1>4. std \in Nat /\ std <= size
  BY <1>1, <1>2, StdInFile
<1>5. PICK d : d = Locate(i, std)
  OBVIOUS
<1>6. /\ d \in FdRecord /\ d.inodeNum = i
      /\ InTable(d) => getFileSize(d) <= std
  BY <1>3, <1>4, <1>5, LocatedAt
<1>7. FdSound(d)
  <2>1. InTable(d) => getFileSize(d) <= size
    <3>1. getFileSize(d) \in Nat
      BY <1>6, PosBytes
    <3>. QED
      BY <1>3, <1>4, <1>6, <3>1
  <2>. QED
    BY <1>1, <1>3, <1>6, <2>1 DEF FdSound
<1>8. fd' = [fd EXCEPT ![f] = d]
  BY <1>2, <1>5
<1>. QED
  BY <1>2, <1>6, <1>7, <1>8, MovedKeeps

-----------------------------------------------------------------------------
(* What fs_remove releases *)

\* What EntriesOf, DataBlocks and IndexBlocks are of a map F, blocks B and a record r.
EntriesIn(F, B, b) == IF b # 0 /\ b \in F THEN {B[b][k] : k \in Index} \ {0} ELSE {}

DataIn(F, B, r) ==
    ({r.directPointer[k] : k \in Order} \ {0})
    \cup EntriesIn(F, B, r.indirectPointer)
    \cup UNION {EntriesIn(F, B, b) : b \in EntriesIn(F, B, r.doubleIndirectPointer)}

IndexIn(F, B, r) ==
    ({r.indirectPointer, r.doubleIndirectPointer} \ {0})
    \cup EntriesIn(F, B, r.doubleIndirectPointer)

\* They are what the properties of FileIO name so.
LEMMA BlocksIn ==
    ASSUME NEW i
    PROVE  /\ DataBlocks(i) = DataIn(fbm, block, inode[i])
           /\ IndexBlocks(i) = IndexIn(fbm, block, inode[i])
<1>1. \A b : EntriesOf(b) = EntriesIn(fbm, block, b)
  BY Zenon DEF EntriesOf, EntriesIn
<1>. QED
  BY <1>1, Zenon DEF DataBlocks, DataIn, IndexBlocks, IndexIn

\* x is an entry that is set in the first table, in the outer one, or in the inner
\* one of entry o.
InFirst(B, r, n, x) ==
    DIRECT_BLOCKS < n /\ \E k \in Index : DIRECT_BLOCKS + k < n /\ x = B[r.indirectPointer][k]

InOuter(B, r, n, x) ==
    \E o \in Index : Row(o) < n /\ x = B[r.doubleIndirectPointer][o]

InInner(B, r, n, o, x) ==
    \E k \in Index : Row(o) + k < n /\ x = B[B[r.doubleIndirectPointer][o]][k]

\* The entries of the indirect table are the data blocks below it.
LEMMA FirstEntries ==
    ASSUME NEW F, NEW B, NEW r, NEW n, FileOf(F, B, r, n), NEW x
    PROVE  x \in EntriesIn(F, B, r.indirectPointer) <=> InFirst(B, r, n, x)
<1>1. /\ r.indirectPointer # 0 <=> DIRECT_BLOCKS < n
      /\ DIRECT_BLOCKS < n =>
           \A k \in Index : B[r.indirectPointer][k] # 0 <=> DIRECT_BLOCKS + k < n
  BY Zenon DEF FileOf, Shape
<1>2. DIRECT_BLOCKS < n => r.indirectPointer \in F
  BY FileTables, Zenon
<1>3. CASE DIRECT_BLOCKS < n
  <2>1. EntriesIn(F, B, r.indirectPointer) = {B[r.indirectPointer][k] : k \in Index} \ {0}
    BY <1>1, <1>2, <1>3, Zenon DEF EntriesIn
  <2>. QED
    BY <1>1, <1>3, <2>1, Zenon DEF InFirst
<1>4. CASE ~(DIRECT_BLOCKS < n)
  BY <1>1, <1>4, Zenon DEF InFirst, EntriesIn
<1>. QED
  BY <1>3, <1>4

\* The entries of the outer table are the inner tables.
LEMMA OuterEntries ==
    ASSUME NEW F, NEW B, NEW r, NEW n, FileOf(F, B, r, n), NEW x
    PROVE  x \in EntriesIn(F, B, r.doubleIndirectPointer) <=> InOuter(B, r, n, x)
<1>1. /\ r.doubleIndirectPointer # 0 <=> Below2 < n
      /\ Below2 < n =>
           \A o \in Index : B[r.doubleIndirectPointer][o] # 0 <=> Row(o) < n
  BY Zenon DEF FileOf, Shape
<1>2. Below2 < n => r.doubleIndirectPointer \in F
  BY FileTables, Zenon
<1>3. CASE Below2 < n
  <2>1. EntriesIn(F, B, r.doubleIndirectPointer)
          = {B[r.doubleIndirectPointer][k] : k \in Index} \ {0}
    BY <1>1, <1>2, <1>3, Zenon DEF EntriesIn
  <2>. QED
    BY <1>1, <1>3, <2>1, Zenon DEF InOuter
<1>4. CASE ~(Below2 < n)
  <2>1. n \in Nat
    BY DEF FileOf
  <2>2. \A o \in Index : ~(Row(o) < n)
    BY <1>4, <2>1, Rows
  <2>. QED
    BY <1>1, <1>4, <2>2, Zenon DEF InOuter, EntriesIn
<1>. QED
  BY <1>3, <1>4

\* The entries of an inner table are the data blocks below it.
LEMMA InnerEntries ==
    ASSUME NEW F, NEW B, NEW r, NEW n, FileOf(F, B, r, n), NEW x, NEW o \in Index, Row(o) < n
    PROVE  x \in EntriesIn(F, B, B[r.doubleIndirectPointer][o]) <=> InInner(B, r, n, o, x)
<1>1. PICK b : b = B[r.doubleIndirectPointer][o]
  OBVIOUS
<1>2. \A k \in Index : B[b][k] # 0 <=> Row(o) + k < n
  BY <1>1, Zenon DEF FileOf, Shape
<1>3. b # 0 /\ b \in F
  <2>1. n \in Nat
    BY DEF FileOf
  <2>2. Below2 < n
    BY <2>1, Rows
  <2>3. b # 0
    BY <1>1, <2>2, Zenon DEF FileOf, Shape
  <2>4. b \in F
    BY <1>1, FileTables, Zenon
  <2>. QED
    BY <2>3, <2>4
<1>4. EntriesIn(F, B, b) = {B[b][k] : k \in Index} \ {0}
  BY <1>3, Zenon DEF EntriesIn
<1>. QED
  BY <1>1, <1>2, <1>4, Zenon DEF InInner

\* The data blocks of a file are those of its places from 0, its index tables
\* those of its other places.
LEMMA DataBlocksAre ==
    ASSUME NEW F, NEW B, NEW r, NEW n, FileOf(F, B, r, n), NEW x
    PROVE  x \in DataIn(F, B, r) <=> \E m \in 0 .. (n - 1) : x = Nth(r, B, m)
<1>2. n \in Nat /\ n <= Below3
      /\ \A k \in Order : r.directPointer[k] # 0 <=> k < n
  BY DEF FileOf, Shape
<1>3. x \in DataIn(F, B, r) <=>
        \/ \E k \in Order : r.directPointer[k] # 0 /\ x = r.directPointer[k]
        \/ x \in EntriesIn(F, B, r.indirectPointer)
        \/ \E b \in EntriesIn(F, B, r.doubleIndirectPointer) : x \in EntriesIn(F, B, b)
  BY DEF DataIn
<1>7. /\ \A k \in Order : Nth(r, B, k) = r.directPointer[k]
      /\ \A k \in Index : Nth(r, B, DIRECT_BLOCKS + k) = B[r.indirectPointer][k]
      /\ \A o, k \in Index :
           Nth(r, B, Row(o) + k) = B[B[r.doubleIndirectPointer][o]][k]
  BY NthAt
<1>8. ASSUME NEW m \in 0 .. (n - 1), x = Nth(r, B, m)
      PROVE  x \in DataIn(F, B, r)
  <2>1. m \in 0 .. (Below3 - 1) /\ m < n
    BY <1>2, Rows
  <2>2. \/ m \in Order
        \/ \E k \in Index : m = DIRECT_BLOCKS + k
        \/ \E o, k \in Index : m = Row(o) + k
    BY <2>1, DataCases
  <2>3. CASE m \in Order
    BY <1>2, <1>3, <1>7, <1>8, <2>1, <2>3
  <2>4. ASSUME NEW k \in Index, m = DIRECT_BLOCKS + k
        PROVE  x \in DataIn(F, B, r)
    <3>2. DIRECT_BLOCKS < n
      BY <1>2, <2>1, <2>4, Sizing DEF Index
    <3>3. x = B[r.indirectPointer][k] /\ DIRECT_BLOCKS + k < n
      BY <1>7, <1>8, <2>1, <2>4
    <3>4. InFirst(B, r, n, x)
      BY <3>2, <3>3, Zenon DEF InFirst
    <3>. QED
      BY <1>3, <3>4, FirstEntries, Zenon
  <2>5. ASSUME NEW o \in Index, NEW k \in Index, m = Row(o) + k
        PROVE  x \in DataIn(F, B, r)
    <3>1. Row(o) < n
      BY <1>2, <2>1, <2>5, Rows, Sizing DEF Index
    <3>2. x = B[B[r.doubleIndirectPointer][o]][k] /\ Row(o) + k < n
      BY <1>7, <1>8, <2>1, <2>5
    <3>3. InInner(B, r, n, o, x)
      BY <3>2, Zenon DEF InInner
    <3>4. x \in EntriesIn(F, B, B[r.doubleIndirectPointer][o])
      BY <3>1, <3>3, InnerEntries, Zenon
    <3>5. PICK b : b = B[r.doubleIndirectPointer][o]
      OBVIOUS
    <3>6. InOuter(B, r, n, b)
      BY <3>1, <3>5, Zenon DEF InOuter
    <3>7. b \in EntriesIn(F, B, r.doubleIndirectPointer)
      BY <3>6, OuterEntries, Zenon
    <3>. QED
      BY <1>3, <3>4, <3>5, <3>7, Zenon
  <2>. QED
    BY <2>2, <2>3, <2>4, <2>5
<1>9. ASSUME x \in DataIn(F, B, r)
      PROVE  \E m \in 0 .. (n - 1) : x = Nth(r, B, m)
  <2>1. ASSUME NEW k \in Order, r.directPointer[k] # 0, x = r.directPointer[k]
        PROVE  \E m \in 0 .. (n - 1) : x = Nth(r, B, m)
    <3>1. k \in 0 .. (n - 1)
      BY <1>2, <2>1 DEF Order
    <3>. QED
      BY <1>7, <2>1, <3>1
  <2>2. ASSUME x \in EntriesIn(F, B, r.indirectPointer)
        PROVE  \E m \in 0 .. (n - 1) : x = Nth(r, B, m)
    <3>0. InFirst(B, r, n, x)
      BY <2>2, FirstEntries, Zenon
    <3>1. PICK k \in Index : DIRECT_BLOCKS + k < n /\ x = B[r.indirectPointer][k]
      BY <3>0, Zenon DEF InFirst
    <3>2. PICK m : m = DIRECT_BLOCKS + k
      OBVIOUS
    <3>3. m \in 0 .. (n - 1)
      BY <1>2, <3>1, <3>2, Sizing DEF Index
    <3>4. x = Nth(r, B, m)
      BY <1>7, <3>1, <3>2
    <3>. QED
      BY <3>3, <3>4
  <2>3. ASSUME NEW b \in EntriesIn(F, B, r.doubleIndirectPointer), x \in EntriesIn(F, B, b)
        PROVE  \E m \in 0 .. (n - 1) : x = Nth(r, B, m)
    <3>0. InOuter(B, r, n, b)
      BY <2>3, OuterEntries, Zenon
    <3>1. PICK o \in Index : Row(o) < n /\ b = B[r.doubleIndirectPointer][o]
      BY <3>0, Zenon DEF InOuter
    <3>2. InInner(B, r, n, o, x)
      BY <2>3, <3>1, InnerEntries, Zenon
    <3>3. PICK k \in Index : Row(o) + k < n /\ x = B[B[r.doubleIndirectPointer][o]][k]
      BY <3>2, Zenon DEF InInner
    <3>4. PICK m : m = Row(o) + k
      OBVIOUS
    <3>5. m \in 0 .. (n - 1)
      BY <1>2, <3>3, <3>4, RowJoin
    <3>6. x = Nth(r, B, m)
      BY <1>7, <3>3, <3>4
    <3>. QED
      BY <3>5, <3>6
  <2>. QED
    BY <1>3, <1>9, <2>1, <2>2, <2>3, Zenon
<1>. QED
  BY <1>8, <1>9

\* The index tables of a file are what its negative places lead to.
LEMMA IndexBlocksAre ==
    ASSUME NEW F, NEW B, NEW r, NEW n, FileOf(F, B, r, n), NEW x
    PROVE  x \in IndexIn(F, B, r) <=> \E p \in Set(n) : p < 0 /\ x = Ptr(r, B, p)
<1>2. n \in Nat /\ n <= Below3
      /\ (r.indirectPointer # 0 <=> DIRECT_BLOCKS < n)
      /\ (r.doubleIndirectPointer # 0 <=> Below2 < n)
  BY DEF FileOf, Shape
<1>3. x \in IndexIn(F, B, r) <=>
        \/ r.indirectPointer # 0 /\ x = r.indirectPointer
        \/ r.doubleIndirectPointer # 0 /\ x = r.doubleIndirectPointer
        \/ x \in EntriesIn(F, B, r.doubleIndirectPointer)
  BY DEF IndexIn
<1>5. /\ Ptr(r, B, -1) = r.indirectPointer
      /\ Ptr(r, B, -2) = r.doubleIndirectPointer
      /\ \A o \in Index : Ptr(r, B, -3 - o) = B[r.doubleIndirectPointer][o]
  BY PtrAt, Zenon
<1>6. /\ DIRECT_BLOCKS < n => -1 \in Set(n)
      /\ Below2 < n => -2 \in Set(n)
      /\ \A o \in Index : Row(o) < n => -3 - o \in Set(n)
      /\ \A p \in Set(n) : \/ p \in 0 .. (n - 1)
                           \/ p = -1 /\ DIRECT_BLOCKS < n
                           \/ p = -2 /\ Below2 < n
                           \/ \E o \in Index : p = -3 - o /\ Row(o) < n
  BY <1>2, SetHas
<1>7. \A o \in Index : -3 - o < 0
  BY Sizing DEF Index
<1>8. ASSUME NEW p \in Set(n), p < 0, x = Ptr(r, B, p)
      PROVE  x \in IndexIn(F, B, r)
  <2>1. \/ p = -1 /\ DIRECT_BLOCKS < n
        \/ p = -2 /\ Below2 < n
        \/ \E o \in Index : p = -3 - o /\ Row(o) < n
    BY <1>2, <1>6, <1>8
  <2>2. CASE p = -1 /\ DIRECT_BLOCKS < n
    BY <1>2, <1>3, <1>5, <1>8, <2>2
  <2>3. CASE p = -2 /\ Below2 < n
    BY <1>2, <1>3, <1>5, <1>8, <2>3
  <2>4. ASSUME NEW o \in Index, p = -3 - o, Row(o) < n
        PROVE  x \in IndexIn(F, B, r)
    <3>1. x = B[r.doubleIndirectPointer][o]
      BY <1>5, <1>8, <2>4
    <3>2. InOuter(B, r, n, x)
      BY <2>4, <3>1, Zenon DEF InOuter
    <3>. QED
      BY <1>3, <3>2, OuterEntries, Zenon
  <2>. QED
    BY <2>1, <2>2, <2>3, <2>4
<1>9. ASSUME x \in IndexIn(F, B, r)
      PROVE  \E p \in Set(n) : p < 0 /\ x = Ptr(r, B, p)
  <2>1. CASE r.indirectPointer # 0 /\ x = r.indirectPointer
    <3>1. -1 \in Set(n) /\ x = Ptr(r, B, -1) /\ -1 < 0
      BY <1>2, <1>5, <1>6, <2>1
    <3>. QED
      BY <3>1
  <2>2. CASE r.doubleIndirectPointer # 0 /\ x = r.doubleIndirectPointer
    <3>1. -2 \in Set(n) /\ x = Ptr(r, B, -2) /\ -2 < 0
      BY <1>2, <1>5, <1>6, <2>2
    <3>. QED
      BY <3>1
  <2>3. CASE x \in EntriesIn(F, B, r.doubleIndirectPointer)
    <3>0. InOuter(B, r, n, x)
      BY <2>3, OuterEntries, Zenon
    <3>1. PICK o \in Index : Row(o) < n /\ x = B[r.doubleIndirectPointer][o]
      BY <3>0, Zenon DEF InOuter
    <3>2. PICK p : p = -3 - o
      OBVIOUS
    <3>3. p \in Set(n) /\ p < 0 /\ x = Ptr(r, B, p)
      BY <1>5, <1>6, <1>7, <3>1, <3>2
    <3>. QED
      BY <3>3
  <2>. QED
    BY <1>3, <1>9, <2>1, <2>2, <2>3, Zenon
<1>. QED
  BY <1>8, <1>9

\* fs_remove releases the blocks at the places of the file.
LEMMA HeldAre ==
    ASSUME NEW i, NEW F, F = fbm, NEW B, B = block, NEW r, r = inode[i],
           NEW n, FileOf(F, B, r, n)
    PROVE  HeldBlocks(i) = {Ptr(r, B, p) : p \in Set(n)}
<1>1. HeldBlocks(i) = (DataIn(F, B, r) \cup IndexIn(F, B, r)) \cap F
  BY BlocksIn DEF HeldBlocks
<1>2. n \in Nat /\ n <= Below3 /\ \A p \in Set(n) : Ptr(r, B, p) \in F
  BY DEF FileOf, Shape
<1>3. ASSUME NEW x \in HeldBlocks(i)
      PROVE  \E p \in Set(n) : x = Ptr(r, B, p)
  <2>1. x \in DataIn(F, B, r) \/ x \in IndexIn(F, B, r)
    BY <1>1
  <2>2. CASE x \in DataIn(F, B, r)
    <3>1. PICK m \in 0 .. (n - 1) : x = Nth(r, B, m)
      BY <2>2, DataBlocksAre
    <3>2. m \in Set(n) /\ m \in Nat
      BY <1>2, SetHas
    <3>3. Ptr(r, B, m) = Nth(r, B, m)
      BY <3>2, PtrAt, Zenon
    <3>. QED
      BY <3>1, <3>2, <3>3
  <2>3. CASE x \in IndexIn(F, B, r)
    BY <2>3, IndexBlocksAre
  <2>. QED
    BY <2>1, <2>2, <2>3
<1>4. ASSUME NEW p \in Set(n)
      PROVE  Ptr(r, B, p) \in HeldBlocks(i)
  <2>1. Ptr(r, B, p) \in F
    BY <1>2
  <2>2. CASE p < 0
    <3>1. Ptr(r, B, p) \in IndexIn(F, B, r)
      BY <2>2, IndexBlocksAre, Zenon
    <3>. QED
      BY <1>1, <2>1, <3>1
  <2>3. CASE ~(p < 0)
    <3>1. p \in 0 .. (n - 1) /\ p \in Nat
      <4>1. \/ p \in 0 .. (n - 1)
            \/ p = -1
            \/ p = -2
            \/ \E o \in Index : p = -3 - o
        BY <1>2, SetHas
      <4>2. \A o \in Index : -3 - o < 0
        BY Sizing DEF Index
      <4>. QED
        BY <1>2, <2>3, <4>1, <4>2
    <3>2. Ptr(r, B, p) = Nth(r, B, p)
      BY <3>1, PtrAt, Zenon
    <3>3. Ptr(r, B, p) \in DataIn(F, B, r)
      BY <3>1, <3>2, DataBlocksAre, Zenon
    <3>. QED
      BY <1>1, <2>1, <3>3
  <2>. QED
    BY <2>2, <2>3
<1>. QED
  BY <1>3, <1>4

-----------------------------------------------------------------------------
(* fs_remove *)

\* The blocks of file i, of n blocks, are released and erased.
Released(F, A, r, n, F2, B) ==
    LET H == {Ptr(r, A, p) : p \in Set(n)}
    IN  /\ F2 = F \ H
        /\ B = [b \in Block |-> IF b \in H THEN Unwritten ELSE A[b]]

\* An empty file has set no pointer.
LEMMA SetNone == Set(0) = {}
<1>1. \A p \in Place : First(p) \in Nat
  BY Places, Zenon
<1>. QED
  BY <1>1 DEF Set

\* A record without blocks.
LEMMA EmptyIs ==
    ASSUME NEW B
    PROVE  EmptyInode \in InodeRecord /\ Shape(EmptyInode, B, 0)
<1>1. 0 \in Block
  BY Sizing DEF Block
<1>2. EmptyInode \in InodeRecord
  BY <1>1 DEF EmptyInode, InodeRecord
<1>3. \A k \in Order : EmptyInode.directPointer[k] = 0 /\ ~(k < 0)
  BY Sizing DEF EmptyInode, Order
<1>4. EmptyInode.indirectPointer = 0 /\ EmptyInode.doubleIndirectPointer = 0
  BY DEF EmptyInode
<1>5. 0 <= Below3 /\ ~(DIRECT_BLOCKS < 0) /\ ~(Below2 < 0)
      /\ \A o \in Index : ~(Row(o) < 0)
  BY Rows, Sizing
<1>. QED
  BY <1>2, <1>3, <1>4, <1>5 DEF Shape

\* What a fresh block holds is bytes.
LEMMA UnwrittenBytes == Unwritten \in Bytes
BY DEF Unwritten, Bytes

\* A file whose blocks are released leaves a sound volume in which it is empty.
LEMMA RemoveSound ==
    ASSUME NEW F, NEW A, NEW R, NEW C, Sound(F, A, R, C), NEW i \in File,
           NEW F2, NEW B, Released(F, A, R[i], C[i], F2, B),
           NEW R2, R2 = [R EXCEPT ![i] = EmptyInode], NEW C2, C2 = [C EXCEPT ![i] = 0]
    PROVE  Sound(F2, B, R2, C2)
<1>1. /\ F \subseteq Block /\ A \in [Block -> Bytes \cup Table]
      /\ R \in [File -> InodeRecord] /\ C \in [File -> Nat]
      /\ \A j \in File : Shape(R[j], A, C[j])
      /\ \A j \in File : \A p \in Set(C[j]) : Ptr(R[j], A, p) \in F \ Meta
      /\ \A j, k \in File : \A p \in Set(C[j]), q \in Set(C[k]) :
           Ptr(R[j], A, p) = Ptr(R[k], A, q) => j = k /\ p = q
  BY DEF Sound, Typed, PointersApart
<1>2. PICK H : H = {Ptr(R[i], A, p) : p \in Set(C[i])}
  OBVIOUS
<1>3. F2 = F \ H /\ B = [b \in Block |-> IF b \in H THEN Unwritten ELSE A[b]]
  BY <1>2, Zenon DEF Released
<1>4. /\ R2[i] = EmptyInode /\ C2[i] = 0
      /\ \A j \in File \ {i} : R2[j] = R[j] /\ C2[j] = C[j]
      /\ C2 \in [File -> Nat] /\ R2 \in [File -> InodeRecord]
  BY <1>1, EmptyIs
<1>5. H \subseteq F \ Meta
  BY <1>1, <1>2
<1>6. ASSUME NEW j \in File \ {i}, NEW p \in Set(C[j])
      PROVE  Ptr(R[j], A, p) \notin H
  BY <1>1, <1>2, <1>6
<1>7. /\ B \in [Block -> Bytes \cup Table]
      /\ \A b \in Block : B[b] = IF b \in H THEN Unwritten ELSE A[b]
  <2>1. \A b \in Block : (IF b \in H THEN Unwritten ELSE A[b]) \in Bytes \cup Table
    BY <1>1, UnwrittenBytes
  <2>. QED
    BY <1>3, <2>1
<1>8. ASSUME NEW j \in File \ {i}
      PROVE  Shape(R[j], B, C[j]) /\ \A p \in Set(C[j]) : Ptr(R[j], B, p) = Ptr(R[j], A, p)
  <2>1. ASSUME NEW p \in Set(C[j]), p < 0
        PROVE  B[Ptr(R[j], A, p)] = A[Ptr(R[j], A, p)]
    <3>1. Ptr(R[j], A, p) \in Block /\ Ptr(R[j], A, p) \notin H
      BY <1>1, <1>6
    <3>. QED
      BY <1>7, <3>1
  <2>2. SameTables(R[j], C[j], A, B)
    BY <2>1 DEF SameTables
  <2>3. C[j] \in Nat /\ Shape(R[j], A, C[j])
    BY <1>1
  <2>. QED
    BY <2>2, <2>3, PointersKept
<1>9. \A j \in File : Shape(R2[j], B, C2[j])
  BY <1>4, <1>8, EmptyIs
<1>10. ASSUME NEW j \in File, NEW p \in Set(C2[j])
       PROVE  /\ j # i /\ p \in Set(C[j]) /\ Ptr(R2[j], B, p) = Ptr(R[j], A, p)
              /\ Ptr(R2[j], B, p) \in F2 \ Meta
  <2>1. j # i
    BY <1>4, <1>10, SetNone
  <2>2. p \in Set(C[j]) /\ R2[j] = R[j]
    BY <1>4, <1>10, <2>1
  <2>3. Ptr(R2[j], B, p) = Ptr(R[j], A, p)
    BY <1>8, <2>1, <2>2
  <2>4. Ptr(R[j], A, p) \in F \ Meta /\ Ptr(R[j], A, p) \notin H
    BY <1>1, <1>6, <2>1, <2>2
  <2>. QED
    BY <1>3, <2>1, <2>2, <2>3, <2>4
<1>11. PointersApart(F2, B, R2, C2)
  <2>1. ASSUME NEW j \in File, NEW k \in File, NEW p \in Set(C2[j]), NEW q \in Set(C2[k]),
               Ptr(R2[j], B, p) = Ptr(R2[k], B, q)
        PROVE  j = k /\ p = q
    <3>1. p \in Set(C[j]) /\ q \in Set(C[k]) /\ Ptr(R[j], A, p) = Ptr(R[k], A, q)
      BY <1>10, <2>1
    <3>. QED
      BY <1>1, <3>1
  <2>. QED
    BY <1>10, <2>1, Zenon DEF PointersApart
<1>12. AllPointedTo(F2, B, R2, C2)
  <2>1. AllPointedTo(F, A, R, C)
    BY DEF Sound
  <2>2. ASSUME NEW x \in F2 \ Meta
        PROVE  \E j \in File : \E p \in Set(C2[j]) : x = Ptr(R2[j], B, p)
    <3>0. x \in F \ Meta /\ x \notin H
      BY <1>3
    <3>1. PICK j \in File : \E p \in Set(C[j]) : x = Ptr(R[j], A, p)
      BY <2>1, <3>0, Zenon DEF AllPointedTo
    <3>2. PICK p \in Set(C[j]) : x = Ptr(R[j], A, p)
      BY <3>1, Zenon
    <3>3. j # i
      BY <1>2, <3>0, <3>2
    <3>4. x = Ptr(R2[j], B, p) /\ p \in Set(C2[j])
      BY <1>4, <1>8, <3>2, <3>3
    <3>. QED
      BY <3>4, Zenon
  <2>3. Meta \subseteq F2
    BY <1>3, <1>5, <2>1 DEF AllPointedTo
  <2>. QED
    BY <2>2, <2>3 DEF AllPointedTo
<1>13. BlocksHold(F2, B, R2, C2)
  <2>1. BlocksHold(F, A, R, C)
    BY DEF Sound
  <2>2. ASSUME NEW j \in File, NEW m \in 0 .. (C2[j] - 1)
        PROVE  B[Nth(R2[j], B, m)] \in Bytes
    <3>1. C2[j] \in Nat /\ C2[j] <= Below3
      BY <1>4, <1>9 DEF Shape
    <3>2. m \in Set(C2[j]) /\ m \in Nat
      BY <3>1, SetHas
    <3>3. /\ j # i /\ m \in Set(C[j]) /\ Ptr(R2[j], B, m) = Ptr(R[j], A, m)
          /\ Ptr(R2[j], B, m) \in F2 \ Meta
      BY <1>10, <3>2
    <3>4. Ptr(R2[j], B, m) = Nth(R2[j], B, m) /\ Ptr(R[j], A, m) = Nth(R[j], A, m)
      BY <3>2, PtrAt, Zenon
    <3>5. A[Nth(R[j], A, m)] \in Bytes
      BY <1>4, <2>1, <2>2, <3>3 DEF BlocksHold
    <3>6. Nth(R[j], A, m) \in Block
      BY <1>1, <1>3, <3>3, <3>4
    <3>7. B[Nth(R[j], A, m)] \in Bytes
      BY <1>7, <3>5, <3>6, UnwrittenBytes
    <3>. QED
      BY <3>3, <3>4, <3>7
  <2>3. ASSUME NEW x \in Block \ F2
        PROVE  B[x] = Unwritten
    BY <1>3, <1>7, <2>1 DEF BlocksHold
  <2>. QED
    BY <2>2, <2>3 DEF BlocksHold
<1>14. Typed(F2, B, R2, C2)
  BY <1>1, <1>3, <1>4, <1>7 DEF Typed
<1>. QED
  BY <1>9, <1>11, <1>12, <1>13, <1>14, Zenon DEF Sound

\* What a file holds, in a state.
LEMMA HeldNow ==
    ASSUME FilesInv, ~torn, NEW i \in File
    PROVE  /\ FileOf(fbm, block, inode[i], Sizes[i])
           /\ HeldBlocks(i) = {Ptr(inode[i], block, p) : p \in Set(Sizes[i])}
<1>1. PICK F, B, r, n : F = fbm /\ B = block /\ r = inode[i] /\ n = Sizes[i]
  OBVIOUS
<1>2. Sound(fbm, block, inode, Sizes)
  BY DEF FilesInv, FilesSound
<1>3. FileOf(F, B, r, n)
  BY <1>1, <1>2, SoundFile
<1>4. HeldBlocks(i) = {Ptr(r, B, p) : p \in Set(n)}
  BY <1>1, <1>3, HeldAre
<1>. QED
  BY <1>1, <1>3, <1>4

\* Blocks erased are blocks still.
LEMMA ErasedTyped ==
    ASSUME FilesInv, NEW S
    PROVE  Erased(S) \in [Block -> Bytes \cup Table]
<1>1. block \in [Block -> Bytes \cup Table]
  BY DEF FilesInv, TypeOK, Bytes, Table
<1>. QED
  BY <1>1, UnwrittenBytes DEF Erased

\* fs_remove keeps the invariant.
LEMMA RemoveKeeps ==
    ASSUME FilesInv, ~torn, NEW i \in File, fs_remove(i)
    PROVE  FilesInv'
<1>1. PICK H : H = HeldBlocks(i)
  OBVIOUS
<1>2. /\ OpenFds = {} /\ fbm' = fbm \ H /\ block' = Erased(H)
      /\ imap' = imap \ {i} /\ inode' = [inode EXCEPT ![i] = EmptyInode]
      /\ fd' = fd /\ torn' = torn
  BY <1>1 DEF fs_remove, bitmap_reset
<1>3. PICK F, A, R, C, F2, B, R2, C2 :
        /\ F = fbm /\ A = block /\ R = inode /\ C = Sizes
        /\ F2 = fbm' /\ B = block' /\ R2 = inode' /\ C2 = Sizes'
  OBVIOUS
<1>4. Sound(F, A, R, C)
  BY <1>3 DEF FilesInv, FilesSound
<1>5. Released(F, A, R[i], C[i], F2, B)
  <2>1. H = {Ptr(R[i], A, p) : p \in Set(C[i])}
    BY <1>1, <1>3, HeldNow
  <2>. QED
    BY <1>2, <1>3, <2>1 DEF Released, Erased
<1>6. R2 = [R EXCEPT ![i] = EmptyInode]
  BY <1>2, <1>3
<1>7. C2 = [C EXCEPT ![i] = 0]
  <2>1. /\ C2 = [j \in File |-> CeilDiv(R2[j].fileSize, BLOCK_SIZE_BYTES)]
        /\ C = [j \in File |-> CeilDiv(R[j].fileSize, BLOCK_SIZE_BYTES)]
    BY <1>3 DEF Sizes
  <2>2. R \in [File -> InodeRecord]
    BY <1>3 DEF FilesInv, TypeOK
  <2>3. CeilDiv(R2[i].fileSize, BLOCK_SIZE_BYTES) = 0
    <3>1. R2[i].fileSize = 0
      BY <1>6, <2>2 DEF EmptyInode
    <3>. QED
      BY <3>1, CeilGrows
  <2>4. \A j \in File \ {i} : R2[j] = R[j]
    BY <1>6, <2>2
  <2>. QED
    BY <2>1, <2>3, <2>4
<1>8. Sound(F2, B, R2, C2)
  BY <1>4, <1>5, <1>6, <1>7, RemoveSound
<1>9. Sound(fbm', block', inode', Sizes')
  BY <1>3, <1>8
<1>10. OpenFds' = {}
  BY <1>2 DEF OpenFds
<1>11. TypeOK'
  <2>1. Typed(fbm', block', inode', Sizes')
    BY <1>9 DEF Sound
  <2>. QED
    BY <1>2, <2>1 DEF Typed, TypeOK, FilesInv, Bytes, Table
<1>12. \A j \in File \ imap' : inode'[j] = EmptyInode
  BY <1>2 DEF FilesInv, FilesSound, TypeOK
<1>. QED
  BY <1>9, <1>10, <1>11, <1>12 DEF FilesInv, FilesSound

\* fs_remove with a descriptor open keeps the invariant: it is torn, or the file
\* had no blocks.
LEMMA RemoveBusyKeeps ==
    ASSUME FilesInv, ~torn, NEW i \in File, fs_remove_busy(i)
    PROVE  FilesInv'
<1>1. PICK H, f : H = HeldBlocks(i) /\ f = Min(OpenFds)
  OBVIOUS
<1>2. /\ OpenFds # {} /\ fbm' = fbm \ H /\ block' = Erased(H)
      /\ imap' = imap /\ inode' = inode
      /\ fd' = IF fd[f].inodeNum = i THEN [fd EXCEPT ![f] = Closed] ELSE fd
      /\ torn' = (torn \/ H # {})
  BY <1>1 DEF fs_remove_busy
<1>3. f \in Fd
  <2>1. OpenFds \in SUBSET Nat
    BY Sizing DEF OpenFds, Fd
  <2>2. f \in OpenFds
    BY <1>1, <1>2, <2>1, MinProperties
  <2>. QED
    BY <2>2 DEF OpenFds
<1>4. CASE H = {}
  <2>1. fbm' = fbm /\ torn' = torn
    <3>1. fbm' = fbm
      BY <1>2, <1>4
    <3>2. torn = FALSE
      BY DEF FilesInv, TypeOK
    <3>3. torn' = FALSE
      BY <1>2, <1>4, <3>2
    <3>. QED
      BY <3>1, <3>2, <3>3
  <2>2. block' = block
    BY <1>2, <1>4 DEF Erased, FilesInv, TypeOK
  <2>3. CASE fd[f].inodeNum = i
    <3>1. fd' = [fd EXCEPT ![f] = Closed]
      BY <1>2, <2>3
    <3>. QED
      BY <1>2, <1>3, <2>1, <2>2, <3>1, MovedKeeps
  <2>4. CASE fd[f].inodeNum # i
    <3>1. fd' = [fd EXCEPT ![f] = fd[f]]
      BY <1>2, <1>3, <2>4 DEF FilesInv, TypeOK
    <3>2. fd[f] \in FdRecord \cup {Closed}
      BY <1>3 DEF FilesInv, TypeOK
    <3>3. fd[f] # Closed => FdSound(fd[f])
      BY <1>3 DEF FilesInv, FilesSound, OpenFds
    <3>4. PICK d : d = fd[f]
      OBVIOUS
    <3>. QED
      BY <1>2, <1>3, <2>1, <2>2, <3>1, <3>2, <3>3, <3>4, MovedKeeps
  <2>. QED
    BY <2>3, <2>4
<1>5. CASE H # {}
  <2>1. torn' = TRUE
    BY <1>2, <1>5
  <2>2. block' \in [Block -> Bytes \cup Table]
    BY <1>2, ErasedTyped
  <2>3. fd' \in [Fd -> FdRecord \cup {Closed}]
    BY <1>2, <1>3 DEF FilesInv, TypeOK
  <2>4. TypeOK'
    BY <1>2, <2>1, <2>2, <2>3 DEF FilesInv, TypeOK, Bytes, Table
  <2>. QED
    BY <2>1, <2>4 DEF FilesInv, FilesSound
<1>. QED
  BY <1>4, <1>5

-----------------------------------------------------------------------------
(* The invariant *)

\* A fresh volume is sound.
LEMMA InitSound == Init => FilesInv
<1>. SUFFICES ASSUME Init PROVE FilesInv
  OBVIOUS
<1>1. PICK F, B, R, C : F = fbm /\ B = block /\ R = inode /\ C = Sizes
  OBVIOUS
<1>2. /\ F = Meta /\ B = [b \in Block |-> Unwritten] /\ R = [i \in File |-> EmptyInode]
      /\ imap = {} /\ fd = [f \in Fd |-> Closed] /\ torn = FALSE
  BY <1>1 DEF Init, Meta
<1>3. C = [i \in File |-> 0]
  <2>1. EmptyInode.fileSize = 0
    BY DEF EmptyInode
  <2>2. CeilDiv(0, BLOCK_SIZE_BYTES) = 0
    BY CeilGrows
  <2>. QED
    BY <1>1, <1>2, <2>1, <2>2 DEF Sizes
<1>4. Meta \subseteq Block
  BY Sizing DEF Meta, Block
<1>5. Typed(F, B, R, C)
  BY <1>2, <1>3, <1>4, EmptyIs, UnwrittenBytes DEF Typed
<1>6. \A i \in File : Shape(R[i], B, C[i])
  BY <1>2, <1>3, EmptyIs
<1>7. \A i \in File : Set(C[i]) = {}
  BY <1>3, SetNone
<1>8. PointersApart(F, B, R, C)
  BY <1>7, Zenon DEF PointersApart
<1>9. AllPointedTo(F, B, R, C)
  BY <1>2 DEF AllPointedTo
<1>10. BlocksHold(F, B, R, C)
  BY <1>2, <1>3 DEF BlocksHold
<1>11. Sound(fbm, block, inode, Sizes)
  BY <1>1, <1>5, <1>6, <1>8, <1>9, <1>10 DEF Sound
<1>12. TypeOK
  BY <1>1, <1>2, <1>5 DEF Typed, TypeOK, Bytes, Table
<1>. QED
  BY <1>1, <1>2, <1>11, <1>12 DEF FilesInv, FilesSound, OpenFds

\* Each call keeps the invariant.
LEMMA NextSound == FilesInv /\ [~torn /\ Next]_vars => FilesInv'
<1>. SUFFICES ASSUME FilesInv, [~torn /\ Next]_vars PROVE FilesInv'
  OBVIOUS
<1>1. CASE UNCHANGED vars
  <2>1. TypeOK'
    BY <1>1 DEF FilesInv, TypeOK, vars
  <2>2. Sizes' = Sizes
    BY <1>1 DEF Sizes, vars
  <2>3. FilesSound'
    <3>1. SUFFICES ASSUME ~torn'
                   PROVE  /\ Sound(fbm', block', inode', Sizes')
                          /\ \A i \in File \ imap' : inode'[i] = EmptyInode
                          /\ \A f \in OpenFds' : FdSound(fd[f])'
      BY DEF FilesSound
    <3>2. FilesSound /\ ~torn
      BY <1>1, <3>1 DEF FilesInv, vars
    <3>3. Sound(fbm', block', inode', Sizes')
      BY <1>1, <2>2, <3>2 DEF FilesSound, vars
    <3>. QED
      BY <1>1, <3>2, <3>3 DEF FilesSound, vars, OpenFds, FdSound
  <2>. QED
    BY <2>1, <2>3 DEF FilesInv
<1>2. ASSUME ~torn, Next
      PROVE  FilesInv'
  <2>1. ASSUME NEW i \in File, fs_create(i)
        PROVE  FilesInv'
    BY <1>2, <2>1, CreateKeeps
  <2>2. ASSUME NEW i \in File, fs_open(i)
        PROVE  FilesInv'
    BY <1>2, <2>2, OpenKeeps
  <2>3. ASSUME NEW i \in File, fs_remove(i)
        PROVE  FilesInv'
    BY <1>2, <2>3, RemoveKeeps
  <2>4. ASSUME NEW i \in File, fs_remove_busy(i)
        PROVE  FilesInv'
    BY <1>2, <2>4, RemoveBusyKeeps
  <2>5. ASSUME NEW f \in Fd, fs_close(f)
        PROVE  FilesInv'
    BY <1>2, <2>5, CloseKeeps
  <2>6. ASSUME NEW f \in Fd, NEW buffer \in Buffers, fs_write(f, buffer)
        PROVE  FilesInv'
    BY <1>2, <2>6, WriteKeeps
  <2>7. ASSUME NEW f \in Fd, NEW nbyte \in Counts, fs_read(f, nbyte)
        PROVE  FilesInv'
    BY <1>2, <2>7, ReadKeeps
  <2>8. ASSUME NEW f \in Fd, NEW offset \in Offsets, NEW whence \in Whence,
               fs_seek(f, offset, whence)
        PROVE  FilesInv'
    BY <1>2, <2>8, SeekKeeps
  <2>. QED
    BY <1>2, <2>1, <2>2, <2>3, <2>4, <2>5, <2>6, <2>7, <2>8, Zenon DEF Next
<1>. QED
  BY <1>1, <1>2

\* The inductive invariant of FileIO (F17FS.c:543-664, 689-767, 856-912).
THEOREM FilesInvariant == WholeSpec => []FilesInv
BY InitSound, NextSound, PTL DEF WholeSpec

\* A descriptor's order and offset, and every pointer of a file, stay in their
\* ranges, whatever the calls (F17FS.c:42-48).
THEOREM FilesTyped == WholeSpec => []TypeOK
<1>1. FilesInv => TypeOK
  BY DEF FilesInv
<1>. QED
  BY <1>1, FilesInvariant, PTL

\* The pointers of each file are at all times those its size needs, they lead to
\* blocks of its own, and no descriptor is past the end of its file: what
\* get_data_block_id and fs_remove rely on (F17FS.c:543-664, 856-912).
THEOREM FilesStaySound == WholeSpec => []FilesSound
<1>1. FilesInv => FilesSound
  BY DEF FilesInv
<1>. QED
  BY <1>1, FilesInvariant, PTL

-----------------------------------------------------------------------------
(* BlocksExact *)

\* As many data blocks as places for them.
LEMMA DataCount ==
    ASSUME NEW F, NEW B, NEW r, NEW n, FileOf(F, B, r, n)
    PROVE  Cardinality(DataIn(F, B, r)) = n
<1> DEFINE N == 0 .. (n - 1)
<1> DEFINE D == DataIn(F, B, r)
<1> DEFINE x == [m \in N |-> Nth(r, B, m)]
<1>1. /\ n \in Nat /\ n <= Below3
      /\ \A p, q \in Set(n) : Ptr(r, B, p) = Ptr(r, B, q) => p = q
  BY DEF FileOf, Shape
<1>2. ASSUME NEW y
      PROVE  y \in D <=> \E m \in N : y = Nth(r, B, m)
  BY DataBlocksAre
<1>3. x \in [N -> D]
  BY <1>2
<1>4. \A m, k \in N : x[m] = x[k] => m = k
  <2>1. SUFFICES ASSUME NEW m \in N, NEW k \in N, Nth(r, B, m) = Nth(r, B, k)
                 PROVE  m = k
    OBVIOUS
  <2>2. m \in Set(n) /\ k \in Set(n) /\ m \in Nat /\ k \in Nat
    BY <1>1, SetHas
  <2>3. Ptr(r, B, m) = Nth(r, B, m) /\ Ptr(r, B, k) = Nth(r, B, k)
    BY <2>2, PtrAt
  <2>. QED
    BY <1>1, <2>1, <2>2, <2>3
<1>5. \A y \in D : \E m \in N : x[m] = y
  BY <1>2
<1>6. IsFiniteSet(N) /\ Cardinality(N) = n
  <2>1. 0 \in Int /\ n - 1 \in Int
    BY <1>1
  <2>2. /\ IsFiniteSet(0 .. (n - 1))
        /\ Cardinality(0 .. (n - 1)) = IF 0 > n - 1 THEN 0 ELSE (n - 1) - 0 + 1
    BY <2>1, FS_Interval, Zenon
  <2>. QED
    BY <1>1, <2>2
<1> HIDE DEF N, D, x
<1>7. x \in Injection(N, D) /\ x \in Surjection(N, D)
  BY <1>3, <1>4, <1>5 DEF Injection, IsInjective, Surjection
<1>8. ExistsBijection(N, D)
  BY <1>7 DEF ExistsBijection, Bijection
<1>9. Cardinality(D) = Cardinality(N)
  BY <1>6, <1>8, FS_Bijection, Zenon
<1>. QED
  BY <1>6, <1>9 DEF D

\* The blocks of a file are those at its places.
LEMMA BlocksAt ==
    ASSUME NEW F, NEW B, NEW r, NEW n, FileOf(F, B, r, n)
    PROVE  /\ \A x : x \in DataIn(F, B, r) \cup IndexIn(F, B, r)
                       <=> \E p \in Set(n) : x = Ptr(r, B, p)
           /\ DataIn(F, B, r) \cap IndexIn(F, B, r) = {}
<1>1. /\ n \in Nat /\ n <= Below3
      /\ \A p, q \in Set(n) : Ptr(r, B, p) = Ptr(r, B, q) => p = q
  BY DEF FileOf, Shape
<1>2. ASSUME NEW x \in DataIn(F, B, r)
      PROVE  \E m \in 0 .. (n - 1) : m \in Set(n) /\ x = Ptr(r, B, m)
  <2>1. PICK m \in 0 .. (n - 1) : x = Nth(r, B, m)
    BY DataBlocksAre
  <2>2. m \in Set(n) /\ m \in Nat
    BY <1>1, SetHas
  <2>3. Ptr(r, B, m) = Nth(r, B, m)
    BY <2>2, PtrAt
  <2>. QED
    BY <2>1, <2>2, <2>3
<1>3. ASSUME NEW x \in IndexIn(F, B, r)
      PROVE  \E p \in Set(n) : p < 0 /\ x = Ptr(r, B, p)
  BY IndexBlocksAre
<1>4. ASSUME NEW p \in Set(n)
      PROVE  Ptr(r, B, p) \in DataIn(F, B, r) \cup IndexIn(F, B, r)
  <2>1. p \in 0 .. (n - 1) \/ p < 0
    <3>1. \/ p \in 0 .. (n - 1)
          \/ p = -1
          \/ p = -2
          \/ \E o \in Index : p = -3 - o
      BY <1>1, SetHas
    <3>2. \A o \in Index : -3 - o < 0
      BY Sizing DEF Index
    <3>. QED
      BY <3>1, <3>2
  <2>2. CASE p < 0
    BY <2>2, IndexBlocksAre
  <2>3. CASE p \in 0 .. (n - 1)
    <3>1. p \in Nat
      BY <1>1, <2>3
    <3>2. Ptr(r, B, p) = Nth(r, B, p)
      BY <3>1, PtrAt
    <3>3. Ptr(r, B, p) \in DataIn(F, B, r)
      BY <2>3, <3>2, DataBlocksAre
    <3>. QED
      BY <3>3
  <2>. QED
    BY <2>1, <2>2, <2>3
<1>5. DataIn(F, B, r) \cap IndexIn(F, B, r) = {}
  <2>1. SUFFICES ASSUME NEW x \in DataIn(F, B, r), x \in IndexIn(F, B, r) PROVE FALSE
    OBVIOUS
  <2>2. PICK m \in 0 .. (n - 1) : m \in Set(n) /\ x = Ptr(r, B, m)
    BY <1>2
  <2>3. PICK p \in Set(n) : p < 0 /\ x = Ptr(r, B, p)
    BY <1>3, <2>1
  <2>4. m = p
    BY <1>1, <2>2, <2>3
  <2>. QED
    BY <1>1, <2>2, <2>3, <2>4
<1>. QED
  BY <1>2, <1>3, <1>4, <1>5

\* The blocks that the pointers lead to are the ones in use, file by file.
LEMMA InvExact == FilesInv => BlocksExact
<1>. SUFFICES ASSUME FilesInv, ~torn
              PROVE  /\ fbm = Meta \cup
                               UNION {DataBlocks(i) \cup IndexBlocks(i) : i \in imap}
                     /\ \A i \in imap :
                          /\ DataBlocks(i) \cap IndexBlocks(i) = {}
                          /\ Cardinality(DataBlocks(i)) =
                                 CeilDiv(inode[i].fileSize, BLOCK_SIZE_BYTES)
                          /\ \A j \in imap \ {i} :
                               (DataBlocks(i) \cup IndexBlocks(i))
                                   \cap (DataBlocks(j) \cup IndexBlocks(j)) = {}
  BY DEF BlocksExact, Meta
<1>1. PICK F, B, R, C : F = fbm /\ B = block /\ R = inode /\ C = Sizes
  OBVIOUS
<1>2. Sound(F, B, R, C)
  BY <1>1 DEF FilesInv, FilesSound
<1>3. imap \subseteq File
  BY DEF FilesInv, TypeOK
<1>4. \A i \in File : FileOf(F, B, R[i], C[i])
  BY <1>2, SoundFile
<1>5. \A i \in File : /\ DataBlocks(i) = DataIn(F, B, R[i])
                      /\ IndexBlocks(i) = IndexIn(F, B, R[i])
  BY <1>1, BlocksIn
<1> DEFINE Of(i) == DataBlocks(i) \cup IndexBlocks(i)
<1>6. ASSUME NEW i \in File
      PROVE  /\ \A x : x \in Of(i) <=> \E p \in Set(C[i]) : x = Ptr(R[i], B, p)
             /\ DataBlocks(i) \cap IndexBlocks(i) = {}
  BY <1>4, <1>5, BlocksAt
<1> HIDE DEF Of
<1>7. ASSUME NEW i \in imap
      PROVE  Cardinality(DataBlocks(i)) = CeilDiv(inode[i].fileSize, BLOCK_SIZE_BYTES)
  <2>1. Cardinality(DataIn(F, B, R[i])) = C[i]
    BY <1>3, <1>4, DataCount
  <2>2. C[i] = CeilDiv(inode[i].fileSize, BLOCK_SIZE_BYTES)
    BY <1>1, <1>3, SizesNat
  <2>. QED
    BY <1>3, <1>5, <2>1, <2>2
<1>8. ASSUME NEW i \in imap, NEW j \in imap \ {i}
      PROVE  Of(i) \cap Of(j) = {}
  <2>1. SUFFICES ASSUME NEW x \in Of(i), x \in Of(j) PROVE FALSE
    OBVIOUS
  <2>2. PICK p \in Set(C[i]) : x = Ptr(R[i], B, p)
    BY <1>3, <1>6
  <2>3. PICK q \in Set(C[j]) : x = Ptr(R[j], B, q)
    BY <1>3, <1>6, <2>1
  <2>4. i \in File /\ j \in File /\ i # j
    BY <1>3
  <2>. QED
    BY <1>2, <2>2, <2>3, <2>4 DEF Sound, PointersApart
<1>9. fbm = Meta \cup UNION {Of(i) : i \in imap}
  <2>1. ASSUME NEW x \in F, x \notin Meta
        PROVE  x \in UNION {Of(i) : i \in imap}
    <3>1. PICK i \in File : \E p \in Set(C[i]) : x = Ptr(R[i], B, p)
      BY <1>2, <2>1, Zenon DEF Sound, AllPointedTo
    <3>2. i \in imap
      <4>1. SUFFICES ASSUME i \notin imap PROVE FALSE
        OBVIOUS
      <4>2. R[i] = EmptyInode
        BY <1>1, <4>1 DEF FilesInv, FilesSound
      <4>3. C[i] = 0
        <5>1. C[i] = CeilDiv(R[i].fileSize, BLOCK_SIZE_BYTES)
          BY <1>1, SizesNat
        <5>2. R[i].fileSize = 0
          BY <4>2 DEF EmptyInode
        <5>. QED
          BY <5>1, <5>2, CeilGrows
      <4>. QED
        BY <3>1, <4>3, SetNone
    <3>3. x \in Of(i)
      BY <1>6, <3>1
    <3>. QED
      BY <3>2, <3>3
  <2>2. ASSUME NEW i \in imap, NEW x \in Of(i)
        PROVE  x \in F
    <3>1. i \in File
      BY <1>3
    <3>2. PICK p \in Set(C[i]) : x = Ptr(R[i], B, p)
      BY <1>6, <3>1
    <3>. QED
      BY <1>2, <3>1, <3>2 DEF Sound, PointersApart
  <2>3. Meta \subseteq F
    BY <1>2 DEF Sound, AllPointedTo
  <2>. QED
    BY <1>1, <2>1, <2>2, <2>3
<1>. QED
  BY <1>3, <1>6, <1>7, <1>8, <1>9 DEF Of

\* No block is lost or shared: the blocks in use are at all times the metadata's
\* and those of the files, and a file has as many as its size needs
\* (F17FS.c:543-664, 689-767, 856-912).
THEOREM FilesExact == WholeSpec => []BlocksExact
BY FilesInvariant, InvExact, PTL

-----------------------------------------------------------------------------
(* Where seek finds its location *)

\* A location inside the file, but for the gap, is found where it is.
LEMMA LocatedIn ==
    ASSUME NEW i \in File, NEW std \in Nat, NEW d, d = Locate(i, std),
           ~Gap(std), NEW c, c = CeilDiv(std, BLOCK_SIZE_BYTES), c < Below3, c < Uint16
    PROVE  InTable(d) /\ getFileSize(d) = std
<1>1. PICK n, o : n = std \div BLOCK_SIZE_BYTES /\ o = std % BLOCK_SIZE_BYTES
  OBVIOUS
<1>2. /\ n \in Nat /\ o \in Nat /\ o < BLOCK_SIZE_BYTES /\ o \in Offset
      /\ std = n * BLOCK_SIZE_BYTES + o
  BY <1>1, LocateIs
<1>3. Uint16 \in Nat \ {0}
  BY DEF Uint16
<1>4. PICK u, k : /\ u \in {1, 2, 4} /\ k \in Int
                  /\ d = [inodeNum |-> i, usage |-> u,
                          locate_order |-> k % Uint16, locate_offset |-> o]
                  /\ \/ u = 4 /\ n = Below2 + k /\ k \in Nat
                     \/ /\ u = 2 /\ n = DIRECT_BLOCKS + k /\ n < Below2
                        /\ k \in Nat \/ (k = 0 - 1 /\ o # 0)
                     \/ u = 1 /\ n = k /\ k \in Nat /\ n < DIRECT_BLOCKS
  BY <1>1, LocateIs
<1>5. n < Below3 /\ n < Uint16
  <2>1. o <= BLOCK_SIZE_BYTES
    BY <1>2, Sizing
  <2>2. c = IF o = 0 THEN n ELSE n + 1
    BY <1>2, <2>1, CeilAt, Zenon
  <2>. QED
    BY <1>2, <1>3, <2>2, Rows
<1>6. ~(n = DIRECT_BLOCKS - 1 /\ o # 0)
  BY <1>1 DEF Gap
<1>7. k \in Nat /\ k < Uint16
  BY <1>2, <1>3, <1>4, <1>5, <1>6, Sizing, Rows
<1>8. k % Uint16 = k
  BY <1>3, <1>7
<1>9. d = [inodeNum |-> i, usage |-> u, locate_order |-> k, locate_offset |-> o]
  BY <1>4, <1>8
<1>10. d \in FdRecord
  BY LocatedAt
<1>11. InTable(d)
  <2>1. CASE u = 1
    BY <1>4, <1>7, <1>9, <2>1, Sizing DEF InTable, Order
  <2>2. CASE u = 2
    <3>1. k \in Index
      BY <1>4, <1>7, <2>2, Sizing, Rows DEF Index
    <3>. QED
      BY <1>9, <2>2, <3>1 DEF InTable
  <2>3. CASE u = 4
    <3>1. n = Below2 + k /\ Below2 \in Nat
      BY <1>4, <2>3, Rows
    <3>2. Below2 <= n /\ n - Below2 = k
      BY <1>2, <1>7, <3>1
    <3>3. RowOf(n) \in Index
      BY <1>2, <1>5, <3>2, RowSplit
    <3>4. k \div INDIRECT_BLOCKS \in Index
      BY <3>2, <3>3, Zenon DEF RowOf
    <3>. QED
      BY <1>9, <2>3, <3>4 DEF InTable
  <2>. QED
    BY <1>4, <2>1, <2>2, <2>3
<1>12. BlockOf(d) = n
  <2>1. BlockOf(d) = k + (CASE u = 1 -> 0 [] u = 2 -> DIRECT_BLOCKS [] u = 4 -> Below2)
    <3>1. d.usage = u /\ d.locate_order = k
      BY <1>9
    <3>. QED
      BY <3>1, Zenon DEF BlockOf
  <2>2. u = 4 => BlockOf(d) = k + Below2
    BY <2>1
  <2>3. u = 2 => BlockOf(d) = k + DIRECT_BLOCKS
    BY <2>1
  <2>4. u = 1 => BlockOf(d) = k
    BY <1>7, <2>1
  <2>. QED
    BY <1>4, <1>7, <2>2, <2>3, <2>4, Sizing, Rows
<1>13. getFileSize(d) = n * BLOCK_SIZE_BYTES + o
  <2>1. d.locate_offset = o
    BY <1>9
  <2>. QED
    BY <1>10, <1>12, <2>1, PosBytes
<1>. QED
  BY <1>2, <1>11, <1>13

\* A seek outside the gap lands where it was asked to.
LEMMA SeekFinds ==
    ASSUME FilesInv, ~torn, NEW f \in Fd, NEW offset \in Offsets, NEW whence \in Whence,
           fs_seek(f, offset, whence), ~Gap(StdOffset(f, offset, whence))
    PROVE  /\ fd' = [fd EXCEPT ![f] = fd'[f]]
           /\ InTable(fd'[f])
           /\ getFileSize(fd'[f]) = StdOffset(f, offset, whence)
<1>1. PICK std, i, size, d : /\ std = StdOffset(f, offset, whence) /\ i = fd[f].inodeNum
                             /\ size = inode[i].fileSize /\ d = Locate(i, std)
  OBVIOUS
<1>2. /\ f \in OpenFds /\ fd' = [fd EXCEPT ![f] = d]
  BY <1>1 DEF fs_seek
<1>3. i \in File
  BY <1>1, <1>2, OnFile
<1>4. std \in Nat /\ size \in Nat /\ std <= size
  BY <1>1, <1>2, StdInFile
<1>5. PICK c, e : c = CeilDiv(std, BLOCK_SIZE_BYTES) /\ e = CeilDiv(size, BLOCK_SIZE_BYTES)
  OBVIOUS
<1>6. c \in Nat /\ e \in Nat /\ c <= e
  BY <1>4, <1>5, CeilGrows
<1>7. e < Below3 /\ e < Uint16
  <2>1. Sound(fbm, block, inode, Sizes)
    BY DEF FilesInv, FilesSound
  <2>2. Sizes[i] = e
    BY <1>1, <1>3, <1>5, SizesNat
  <2>. QED
    BY <1>3, <2>1, <2>2, FileSmall
<1>8. c < Below3 /\ c < Uint16
  <2>1. Uint16 \in Nat
    BY DEF Uint16
  <2>. QED
    BY <1>6, <1>7, <2>1, Rows
<1>9. ~Gap(std)
  BY <1>1
<1>10. InTable(d) /\ getFileSize(d) = std
  BY <1>1, <1>3, <1>4, <1>5, <1>8, <1>9, LocatedIn
<1>11. fd'[f] = d
  BY <1>2 DEF FilesInv, TypeOK
<1>. QED
  BY <1>1, <1>2, <1>10, <1>11

\* As long as no client seeks into the gap, every descriptor is in its tables.
TableInv == FilesInv /\ (~torn => \A f \in OpenFds : InTable(fd[f]))

\* Each call keeps the descriptors in their tables.
LEMMA TablesKept ==
    ASSUME NoSeekIntoGap, TableInv, [~torn /\ Next]_vars
    PROVE  TableInv'
<1>1. FilesInv'
  BY NextSound DEF TableInv
<1>2. ASSUME ~torn', NEW g \in OpenFds'
      PROVE  InTable(fd'[g])
  <2>1. CASE UNCHANGED vars
    BY <1>2, <2>1 DEF TableInv, vars, OpenFds
  <2>2. ASSUME ~torn, g \in OpenFds /\ fd'[g] = fd[g]
        PROVE  InTable(fd'[g])
    BY <2>2 DEF TableInv
  <2>3. ASSUME NEW f \in Fd, NEW d, ~torn, fd' = [fd EXCEPT ![f] = d],
               d = Closed \/ InTable(d)
        PROVE  InTable(fd'[g])
    <3>1. CASE g = f
      BY <1>2, <2>3, <3>1 DEF OpenFds, TableInv, FilesInv, TypeOK
    <3>2. CASE g # f
      <4>1. g \in OpenFds /\ fd'[g] = fd[g]
        BY <1>2, <2>3, <3>2 DEF OpenFds, TableInv, FilesInv, TypeOK
      <4>. QED
        BY <2>2, <2>3, <4>1
    <3>. QED
      BY <3>1, <3>2
  <2>4. ASSUME NEW i \in File, ~torn, fs_create(i) \/ fs_remove(i)
        PROVE  InTable(fd'[g])
    <3>1. fd' = fd
      BY <2>4 DEF fs_create, fs_remove
    <3>. QED
      BY <1>2, <2>2, <2>4, <3>1 DEF OpenFds
  <2>5. ASSUME NEW i \in File, ~torn, fs_open(i)
        PROVE  InTable(fd'[g])
    <3>1. PICK f, d : /\ f = bitmap_ffz(OpenFds, NumFds)
                      /\ d = [inodeNum |-> i, usage |-> 1,
                              locate_order |-> 0, locate_offset |-> 0]
      OBVIOUS
    <3>2. f # SIZE_MAX /\ fd' = [fd EXCEPT ![f] = d]
      BY <2>5, <3>1 DEF fs_open
    <3>3. f \in Fd
      BY <3>1, <3>2, Sizing, FfzSpec DEF Fd
    <3>4. InTable(d)
      BY <3>1, Sizing DEF InTable, Order
    <3>. QED
      BY <2>3, <2>5, <3>2, <3>3, <3>4
  <2>6. ASSUME NEW i \in File, ~torn, fs_remove_busy(i)
        PROVE  InTable(fd'[g])
    <3>1. PICK f : f = Min(OpenFds)
      OBVIOUS
    <3>2. fd' = [fd EXCEPT ![f] = Closed] \/ fd' = fd
      BY <2>6, <3>1 DEF fs_remove_busy
    <3>3. CASE fd' = fd
      BY <1>2, <2>2, <2>6, <3>3 DEF OpenFds
    <3>4. CASE fd' = [fd EXCEPT ![f] = Closed]
      <4>1. g \in OpenFds /\ fd'[g] = fd[g]
        BY <1>2, <3>4 DEF OpenFds, TableInv, FilesInv, TypeOK
      <4>. QED
        BY <2>2, <2>6, <4>1
    <3>. QED
      BY <3>2, <3>3, <3>4
  <2>7. ASSUME NEW f \in Fd, ~torn, fs_close(f)
        PROVE  InTable(fd'[g])
    BY <2>3, <2>7 DEF fs_close
  <2>8. ASSUME NEW f \in Fd, NEW buffer \in Buffers, ~torn, fs_write(f, buffer)
        PROVE  InTable(fd'[g])
    <3>1. PICK t, i, p : /\ t = WriteLoop(f, buffer) /\ i = fd[f].inodeNum
                         /\ p = getFileSize(fd[f])
      OBVIOUS
    <3>2. f \in OpenFds /\ InTable(fd[f]) /\ fd' = [fd EXCEPT ![f] = t.pos]
      BY <2>8, <3>1 DEF fs_write
    <3>3. buffer \in Seq(Byte)
      BY FileIOAssumption
    <3>4. Moving(t, inode, Sizes, i, p, Len(buffer))
      BY <2>8, <3>1, <3>2, <3>3, WriteMoves DEF TableInv
    <3>5. InTable(t.pos)
      BY <3>4 DEF Moving
    <3>. QED
      BY <2>3, <2>8, <3>2, <3>5
  <2>9. ASSUME NEW f \in Fd, NEW nbyte \in Counts, ~torn, fs_read(f, nbyte)
        PROVE  InTable(fd'[g])
    <3>1. PICK t, i, p, n : /\ n = ReadCount(f, nbyte) /\ t = ReadLoop(f, n)
                            /\ i = fd[f].inodeNum /\ p = getFileSize(fd[f])
      OBVIOUS
    <3>2. f \in OpenFds /\ InTable(fd[f])
      BY <2>9 DEF fs_read
    <3>3. fd' = [fd EXCEPT ![f] = t.pos]
      BY <2>9, <3>1, ReadKeeps DEF TableInv
    <3>4. nbyte \in Nat
      BY FileIOAssumption
    <3>5. Reading(t, fbm, block, inode[i], i, p, n)
      BY <2>9, <3>1, <3>2, <3>4, ReadMoves DEF TableInv
    <3>6. InTable(t.pos)
      BY <3>5 DEF Reading
    <3>. QED
      BY <2>3, <2>9, <3>3, <3>6
  <2>10. ASSUME NEW f \in Fd, NEW offset \in Offsets, NEW whence \in Whence, ~torn,
                fs_seek(f, offset, whence)
         PROVE  InTable(fd'[g])
    <3>1. StdOffset(f, offset, whence) \in Locations
      BY <2>10 DEF fs_seek
    <3>2. ~Gap(StdOffset(f, offset, whence))
      BY <3>1 DEF NoSeekIntoGap
    <3>3. PICK d : d = fd'[f]
      OBVIOUS
    <3>4. fd' = [fd EXCEPT ![f] = d] /\ InTable(d)
      BY <2>10, <3>2, <3>3, SeekFinds DEF TableInv
    <3>. QED
      BY <2>3, <2>10, <3>4
  <2>11. ASSUME ~torn, Next
         PROVE  InTable(fd'[g])
    BY <2>4, <2>5, <2>6, <2>7, <2>8, <2>9, <2>10, <2>11, Zenon DEF Next
  <2>. QED
    BY <2>1, <2>11
<1>. QED
  BY <1>1, <1>2 DEF TableInv

\* When no client seeks into the gap, every descriptor is at a block its file can
\* have (F17FS.c:992-1005).
THEOREM FilesInTables == ASSUME NoSeekIntoGap PROVE WholeSpec => []TableInv
<1>1. Init => TableInv
  BY InitSound DEF TableInv, Init, OpenFds
<1>2. TableInv /\ [~torn /\ Next]_vars => TableInv'
  BY TablesKept
<1>. QED
  BY <1>1, <1>2, PTL DEF WholeSpec

-----------------------------------------------------------------------------
(* ShortWriteOnlyWhenFull, SeekLands *)

\* A write that ends early is stuck for want of blocks.
LEMMA InvShort == TableInv => ShortWriteOnlyWhenFull
<1>. SUFFICES ASSUME TableInv, ~torn, NEW f \in OpenFds, NEW buffer \in Buffers,
                     NEW t, t = WriteLoop(f, buffer), t.done < Len(buffer)
              PROVE  NumBlocks - bitmap_total_set(t.fbm) < Needed(t.pos)
  BY DEF ShortWriteOnlyWhenFull
<1>1. PICK i, p : i = fd[f].inodeNum /\ p = getFileSize(fd[f])
  OBVIOUS
<1>2. InTable(fd[f]) /\ FilesInv
  BY DEF TableInv
<1>3. buffer \in Seq(Byte)
  BY FileIOAssumption
<1>4. Moving(t, inode, Sizes, i, p, Len(buffer)) /\ Stuck(t, Sizes, i, p)
  BY <1>1, <1>2, <1>3, WriteMoves
<1>5. ~(NumBlocks - bitmap_total_set(t.fbm) >= Needed(t.pos))
  BY <1>4 DEF Stuck, Free
<1>6. NumBlocks - bitmap_total_set(t.fbm) \in Int
  <2>1. t.fbm \subseteq Block
    BY <1>4 DEF Moving, Calls
  <2>2. Block \in SUBSET Nat /\ IsFiniteSet(Block)
    <3>1. 0 \in Int /\ NumBlocks - 1 \in Int
      BY Sizing
    <3>2. IsFiniteSet(0 .. (NumBlocks - 1))
      BY <3>1, FS_Interval, Zenon
    <3>. QED
      BY <3>2 DEF Block
  <2>3. IsFiniteSet(t.fbm)
    BY <2>1, <2>2, FS_Subset
  <2>4. Cardinality(t.fbm) \in Nat
    BY <2>3, FS_CardinalityType
  <2>. QED
    BY <2>4, Sizing DEF bitmap_total_set
<1>7. Needed(t.pos) \in Int
  BY DEF Needed
<1>. QED
  BY <1>5, <1>6, <1>7

\* When no client seeks into the gap, a write is short only when the free blocks
\* do not suffice for the next block and its index tables (F17FS.c:689-767).
THEOREM ShortWrites == ASSUME NoSeekIntoGap PROVE WholeSpec => []ShortWriteOnlyWhenFull
BY FilesInTables, InvShort, PTL

\* A seek that does not fall into the gap lands.
LEMMA SeekStepLands ==
    ASSUME NoSeekIntoGap, FilesInv, [~torn /\ Next]_vars
    PROVE  [\A f \in Fd, offset \in Offsets, whence \in Whence :
              fs_seek(f, offset, whence) =>
                  getFileSize(fd'[f]) = StdOffset(f, offset, whence)]_fd
<1>1. CASE UNCHANGED vars
  BY <1>1 DEF vars
<1>2. ASSUME ~torn, NEW f \in Fd, NEW offset \in Offsets, NEW whence \in Whence,
             fs_seek(f, offset, whence)
      PROVE  getFileSize(fd'[f]) = StdOffset(f, offset, whence)
  <2>1. StdOffset(f, offset, whence) \in Locations
    BY <1>2 DEF fs_seek
  <2>2. ~Gap(StdOffset(f, offset, whence))
    BY <2>1 DEF NoSeekIntoGap
  <2>. QED
    BY <1>2, <2>2, SeekFinds
<1>. QED
  BY <1>1, <1>2

\* A seek lands where it was asked to, unless that is in the gap: the locations
\* of the gap are the only ones that fs_seek misplaces (F17FS.c:956-1012).
THEOREM SeeksLand == ASSUME NoSeekIntoGap PROVE WholeSpec => SeekLands
<1>1. FilesInv /\ [~torn /\ Next]_vars =>
        [\A f \in Fd, offset \in Offsets, whence \in Whence :
              fs_seek(f, offset, whence) =>
                  getFileSize(fd'[f]) = StdOffset(f, offset, whence)]_fd
  BY SeekStepLands
<1>. QED
  BY <1>1, FilesInvariant, PTL DEF WholeSpec, SeekLands

-----------------------------------------------------------------------------
(* ReadBack *)

\* The data blocks found from the record are those the invariant numbers.
LEMMA NthBlockIs ==
    ASSUME NEW i, NEW n \in Nat
    PROVE  NthBlock(i, n) = Nth(inode[i], block, n)
<1>1. PICK m, k : m = n - DIRECT_BLOCKS /\ k = m - INDIRECT_BLOCKS
  OBVIOUS
<1>2. k = n - Below2 /\ (m < INDIRECT_BLOCKS <=> n < Below2)
  BY <1>1, Sizing, Rows
<1>3. NthBlock(i, n) =
        IF n < DIRECT_BLOCKS THEN inode[i].directPointer[n]
        ELSE IF m < INDIRECT_BLOCKS THEN block[inode[i].indirectPointer][m]
        ELSE block[block[inode[i].doubleIndirectPointer][k \div INDIRECT_BLOCKS]]
                  [k % INDIRECT_BLOCKS]
  BY <1>1, Zenon DEF NthBlock
<1>4. k \div INDIRECT_BLOCKS = RowOf(n) /\ k % INDIRECT_BLOCKS = ColumnOf(n)
  BY <1>2, Zenon DEF RowOf, ColumnOf
<1>5. PICK row, column : row = RowOf(n) /\ column = ColumnOf(n)
  OBVIOUS
<1>6. NthBlock(i, n) =
        IF n < DIRECT_BLOCKS THEN inode[i].directPointer[n]
        ELSE IF m < INDIRECT_BLOCKS THEN block[inode[i].indirectPointer][m]
        ELSE block[block[inode[i].doubleIndirectPointer][row]][column]
  BY <1>3, <1>4, <1>5, Zenon
<1>7. Nth(inode[i], block, n) =
        IF n < DIRECT_BLOCKS THEN inode[i].directPointer[n]
        ELSE IF n < Below2 THEN block[inode[i].indirectPointer][n - DIRECT_BLOCKS]
        ELSE block[block[inode[i].doubleIndirectPointer][row]][column]
  BY <1>5, Zenon DEF Nth
<1>. QED
  BY <1>1, <1>2, <1>6, <1>7

\* The bytes of a file are bytes.
LEMMA ByteTyped ==
    ASSUME NEW F, NEW A, NEW r, NEW n, DataFile(F, A, r, n),
           NEW s \in Nat, n = CeilDiv(s, BLOCK_SIZE_BYTES), NEW x \in Nat, x < s
    PROVE  ByteAt(A, r, x) \in Byte \cup {Stale}
<1>1. PICK m, o : m = x \div BLOCK_SIZE_BYTES /\ o = x % BLOCK_SIZE_BYTES
  OBVIOUS
<1>2. /\ m \in Nat /\ o \in Nat /\ o < BLOCK_SIZE_BYTES
      /\ x = m * BLOCK_SIZE_BYTES + o
  <2>1. BLOCK_SIZE_BYTES \in Nat \ {0}
    BY Sizing
  <2>2. /\ m \in Nat /\ o \in 0 .. (BLOCK_SIZE_BYTES - 1)
        /\ x = m * BLOCK_SIZE_BYTES + o
    BY <1>1, <2>1, Division, Zenon
  <2>. QED
    BY <2>1, <2>2
<1>3. m < n
  <2>1. PICK c : c = CeilDiv(x + 1, BLOCK_SIZE_BYTES)
    OBVIOUS
  <2>2. PICK y : y = m * BLOCK_SIZE_BYTES
    OBVIOUS
  <2>3. y \in Nat /\ x + 1 = y + (o + 1)
    BY <1>2, <2>2, Products, Sizing
  <2>4. o + 1 \in Nat /\ o + 1 <= BLOCK_SIZE_BYTES /\ o + 1 # 0
    BY <1>2, Sizing
  <2>5. x + 1 = m * BLOCK_SIZE_BYTES + (o + 1)
    BY <2>2, <2>3
  <2>6. CeilDiv(m * BLOCK_SIZE_BYTES + (o + 1), BLOCK_SIZE_BYTES) = m + 1
    BY <1>2, <2>4, CeilAt
  <2>7. c = m + 1
    BY <2>1, <2>5, <2>6
  <2>8. c <= n /\ n \in Nat
    BY <2>1, CeilGrows
  <2>. QED
    BY <1>2, <2>7, <2>8
<1>4. A[Nth(r, A, m)] \in Bytes
  BY <1>2, <1>3 DEF DataFile, FileOf
<1>5. o \in Offset
  BY <1>2, Sizing DEF Offset
<1>6. A[Nth(r, A, m)][o] \in Byte \cup {Stale}
  BY <1>4, <1>5 DEF Bytes
<1>. QED
  BY <1>1, <1>6 DEF ByteAt

\* The bytes of a file, as the invariant finds them.
LEMMA ContentsAre ==
    ASSUME FilesInv, ~torn, NEW i \in File, NEW c, c = Contents(i), NEW s, s = inode[i].fileSize
    PROVE  /\ s \in Nat /\ c \in Seq(Byte \cup {Stale}) /\ Len(c) = s
           /\ \A x \in 1 .. s : c[x] = ByteAt(block, inode[i], x - 1)
<1>1. PICK A, r, n : A = block /\ r = inode[i] /\ n = Sizes[i]
  OBVIOUS
<1>2. s \in Nat /\ n = CeilDiv(s, BLOCK_SIZE_BYTES)
  BY <1>1, SizesNat
<1>3. DataFile(fbm, A, r, n)
  <2>1. Sound(fbm, block, inode, Sizes)
    BY DEF FilesInv, FilesSound
  <2>. QED
    BY <1>1, <2>1, SoundData
<1>4. c = [x \in 1 .. s |->
            block[NthBlock(i, (x - 1) \div BLOCK_SIZE_BYTES)][(x - 1) % BLOCK_SIZE_BYTES]]
  BY Zenon DEF Contents
<1>5. ASSUME NEW x \in 1 .. s
      PROVE  /\ block[NthBlock(i, (x - 1) \div BLOCK_SIZE_BYTES)][(x - 1) % BLOCK_SIZE_BYTES]
                  = ByteAt(block, inode[i], x - 1)
             /\ ByteAt(block, inode[i], x - 1) \in Byte \cup {Stale}
  <2>1. PICK y : y = x - 1
    OBVIOUS
  <2>2. y \in Nat /\ y < s
    BY <1>2, <2>1
  <2>3. y \div BLOCK_SIZE_BYTES \in Nat
    <3>1. BLOCK_SIZE_BYTES \in Nat \ {0}
      BY Sizing
    <3>. QED
      BY <2>2, <3>1, Division, Zenon
  <2>4. NthBlock(i, y \div BLOCK_SIZE_BYTES) = Nth(inode[i], block, y \div BLOCK_SIZE_BYTES)
    BY <2>3, NthBlockIs
  <2>5. block[NthBlock(i, y \div BLOCK_SIZE_BYTES)][y % BLOCK_SIZE_BYTES]
          = ByteAt(block, inode[i], y)
    BY <2>4, Zenon DEF ByteAt
  <2>6. ByteAt(A, r, y) \in Byte \cup {Stale}
    BY <1>2, <1>3, <2>2, ByteTyped
  <2>. QED
    BY <1>1, <2>1, <2>5, <2>6, Zenon
<1>6. c = [x \in 1 .. s |-> ByteAt(block, inode[i], x - 1)]
  BY <1>4, <1>5, Zenon
<1>7. c \in [1 .. s -> Byte \cup {Stale}]
  BY <1>5, <1>6, Zenon
<1>8. c \in Seq(Byte \cup {Stale}) /\ Len(c) = s
  BY <1>2, <1>7
<1>9. \A x \in 1 .. s : c[x] = ByteAt(block, inode[i], x - 1)
  BY <1>6, Zenon
<1>. QED
  BY <1>2, <1>8, <1>9

\* The n elements of a sequence after the first p.
LEMMA PieceOf ==
    ASSUME NEW S, NEW c \in Seq(S), NEW p \in Nat, NEW n \in Nat, p + n <= Len(c),
           NEW got \in Seq(S), Len(got) = n, \A x \in 1 .. n : got[x] = c[p + x]
    PROVE  got = SubSeq(c, p + 1, p + n)
<1>1. SubSeq(c, p + 1, p + n) = [x \in 1 .. ((p + n) - (p + 1) + 1) |-> c[p + 1 + x - 1]]
  OBVIOUS
<1>2. (p + n) - (p + 1) + 1 = n
  OBVIOUS
<1>3. ASSUME NEW x \in 1 .. n
      PROVE  c[p + 1 + x - 1] = got[x]
  <2>1. p + 1 + x - 1 = p + x
    OBVIOUS
  <2>2. got[x] = c[p + x]
    OBVIOUS
  <2>. QED
    BY <2>1, <2>2, Zenon
<1>4. got = [x \in 1 .. n |-> got[x]]
  OBVIOUS
<1>5. [x \in 1 .. n |-> got[x]] = [x \in 1 .. n |-> c[p + 1 + x - 1]]
  BY <1>3, Zenon
<1>6. SubSeq(c, p + 1, p + n) = [x \in 1 .. n |-> c[p + 1 + x - 1]]
  BY <1>1, <1>2, Zenon
<1>. QED
  BY <1>4, <1>5, <1>6, Zenon

\* The bytes read are those found from the record.
LEMMA InvReadBack == TableInv => ReadBack
<1>. SUFFICES ASSUME TableInv, ~torn, NEW f \in OpenFds, NEW nbyte \in Counts
              PROVE  ReadLoop(f, ReadCount(f, nbyte)).got
                       = SubSeq(Contents(fd[f].inodeNum), getFileSize(fd[f]) + 1,
                                Min({getFileSize(fd[f]) + nbyte, Len(Contents(fd[f].inodeNum))}))
  BY Zenon DEF ReadBack
<1>0. PICK p, c : p = getFileSize(fd[f]) /\ c = Contents(fd[f].inodeNum)
  OBVIOUS
<1>1. PICK i, n, t, s, got : /\ i = fd[f].inodeNum /\ n = ReadCount(f, nbyte)
                             /\ t = ReadLoop(f, n) /\ s = inode[i].fileSize /\ got = t.got
  OBVIOUS
<1>2. InTable(fd[f]) /\ FilesInv /\ nbyte \in Nat
  BY FileIOAssumption DEF TableInv
<1>3. i \in File /\ p \in Nat
  BY <1>0, <1>1, <1>2, OnFile
<1>4. /\ n \in Nat /\ n = (IF p + nbyte <= s THEN nbyte ELSE s - p)
      /\ p + n <= s
      /\ Reading(t, fbm, block, inode[i], i, p, n) /\ t.done = n
  BY <1>0, <1>1, <1>2, ReadMoves
<1>5. /\ s \in Nat /\ c \in Seq(Byte \cup {Stale}) /\ Len(c) = s
      /\ \A x \in 1 .. s : c[x] = ByteAt(block, inode[i], x - 1)
  BY <1>0, <1>1, <1>2, <1>3, ContentsAre
<1>6. /\ got \in Seq(Byte \cup {Stale}) /\ Len(got) = n
      /\ \A x \in 1 .. n : got[x] = ByteAt(block, inode[i], p + (x - 1))
  BY <1>1, <1>4 DEF Reading, Calls
<1>7. Min({p + nbyte, Len(c)}) = p + n
  <2>1. p + nbyte \in Int /\ s \in Int
    BY <1>2, <1>3, <1>5
  <2>2. Min({p + nbyte, s}) = IF p + nbyte <= s THEN p + nbyte ELSE s
    BY <2>1, MinTwo
  <2>. QED
    BY <1>2, <1>3, <1>4, <1>5, <2>2
<1>8. ASSUME NEW x \in 1 .. n
      PROVE  got[x] = c[p + x]
  <2>1. p + x \in 1 .. s /\ (p + x) - 1 = p + (x - 1)
    <3>1. p \in Nat /\ n \in Nat /\ s \in Nat /\ p + n <= s
      BY <1>3, <1>4, <1>5
    <3>. QED
      BY <3>1
  <2>2. c[p + x] = ByteAt(block, inode[i], (p + x) - 1)
    BY <1>5, <2>1
  <2>. QED
    BY <1>6, <2>1, <2>2
<1>9. got = SubSeq(c, p + 1, p + n)
  <2>1. p \in Nat /\ n \in Nat /\ p + n <= Len(c)
    BY <1>3, <1>4, <1>5
  <2>2. /\ c \in Seq(Byte \cup {Stale}) /\ got \in Seq(Byte \cup {Stale}) /\ Len(got) = n
        /\ \A x \in 1 .. n : got[x] = c[p + x]
    BY <1>5, <1>6, <1>8
  <2>. QED
    BY <2>1, <2>2, PieceOf
<1>. QED
  BY <1>0, <1>1, <1>7, <1>9, Zenon

\* When no client seeks into the gap, a read returns the bytes of the file from
\* the position on, up to its end (F17FS.c:1026-1092).
THEOREM ReadsBack == ASSUME NoSeekIntoGap PROVE WholeSpec => []ReadBack
BY FilesInTables, InvReadBack, PTL
=============================================================================
