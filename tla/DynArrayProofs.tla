--------------------------- MODULE DynArrayProofs ---------------------------
(***************************************************************************)
(* Theorems about DynArray, for every set of objects and every largest     *)
(* capacity.                                                               *)
(***************************************************************************)
EXTENDS DynArray, SequenceTheorems, TLAPS

Scan == INSTANCE BitmapProofs

\* Min is the one of the scans of a bitmap.
LEMMA MinProperties ==
    ASSUME NEW S \in SUBSET Nat, S # {}
    PROVE  Min(S) \in S /\ \A y \in S : Min(S) <= y
BY Scan!MinProperties DEF Scan!Min, Min

-----------------------------------------------------------------------------
(* Capacities *)

\* The doublings of the smallest capacity, up to the n-th.
AreDoublings(f, n) == f = [k \in 0 .. n |-> IF k = 0 THEN MinCapacity ELSE 2 * f[k - 1]]

\* There are as many doublings as one likes.
LEMMA DoublingsExist ==
    ASSUME NEW N \in Nat
    PROVE  \E f : AreDoublings(f, N)
<1>. DEFINE S == {n \in 0 .. N : ~ \E f : AreDoublings(f, n)}
<1>. SUFFICES ASSUME S # {} PROVE FALSE
  OBVIOUS
<1>1. S \in SUBSET Nat
  OBVIOUS
<1>2. PICK m \in S : \A y \in S : m <= y
  BY <1>1, MinProperties
<1>3. m # 0
  <2>1. AreDoublings([k \in 0 .. 0 |-> MinCapacity], 0)
    BY DEF AreDoublings
  <2>. QED
    BY <2>1
<1>4. PICK f : AreDoublings(f, m - 1)
  BY <1>2, <1>3
<1>. DEFINE g == [k \in 0 .. m |-> IF k = m THEN 2 * f[m - 1] ELSE f[k]]
<1>5. \A k \in 0 .. (m - 1) : f[k] = IF k = 0 THEN MinCapacity ELSE 2 * f[k - 1]
  BY <1>4 DEF AreDoublings
<1>6. \A k \in 0 .. m : g[k] = IF k = 0 THEN MinCapacity ELSE 2 * g[k - 1]
  <2>. SUFFICES ASSUME NEW k \in 0 .. m
                PROVE  g[k] = IF k = 0 THEN MinCapacity ELSE 2 * g[k - 1]
    OBVIOUS
  <2>1. CASE k = 0
    BY <2>1, <1>1, <1>2, <1>3, <1>5
  <2>2. CASE k # 0
    <3>1. g[k - 1] = f[k - 1]
      BY <2>2, <1>1, <1>2
    <3>2. g[k] = 2 * f[k - 1]
      BY <2>2, <1>1, <1>2, <1>5
    <3>. QED
      BY <2>2, <3>1, <3>2
  <2>. QED
    BY <2>1, <2>2
<1>7. AreDoublings(g, m)
  BY <1>6 DEF AreDoublings
<1>. QED
  BY <1>2, <1>7

\* Each doubling is twice the one before.
LEMMA DoubledIs ==
    \A k \in 0 .. MaxCapacity : Doubled[k] = IF k = 0 THEN MinCapacity ELSE 2 * Doubled[k - 1]
<1>1. \E f : f = [k \in 0 .. MaxCapacity |-> IF k = 0 THEN MinCapacity ELSE 2 * f[k - 1]]
  <2>1. \E f : AreDoublings(f, MaxCapacity)
    BY CapacityAssumption, DoublingsExist
  <2>. QED
    BY <2>1, Zenon DEF AreDoublings
<1>2. Doubled = [k \in 0 .. MaxCapacity |-> IF k = 0 THEN MinCapacity ELSE 2 * Doubled[k - 1]]
  BY <1>1 DEF Doubled
<1>. HIDE DEF Doubled
<1>. QED
  BY <1>2

\* They are positive, and grow.
LEMMA DoubledGrows ==
    \A k \in 0 .. MaxCapacity :
        /\ Doubled[k] \in Nat \ {0}
        /\ \A j \in 0 .. MaxCapacity : j < k => 2 * Doubled[j] <= Doubled[k]
<1>. DEFINE Good(k) == /\ Doubled[k] \in Nat \ {0}
                       /\ \A j \in 0 .. MaxCapacity : j < k => 2 * Doubled[j] <= Doubled[k]
            S == {k \in 0 .. MaxCapacity : ~Good(k)}
<1>. SUFFICES ASSUME S # {} PROVE FALSE
  OBVIOUS
<1>0. MaxCapacity \in Nat /\ MinCapacity \in Nat \ {0}
  BY CapacityAssumption
<1>1. S \in SUBSET Nat
  BY <1>0
<1>2. PICK m \in S : \A y \in S : m <= y
  BY <1>1, MinProperties
<1>3. m \in 0 .. MaxCapacity /\ ~Good(m)
  BY <1>2
<1>4. m # 0
  <2>. SUFFICES ASSUME m = 0 PROVE FALSE
    OBVIOUS
  <2>1. Doubled[0] = MinCapacity
    BY <1>0, DoubledIs
  <2>. QED
    BY <1>0, <1>3, <2>1
<1>5. m - 1 \in 0 .. MaxCapacity /\ Good(m - 1)
  BY <1>0, <1>2, <1>3, <1>4
<1>6. Doubled[m] = 2 * Doubled[m - 1]
  BY <1>3, <1>4, DoubledIs
<1>7. \A j \in 0 .. MaxCapacity : j < m => 2 * Doubled[j] <= Doubled[m]
  <2>. SUFFICES ASSUME NEW j \in 0 .. MaxCapacity, j < m PROVE 2 * Doubled[j] <= Doubled[m]
    OBVIOUS
  <2>1. CASE j = m - 1
    BY <1>5, <1>6, <2>1
  <2>2. CASE j < m - 1
    <3>1. 2 * Doubled[j] <= Doubled[m - 1]
      BY <1>5, <2>2
    <3>2. j \notin S
      BY <1>2, <2>2, <1>0
    <3>3. Doubled[j] \in Nat
      BY <3>2
    <3>. QED
      BY <1>5, <1>6, <3>1, <3>3
  <2>. QED
    BY <1>0, <1>3, <2>1, <2>2
<1>. QED
  BY <1>3, <1>5, <1>6, <1>7

\* A capacity below the largest one can be doubled and stays within it.
LEMMA CapacityFacts ==
    /\ Capacities \subseteq Nat \ {0}
    /\ MinCapacity \in Capacities
    /\ \A c \in Capacities : MinCapacity <= c
    /\ \A c, d \in Capacities : c < d => 2 * c <= d
<1>0. MaxCapacity \in Nat /\ MinCapacity \in Nat \ {0}
  BY CapacityAssumption
<1>1. Capacities \subseteq Nat \ {0}
  BY DoubledGrows DEF Capacities
<1>2. Doubled[0] = MinCapacity /\ 0 \in 0 .. MaxCapacity
  BY <1>0, DoubledIs
<1>3. ASSUME NEW c \in Capacities PROVE MinCapacity <= c
  <2>1. PICK k \in 0 .. MaxCapacity : c = Doubled[k]
    BY DEF Capacities
  <2>2. k = 0 \/ 0 < k
    OBVIOUS
  <2>3. 0 < k => 2 * MinCapacity <= c
    BY <1>2, <2>1, DoubledGrows
  <2>. QED
    BY <1>0, <1>1, <1>2, <2>1, <2>2, <2>3
<1>4. ASSUME NEW c \in Capacities, NEW d \in Capacities, c < d PROVE 2 * c <= d
  <2>1. PICK j \in 0 .. MaxCapacity, k \in 0 .. MaxCapacity : c = Doubled[j] /\ d = Doubled[k]
    BY DEF Capacities
  <2>2. CASE j < k
    BY <2>1, <2>2, DoubledGrows
  <2>3. CASE k < j
    <3>1. 2 * d <= c
      BY <2>1, <2>3, DoubledGrows
    <3>. QED
      BY <1>1, <1>4, <3>1
  <2>4. CASE j = k
    BY <1>1, <1>4, <2>1, <2>4
  <2>. QED
    BY <2>2, <2>3, <2>4
<1>. QED
  BY <1>1, <1>2, <1>3, <1>4 DEF Capacities

\* Doubling until n fits ends at a capacity, not beyond the largest one.
LEMMA DoubledToFits ==
    ASSUME NEW c \in Nat, NEW n \in Nat, c <= MaxCapacity, n <= MaxCapacity
    PROVE  /\ DoubledTo(c, n) \in Capacities
           /\ DoubledTo(c, n) \in Nat
           /\ DoubledTo(c, n) >= n
           /\ DoubledTo(c, n) >= c
           /\ DoubledTo(c, n) <= MaxCapacity
<1>. DEFINE S == {x \in Capacities : x >= c /\ x >= n}
<1>1. MaxCapacity \in S /\ S \in SUBSET Nat
  BY CapacityAssumption, CapacityFacts
<1>2. Min(S) \in S /\ \A y \in S : Min(S) <= y
  BY <1>1, MinProperties
<1>. QED
  BY <1>1, <1>2 DEF DoubledTo

-----------------------------------------------------------------------------
(* The moves in the buffer *)

\* The size and the capacity are numbers within the largest capacity.
LEMMA SizeFacts ==
    ASSUME TypeOK
    PROVE  /\ MaxCapacity \in Nat /\ MaxCapacity \in Capacities
           /\ capacity \in Nat /\ size \in Nat
           /\ size <= capacity /\ capacity <= MaxCapacity
           /\ live => capacity \in Capacities
<1>1. MaxCapacity \in Nat /\ MaxCapacity \in Capacities
  BY CapacityAssumption
<1>2. /\ live \in BOOLEAN /\ size \in 0 .. capacity /\ capacity <= MaxCapacity
      /\ (live => capacity \in Capacities) /\ (~live => capacity = 0)
  BY DEF TypeOK
<1>3. capacity \in Capacities \/ capacity = 0
  BY <1>2, Zenon
<1>4. capacity \in Nat
  <2>1. \A c \in Capacities : c \in Nat
    BY CapacityFacts
  <2>. QED
    BY <1>3, <2>1
<1>. QED
  BY <1>1, <1>2, <1>4

\* One element enters at position p: the elements before it stay, those from p
\* on move up by one, and the buffer is large enough for it.
LEMMA InsertEffect ==
    ASSUME TypeOK, NEW p \in Nat, NEW o \in Object, dyn_shift_insert(p, <<o>>)
    PROVE  /\ TypeOK'
           /\ live /\ p <= size
           /\ size' = size + 1
           /\ \A i \in 0 .. size :
                cells'[i] = IF i < p THEN cells[i] ELSE IF i = p THEN o ELSE cells[i - 1]
           /\ out' = Nothing
           /\ destroyed' = <<>>
           /\ live' = live
           /\ destructor' = destructor
<1>. USE CapacityAssumption
<1>1. PICK cap : cap = Increased(1)
  OBVIOUS
<1>2. Len(<<o>>) = 1 /\ <<o>>[1] = o /\ DOMAIN <<o>> = 1 .. 1
  OBVIOUS
<1>3. /\ live /\ p <= size
      /\ MayIncrease(1)
      /\ capacity' = cap
      /\ cells' = memcpy(memmove(Buffer(cells, cap), p + 1, p, size - p), p, <<o>>)
      /\ size' = size + 1
      /\ out' = Nothing /\ destroyed' = <<>>
      /\ live' = live /\ destructor' = destructor
  BY <1>1, <1>2 DEF dyn_shift_insert
<1>4. /\ capacity \in Capacities /\ capacity \in Nat /\ size \in Nat /\ size <= capacity
      /\ capacity <= MaxCapacity /\ MaxCapacity \in Capacities /\ MaxCapacity \in Nat
  BY <1>3, SizeFacts
<1>5. cap \in Capacities /\ cap \in Nat /\ cap >= capacity /\ cap >= size + 1 /\ cap <= MaxCapacity
  <2>1. CASE capacity >= size + 1
    BY <1>1, <1>4, <2>1 DEF Increased
  <2>2. CASE ~(capacity >= size + 1)
    <3>1. size + 1 <= MaxCapacity /\ capacity < MaxCapacity
      BY <1>3, <1>4, <2>2 DEF MayIncrease
    <3>2. 2 * capacity <= MaxCapacity
      BY <1>4, <3>1, CapacityFacts
    <3>3. cap = DoubledTo(2 * capacity, size + 1)
      BY <1>1, <2>2 DEF Increased
    <3>4. PICK c \in Nat, n \in Nat : c = 2 * capacity /\ n = size + 1
      BY <1>4
    <3>5. /\ DoubledTo(c, n) \in Capacities /\ DoubledTo(c, n) \in Nat /\ DoubledTo(c, n) >= n
          /\ DoubledTo(c, n) >= c /\ DoubledTo(c, n) <= MaxCapacity
      BY <3>1, <3>2, <3>4, DoubledToFits
    <3>. QED
      BY <1>4, <3>3, <3>4, <3>5
  <2>. QED
    BY <2>1, <2>2
<1>6. PICK b : b = Buffer(cells, cap)
  OBVIOUS
<1>7. /\ b \in [0 .. (cap - 1) -> Object \cup {Nothing}]
      /\ \A i \in 0 .. (capacity - 1) : b[i] = cells[i]
  BY <1>4, <1>5, <1>6 DEF Buffer, TypeOK
<1>8. PICK m : m = memmove(b, p + 1, p, size - p)
  OBVIOUS
<1>9. /\ DOMAIN m = 0 .. (cap - 1)
      /\ \A i \in 0 .. (cap - 1) : m[i] = IF i \in p + 1 .. size THEN b[i - 1] ELSE b[i]
  BY <1>3, <1>4, <1>5, <1>7, <1>8 DEF memmove
<1>10. cells' = [i \in 0 .. (cap - 1) |->
                    IF i = p THEN o ELSE IF i \in p + 1 .. size THEN b[i - 1] ELSE b[i]]
  BY <1>2, <1>3, <1>5, <1>6, <1>8, <1>9 DEF memcpy
<1>11. \A i \in 0 .. size :
          cells'[i] = IF i < p THEN cells[i] ELSE IF i = p THEN o ELSE cells[i - 1]
  BY <1>3, <1>4, <1>5, <1>7, <1>10
<1>12. TypeOK'
  <2>1. cells' \in [0 .. (cap - 1) -> Object \cup {Nothing}]
    BY <1>3, <1>4, <1>5, <1>7, <1>10
  <2>2. \A i \in 0 .. (size' - 1) : cells'[i] \in Object
    BY <1>3, <1>4, <1>11 DEF TypeOK
  <2>. QED
    BY <1>3, <1>4, <1>5, <2>1, <2>2, SMTT(30) DEF TypeOK
<1>. QED
  BY <1>3, <1>11, <1>12

\* Elements leave from position p on: those after them move down.
LEMMA RemoveEffect ==
    ASSUME TypeOK, NEW p \in Nat, NEW n \in Nat, Removed(p, n)
    PROVE  /\ TypeOK'
           /\ live /\ size > 0 /\ p + n <= size
           /\ size' = size - n
           /\ \A i \in 0 .. (size - n - 1) :
                cells'[i] = IF i < p THEN cells[i] ELSE cells[i + n]
           /\ live' = live
           /\ destructor' = destructor
<1>1. /\ live /\ size > 0 /\ p + n <= size
      /\ cells' = memmove(cells, p, p + n, size - (p + n))
      /\ size' = size - n
      /\ live' = live /\ capacity' = capacity /\ destructor' = destructor
  BY DEF Removed
<1>2. size \in Nat /\ capacity \in Nat /\ size <= capacity /\ capacity \in Capacities
  BY <1>1, SizeFacts
<1>3. cells' = [i \in 0 .. (capacity - 1) |->
                   IF i \in p .. (size - n - 1) THEN cells[i + n] ELSE cells[i]]
  <2>1. DOMAIN cells = 0 .. (capacity - 1)
    BY DEF TypeOK
  <2>2. p .. (p + (size - (p + n)) - 1) = p .. (size - n - 1)
    BY <1>1, <1>2
  <2>3. \A i \in 0 .. (capacity - 1) : (p + n) + (i - p) = i + n
    BY <1>2
  <2>. QED
    BY <1>1, <2>1, <2>2, <2>3 DEF memmove
<1>4. \A i \in 0 .. (size - n - 1) : cells'[i] = IF i < p THEN cells[i] ELSE cells[i + n]
  BY <1>1, <1>2, <1>3
<1>5. TypeOK'
  <2>1. cells' \in [0 .. (capacity - 1) -> Object \cup {Nothing}]
    BY <1>1, <1>2, <1>3 DEF TypeOK
  <2>2. \A i \in 0 .. (size' - 1) : cells'[i] \in Object
    BY <1>1, <1>2, <1>4 DEF TypeOK
  <2>. QED
    BY <1>1, <1>2, <2>1, <2>2 DEF TypeOK
<1>. QED
  BY <1>1, <1>4, <1>5

\* A new array holds the objects given, in a buffer large enough for them.
LEMMA CreateEffect ==
    ASSUME NEW n \in 0 .. MaxCapacity, NEW objects \in Seq(Object), Len(objects) <= n,
           Created(n, objects)
    PROVE  /\ TypeOK'
           /\ ~live /\ live'
           /\ size' = Len(objects)
           /\ \A i \in 0 .. (size' - 1) : cells'[i] = objects[i + 1]
           /\ destructor' \in BOOLEAN
           /\ out' = Nothing
           /\ destroyed' = <<>>
<1>1. PICK cap : cap = DoubledTo(MinCapacity, n)
  OBVIOUS
<1>2. /\ ~live /\ live' = TRUE
      /\ capacity' = cap
      /\ size' = Len(objects)
      /\ cells' = memcpy(Buffer(<<>>, cap), 0, objects)
      /\ destructor' \in BOOLEAN
      /\ out' = Nothing /\ destroyed' = <<>>
  BY <1>1 DEF Created
<1>3. MinCapacity \in Nat /\ MinCapacity <= MaxCapacity /\ n \in Nat /\ n <= MaxCapacity
  BY CapacityAssumption, CapacityFacts
<1>4. cap \in Capacities /\ cap \in Nat /\ cap >= n /\ cap <= MaxCapacity
  BY <1>1, <1>3, DoubledToFits
<1>5. PICK b : b = Buffer(<<>>, cap)
  OBVIOUS
<1>6. b = [i \in 0 .. (cap - 1) |-> Nothing]
  BY <1>4, <1>5 DEF Buffer
<1>7. Len(objects) \in Nat /\ DOMAIN objects = 1 .. Len(objects)
  OBVIOUS
<1>8. cells' = [i \in 0 .. (cap - 1) |-> IF i < Len(objects) THEN objects[i + 1] ELSE Nothing]
  <2>1. \A i \in 0 .. (cap - 1) : i - 0 + 1 \in DOMAIN objects <=> i < Len(objects)
    BY <1>4, <1>7
  <2>2. \A i \in 0 .. (cap - 1) : i - 0 + 1 = i + 1
    BY <1>4
  <2>. QED
    BY <1>2, <1>5, <1>6, <2>1, <2>2 DEF memcpy
<1>9. \A i \in 0 .. (size' - 1) : cells'[i] = objects[i + 1] /\ objects[i + 1] \in Object
  BY <1>2, <1>3, <1>4, <1>7, <1>8
<1>10. cells' \in [0 .. (cap - 1) -> Object \cup {Nothing}]
  BY <1>4, <1>7, <1>8
<1>11. TypeOK'
  BY <1>2, <1>3, <1>4, <1>7, <1>9, <1>10 DEF TypeOK
<1>. QED
  BY <1>2, <1>9, <1>11

\* The place insert_sorted finds is within the array; what stands before it
\* ranks below the object, and what stands there does not.
LEMMA OrderedPositionFacts ==
    ASSUME TypeOK, NEW o \in Object
    PROVE  /\ OrderedPosition(o) \in 0 .. size
           /\ \A i \in 0 .. (size - 1) : i < OrderedPosition(o) => ~(Rank[o] <= Rank[cells[i]])
           /\ OrderedPosition(o) < size => Rank[o] <= Rank[cells[OrderedPosition(o)]]
<1>. DEFINE S == {i \in 0 .. (size - 1) : Rank[o] <= Rank[cells[i]]} \cup {size}
<1>1. size \in Nat
  BY SizeFacts
<1>2. S \in SUBSET Nat /\ S # {}
  BY <1>1
<1>3. Min(S) \in S /\ \A y \in S : Min(S) <= y
  <2>. HIDE DEF S
  <2>. QED
    BY <1>2, MinProperties
<1>4. PICK m : m = Min(S) /\ m = OrderedPosition(o)
  BY DEF OrderedPosition
<1>5. m \in S /\ \A y \in S : m <= y
  BY <1>3, <1>4
<1>6. /\ m \in 0 .. size
      /\ \A i \in 0 .. (size - 1) : i < m => ~(Rank[o] <= Rank[cells[i]])
      /\ m < size => Rank[o] <= Rank[cells[m]]
  BY <1>1, <1>5
<1>. QED
  BY <1>4, <1>6

-----------------------------------------------------------------------------
(* The type invariant *)

\* Sorting and for_each change the elements in their cells only.
LEMMA InPlaceKeepsTypes ==
    ASSUME TypeOK, dyn_array_sort \/ dyn_array_for_each
    PROVE  TypeOK'
<1>1. UNCHANGED <<live, capacity, size, destructor>>
  BY DEF dyn_array_sort, dyn_array_for_each
<1>2. /\ capacity \in Nat /\ size \in Nat /\ size <= capacity
      /\ cells \in [0 .. (capacity - 1) -> Object \cup {Nothing}]
      /\ \A i \in 0 .. (size - 1) : cells[i] \in Object
  BY SizeFacts DEF TypeOK
<1>3. PICK new : /\ cells' = [i \in DOMAIN cells |-> IF i < size THEN new[i] ELSE cells[i]]
                 /\ \A i \in 0 .. (size - 1) : new[i] \in Object
  <2>1. CASE dyn_array_sort
    <3>1. PICK p \in Bijection(0 .. (size - 1), 0 .. (size - 1)) :
             cells' = [i \in DOMAIN cells |-> IF i < size THEN cells[p[i]] ELSE cells[i]]
      BY <2>1 DEF dyn_array_sort
    <3>2. \A i \in 0 .. (size - 1) : p[i] \in 0 .. (size - 1)
      BY DEF Bijection, Injection
    <3>. DEFINE new == [i \in DOMAIN cells |-> cells[p[i]]]
    <3>3. \A i \in 0 .. (size - 1) : new[i] \in Object
      BY <1>2, <3>2
    <3>4. cells' = [i \in DOMAIN cells |-> IF i < size THEN new[i] ELSE cells[i]]
      BY <3>1
    <3>. QED
      BY <3>3, <3>4
  <2>2. CASE dyn_array_for_each
    <3>. DEFINE new == [i \in DOMAIN cells |-> Func[cells[i]]]
    <3>1. \A i \in 0 .. (size - 1) : new[i] \in Object
      BY <1>2, ObjectAssumption
    <3>2. cells' = [i \in DOMAIN cells |-> IF i < size THEN new[i] ELSE cells[i]]
      BY <2>2 DEF dyn_array_for_each
    <3>. QED
      BY <3>1, <3>2
  <2>. QED
    BY <2>1, <2>2
<1>4. /\ cells' \in [0 .. (capacity - 1) -> Object \cup {Nothing}]
      /\ \A i \in 0 .. (size - 1) : cells'[i] \in Object
  BY <1>2, <1>3
<1>. QED
  BY <1>1, <1>4 DEF TypeOK

\* A destroyed array is as one never created.
LEMMA DestroyEffect ==
    ASSUME dyn_array_destroy
    PROVE  TypeOK' /\ live' = FALSE /\ size' = 0 /\ destructor' = FALSE
<1>1. /\ live' = FALSE /\ capacity' = 0 /\ size' = 0 /\ cells' = <<>> /\ destructor' = FALSE
  BY DEF dyn_array_destroy
<1>2. <<>> \in [0 .. (0 - 1) -> Object \cup {Nothing}]
  <2>1. 0 .. (0 - 1) = {}
    OBVIOUS
  <2>. QED
    BY <2>1
<1>3. 0 <= MaxCapacity /\ 0 \in 0 .. 0
  BY CapacityAssumption
<1>4. 0 .. (0 - 1) = {}
  OBVIOUS
<1>5. TypeOK'
  <2>1. live' \in BOOLEAN /\ destructor' \in BOOLEAN /\ ~live'
    BY <1>1
  <2>2. size' \in 0 .. capacity' /\ capacity' <= MaxCapacity
    BY <1>1, <1>3
  <2>3. cells' \in [0 .. (capacity' - 1) -> Object \cup {Nothing}]
    BY <1>1, <1>2
  <2>4. \A i \in 0 .. (size' - 1) : cells'[i] \in Object
    BY <1>1, <1>4
  <2>. QED
    BY <1>1, <2>1, <2>2, <2>3, <2>4, Zenon DEF TypeOK
<1>. QED
  BY <1>1, <1>5

\* Every call is one insertion, one removal, one creation, or one of the calls
\* that move nothing in or out.
LEMMA CallsAre ==
    ASSUME TypeOK, Next
    PROVE  \/ \E n \in 0 .. MaxCapacity, objects \in Seq(Object) :
                Len(objects) <= n /\ Created(n, objects)
           \/ \E p \in 0 .. size, o \in Object : dyn_shift_insert(p, <<o>>)
           \/ \E p \in 0 .. (size - 1) : dyn_shift_erase(p, 1) \/ dyn_shift_extract(p)
           \/ dyn_shift_erase(0, size)
           \/ dyn_array_destroy
           \/ dyn_array_sort
           \/ dyn_array_for_each
<1>1. size \in Nat /\ MaxCapacity \in Nat
  BY SizeFacts
<1>2. ASSUME NEW n \in 0 .. MaxCapacity, dyn_array_create(n)
      PROVE  \E objects \in Seq(Object) : Len(objects) <= n /\ Created(n, objects)
  <2>1. <<>> \in Seq(Object) /\ Len(<<>>) <= n
    BY <1>1
  <2>. QED
    BY <1>2, <2>1 DEF dyn_array_create
<1>3. ASSUME NEW n \in 0 .. MaxCapacity, NEW objects \in [1 .. n -> Object],
             dyn_array_import(objects)
      PROVE  objects \in Seq(Object) /\ Len(objects) <= n /\ Created(n, objects)
  <2>1. objects \in Seq(Object) /\ Len(objects) = n
    BY <1>1
  <2>. QED
    BY <1>3, <2>1 DEF dyn_array_import
<1>4. ASSUME NEW o \in Object,
             \/ dyn_array_push_front(o)
             \/ dyn_array_push_back(o)
             \/ dyn_array_insert_sorted(o)
             \/ \E i \in 0 .. size : dyn_array_insert(i, o)
      PROVE  \E p \in 0 .. size : dyn_shift_insert(p, <<o>>)
  BY <1>1, <1>4, OrderedPositionFacts
     DEF dyn_array_push_front, dyn_array_push_back, dyn_array_insert_sorted, dyn_array_insert
<1>5. ASSUME NEW i \in 0 .. size, dyn_array_erase(i) \/ dyn_array_extract(i)
      PROVE  \E p \in 0 .. (size - 1) : dyn_shift_erase(p, 1) \/ dyn_shift_extract(p)
  <2>1. i + 1 <= size
    BY <1>1, <1>5 DEF dyn_array_erase, dyn_array_extract, dyn_shift_erase, Removed
  <2>. QED
    BY <1>1, <1>5, <2>1 DEF dyn_array_erase, dyn_array_extract
<1>6. ASSUME \/ dyn_array_pop_front
             \/ dyn_array_pop_back
             \/ dyn_array_extract_front
             \/ dyn_array_extract_back
      PROVE  \E p \in 0 .. (size - 1) : dyn_shift_erase(p, 1) \/ dyn_shift_extract(p)
  <2>1. size > 0
    BY <1>6 DEF dyn_array_pop_front, dyn_array_pop_back, dyn_array_extract_front,
                dyn_array_extract_back, dyn_shift_erase, dyn_shift_extract, Removed
  <2>2. 0 \in 0 .. (size - 1) /\ size - 1 \in 0 .. (size - 1)
    BY <1>1, <2>1
  <2>. QED
    BY <1>6, <2>2 DEF dyn_array_pop_front, dyn_array_pop_back, dyn_array_extract_front,
                      dyn_array_extract_back
<1>. QED
  BY <1>2, <1>3, <1>4, <1>5, <1>6 DEF Next, dyn_array_clear

\* A call keeps the types.
LEMMA TypeStep ==
    ASSUME TypeOK, [Next]_vars
    PROVE  TypeOK'
<1>1. CASE UNCHANGED vars
  BY <1>1 DEF vars, TypeOK
<1>2. CASE Next
  <2>0. size \in Nat
    BY SizeFacts
  <2>1. ASSUME NEW n \in 0 .. MaxCapacity, NEW objects \in Seq(Object),
               Len(objects) <= n, Created(n, objects)
        PROVE  TypeOK'
    BY <2>1, CreateEffect
  <2>2. ASSUME NEW p \in 0 .. size, NEW o \in Object, dyn_shift_insert(p, <<o>>)
        PROVE  TypeOK'
    <3>1. p \in Nat
      BY <2>0
    <3>. QED
      BY <2>2, <3>1, InsertEffect
  <2>3. ASSUME NEW p \in 0 .. (size - 1), dyn_shift_erase(p, 1) \/ dyn_shift_extract(p)
        PROVE  TypeOK'
    <3>1. p \in Nat /\ Removed(p, 1)
      BY <2>0, <2>3 DEF dyn_shift_erase, dyn_shift_extract
    <3>. QED
      BY <3>1, RemoveEffect
  <2>4. CASE dyn_shift_erase(0, size)
    BY <2>0, <2>4, RemoveEffect DEF dyn_shift_erase
  <2>. QED
    BY <1>2, <2>1, <2>2, <2>3, <2>4, CallsAre, DestroyEffect, InPlaceKeepsTypes
<1>. QED
  BY <1>1, <1>2

\* The elements always lie in the buffer, and the capacity is a doubling of the
\* smallest one, never beyond DYN_MAX_CAPACITY: no call moves or copies a cell
\* outside of the buffer it has.
THEOREM TypeCorrect == Spec => []TypeOK
<1>1. Init => TypeOK
  <2>. SUFFICES ASSUME Init PROVE TypeOK
    OBVIOUS
  <2>1. live = FALSE /\ capacity = 0 /\ size = 0 /\ cells = <<>> /\ destructor = FALSE
    BY DEF Init
  <2>2. 0 .. (0 - 1) = {} /\ 0 <= MaxCapacity /\ 0 \in 0 .. 0
    BY CapacityAssumption
  <2>3. <<>> \in [0 .. (0 - 1) -> Object \cup {Nothing}]
    BY <2>2
  <2>4. live \in BOOLEAN /\ destructor \in BOOLEAN /\ ~live
    BY <2>1
  <2>5. size \in 0 .. capacity /\ capacity <= MaxCapacity
    BY <2>1, <2>2
  <2>6. cells \in [0 .. (capacity - 1) -> Object \cup {Nothing}]
    BY <2>1, <2>3
  <2>7. \A i \in 0 .. (size - 1) : cells[i] \in Object
    BY <2>1, <2>2
  <2>. QED
    BY <2>1, <2>4, <2>5, <2>6, <2>7, Zenon DEF TypeOK
<1>2. TypeOK /\ [Next]_vars => TypeOK'
  BY TypeStep
<1>. QED
  BY <1>1, <1>2, PTL DEF Spec

-----------------------------------------------------------------------------
(* Sequences *)

\* t is s with e inserted as its i-th element.
IsInserted(t, s, i, e) ==
    /\ Len(t) = Len(s) + 1
    /\ \A k \in 1 .. (Len(s) + 1) :
         t[k] = IF k < i THEN s[k] ELSE IF k = i THEN e ELSE s[k - 1]

\* What inserting into a sequence yields.
LEMMA InsertAtIs ==
    ASSUME NEW S, NEW s \in Seq(S), NEW e \in S, NEW i \in 1 .. (Len(s) + 1)
    PROVE  /\ List!InsertAt(s, i, e) \in Seq(S)
           /\ IsInserted(List!InsertAt(s, i, e), s, i, e)
<1>1. PICK n \in Nat : n = Len(s)
  OBVIOUS
<1>2. PICK a : a = SubSeq(s, 1, i - 1)
  OBVIOUS
<1>3. PICK b : b = SubSeq(s, i, Len(s))
  OBVIOUS
<1>4. a \in Seq(S) /\ Len(a) = i - 1 /\ \A k \in 1 .. (i - 1) : a[k] = s[k]
  BY <1>1, <1>2
<1>5. b \in Seq(S) /\ Len(b) = n - i + 1 /\ \A k \in 1 .. (n - i + 1) : b[k] = s[i + k - 1]
  BY <1>1, <1>3
<1>6. PICK c : c = a \o <<e>>
  OBVIOUS
<1>7. c \in Seq(S) /\ Len(c) = i /\ \A k \in 1 .. i : c[k] = IF k < i THEN s[k] ELSE e
  BY <1>1, <1>4, <1>6
<1>8. PICK t : t = c \o b /\ t = List!InsertAt(s, i, e)
  BY <1>2, <1>3, <1>6 DEF List!InsertAt
<1>9. /\ t \in Seq(S) /\ Len(t) = n + 1
      /\ \A k \in 1 .. (n + 1) : t[k] = IF k <= i THEN c[k] ELSE b[k - i]
  <2>0. c \in Seq(S) /\ b \in Seq(S) /\ t = c \o b
    BY <1>5, <1>7, <1>8
  <2>1. /\ t \in Seq(S) /\ Len(t) = Len(c) + Len(b)
        /\ \A k \in 1 .. Len(c) + Len(b) : t[k] = IF k <= Len(c) THEN c[k] ELSE b[k - Len(c)]
    BY <2>0, ConcatProperties, Zenon
  <2>2. Len(c) = i /\ Len(c) + Len(b) = n + 1
    BY <1>1, <1>5, <1>7
  <2>. QED
    BY <2>1, <2>2
<1>10. \A k \in 1 .. (n + 1) : t[k] = IF k < i THEN s[k] ELSE IF k = i THEN e ELSE s[k - 1]
  <2>. SUFFICES ASSUME NEW k \in 1 .. (n + 1)
                PROVE  t[k] = IF k < i THEN s[k] ELSE IF k = i THEN e ELSE s[k - 1]
    OBVIOUS
  <2>1. CASE k <= i
    BY <1>1, <1>7, <1>9, <2>1
  <2>2. CASE k > i
    <3>1. k - i \in 1 .. (n - i + 1) /\ i + (k - i) - 1 = k - 1
      BY <1>1, <2>2
    <3>. QED
      BY <1>1, <1>5, <1>9, <2>2, <3>1, SMTT(30)
  <2>. QED
    BY <1>1, <2>1, <2>2
<1>. QED
  BY <1>1, <1>8, <1>9, <1>10 DEF IsInserted

\* What removing from a sequence yields.
LEMMA RemoveAtIs ==
    ASSUME NEW S, NEW s \in Seq(S), NEW i \in 1 .. Len(s)
    PROVE  /\ List!RemoveAt(s, i) \in Seq(S)
           /\ Len(List!RemoveAt(s, i)) = Len(s) - 1
           /\ \A k \in 1 .. (Len(s) - 1) :
                List!RemoveAt(s, i)[k] = IF k < i THEN s[k] ELSE s[k + 1]
<1>1. PICK n \in Nat : n = Len(s)
  OBVIOUS
<1>2. PICK a : a = SubSeq(s, 1, i - 1)
  OBVIOUS
<1>3. PICK b : b = SubSeq(s, i + 1, Len(s))
  OBVIOUS
<1>4. a \in Seq(S) /\ Len(a) = i - 1 /\ \A k \in 1 .. (i - 1) : a[k] = s[k]
  BY <1>1, <1>2
<1>5. b \in Seq(S) /\ Len(b) = n - i /\ \A k \in 1 .. (n - i) : b[k] = s[i + k]
  BY <1>1, <1>3
<1>6. PICK t : t = a \o b /\ t = List!RemoveAt(s, i)
  BY <1>2, <1>3 DEF List!RemoveAt
<1>7. /\ t \in Seq(S) /\ Len(t) = n - 1
      /\ \A k \in 1 .. (n - 1) : t[k] = IF k < i THEN a[k] ELSE b[k - i + 1]
  <2>0. a \in Seq(S) /\ b \in Seq(S) /\ t = a \o b
    BY <1>4, <1>5, <1>6
  <2>1. /\ t \in Seq(S) /\ Len(t) = Len(a) + Len(b)
        /\ \A k \in 1 .. Len(a) + Len(b) : t[k] = IF k <= Len(a) THEN a[k] ELSE b[k - Len(a)]
    BY <2>0, ConcatProperties, Zenon
  <2>2. Len(a) = i - 1 /\ Len(a) + Len(b) = n - 1
    BY <1>1, <1>4, <1>5
  <2>3. \A k \in 1 .. (n - 1) : (k <= i - 1 <=> k < i) /\ k - (i - 1) = k - i + 1
    BY <1>1
  <2>. QED
    BY <2>1, <2>2, <2>3
<1>8. \A k \in 1 .. (n - 1) : t[k] = IF k < i THEN s[k] ELSE s[k + 1]
  <2>. SUFFICES ASSUME NEW k \in 1 .. (n - 1)
                PROVE  t[k] = IF k < i THEN s[k] ELSE s[k + 1]
    OBVIOUS
  <2>1. CASE k < i
    BY <1>1, <1>4, <1>7, <2>1
  <2>2. CASE ~(k < i)
    <3>1. k - i + 1 \in 1 .. (n - i) /\ i + (k - i + 1) = k + 1
      BY <1>1, <2>2
    <3>. QED
      BY <1>1, <1>5, <1>7, <2>2, <3>1
  <2>. QED
    BY <2>1, <2>2
<1>. QED
  BY <1>1, <1>6, <1>7, <1>8

\* The list that the first n cells of a buffer hold.
ListOf(c, n) == [i \in 1 .. n |-> c[i - 1]]

\* It is a sequence of objects when they hold objects.
LEMMA ListOfCells ==
    ASSUME NEW c, NEW n \in Nat, \A i \in 0 .. (n - 1) : c[i] \in Object
    PROVE  /\ ListOf(c, n) \in Seq(Object)
           /\ Len(ListOf(c, n)) = n
           /\ DOMAIN ListOf(c, n) = 1 .. n
           /\ \A k \in 1 .. n : ListOf(c, n)[k] = c[k - 1] /\ ListOf(c, n)[k] \in Object
<1>1. \A k \in 1 .. n : k - 1 \in 0 .. (n - 1)
  OBVIOUS
<1>. QED
  BY <1>1 DEF ListOf

\* The items are the list of the cells.
LEMMA ItemsAre == TypeOK => Items = ListOf(cells, size)
<1>. SUFFICES ASSUME TypeOK PROVE Items = ListOf(cells, size)
  OBVIOUS
<1>1. size \in Nat
  BY SizeFacts
<1>2. \A i \in 1 .. size : 0 + i - 1 = i - 1
  BY <1>1
<1>. QED
  BY <1>2 DEF Items, Elements, ListOf

\* A state's items: as many as the size says, each in its cell.
ItemsSound ==
    TypeOK => /\ Items = ListOf(cells, size)
              /\ Items \in Seq(Object)
              /\ Len(Items) = size /\ size \in Nat
              /\ DOMAIN Items = 1 .. size
              /\ \A k \in 1 .. size : Items[k] = cells[k - 1] /\ Items[k] \in Object

\* They are in every state of the right types.
LEMMA ItemsAreSound == ItemsSound
<1>. SUFFICES ASSUME TypeOK
              PROVE  /\ Items \in Seq(Object)
                     /\ Len(Items) = size /\ size \in Nat
                     /\ DOMAIN Items = 1 .. size
                     /\ \A k \in 1 .. size : Items[k] = cells[k - 1] /\ Items[k] \in Object
  BY ItemsAre DEF ItemsSound
<1>1. size \in Nat /\ \A i \in 0 .. (size - 1) : cells[i] \in Object
  BY SizeFacts DEF TypeOK
<1>. QED
  BY <1>1, ItemsAre, ListOfCells

\* And in the next one.
LEMMA ItemsAreSoundNext == ItemsSound'
BY ItemsAreSound, PTL

-----------------------------------------------------------------------------
(* Each call does one thing to the list *)

\* An insertion inserts its object, after the p elements before it.
LEMMA InsertStep ==
    ASSUME TypeOK, NEW p \in Nat, NEW o \in Object, dyn_shift_insert(p, <<o>>)
    PROVE  /\ p + 1 \in 1 .. (Len(Items) + 1)
           /\ List!Insert(p + 1, o)
<1>1. /\ TypeOK' /\ live /\ p <= size /\ size' = size + 1
      /\ \A i \in 0 .. size :
           cells'[i] = IF i < p THEN cells[i] ELSE IF i = p THEN o ELSE cells[i - 1]
      /\ out' = Nothing /\ destroyed' = <<>> /\ live' = live /\ destructor' = destructor
  BY InsertEffect
<1>2. PICK s : s = Items
  OBVIOUS
<1>3. /\ s \in Seq(Object) /\ Len(s) = size /\ size \in Nat
      /\ \A k \in 1 .. size : s[k] = cells[k - 1]
  BY <1>2, ItemsAreSound DEF ItemsSound
<1>4. /\ Items' \in Seq(Object) /\ Len(Items') = size + 1
      /\ \A k \in 1 .. (size + 1) : Items'[k] = cells'[k - 1]
  BY <1>1, ItemsAreSoundNext DEF ItemsSound
<1>5. PICK t : t = List!InsertAt(s, p + 1, o)
  OBVIOUS
<1>6. /\ t \in Seq(Object) /\ Len(t) = size + 1
      /\ \A k \in 1 .. (size + 1) :
           t[k] = IF k < p + 1 THEN s[k] ELSE IF k = p + 1 THEN o ELSE s[k - 1]
  <2>1. p + 1 \in 1 .. (Len(s) + 1)
    BY <1>1, <1>3
  <2>2. t \in Seq(Object) /\ IsInserted(t, s, p + 1, o)
    BY <1>3, <1>5, <2>1, InsertAtIs, Zenon
  <2>. QED
    BY <1>3, <2>2 DEF IsInserted
<1>7. \A k \in 1 .. (size + 1) : Items'[k] = t[k]
  <2>. SUFFICES ASSUME NEW k \in 1 .. (size + 1) PROVE Items'[k] = t[k]
    OBVIOUS
  <2>1. Items'[k] = IF k - 1 < p THEN cells[k - 1] ELSE IF k - 1 = p THEN o ELSE cells[k - 1 - 1]
    <3>1. k - 1 \in 0 .. size
      BY <1>3
    <3>. QED
      BY <1>1, <1>4, <3>1
  <2>2. CASE k < p + 1
    BY <1>1, <1>3, <1>6, <2>1, <2>2
  <2>3. CASE k = p + 1
    BY <1>1, <1>3, <1>6, <2>1, <2>3
  <2>4. CASE k > p + 1
    <3>1. k - 1 \in 1 .. size
      BY <1>3, <2>4
    <3>2. s[k - 1] = cells[k - 1 - 1]
      BY <1>3, <3>1
    <3>. QED
      BY <1>3, <1>6, <2>1, <2>4, <3>2
  <2>. QED
    BY <1>3, <2>2, <2>3, <2>4
<1>8. Items' = t
  BY <1>4, <1>6, <1>7, SeqEqual
<1>9. p + 1 \in 1 .. (Len(Items) + 1)
  BY <1>1, <1>2, <1>3
<1>. QED
  BY <1>1, <1>2, <1>5, <1>8, <1>9 DEF List!Insert, List!Quiet

\* A removal of one element removes the one after the p before it.
LEMMA RemoveStep ==
    ASSUME TypeOK, NEW p \in Nat, Removed(p, 1)
    PROVE  /\ p + 1 \in DOMAIN Items
           /\ Items' = List!RemoveAt(Items, p + 1)
           /\ Items[p + 1] = cells[p]
           /\ live /\ live' = live /\ destructor' = destructor
<1>1. /\ TypeOK' /\ live /\ p + 1 <= size /\ size' = size - 1
      /\ \A i \in 0 .. (size - 1 - 1) : cells'[i] = IF i < p THEN cells[i] ELSE cells[i + 1]
      /\ live' = live /\ destructor' = destructor
  BY RemoveEffect
<1>2. PICK s : s = Items
  OBVIOUS
<1>3. /\ s \in Seq(Object) /\ Len(s) = size /\ size \in Nat /\ DOMAIN s = 1 .. size
      /\ \A k \in 1 .. size : s[k] = cells[k - 1]
  BY <1>2, ItemsAreSound DEF ItemsSound
<1>4. /\ Items' \in Seq(Object) /\ Len(Items') = size - 1
      /\ \A k \in 1 .. (size - 1) : Items'[k] = cells'[k - 1]
  BY <1>1, ItemsAreSoundNext DEF ItemsSound
<1>5. PICK t : t = List!RemoveAt(s, p + 1)
  OBVIOUS
<1>6. p + 1 \in 1 .. size
  BY <1>1, <1>3
<1>7. /\ t \in Seq(Object) /\ Len(t) = size - 1
      /\ \A k \in 1 .. (size - 1) : t[k] = IF k < p + 1 THEN s[k] ELSE s[k + 1]
  BY <1>3, <1>5, <1>6, RemoveAtIs
<1>8. \A k \in 1 .. (size - 1) : Items'[k] = t[k]
  <2>. SUFFICES ASSUME NEW k \in 1 .. (size - 1) PROVE Items'[k] = t[k]
    OBVIOUS
  <2>1. k - 1 \in 0 .. (size - 1 - 1) /\ k \in 1 .. size /\ k + 1 \in 1 .. size
    BY <1>3
  <2>2. Items'[k] = IF k - 1 < p THEN cells[k - 1] ELSE cells[k - 1 + 1]
    BY <1>1, <1>4, <2>1
  <2>3. s[k] = cells[k - 1] /\ s[k + 1] = cells[k - 1 + 1]
    <3>1. k + 1 - 1 = k - 1 + 1
      BY <2>1
    <3>. QED
      BY <1>3, <2>1, <3>1
  <2>4. k - 1 < p <=> k < p + 1
    BY <2>1
  <2>. QED
    BY <1>7, <2>2, <2>3, <2>4
<1>9. Items' = t
  BY <1>4, <1>7, <1>8, SeqEqual
<1>10. s[p + 1] = cells[p]
  BY <1>3, <1>6
<1>. QED
  BY <1>1, <1>2, <1>3, <1>5, <1>6, <1>9, <1>10

\* What is erased goes to the destructor, if there is one.
LEMMA EraseStep ==
    ASSUME TypeOK, NEW p \in Nat, dyn_shift_erase(p, 1)
    PROVE  p + 1 \in DOMAIN Items /\ List!Erase(p + 1)
<1>1. /\ p + 1 \in DOMAIN Items
      /\ Items' = List!RemoveAt(Items, p + 1)
      /\ Items[p + 1] = cells[p]
      /\ live /\ live' = live /\ destructor' = destructor
  BY RemoveStep DEF dyn_shift_erase
<1>2. destroyed' = (IF destructor THEN Elements(p, 1) ELSE <<>>) /\ out' = Nothing
  BY DEF dyn_shift_erase
<1>3. Elements(p, 1) = <<cells[p]>>
  <2>1. \A i \in 1 .. 1 : p + i - 1 = p
    OBVIOUS
  <2>2. Elements(p, 1) = [i \in 1 .. 1 |-> cells[p]]
    BY <2>1 DEF Elements
  <2>3. 1 .. 1 = {1}
    OBVIOUS
  <2>. QED
    BY <2>2, <2>3
<1>4. destroyed' = List!Destroyed(<<Items[p + 1]>>)
  BY <1>1, <1>2, <1>3 DEF List!Destroyed
<1>. QED
  BY <1>1, <1>2, <1>4 DEF List!Erase

\* What is extracted goes to the caller.
LEMMA ExtractStep ==
    ASSUME TypeOK, NEW p \in Nat, dyn_shift_extract(p)
    PROVE  p + 1 \in DOMAIN Items /\ List!Extract(p + 1)
<1>1. /\ p + 1 \in DOMAIN Items
      /\ Items' = List!RemoveAt(Items, p + 1)
      /\ Items[p + 1] = cells[p]
      /\ live /\ live' = live /\ destructor' = destructor
  BY RemoveStep DEF dyn_shift_extract
<1>2. out' = cells[p] /\ destroyed' = <<>>
  BY DEF dyn_shift_extract
<1>. QED
  BY <1>1, <1>2 DEF List!Extract

\* A clear and a destroy empty the list, and all of it goes to the destructor.
LEMMA ClearStep ==
    ASSUME TypeOK, dyn_shift_erase(0, size) \/ dyn_array_destroy
    PROVE  List!Clear
<1>1. size \in Nat /\ Elements(0, size) = Items
  BY SizeFacts DEF Items
<1>2. /\ TypeOK' /\ live /\ size' = 0 /\ live' \in BOOLEAN
      /\ destructor' = (live' /\ destructor)
  <2>1. CASE dyn_shift_erase(0, size)
    <3>1. /\ TypeOK' /\ live /\ size' = size - size /\ live' = live /\ destructor' = destructor
      BY <1>1, <2>1, RemoveEffect DEF dyn_shift_erase
    <3>2. live \in BOOLEAN /\ destructor \in BOOLEAN
      BY DEF TypeOK
    <3>3. size - size = 0
      BY <1>1
    <3>. QED
      BY <3>1, <3>2, <3>3
  <2>2. CASE dyn_array_destroy
    BY <2>2, DestroyEffect DEF dyn_array_destroy
  <2>. QED
    BY <2>1, <2>2
<1>3. destroyed' = (IF destructor THEN Items ELSE <<>>) /\ out' = Nothing
  BY <1>1 DEF dyn_shift_erase, dyn_array_destroy
<1>4. Items' = <<>>
  BY <1>2, ItemsAreSoundNext, EmptySeq DEF ItemsSound
<1>. QED
  BY <1>2, <1>3, <1>4 DEF List!Clear, List!Destroyed

\* A new array is a new list, empty or with the objects imported.
LEMMA CreateStep ==
    ASSUME NEW n \in 0 .. MaxCapacity, NEW objects \in Seq(Object), Len(objects) <= n,
           Created(n, objects)
    PROVE  List!Create
<1>1. /\ TypeOK' /\ ~live /\ live' /\ destructor' \in BOOLEAN
      /\ out' = Nothing /\ destroyed' = <<>>
  BY CreateEffect
<1>2. Items' \in Seq(Object)
  BY <1>1, ItemsAreSoundNext DEF ItemsSound
<1>3. live' = TRUE
  BY DEF Created
<1>. QED
  BY <1>1, <1>2, <1>3 DEF List!Create, List!Quiet

\* A permutation of the cells is one of the list.
LEMMA ShiftedBijection ==
    ASSUME NEW n \in Nat, NEW p \in Bijection(0 .. (n - 1), 0 .. (n - 1))
    PROVE  [k \in 1 .. n |-> p[k - 1] + 1] \in List!Bijection(1 .. n, 1 .. n)
<1>. DEFINE q == [k \in 1 .. n |-> p[k - 1] + 1]
<1>1. \A i \in 0 .. (n - 1) : p[i] \in 0 .. (n - 1)
  BY DEF Bijection, Injection
<1>2. \A i, j \in 0 .. (n - 1) : p[i] = p[j] => i = j
  BY DEF Bijection, Injection, IsInjective
<1>3. \A j \in 0 .. (n - 1) : \E i \in 0 .. (n - 1) : p[i] = j
  BY DEF Bijection, Surjection
<1>4. \A k \in 1 .. n : k - 1 \in 0 .. (n - 1) /\ q[k] = p[k - 1] + 1 /\ q[k] \in 1 .. n
  BY <1>1
<1>5. ASSUME NEW k \in 1 .. n, NEW m \in 1 .. n, q[k] = q[m] PROVE k = m
  <2>1. p[k - 1] \in Int /\ p[m - 1] \in Int /\ p[k - 1] + 1 = p[m - 1] + 1
    BY <1>1, <1>4, <1>5
  <2>2. k - 1 = m - 1
    BY <1>2, <1>4, <2>1
  <2>. QED
    BY <2>2
<1>6. ASSUME NEW m \in 1 .. n PROVE \E k \in 1 .. n : q[k] = m
  <2>1. m - 1 \in 0 .. (n - 1)
    OBVIOUS
  <2>2. PICK i \in 0 .. (n - 1) : p[i] = m - 1
    BY <1>3, <2>1
  <2>3. i + 1 \in 1 .. n /\ i + 1 - 1 = i /\ m - 1 + 1 = m
    OBVIOUS
  <2>4. q[i + 1] = m
    BY <1>4, <2>2, <2>3
  <2>. QED
    BY <2>3, <2>4
<1>7. q \in [1 .. n -> 1 .. n]
  BY <1>4
<1>. HIDE DEF q
<1>8. List!IsInjective(q)
  BY <1>5, <1>7 DEF List!IsInjective
<1>9. q \in List!Bijection(1 .. n, 1 .. n)
  BY <1>6, <1>7, <1>8 DEF List!Bijection, List!Injection, List!Surjection
<1>. QED
  BY <1>9 DEF q

\* A sort permutes the list, into an order.
LEMMA SortStep ==
    ASSUME TypeOK, dyn_array_sort
    PROVE  List!Sort
<1>1. /\ live /\ live' = live /\ size' = size /\ destructor' = destructor
      /\ out' = Nothing /\ destroyed' = <<>> /\ TypeOK'
  BY InPlaceKeepsTypes DEF dyn_array_sort
<1>2. PICK p \in Bijection(0 .. (size - 1), 0 .. (size - 1)) :
         /\ \A i, j \in 0 .. (size - 1) : i < j => Rank[cells[p[i]]] <= Rank[cells[p[j]]]
         /\ cells' = [i \in DOMAIN cells |-> IF i < size THEN cells[p[i]] ELSE cells[i]]
  BY DEF dyn_array_sort
<1>3. \A i \in 0 .. (size - 1) : p[i] \in 0 .. (size - 1)
  BY DEF Bijection, Injection
<1>4. /\ Items \in Seq(Object) /\ size \in Nat /\ DOMAIN Items = 1 .. size
      /\ \A k \in 1 .. size : Items[k] = cells[k - 1]
  BY ItemsAreSound DEF ItemsSound
<1>5. /\ Items' \in Seq(Object) /\ DOMAIN Items' = 1 .. size
      /\ \A k \in 1 .. size : Items'[k] = cells'[k - 1]
  BY <1>1, ItemsAreSoundNext DEF ItemsSound
<1>6. \A i \in 0 .. (size - 1) : cells'[i] = cells[p[i]]
  <2>1. 0 .. (size - 1) \subseteq DOMAIN cells
    BY SizeFacts DEF TypeOK
  <2>. QED
    BY <1>2, <1>4, <2>1
<1>7. PICK q : q = [k \in 1 .. size |-> p[k - 1] + 1]
  OBVIOUS
<1>8. q \in List!Bijection(DOMAIN Items, DOMAIN Items)
  BY <1>4, <1>7, ShiftedBijection
<1>9. \A k \in 1 .. size : k - 1 \in 0 .. (size - 1)
  BY <1>4
<1>10. \A k \in 1 .. size : Items'[k] = Items[q[k]]
  <2>. SUFFICES ASSUME NEW k \in 1 .. size PROVE Items'[k] = Items[q[k]]
    OBVIOUS
  <2>1. Items'[k] = cells[p[k - 1]]
    BY <1>5, <1>6, <1>9
  <2>2. q[k] = p[k - 1] + 1 /\ p[k - 1] \in 0 .. (size - 1)
    BY <1>3, <1>7, <1>9
  <2>3. q[k] \in 1 .. size /\ q[k] - 1 = p[k - 1]
    BY <1>4, <2>2
  <2>4. Items[q[k]] = cells[p[k - 1]]
    BY <1>4, <2>3
  <2>. QED
    BY <2>1, <2>4
<1>11. Items' = [k \in DOMAIN Items |-> Items[q[k]]]
  <2>1. Items' = [k \in 1 .. size |-> Items'[k]]
    BY <1>5
  <2>. QED
    BY <1>4, <1>10, <2>1
<1>12. List!Sorted(Items')
  <2>1. ASSUME NEW k \in 1 .. size, NEW m \in 1 .. size, k < m
        PROVE  Rank[Items'[k]] <= Rank[Items'[m]]
    <3>1. k - 1 \in 0 .. (size - 1) /\ m - 1 \in 0 .. (size - 1) /\ k - 1 < m - 1
      BY <1>4, <2>1
    <3>2. Rank[cells[p[k - 1]]] <= Rank[cells[p[m - 1]]]
      BY <1>2, <3>1
    <3>. QED
      BY <1>5, <1>6, <3>1, <3>2
  <2>. QED
    BY <1>5, <2>1 DEF List!Sorted
<1>. QED
  BY <1>1, <1>8, <1>11, <1>12 DEF List!Sort, List!Quiet

\* for_each replaces each object by what the function makes of it.
LEMMA ForEachStep ==
    ASSUME TypeOK, dyn_array_for_each
    PROVE  List!ForEach
<1>1. /\ live /\ live' = live /\ size' = size /\ destructor' = destructor
      /\ cells' = [i \in DOMAIN cells |-> IF i < size THEN Func[cells[i]] ELSE cells[i]]
      /\ out' = Nothing /\ destroyed' = <<>> /\ TypeOK'
  BY InPlaceKeepsTypes DEF dyn_array_for_each
<1>2. /\ Items \in Seq(Object) /\ size \in Nat /\ DOMAIN Items = 1 .. size
      /\ \A k \in 1 .. size : Items[k] = cells[k - 1]
  BY ItemsAreSound DEF ItemsSound
<1>3. /\ Items' \in Seq(Object) /\ DOMAIN Items' = 1 .. size
      /\ \A k \in 1 .. size : Items'[k] = cells'[k - 1]
  BY <1>1, ItemsAreSoundNext DEF ItemsSound
<1>4. \A i \in 0 .. (size - 1) : cells'[i] = Func[cells[i]]
  <2>1. 0 .. (size - 1) \subseteq DOMAIN cells
    BY SizeFacts DEF TypeOK
  <2>. QED
    BY <1>1, <1>2, <2>1
<1>5. \A k \in 1 .. size : Items'[k] = Func[Items[k]]
  <2>1. \A k \in 1 .. size : k - 1 \in 0 .. (size - 1)
    BY <1>2
  <2>. QED
    BY <1>2, <1>3, <1>4, <2>1
<1>6. Items' = [k \in DOMAIN Items |-> Func[Items[k]]]
  <2>1. Items' = [k \in 1 .. size |-> Items'[k]]
    BY <1>3
  <2>. QED
    BY <1>2, <1>5, <2>1
<1>. QED
  BY <1>1, <1>6 DEF List!ForEach, List!Quiet

\* insert_sorted keeps an order there is.
LEMMA SortedStep ==
    ASSUME TypeOK, NEW o \in Object, dyn_array_insert_sorted(o), List!Sorted(Items)
    PROVE  List!Sorted(Items)'
<1>1. PICK p : p = OrderedPosition(o)
  OBVIOUS
<1>2. /\ p \in 0 .. size /\ size \in Nat /\ p \in Nat
      /\ \A i \in 0 .. (size - 1) : i < p => ~(Rank[o] <= Rank[cells[i]])
      /\ p < size => Rank[o] <= Rank[cells[p]]
  BY <1>1, SizeFacts, OrderedPositionFacts
<1>3. List!Insert(p + 1, o) /\ p + 1 \in 1 .. (Len(Items) + 1)
  <2>1. dyn_shift_insert(p, <<o>>)
    BY <1>1 DEF dyn_array_insert_sorted
  <2>. QED
    BY <1>2, <2>1, InsertStep
<1>4. PICK s, t : s = Items /\ t = Items'
  OBVIOUS
<1>5. /\ s \in Seq(Object) /\ Len(s) = size /\ DOMAIN s = 1 .. size
      /\ \A k \in 1 .. size : s[k] = cells[k - 1] /\ s[k] \in Object
  BY <1>4, ItemsAreSound DEF ItemsSound
<1>6. t \in Seq(Object) /\ IsInserted(t, s, p + 1, o)
  BY <1>3, <1>4, <1>5, InsertAtIs DEF List!Insert
<1>7. /\ DOMAIN t = 1 .. (size + 1)
      /\ \A k \in 1 .. (size + 1) :
           t[k] = IF k < p + 1 THEN s[k] ELSE IF k = p + 1 THEN o ELSE s[k - 1]
  BY <1>5, <1>6 DEF IsInserted
<1>8. PICK rank : rank = [k \in 1 .. size |-> Rank[s[k]]]
  OBVIOUS
<1>9. \A k \in 1 .. size : rank[k] \in Int /\ rank[k] = Rank[s[k]]
  BY <1>5, <1>8, ObjectAssumption
<1>10. \A i, j \in 1 .. size : i < j => rank[i] <= rank[j]
  BY <1>4, <1>5, <1>9 DEF List!Sorted
<1>11. PICK r \in Int : r = Rank[o]
  BY ObjectAssumption
<1>12. ASSUME NEW k \in 1 .. size, k <= p PROVE rank[k] <= r
  <2>1. k - 1 \in 0 .. (size - 1) /\ k - 1 < p /\ s[k] = cells[k - 1]
    BY <1>2, <1>5, <1>12
  <2>2. ~(r <= rank[k])
    BY <1>2, <1>9, <1>11, <2>1
  <2>. QED
    BY <1>9, <2>2
<1>13. ASSUME NEW k \in 1 .. size, k > p PROVE r <= rank[k]
  <2>1. p + 1 \in 1 .. size /\ p + 1 - 1 = p /\ p < size
    BY <1>2, <1>13
  <2>2. r <= rank[p + 1]
    BY <1>2, <1>5, <1>9, <1>11, <2>1
  <2>3. p + 1 = k \/ p + 1 < k
    BY <1>2, <1>13
  <2>4. rank[p + 1] <= rank[k]
    BY <1>9, <1>10, <2>1, <2>3
  <2>. QED
    BY <1>9, <2>1, <2>2, <2>4
<1>14. \A k \in 1 .. (size + 1) :
          Rank[t[k]] = IF k < p + 1 THEN rank[k] ELSE IF k = p + 1 THEN r ELSE rank[k - 1]
  <2>. SUFFICES ASSUME NEW k \in 1 .. (size + 1)
                PROVE  Rank[t[k]] = IF k < p + 1 THEN rank[k]
                                    ELSE IF k = p + 1 THEN r ELSE rank[k - 1]
    OBVIOUS
  <2>1. CASE k < p + 1
    <3>1. k \in 1 .. size
      BY <1>2, <2>1
    <3>. QED
      BY <1>7, <1>9, <2>1, <3>1
  <2>2. CASE k = p + 1
    <3>1. ~(k < p + 1)
      BY <1>2, <2>2
    <3>. QED
      BY <1>7, <1>11, <2>2, <3>1
  <2>3. CASE k > p + 1
    <3>1. k - 1 \in 1 .. size /\ ~(k < p + 1) /\ k # p + 1
      BY <1>2, <2>3
    <3>. QED
      BY <1>7, <1>9, <3>1
  <2>. QED
    BY <1>2, <2>1, <2>2, <2>3
<1>15. ASSUME NEW i \in 1 .. (size + 1), NEW j \in 1 .. (size + 1), i < j
       PROVE  Rank[t[i]] <= Rank[t[j]]
  <2>1. CASE j < p + 1
    <3>1. i \in 1 .. size /\ j \in 1 .. size /\ i < p + 1
      BY <1>2, <1>15, <2>1
    <3>. QED
      BY <1>10, <1>14, <1>15, <2>1, <3>1
  <2>2. CASE j = p + 1
    <3>1. i \in 1 .. size /\ i <= p /\ i < p + 1 /\ ~(j < p + 1)
      BY <1>2, <1>15, <2>2
    <3>. QED
      BY <1>12, <1>14, <2>2, <3>1
  <2>3. CASE j > p + 1
    <3>1. j - 1 \in 1 .. size /\ j - 1 > p /\ ~(j < p + 1) /\ j # p + 1
      BY <1>2, <2>3
    <3>2. Rank[t[j]] = rank[j - 1]
      BY <1>14, <3>1
    <3>3. CASE i < p + 1
      <4>1. i \in 1 .. size /\ i < j - 1
        BY <1>2, <3>1, <3>3
      <4>. QED
        BY <1>10, <1>14, <3>1, <3>2, <3>3, <4>1
    <3>4. CASE i = p + 1
      <4>1. ~(i < p + 1)
        BY <1>2, <3>4
      <4>. QED
        BY <1>13, <1>14, <3>1, <3>2, <3>4, <4>1
    <3>5. CASE i > p + 1
      <4>1. i - 1 \in 1 .. size /\ i - 1 < j - 1 /\ ~(i < p + 1) /\ i # p + 1
        BY <1>2, <1>15, <3>5
      <4>. QED
        BY <1>10, <1>14, <3>1, <3>2, <4>1
    <3>. QED
      BY <1>2, <3>3, <3>4, <3>5
  <2>. QED
    BY <1>2, <2>1, <2>2, <2>3
<1>16. List!Sorted(t)
  BY <1>7, <1>15 DEF List!Sorted
<1>. QED
  BY <1>4, <1>16

-----------------------------------------------------------------------------
(* The refinement *)

\* Every step of the buffer is one of the list.
LEMMA ListStep ==
    ASSUME TypeOK, [Next]_vars
    PROVE  [List!Next]_(List!vars)
<1>0. size \in Nat /\ DOMAIN Items = 1 .. size /\ Len(Items) = size
  BY ItemsAreSound DEF ItemsSound
<1>1. CASE UNCHANGED vars
  <2>1. Items' = Items
    BY <1>1 DEF vars, Items, Elements
  <2>. QED
    BY <1>1, <2>1 DEF vars, List!vars
<1>2. ASSUME NEW n \in 0 .. MaxCapacity, NEW objects \in Seq(Object),
             Len(objects) <= n, Created(n, objects)
      PROVE  List!Next
  BY <1>2, CreateStep DEF List!Next
<1>3. ASSUME NEW p \in 0 .. size, NEW o \in Object, dyn_shift_insert(p, <<o>>)
      PROVE  List!Next
  <2>1. p \in Nat
    BY <1>0
  <2>2. p + 1 \in 1 .. (Len(Items) + 1) /\ List!Insert(p + 1, o)
    BY <1>3, <2>1, InsertStep
  <2>. QED
    BY <2>2 DEF List!Next
<1>4. ASSUME NEW p \in 0 .. (size - 1), dyn_shift_erase(p, 1) \/ dyn_shift_extract(p)
      PROVE  List!Next
  <2>1. p \in Nat
    BY <1>0
  <2>2. p + 1 \in DOMAIN Items /\ (List!Erase(p + 1) \/ List!Extract(p + 1))
    BY <1>4, <2>1, EraseStep, ExtractStep
  <2>. QED
    BY <2>2 DEF List!Next
<1>5. ASSUME dyn_shift_erase(0, size) \/ dyn_array_destroy \/ dyn_array_sort \/ dyn_array_for_each
      PROVE  List!Next
  BY <1>5, ClearStep, SortStep, ForEachStep DEF List!Next
<1>. QED
  BY <1>1, <1>2, <1>3, <1>4, <1>5, CallsAre

\* Whatever it moves in its buffer, and from one buffer to the next, the array is
\* the list dyn_array.h promises: nothing is lost, doubled or taken from beyond
\* the size, and what leaves goes once, to the caller or to the destructor.
THEOREM ArrayIsList == Spec => ImplementsObjectList
<1>1. Init => List!Init
  <2>. SUFFICES ASSUME Init PROVE List!Init
    OBVIOUS
  <2>1. Items = <<>>
    BY DEF Init, Items, Elements
  <2>. QED
    BY <2>1 DEF Init, List!Init
<1>2. TypeOK /\ [Next]_vars => [List!Next]_(List!vars)
  BY ListStep
<1>3. Spec => []TypeOK
  BY TypeCorrect
<1>. QED
  BY <1>1, <1>2, <1>3, PTL DEF Spec, ImplementsObjectList, List!Spec

\* What a step of each call does to the element it names.
HitsItsElement ==
    \A o \in Object :
      /\ dyn_array_push_front(o) => List!Insert(1, o)
      /\ dyn_array_push_back(o) => List!Insert(Len(Items) + 1, o)
      /\ dyn_array_insert_sorted(o) /\ List!Sorted(Items) => List!Sorted(Items)'
      /\ dyn_array_pop_front => List!Erase(1)
      /\ dyn_array_pop_back => List!Erase(Len(Items))
      /\ dyn_array_extract_front => List!Extract(1)
      /\ dyn_array_extract_back => List!Extract(Len(Items))
      /\ \A i \in 0 .. size :
           /\ dyn_array_insert(i, o) => List!Insert(i + 1, o)
           /\ dyn_array_erase(i) => List!Erase(i + 1)
           /\ dyn_array_extract(i) => List!Extract(i + 1)

\* Each call acts on the element it names, and insert_sorted keeps an order.
THEOREM CallsNameElements == Spec => CallsHitTheirElement
<1>1. ASSUME TypeOK PROVE HitsItsElement
  <2>0. /\ size \in Nat /\ Len(Items) = size
        /\ \A p \in 0 .. size : p \in Nat
        /\ 0 \in Nat /\ 0 + 1 = 1
    BY <1>1, ItemsAreSound DEF ItemsSound
  <2>. SUFFICES ASSUME NEW o \in Object
                PROVE  /\ dyn_array_push_front(o) => List!Insert(1, o)
                       /\ dyn_array_push_back(o) => List!Insert(Len(Items) + 1, o)
                       /\ dyn_array_insert_sorted(o) /\ List!Sorted(Items) => List!Sorted(Items)'
                       /\ dyn_array_pop_front => List!Erase(1)
                       /\ dyn_array_pop_back => List!Erase(Len(Items))
                       /\ dyn_array_extract_front => List!Extract(1)
                       /\ dyn_array_extract_back => List!Extract(Len(Items))
                       /\ \A i \in 0 .. size :
                            /\ dyn_array_insert(i, o) => List!Insert(i + 1, o)
                            /\ dyn_array_erase(i) => List!Erase(i + 1)
                            /\ dyn_array_extract(i) => List!Extract(i + 1)
    BY DEF HitsItsElement
  <2>1. ASSUME dyn_array_push_front(o) PROVE List!Insert(1, o)
    <3>1. List!Insert(0 + 1, o)
      BY <1>1, <2>0, <2>1, InsertStep DEF dyn_array_push_front
    <3>. QED
      BY <2>0, <3>1
  <2>2. ASSUME dyn_array_push_back(o) PROVE List!Insert(Len(Items) + 1, o)
    <3>1. List!Insert(size + 1, o)
      BY <1>1, <2>0, <2>2, InsertStep DEF dyn_array_push_back
    <3>. QED
      BY <2>0, <3>1
  <2>3. ASSUME dyn_array_insert_sorted(o), List!Sorted(Items) PROVE List!Sorted(Items)'
    BY <1>1, <2>3, SortedStep
  <2>4. ASSUME dyn_array_pop_front PROVE List!Erase(1)
    <3>1. List!Erase(0 + 1)
      BY <1>1, <2>0, <2>4, EraseStep DEF dyn_array_pop_front
    <3>. QED
      BY <2>0, <3>1
  <2>5. ASSUME dyn_array_extract_back PROVE List!Extract(Len(Items))
    <3>1. size > 0 /\ dyn_shift_extract(size - 1)
      BY <2>5 DEF dyn_array_extract_back
    <3>2. PICK p \in Nat : p = size - 1 /\ p + 1 = size
      BY <2>0, <3>1
    <3>3. List!Extract(p + 1)
      BY <1>1, <3>1, <3>2, ExtractStep
    <3>. QED
      BY <2>0, <3>2, <3>3
  <2>6. ASSUME NEW i \in 0 .. size, dyn_array_insert(i, o) PROVE List!Insert(i + 1, o)
    BY <1>1, <2>0, <2>6, InsertStep DEF dyn_array_insert
  <2>7. ASSUME NEW i \in 0 .. size, dyn_array_erase(i) PROVE List!Erase(i + 1)
    BY <1>1, <2>0, <2>7, EraseStep DEF dyn_array_erase
  <2>8. ASSUME NEW i \in 0 .. size, dyn_array_extract(i) PROVE List!Extract(i + 1)
    <3>1. dyn_shift_extract(i)
      BY <2>8 DEF dyn_array_extract
    <3>. QED
      BY <1>1, <2>0, <3>1, ExtractStep
  <2>9. ASSUME dyn_array_pop_back PROVE List!Erase(Len(Items))
    <3>1. size > 0 /\ dyn_shift_erase(size - 1, 1)
      BY <2>9 DEF dyn_array_pop_back
    <3>2. PICK p \in Nat : p = size - 1 /\ p + 1 = size
      BY <2>0, <3>1
    <3>3. List!Erase(p + 1)
      BY <1>1, <3>1, <3>2, EraseStep
    <3>. QED
      BY <2>0, <3>2, <3>3
  <2>10. ASSUME dyn_array_extract_front PROVE List!Extract(1)
    <3>1. List!Extract(0 + 1)
      BY <1>1, <2>0, <2>10, ExtractStep DEF dyn_array_extract_front
    <3>. QED
      BY <2>0, <3>1
  <2>. QED
    BY <2>1, <2>2, <2>3, <2>4, <2>5, <2>6, <2>7, <2>8, <2>9, <2>10
<1>2. Spec => []TypeOK
  BY TypeCorrect
<1>3. Spec => [][HitsItsElement]_vars
  BY <1>1, <1>2, PTL DEF Spec
<1>. QED
  BY <1>3 DEF CallsHitTheirElement, HitsItsElement
=============================================================================
