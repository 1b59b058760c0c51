------------------------------ MODULE DynArray ------------------------------
(***************************************************************************)
(* The dynamic array (dyn_array.c): a buffer that grows by doubling, with  *)
(* every insertion and removal made by dyn_shift_insert and                *)
(* dyn_shift_remove.                                                       *)
(*                                                                         *)
(* An element is one cell, an object; a cell nobody wrote, or of which the *)
(* object was moved away, holds some object too.  malloc and realloc may   *)
(* fail, and the call then changes nothing.  Null arguments, which every   *)
(* call refuses, and indexes so large that position + count wraps around   *)
(* are left out.                                                           *)
(***************************************************************************)
EXTENDS Integers, Sequences, FiniteSetsExt, Functions

CONSTANTS
    Object,         \* the objects a caller may store
    Rank,           \* what compare orders them by
    Func,           \* what a function given to for_each makes of one
    Nothing,        \* no object
    MinCapacity,    \* 16
    MaxCapacity     \* DYN_MAX_CAPACITY

\* The capacities a buffer can have: the smallest one, doubled again and again.
Doubled[k \in 0 .. MaxCapacity] ==
    IF k = 0 THEN MinCapacity ELSE 2 * Doubled[k - 1]

Capacities == {Doubled[k] : k \in 0 .. MaxCapacity}

ASSUME CapacityAssumption ==
    /\ MinCapacity \in Nat \ {0}
    /\ MaxCapacity \in Nat
    /\ MaxCapacity \in Capacities

ASSUME ObjectAssumption ==
    /\ Rank \in [Object -> Int]
    /\ Func \in [Object -> Object]

VARIABLES
    live,       \* the array exists
    capacity,   \* the cells of the buffer
    size,       \* how many of them, the first ones, hold elements
    cells,      \* the buffer
    destructor, \* a destructor was given
    out,        \* what the last extraction copied to its caller, or Nothing
    destroyed   \* what the last call applied the destructor to

vars == <<live, capacity, size, cells, destructor, out, destroyed>>

\* The capacity c doubled until it reaches n.
DoubledTo(c, n) == Min({x \in Capacities : x >= c /\ x >= n})

\* What malloc and realloc return beyond the cells kept.
Buffer(c, n) == [i \in 0 .. (n - 1) |-> IF i \in DOMAIN c THEN c[i] ELSE Nothing]

\* Mutant: cells copied one by one from the first, over those still to copy.
CopiedFromFirst(c, dst, src, n) ==
    LET copy[k \in 0 .. n] ==
            IF k = 0 THEN c
            ELSE [copy[k - 1] EXCEPT ![dst + k - 1] = copy[k - 1][src + k - 1]]
    IN  copy[n]

memmove(c, dst, src, n) ==
    [i \in DOMAIN c |-> IF i \in dst .. (dst + n - 1) THEN c[src + (i - dst)] ELSE c[i]]

memcpy(c, dst, objects) ==
    [i \in DOMAIN c |-> IF i - dst + 1 \in DOMAIN objects THEN objects[i - dst + 1] ELSE c[i]]

Elements(position, count) == [i \in 1 .. count |-> cells[position + i - 1]]

-----------------------------------------------------------------------------
(* dyn_shift_insert, dyn_shift_remove *)

\* Mutant: DYN_MAX_CAPACITY is compared with the size before the insertion.
ComparedBefore(n) == capacity >= size + n \/ size <= MaxCapacity

MayIncrease(n) == capacity >= size + n \/ size + n <= MaxCapacity

Increased(n) == IF capacity >= size + n THEN capacity
                ELSE DoubledTo(2 * capacity, size + n)

dyn_shift_insert(position, objects) ==
    LET n == Len(objects)
        c == Buffer(cells, Increased(n))
    IN  /\ live
        /\ position <= size
        /\ MayIncrease(n)
        /\ capacity' = Increased(n)
        /\ cells' = memcpy(memmove(c, position + n, position, size - position),
                           position, objects)
        /\ size' = size + n
        /\ out' = Nothing
        /\ destroyed' = <<>>
        /\ UNCHANGED <<live, destructor>>

Removed(position, count) ==
    /\ live
    /\ size > 0
    /\ position + count <= size
    /\ cells' = memmove(cells, position, position + count, size - (position + count))
    /\ size' = size - count
    /\ UNCHANGED <<live, capacity, destructor>>

dyn_shift_erase(position, count) ==
    /\ Removed(position, count)
    /\ destroyed' = IF destructor THEN Elements(position, count) ELSE <<>>
    /\ out' = Nothing

dyn_shift_extract(position) ==
    /\ Removed(position, 1)
    /\ destroyed' = <<>>
    /\ out' = cells[position]

-----------------------------------------------------------------------------
(* The calls *)

Init ==
    /\ live = FALSE
    /\ capacity = 0
    /\ size = 0
    /\ cells = <<>>
    /\ destructor = FALSE
    /\ out = Nothing
    /\ destroyed = <<>>

\* dyn_array_create, and dyn_array_import, which fills the array it creates.
Created(n, objects) ==
    /\ ~live
    /\ n <= MaxCapacity
    /\ live' = TRUE
    /\ capacity' = DoubledTo(MinCapacity, n)
    /\ size' = Len(objects)
    /\ cells' = memcpy(Buffer(<<>>, DoubledTo(MinCapacity, n)), 0, objects)
    /\ destructor' \in BOOLEAN
    /\ out' = Nothing
    /\ destroyed' = <<>>

dyn_array_create(n) == Created(n, <<>>)

dyn_array_import(objects) == objects # <<>> /\ Created(Len(objects), objects)

dyn_array_clear == dyn_shift_erase(0, size)

\* What is left is erased, and the buffer freed.
dyn_array_destroy ==
    /\ live
    /\ destroyed' = IF destructor THEN Elements(0, size) ELSE <<>>
    /\ live' = FALSE
    /\ capacity' = 0
    /\ size' = 0
    /\ cells' = <<>>
    /\ destructor' = FALSE
    /\ out' = Nothing

dyn_array_push_front(o)  == dyn_shift_insert(0, <<o>>)
dyn_array_push_back(o)   == dyn_shift_insert(size, <<o>>)
dyn_array_insert(i, o)   == dyn_shift_insert(i, <<o>>)
dyn_array_pop_front      == dyn_shift_erase(0, 1)
dyn_array_pop_back       == size > 0 /\ dyn_shift_erase(size - 1, 1)
dyn_array_erase(i)       == dyn_shift_erase(i, 1)
dyn_array_extract_front  == dyn_shift_extract(0)
dyn_array_extract_back   == size > 0 /\ dyn_shift_extract(size - 1)
dyn_array_extract(i)     == size > i /\ dyn_shift_extract(i)

\* qsort: some order in which compare finds nothing to complain of.
dyn_array_sort ==
    /\ live
    /\ size > 0
    /\ \E p \in Bijection(0 .. (size - 1), 0 .. (size - 1)) :
         /\ \A i, j \in 0 .. (size - 1) :
              i < j => Rank[cells[p[i]]] <= Rank[cells[p[j]]]
         /\ cells' = [i \in DOMAIN cells |-> IF i < size THEN cells[p[i]] ELSE cells[i]]
    /\ out' = Nothing
    /\ destroyed' = <<>>
    /\ UNCHANGED <<live, capacity, size, destructor>>

dyn_array_for_each ==
    /\ live
    /\ cells' = [i \in DOMAIN cells |-> IF i < size THEN Func[cells[i]] ELSE cells[i]]
    /\ out' = Nothing
    /\ destroyed' = <<>>
    /\ UNCHANGED <<live, capacity, size, destructor>>

\* Mutant: the walk stops at the first element that is not greater.
FirstNotGreater(o) ==
    Min({i \in 0 .. (size - 1) : Rank[o] >= Rank[cells[i]]} \cup {size})

\* The walk stops at the first element that o is not greater than.
OrderedPosition(o) ==
    Min({i \in 0 .. (size - 1) : Rank[o] <= Rank[cells[i]]} \cup {size})

dyn_array_insert_sorted(o) == dyn_shift_insert(OrderedPosition(o), <<o>>)

Next ==
    \/ \E n \in 0 .. MaxCapacity :
         \/ dyn_array_create(n)
         \/ \E objects \in [1 .. n -> Object] : dyn_array_import(objects)
    \/ dyn_array_clear
    \/ dyn_array_destroy
    \/ \E o \in Object :
         \/ dyn_array_push_front(o)
         \/ dyn_array_push_back(o)
         \/ dyn_array_insert_sorted(o)
         \/ \E i \in 0 .. size : dyn_array_insert(i, o)
    \/ dyn_array_pop_front
    \/ dyn_array_pop_back
    \/ dyn_array_extract_front
    \/ dyn_array_extract_back
    \/ \E i \in 0 .. size : dyn_array_erase(i) \/ dyn_array_extract(i)
    \/ dyn_array_sort
    \/ dyn_array_for_each

Spec == Init /\ [][Next]_vars

-----------------------------------------------------------------------------
\* Type invariant: the elements lie in the buffer, its size is the smallest one
\* doubled, and never beyond DYN_MAX_CAPACITY (dyn_array.c:22, 385).
TypeOK ==
    /\ live \in BOOLEAN
    /\ destructor \in BOOLEAN
    /\ size \in 0 .. capacity
    /\ capacity <= MaxCapacity
    /\ live => capacity \in Capacities
    /\ ~live => capacity = 0
    /\ cells \in [0 .. (capacity - 1) -> Object \cup {Nothing}]
    /\ \A i \in 0 .. (size - 1) : cells[i] \in Object

Items == Elements(0, size)

List == INSTANCE ObjectList WITH items <- Items

\* Whatever it moves in its buffer, and from one buffer to the next, the array
\* is a list: no element is lost, doubled or taken from a cell beyond the size,
\* and what leaves goes once, to the caller or to the destructor.
ImplementsObjectList == List!Spec

\* Each call acts on the element it names (dyn_array.h:92-247): the front, the
\* back, the index, and for insert_sorted a place that keeps the order.
CallsHitTheirElement ==
    [][\A o \in Object :
         /\ dyn_array_push_front(o) => List!Insert(1, o)
         /\ dyn_array_push_back(o) => List!Insert(Len(Items) + 1, o)
         /\ dyn_array_insert_sorted(o) /\ List!Sorted(Items) => List!Sorted(Items)'
         /\ dyn_array_pop_front => List!Erase(1)
         /\ dyn_array_pop_back => List!Erase(Len(Items))
         /\ dyn_array_extract_front => List!Extract(1)
         /\ dyn_array_extract_back => List!Extract(Len(Items))
         /\ \A i \in 0 .. size :
              /\ dyn_array_insert(i, o) => List!Insert(i + 1, o)
              /\ dyn_array_erase(i) => List!Erase(i + 1)
              /\ dyn_array_extract(i) => List!Extract(i + 1)]_vars
=============================================================================
