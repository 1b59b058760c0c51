---------------------------- MODULE BitmapProofs ----------------------------
(***************************************************************************)
(* Facts about the least and the greatest element of a set of naturals,    *)
(* and the scans of Bitmap that rest on them, for every size.              *)
(***************************************************************************)
EXTENDS Bitmap, Integers, FiniteSetsExt, FiniteSetTheorems, WellFoundedInduction, TLAPS

\* A nonempty set of naturals has a least element, and Min returns it: the
\* interval from 0 to it is minimal, for inclusion, among those of the elements.
LEMMA MinProperties ==
    ASSUME NEW S \in SUBSET Nat, S # {}
    PROVE  Min(S) \in S /\ \A y \in S : Min(S) <= y
<1>. DEFINE F == {0 .. x : x \in S}
<1>1. F \subseteq FiniteSubsetsOf(Nat)
  <2>. SUFFICES ASSUME NEW x \in S PROVE 0 .. x \in FiniteSubsetsOf(Nat)
    OBVIOUS
  <2>1. IsFiniteSet(0 .. x)
    BY FS_Interval
  <2>. QED
    BY <2>1 DEF FiniteSubsetsOf
<1>2. F # {}
  OBVIOUS
<1>3. PICK I \in F : \A J \in F : ~(<<J, I>> \in StrictSubsetOrdering(Nat))
  <2>. HIDE DEF F
  <2>1. IsWellFoundedOn(StrictSubsetOrdering(Nat), FiniteSubsetsOf(Nat))
    BY FS_StrictSubsetOrderingWellFounded
  <2>. QED
    BY <1>1, <1>2, <2>1, WFMin
<1>4. PICK x \in S : I = 0 .. x
  BY <1>3
<1>5. \A y \in S : x <= y
  <2>. SUFFICES ASSUME NEW y \in S, y < x PROVE FALSE
    OBVIOUS
  <2>1. 0 .. y \subseteq 0 .. x /\ 0 .. y # 0 .. x
    <3>1. x \in 0 .. x /\ x \notin 0 .. y
      OBVIOUS
    <3>. QED
      BY <3>1
  <2>2. 0 .. y \in SUBSET Nat /\ 0 .. x \in SUBSET Nat
    OBVIOUS
  <2>3. <<0 .. y, 0 .. x>> \in StrictSubsetOrdering(Nat)
    BY <2>1, <2>2 DEF StrictSubsetOrdering
  <2>4. 0 .. y \in F
    OBVIOUS
  <2>. QED
    BY <2>3, <2>4, <1>3, <1>4
<1>. QED
  BY <1>5 DEF Min

\* A nonempty set of naturals below a bound has a greatest element, and Max
\* returns it.
LEMMA MaxProperties ==
    ASSUME NEW n \in Nat, NEW S \in SUBSET (0 .. n), S # {}
    PROVE  Max(S) \in S /\ \A y \in S : y <= Max(S)
<1>. DEFINE T == {n - x : x \in S}
<1>1. T \in SUBSET Nat /\ T # {}
  <2>1. \A x \in S : n - x \in Nat
    OBVIOUS
  <2>2. PICK x \in S : TRUE
    OBVIOUS
  <2>3. n - x \in T
    OBVIOUS
  <2>. QED
    BY <2>1, <2>3
<1>2. Min(T) \in T /\ \A y \in T : Min(T) <= y
  BY <1>1, MinProperties
<1>3. PICK x \in S : Min(T) = n - x
  BY <1>2
<1>4. \A y \in S : y <= x
  <2>. SUFFICES ASSUME NEW y \in S PROVE y <= x
    OBVIOUS
  <2>1. n - x <= n - y
    BY <1>2, <1>3
  <2>. QED
    BY <2>1
<1>. QED
  BY <1>4 DEF Max

\* The scan of a bitmap for a clear bit ends at a clear position of the bitmap,
\* the first one, or past the end when there is none (bitmap_ffz).
THEOREM FfzSpec ==
    ASSUME NEW n \in Nat, NEW bits
    PROVE  LET r == bitmap_ffz(bits, n)
           IN  \/ r = SIZE_MAX /\ 0 .. (n - 1) \subseteq bits
               \/ /\ r \in (0 .. (n - 1)) \ bits
                  /\ \A j \in 0 .. (n - 1) : j < r => j \in bits
<1>1. CASE ClearBits(bits, n) = {}
  BY <1>1 DEF bitmap_ffz, ClearBits
<1>2. CASE ClearBits(bits, n) # {}
  <2>1. ClearBits(bits, n) \in SUBSET Nat
    BY DEF ClearBits
  <2>2. /\ Min(ClearBits(bits, n)) \in ClearBits(bits, n)
        /\ \A j \in ClearBits(bits, n) : Min(ClearBits(bits, n)) <= j
    BY <1>2, <2>1, MinProperties
  <2>3. bitmap_ffz(bits, n) = Min(ClearBits(bits, n))
    BY <1>2 DEF bitmap_ffz
  <2>. QED
    BY <2>2, <2>3 DEF ClearBits
<1>. QED
  BY <1>1, <1>2
=============================================================================
