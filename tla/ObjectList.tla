----------------------------- MODULE ObjectList -----------------------------
(***************************************************************************)
(* What dyn_array.h promises: a list of objects.  An object that leaves    *)
(* the list is handed to the caller, or to the destructor if there is one, and *)
(* no other object is.                                                     *)
(***************************************************************************)
EXTENDS SequencesExt

CONSTANTS
    Object,
    Rank,       \* what compare orders the objects by
    Func,       \* what a caller's function makes of an object
    Nothing     \* no object

VARIABLES
    live,       \* there is a list
    destructor, \* with a destructor
    items,      \* its objects
    out,        \* the object the last call handed to the caller, or Nothing
    destroyed   \* the objects the last call handed to the destructor

vars == <<live, destructor, items, out, destroyed>>

Sorted(s) == \A i, j \in DOMAIN s : i < j => Rank[s[i]] <= Rank[s[j]]

Init ==
    /\ live = FALSE
    /\ destructor = FALSE
    /\ items = <<>>
    /\ out = Nothing
    /\ destroyed = <<>>

Destroyed(s) == IF destructor THEN s ELSE <<>>

Quiet == out' = Nothing /\ destroyed' = <<>>

Create ==
    /\ ~live
    /\ live' = TRUE
    /\ destructor' \in BOOLEAN
    /\ items' \in Seq(Object)
    /\ Quiet

Insert(i, o) ==
    /\ live
    /\ items' = InsertAt(items, i, o)
    /\ Quiet
    /\ UNCHANGED <<live, destructor>>

Erase(i) ==
    /\ live
    /\ items' = RemoveAt(items, i)
    /\ out' = Nothing
    /\ destroyed' = Destroyed(<<items[i]>>)
    /\ UNCHANGED <<live, destructor>>

Extract(i) ==
    /\ live
    /\ items' = RemoveAt(items, i)
    /\ out' = items[i]
    /\ destroyed' = <<>>
    /\ UNCHANGED <<live, destructor>>

Clear ==
    /\ live
    /\ items' = <<>>
    /\ out' = Nothing
    /\ destroyed' = Destroyed(items)
    /\ live' \in BOOLEAN
    /\ destructor' = (live' /\ destructor)

Sort ==
    /\ live
    /\ Sorted(items')
    /\ \E p \in Bijection(DOMAIN items, DOMAIN items) :
         items' = [i \in DOMAIN items |-> items[p[i]]]
    /\ Quiet
    /\ UNCHANGED <<live, destructor>>

ForEach ==
    /\ live
    /\ items' = [i \in DOMAIN items |-> Func[items[i]]]
    /\ Quiet
    /\ UNCHANGED <<live, destructor>>

Next ==
    \/ Create
    \/ \E o \in Object, i \in 1 .. (Len(items) + 1) : Insert(i, o)
    \/ \E i \in DOMAIN items : Erase(i) \/ Extract(i)
    \/ Clear
    \/ Sort
    \/ ForEach

Spec == Init /\ [][Next]_vars
=============================================================================
