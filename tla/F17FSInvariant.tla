--------------------------- MODULE F17FSInvariant ---------------------------
(***************************************************************************)
(* The inductive invariant of F17FS when no name a caller gives is a       *)
(* prefix of another: what the safety invariants of F17FS need beside each *)
(* other for every call to preserve them.                                  *)
(***************************************************************************)
EXTENDS F17FS

\* What an entry r = <<directory, slot>> holds.
NameOf(r)   == Entry(r[1], r[2]).filename
NumberOf(r) == Entry(r[1], r[2]).inodeNumber

\* The directories that something names, and the root.
Dirs == {d \in Inode : Live(d) /\ inode[d].fileType = "d"}

\* The root cannot be freed and given away as another inode.
RootIsDir == inode[Root].fileType = "d"

\* What an entry names was created: its record says what it is.
LiveHasType == \A i \in Inode : Live(i) => inode[i].fileType # "none"

\* A directory that was removed left no entry in use.
UnnamedDirsEmpty ==
    \A d \in Inode : inode[d].fileType = "d" /\ ~Live(d) => inode[d].vacantFile = {}

\* A slot not in use holds no inode number: move looks for one in all slots.
UnusedSlotsBlank ==
    \A d \in Dirs : \A s \in Slot \ inode[d].vacantFile : NumberOf(<<d, s>>) = 0

\* A named entry holds no 0, which a lookup would take for "not found", and one
\* without a name holds no inode, which a move would take for its source.
UsedSlotsNumbered ==
    \A r \in EntriesInUse : NameOf(r) = NoName <=> NumberOf(r) = 0

\* What the calls rely on and never check, as long as no remove was torn: the
\* root stays a directory, an entry in use has a name when it holds a number
\* that is not 0, one not in use holds 0, and a removed directory is empty
\* (F17FS.c:828-1000, where an entry is found by its number or its name alone).
Consistent ==
    ~torn =>
        /\ RootIsDir
        /\ LiveHasType
        /\ UnnamedDirsEmpty
        /\ UnusedSlotsBlank
        /\ UsedSlotsNumbered

\* The inductive invariant.
IInv ==
    /\ TypeOK
    /\ Consistent
    /\ NoDanglingEntry
    /\ LinkCountExact
    /\ BlocksExact
    /\ FdLive
    /\ UniqueNames
=============================================================================
