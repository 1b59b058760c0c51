------------------------ MODULE F17FSStoresInvariant ------------------------
(***************************************************************************)
(* What is true of the volume between any two stores of a call, when no    *)
(* name a caller gives is a prefix of another: enough that a call that is  *)
(* made after a crash still frees no inode and no block that something     *)
(* names.  It says less than the invariant of F17FS, which a crash breaks: *)
(* inodes and blocks may be lost, a link may be counted that is not there, *)
(* a slot may be in use with what it held long ago.                        *)
(*                                                                         *)
(* It is stated of a volume v, the set A of the inodes that a crash has    *)
(* harmed or would, and the set D of the inodes that descriptors are open  *)
(* on, so that it can be asked of the volumes a call has still to make.    *)
(***************************************************************************)
EXTENDS F17FSStores

VolumeType ==
    [fbm : SUBSET Block, imap : SUBSET Inode, inode : [Inode -> InodeRecord],
     dblock : [Block -> [Slot -> Dentry]]]

\* The slots that hold an inode, those not in use and those of free blocks too:
\* a crash can bring back what a slot held before.
Holding(v, i) == {r \in Block \X Slot : v.dblock[r[1]][r[2]].inodeNumber = i}

\* A call may still come to the inode, or to what its entries name.
Held(v, i) ==
    \/ i = Root
    \/ Holding(v, i) # {}
    \/ v.inode[i].fileType = "d" /\ v.inode[i].vacantFile # {}

\* The blocks that a record points to.
ClaimsOf(r) ==
    IF r.fileType = "d" THEN {r.directPointer[0]}
    ELSE {r.directPointer[k] : k \in Order} \ {0}

\* The root directory and the metadata are never given away.
RootSafe(v) ==
    /\ v.inode[Root].fileType = "d"
    /\ Root \in v.imap
    /\ Meta \subseteq v.fbm

HeldMarked(v, A) == \A i \in Inode \ A : Held(v, i) => i \in v.imap

\* A link count may be too large, but never too small.
CountsCover(v, A) ==
    \A i \in Inode \ ({Root} \cup A) : Cardinality(Holding(v, i)) <= v.inode[i].linkCount

ClaimsMarked(v, A) ==
    \A i \in Inode \ A : Held(v, i) => ClaimsOf(v.inode[i]) \subseteq v.fbm \ Meta

ClaimsApart(v) ==
    \A i, j \in Inode : i # j /\ Held(v, i) /\ Held(v, j) =>
        ClaimsOf(v.inode[i]) \cap ClaimsOf(v.inode[j]) = {}

\* A file stays a file as long as a descriptor is open on it.
OpenSafe(v, A, D) == \A i \in D \ A : i \in v.imap /\ v.inode[i].fileType # "d"

Safe(v, A, D) ==
    /\ v \in VolumeType
    /\ RootSafe(v)
    /\ HeldMarked(v, A)
    /\ CountsCover(v, A)
    /\ ClaimsMarked(v, A)
    /\ ClaimsApart(v)
    /\ OpenSafe(v, A, D)

OpenInodes == {fd[f] : f \in OpenFds}

\* Whatever the stores of a call that were made and those that a crash cut off,
\* the volume is one on which the calls can go on (the order of the stores in
\* F17FS.c:287-392, 776-939, 1098-1303).
CrashSafe == ~torn => Safe(Volume, Exempt, OpenInodes)
=============================================================================
