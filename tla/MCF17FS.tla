------------------------------ MODULE MCF17FS ------------------------------
(***************************************************************************)
(* Instances of F17FS for TLC.                                             *)
(***************************************************************************)
EXTENDS F17FSClaims, F17FSNamespace, F17FSInvariant, TLC

CONSTANTS n1, n2, n3

\* Names that are not prefixes of each other, and names of which one is.
NoPrefixes == {}
OnePrefixOfTwo == {<<n1, n2>>}

\* After a torn remove two files may share blocks, and the properties say
\* nothing of what follows: those states are not explored further.
Whole == ~torn

\* A bound: no regular file was ever made, so that two directories below the
\* root, with links between them, fit in an instance.
DirectoriesOnly == Whole /\ \A i \in Inode : inode[i].fileType # "r"

NameSymmetry == Permutations(Names)
=============================================================================
