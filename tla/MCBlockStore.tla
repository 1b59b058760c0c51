---------------------------- MODULE MCBlockStore ----------------------------
(***************************************************************************)
(* An instance of BlockStore for TLC: two blocks of inodes, four for the   *)
(* client, and two of the map.                                             *)
(***************************************************************************)
EXTENDS BlockStore

\* Two of the client's blocks: the first, after the inodes, and the last,
\* before the map.
FirstAndLast == {MetaBlocks, AvailBlocks - 1}

ZeroesAndOnes == {{}, Bit}

\* The operations on the bytes of a bitmap are those on the set of its bits
\* (bitmap.c), for bitmaps of up to three bytes and a bit, whatever is in them.
\* It says the same of every state, so that the initial one is enough.
BytesAreBits == Init => \A n \in 1 .. (3 * ByteBits + 1) : AgreesWithSet(n)
=============================================================================
