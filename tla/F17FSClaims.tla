---------------------------- MODULE F17FSClaims ----------------------------
(***************************************************************************)
(* What the header and the comments of F17FS.c say of the calls, where the *)
(* code does something else.  Each property is refuted by a run of its own.*)
(***************************************************************************)
EXTENDS F17FS

\* A remove of the last link to a regular file deletes it and closes the
\* descriptors open on it (F17FS.h:141).  fs_remove_busy ends in the loop over
\* the descriptors, after the blocks were released.
RemoveClosesDescriptors ==
    [][\A p \in Paths : fs_remove_file(p) \/ fs_remove_busy(p) =>
         /\ Resolve(p)' = 0
         /\ \A f \in Fd : fd'[f] # Resolve(p)]_vars

\* After the move of a regular file the old path names nothing (F17FS.h:158).
\* The entry to clear is looked for by inode number, so another link in the
\* same directory may go instead.
MoveDropsSource ==
    [][\A p, q \in Paths :
         fs_move(p, q) /\ inode[Resolve(p)].fileType = "r" => Resolve(p)' = 0]_vars

\* A remove frees only the inode of the file it was given (F17FS.h:141), so no
\* entry is left naming a freed inode.  The inode to free is found by a prefix
\* of the name, the entry to clear by the whole name.
RemoveLeavesNoDangling == NoDanglingEntry
=============================================================================
