--------------------------- MODULE F17FSNamespace ---------------------------
(***************************************************************************)
(* F17FS implements Namespace.  A node is an inode that some entry names   *)
(* and that is marked in use; an inode that is marked and not named is     *)
(* lost space, no node.                                                    *)
(***************************************************************************)
EXTENDS F17FS

\* The entry that the removal of a directory from itself leaves in use, with
\* the empty name, is no name a caller can give.
NamedBindings == {b \in Bindings : b[2] # NoName}

KindOf == [i \in Inode |-> IF Live(i) /\ i \in imap THEN inode[i].fileType ELSE "none"]

NS == INSTANCE Namespace WITH Node <- Inode,
                              Name <- Names,
                              kind <- KindOf,
                              bind <- NamedBindings,
                              open <- fd

\* Every call does to names, files and descriptors what one step of Namespace
\* does, and nothing else: a call that adds, drops or changes a name touches no
\* other, no node goes while it has a name or an open descriptor, none stays
\* without one, and a write touches no directory (the calls of F17FS.h:44-169).
ImplementsNamespace == NS!Init /\ [][~torn => [NS!Next]_(NS!vars)]_vars
=============================================================================
