------------------------------- MODULE Files -------------------------------
(***************************************************************************)
(* What the calls on an open file promise (F17FS.h): a file is a sequence  *)
(* of bytes, a descriptor a file and a position in it.  Only a write       *)
(* changes a file, and only in the bytes it wrote; a write may stop short. *)
(***************************************************************************)
EXTENDS Integers, Sequences

CONSTANTS File,         \* the files there may be
          Descriptor,   \* the descriptors
          Buffers,      \* the sequences of bytes a client writes
          Closed        \* what a descriptor that is not open refers to

VARIABLES exists, bytes, cursor

filesVars == <<exists, bytes, cursor>>

Open(f) == cursor[f] # Closed

FilesInit ==
    /\ exists = {}
    /\ bytes = [i \in File |-> <<>>]
    /\ cursor = [f \in Descriptor |-> Closed]

Create(i) ==
    /\ i \notin exists
    /\ exists' = exists \cup {i}
    /\ bytes' = [bytes EXCEPT ![i] = <<>>]
    /\ UNCHANGED cursor

\* A file goes when no descriptor is open.
Delete(i) ==
    /\ i \in exists
    /\ \A f \in Descriptor : ~Open(f)
    /\ exists' = exists \ {i}
    /\ bytes' = [bytes EXCEPT ![i] = <<>>]
    /\ UNCHANGED cursor

OpenAtStart(f, i) ==
    /\ i \in exists
    /\ ~Open(f)
    /\ cursor' = [cursor EXCEPT ![f] = [file |-> i, at |-> 0]]
    /\ UNCHANGED <<exists, bytes>>

Close(f) ==
    /\ Open(f)
    /\ cursor' = [cursor EXCEPT ![f] = Closed]
    /\ UNCHANGED <<exists, bytes>>

\* The bytes of s from position p on are replaced by those of t, past its end
\* too.
Overwrite(s, p, t) == SubSeq(s, 1, p) \o t \o SubSeq(s, p + Len(t) + 1, Len(s))

\* The first n bytes of a buffer are written.
WriteFirst(f, buffer, n) ==
    LET c == cursor[f]
    IN  /\ Open(f)
        /\ bytes' = [bytes EXCEPT ![c.file] =
                        Overwrite(@, c.at, SubSeq(buffer, 1, n))]
        /\ cursor' = [cursor EXCEPT ![f].at = @ + n]
        /\ UNCHANGED exists

\* Reads and seeks move the position, never past the end of the file.
MoveTo(f, p) ==
    /\ Open(f)
    /\ cursor' = [cursor EXCEPT ![f].at = p]
    /\ UNCHANGED <<exists, bytes>>

FilesNext ==
    \/ \E i \in File : Create(i) \/ Delete(i)
    \/ \E f \in Descriptor :
         \/ \E i \in File : OpenAtStart(f, i)
         \/ Close(f)
         \/ \E buffer \in Buffers : \E n \in 1 .. Len(buffer) : WriteFirst(f, buffer, n)
         \/ Open(f) /\ \E p \in 0 .. Len(bytes[cursor[f].file]) : MoveTo(f, p)

FilesSpec == FilesInit /\ [][FilesNext]_filesVars
=============================================================================
