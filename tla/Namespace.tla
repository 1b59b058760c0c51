----------------------------- MODULE Namespace -----------------------------
(***************************************************************************)
(* What the calls of F17FS promise of names: directories bind names to     *)
(* nodes, a node may have several names, it exists as long as it has one,  *)
(* and descriptors are open on regular files.  Slots, inode numbers, link  *)
(* counts, blocks and their maps are how F17FS keeps this promise.         *)
(***************************************************************************)
EXTENDS Integers

CONSTANTS Node, Root, Name, Fd, Closed

VARIABLES
    kind,       \* "r", "d", or "none" of a node that does not exist
    bind,       \* the names: <<directory, name, node>>
    open,       \* the node a descriptor is open on, or Closed
    mounted     \* a volume is in use

vars == <<kind, bind, open, mounted>>

IsBound(d, n) == \E x \in Node : <<d, n, x>> \in bind

NamesOf(x) == {b \in bind : b[3] = x}

Init ==
    /\ kind = [x \in Node |-> IF x = Root THEN "d" ELSE "none"]
    /\ bind = {}
    /\ open = [f \in Fd |-> Closed]
    /\ mounted = TRUE

Format ==
    /\ ~mounted
    /\ kind' = [x \in Node |-> IF x = Root THEN "d" ELSE "none"]
    /\ bind' = {}
    /\ open' = [f \in Fd |-> Closed]
    /\ mounted' = TRUE

\* Descriptors do not survive the mount they were opened in.
Mount ==
    /\ mounted' = ~mounted
    /\ open' = [f \in Fd |-> Closed]
    /\ UNCHANGED <<kind, bind>>

Create(d, n, x, k) ==
    /\ mounted
    /\ kind[d] = "d"
    /\ ~IsBound(d, n)
    /\ kind[x] = "none"
    /\ kind' = [kind EXCEPT ![x] = k]
    /\ bind' = bind \cup {<<d, n, x>>}
    /\ UNCHANGED <<open, mounted>>

Link(d, n, x) ==
    /\ mounted
    /\ kind[d] = "d"
    /\ ~IsBound(d, n)
    /\ kind[x] # "none"
    /\ bind' = bind \cup {<<d, n, x>>}
    /\ UNCHANGED <<kind, open, mounted>>

\* A name goes, and the node with its last name: a directory only when it is
\* empty, a regular file only when no descriptor is open on it.
Unlink(b) ==
    /\ mounted
    /\ bind' = bind \ {b}
    /\ \/ /\ NamesOf(b[3]) # {b}
          /\ UNCHANGED kind
       \/ /\ NamesOf(b[3]) = {b}
          /\ \A c \in bind : c[1] # b[3]
          /\ \A f \in Fd : open[f] # b[3]
          /\ kind' = [kind EXCEPT ![b[3]] = "none"]
    /\ UNCHANGED <<open, mounted>>

Rename(b, e, m) ==
    /\ mounted
    /\ kind[e] = "d"
    /\ ~IsBound(e, m)
    /\ bind' = (bind \ {b}) \cup {<<e, m, b[3]>>}
    /\ UNCHANGED <<kind, open, mounted>>

Open(f, x) ==
    /\ mounted
    /\ open[f] = Closed
    /\ kind[x] = "r"
    /\ open' = [open EXCEPT ![f] = x]
    /\ UNCHANGED <<kind, bind, mounted>>

Close(f) ==
    /\ mounted
    /\ open' = [open EXCEPT ![f] = Closed]
    /\ UNCHANGED <<kind, bind, mounted>>

Next ==
    \/ Format
    \/ Mount
    \/ \E d, x \in Node, n \in Name :
         \/ Link(d, n, x)
         \/ \E k \in {"r", "d"} : Create(d, n, x, k)
    \/ \E b \in bind :
         \/ Unlink(b)
         \/ \E e \in Node, m \in Name : Rename(b, e, m)
    \/ \E f \in Fd :
         \/ Close(f)
         \/ \E x \in Node : Open(f, x)

Spec == Init /\ [][Next]_vars
=============================================================================
