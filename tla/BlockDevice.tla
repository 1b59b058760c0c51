---------------------------- MODULE BlockDevice ----------------------------
(***************************************************************************)
(* What a block store promises its client (block_store.h): a set of user   *)
(* blocks, each free or in use, each with a content that only a write to   *)
(* that block changes.                                                     *)
(***************************************************************************)
CONSTANTS UserBlock,    \* the blocks a client may use
          Content,      \* what a block may hold
          Blank         \* what a block of a new device holds

VARIABLES used, content

devVars == <<used, content>>

DevInit ==
    /\ used = {}
    /\ content = [b \in UserBlock |-> Blank]

\* A block that was free is handed out, or taken by its number.
Take(b) ==
    /\ b \notin used
    /\ used' = used \cup {b}
    /\ UNCHANGED content

GiveBack(b) ==
    /\ b \in used
    /\ used' = used \ {b}
    /\ UNCHANGED content

\* A write gives one block a new content, and leaves the others theirs.
Put(b) ==
    /\ content' \in [UserBlock -> Content]
    /\ \A c \in UserBlock \ {b} : content'[c] = content[c]
    /\ UNCHANGED used

\* A new device is made in the place of the old one.
Renew ==
    /\ used' = {}
    /\ content' = [b \in UserBlock |-> Blank]

DevNext ==
    \/ \E b \in UserBlock :
         \/ Take(b)
         \/ GiveBack(b)
         \/ Put(b)
    \/ Renew

DevSpec == DevInit /\ [][DevNext]_devVars
=============================================================================
