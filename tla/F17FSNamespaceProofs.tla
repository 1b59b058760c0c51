------------------------ MODULE F17FSNamespaceProofs ------------------------
(***************************************************************************)
(* F17FS implements Namespace, for every size of the tables, when no name  *)
(* is a proper prefix of another: every call that keeps the invariant does *)
(* to the names what one step of Namespace does, or nothing.               *)
(*                                                                         *)
(* Then what a path means, from step to step: the walk of searchPath,      *)
(* followed along the whole path, before and after a call.                 *)
(***************************************************************************)
EXTENDS F17FSNamespace, F17FSInvariantProofs, SequenceTheorems

-----------------------------------------------------------------------------
(* Names and nodes *)

\* The entries in use with a name, and what each binds.
NamedEntries == {r \in EntriesInUse : NameOf(r) # NoName}

BindingOf(r) == <<r[1], NameOf(r), NumberOf(r)>>

\* The names of Namespace are those of the entries in use.
LEMMA NamedAre == NamedBindings = {BindingOf(r) : r \in NamedEntries}
BY DEF NamedBindings, Bindings, NamedEntries, BindingOf, NameOf, NumberOf

\* No two entries bind the same name.
LEMMA BindingsApart ==
    ASSUME IInv, ~torn, NEW r \in NamedEntries, NEW q \in NamedEntries,
           r[1] = q[1], NameOf(r) = NameOf(q)
    PROVE  r = q
<1>1. /\ r[1] \in Dirs /\ r = <<r[1], r[2]>> /\ q = <<q[1], q[2]>>
      /\ r[2] \in inode[r[1]].vacantFile /\ q[2] \in inode[r[1]].vacantFile
      /\ NameOf(r) # NoName
  BY EntryFacts DEF NamedEntries
<1>2. r[2] = q[2]
  BY <1>1 DEF IInv, UniqueNames, NameOf, Dirs
<1>. QED
  BY <1>1, <1>2

\* What a step does to the names, from what it does to the entries.
LEMMA EffectOnNames ==
    ASSUME IInv, ~torn, NEW Out, NEW In, CleanEffect(Out, In)
    PROVE  NamedBindings' = {BindingOf(r) : r \in NamedEntries \ Out}
                            \cup {BindingOf(q)' : q \in {x \in In : NameOf(x)' # NoName}}
<1>1. NamedBindings' = {BindingOf(r)' : r \in NamedEntries'}
  BY DEF NamedBindings, Bindings, NamedEntries, BindingOf, NameOf, NumberOf
<1>2. NamedEntries' = {x \in EntriesInUse' : NameOf(x)' # NoName}
  BY DEF NamedEntries
<1>3. EntriesInUse' = (EntriesInUse \ Out) \cup In
  BY DEF CleanEffect, Effect
<1>4. \A r \in EntriesInUse \ Out : r \notin In /\ NameOf(r)' = NameOf(r)
                                    /\ BindingOf(r)' = BindingOf(r)
  BY EffectKeeps DEF CleanEffect, BindingOf
<1>5. NamedEntries' = (NamedEntries \ Out) \cup {x \in In : NameOf(x)' # NoName}
  BY <1>2, <1>3, <1>4 DEF NamedEntries
<1>6. \A r \in NamedEntries \ Out : BindingOf(r)' = BindingOf(r)
  BY <1>4 DEF NamedEntries
<1>. QED
  BY <1>1, <1>5, <1>6

\* A name added is a new name.
LEMMA AddedName ==
    ASSUME IInv, ~torn, NEW d, NEW n, NEW i, AddsName(d, n, i)
    PROVE  /\ NamedBindings' = NamedBindings \cup {<<d, n, i>>}
           /\ ~NS!IsBound(d, n)
<1>1. n \in Names /\ n # NoName /\ \A e \in EntriesInUse : e[1] = d => NameOf(e) # n
  BY NameAssumption DEF AddsName
<1>2. PICK q : /\ CleanEffect({}, {q}) /\ q[1] = d
               /\ NumberOf(q)' = i /\ NameOf(q)' = n
  <2>1. PICK s \in Slot : /\ CleanEffect({}, {<<d, s>>})
                          /\ NumberOf(<<d, s>>)' = i /\ NameOf(<<d, s>>)' = n
    BY DEF AddsName
  <2>. QED
    BY <2>1
<1>3. NamedBindings' = {BindingOf(r) : r \in NamedEntries \ {}}
                       \cup {BindingOf(x)' : x \in {y \in {q} : NameOf(y)' # NoName}}
  BY <1>2, EffectOnNames
<1>4. BindingOf(q)' = <<d, n, i>>
  BY <1>2 DEF BindingOf
<1>5. NamedBindings' = NamedBindings \cup {<<d, n, i>>}
  BY <1>1, <1>2, <1>3, <1>4, NamedAre
<1>6. ~NS!IsBound(d, n)
  BY <1>1, NamedAre DEF NS!IsBound, BindingOf, NamedEntries
<1>. QED
  BY <1>5, <1>6

\* A name dropped is the one of the entry.
LEMMA DroppedName ==
    ASSUME IInv, ~torn, NEW r, DropsName(r)
    PROVE  /\ BindingOf(r) \in NamedBindings
           /\ NamedBindings' = NamedBindings \ {BindingOf(r)}
<1>1. r \in NamedEntries
  BY DEF DropsName, NamedEntries
<1>2. NamedBindings' = {BindingOf(q) : q \in NamedEntries \ {r}}
  <2>1. CASE CleanEffect({r}, {})
    <3>1. NamedBindings' = {BindingOf(q) : q \in NamedEntries \ {r}}
                           \cup {BindingOf(q)' : q \in {x \in {} : NameOf(x)' # NoName}}
      BY <2>1, EffectOnNames
    <3>. QED
      BY <3>1
  <2>2. CASE CleanEffect({r}, {r}) /\ NumberOf(r)' = 0
    <3>1. NamedBindings' = {BindingOf(q) : q \in NamedEntries \ {r}}
                           \cup {BindingOf(q)' : q \in {x \in {r} : NameOf(x)' # NoName}}
      BY <2>2, EffectOnNames
    <3>2. NameOf(r)' = NoName
      BY <2>2 DEF CleanEffect
    <3>. QED
      BY <3>1, <3>2
  <2>. QED
    BY <2>1, <2>2 DEF DropsName
<1>3. \A q \in NamedEntries : BindingOf(q) = BindingOf(r) => q = r
  BY <1>1, BindingsApart DEF BindingOf
<1>. QED
  BY <1>1, <1>2, <1>3, NamedAre

\* A name moved is taken out and put in elsewhere, for the same inode.
LEMMA MovedName ==
    ASSUME IInv, ~torn, NEW r, NEW d, NEW n, MovesName(r, d, n)
    PROVE  /\ BindingOf(r) \in NamedBindings
           /\ NamedBindings' = (NamedBindings \ {BindingOf(r)}) \cup {<<d, n, NumberOf(r)>>}
           /\ ~NS!IsBound(d, n)
<1>1. n \in Names /\ n # NoName /\ \A e \in EntriesInUse : e[1] = d => NameOf(e) # n
  BY NameAssumption DEF MovesName
<1>2. r \in NamedEntries
  BY DEF MovesName, NamedEntries
<1>3. PICK q : /\ CleanEffect({r}, {q}) /\ q[1] = d
               /\ NumberOf(q)' = NumberOf(r) /\ NameOf(q)' = n
  BY DEF MovesName
<1>4. NamedBindings' = {BindingOf(x) : x \in NamedEntries \ {r}}
                       \cup {BindingOf(x)' : x \in {y \in {q} : NameOf(y)' # NoName}}
  BY <1>3, EffectOnNames
<1>5. BindingOf(q)' = <<d, n, NumberOf(r)>>
  BY <1>3 DEF BindingOf
<1>6. \A x \in NamedEntries : BindingOf(x) = BindingOf(r) => x = r
  BY <1>2, BindingsApart DEF BindingOf
<1>7. NamedBindings' = (NamedBindings \ {BindingOf(r)}) \cup {<<d, n, NumberOf(r)>>}
  BY <1>1, <1>2, <1>3, <1>4, <1>5, <1>6, NamedAre
<1>8. ~NS!IsBound(d, n)
  BY <1>1, NamedAre DEF NS!IsBound, BindingOf, NamedEntries
<1>. QED
  BY <1>2, <1>7, <1>8, NamedAre

\* The names of a node are those of the entries that hold its inode.
LEMMA NamesAreRefs ==
    ASSUME IInv, ~torn, NEW i \in Inode \ {Root}
    PROVE  NS!NamesOf(i) = {BindingOf(r) : r \in Refs(i)}
<1>1. Refs(i) = {r \in EntriesInUse : NumberOf(r) = i}
  BY DEF Refs, NumberOf
<1>2. Refs(i) = {r \in NamedEntries : NumberOf(r) = i}
  BY <1>1 DEF NamedEntries, IInv, Consistent, UsedSlotsNumbered, Root
<1>3. \A r : BindingOf(r)[3] = NumberOf(r)
  BY DEF BindingOf
<1>. QED
  BY <1>2, <1>3, NamedAre DEF NS!NamesOf

\* A node is an inode that something names: it is marked in use.
LEMMA KindIs ==
    ASSUME IInv, ~torn
    PROVE  KindOf = [i \in Inode |-> IF Live(i) THEN inode[i].fileType ELSE "none"]
BY DEF IInv, NoDanglingEntry, KindOf

\* A step that keeps the nodes keeps their kinds.
LEMMA KindKept ==
    ASSUME IInv, ~torn, IInv', ~torn', SameNodes
    PROVE  KindOf' = KindOf
<1>1. KindOf' = [i \in Inode |-> IF Live(i)' THEN inode'[i].fileType ELSE "none"]
  BY DEF IInv, NoDanglingEntry, KindOf
<1>. QED
  BY <1>1, KindIs DEF SameNodes

\* The kinds of directories and of what is named.
LEMMA KindFacts ==
    ASSUME IInv, ~torn
    PROVE  /\ \A d \in Dirs : d \in Inode /\ KindOf[d] = "d"
           /\ \A i \in Inode : Live(i) => KindOf[i] # "none" /\ KindOf[i] = inode[i].fileType
           /\ \A i \in Inode : ~Live(i) => KindOf[i] = "none"
BY KindIs DEF Dirs, IInv, Consistent, LiveHasType

-----------------------------------------------------------------------------
(* Every call is a step of Namespace, or none *)

\* A fresh volume has the root and no name.
LEMMA InitRefines == Init => NS!Init
<1>. SUFFICES ASSUME Init PROVE NS!Init
  OBVIOUS
<1>1. /\ inode[Root].fileType = "d" /\ inode[Root].vacantFile = {}
      /\ \A i \in Inode \ {Root} : inode[i].fileType = "none"
  BY ConstantTypes DEF Init, FreshTable, DirRecord, ZeroInode
<1>2. EntriesInUse = {}
  BY <1>1 DEF EntriesInUse
<1>3. NamedBindings = {}
  BY <1>2 DEF NamedBindings, Bindings
<1>4. IInv /\ ~torn
  BY InitInvariant DEF Init
<1>5. \A i : Live(i) <=> i = Root
  BY <1>2 DEF Live, Refs
<1>6. KindOf = [x \in Inode |-> IF x = Root THEN "d" ELSE "none"]
  BY <1>1, <1>4, <1>5, KindIs
<1>. QED
  BY <1>3, <1>6 DEF NS!Init, Init, NoFds

\* Formatting, mounting and unmounting.
LEMMA MountRefines ==
    ASSUME IInv, ~torn, fs_format \/ fs_mount \/ fs_unmount
    PROVE  NS!Next
<1>1. CASE fs_format
  <2>1. fs_format => Init'
    BY DEF fs_format, Init
  <2>2. NS!Init'
    BY <1>1, <2>1, InitRefines, PTL
  <2>3. ~mounted
    BY <1>1 DEF fs_format
  <2>4. NS!Format
    BY <2>2, <2>3 DEF NS!Init, NS!Format
  <2>. QED
    BY <2>4 DEF NS!Next
<1>2. CASE fs_mount \/ fs_unmount
  <2>1. IInv' /\ SameNodes /\ UNCHANGED Bindings
    BY <1>2, MountKeeps
  <2>2. mounted' = ~mounted /\ fd' = [f \in Fd |-> Closed] /\ ~torn'
    <3>1. mounted \in BOOLEAN
      BY DEF IInv, TypeOK
    <3>2. mounted' = ~mounted
      BY <1>2, <3>1 DEF fs_mount, fs_unmount
    <3>3. fd' = [f \in Fd |-> Closed] /\ torn' = torn
      BY <1>2 DEF fs_mount, fs_unmount, NoFds
    <3>. QED
      BY <3>2, <3>3
  <2>3. KindOf' = KindOf
    BY <2>1, <2>2, KindKept
  <2>4. NS!Mount
    BY <2>1, <2>2, <2>3 DEF NS!Mount, NamedBindings
  <2>. QED
    BY <2>4 DEF NS!Next
<1>. QED
  BY <1>1, <1>2

\* A create that succeeds makes a node with one name.
LEMMA CreateRefines ==
    ASSUME IInv, ~torn, NamePrefix = {}, NEW p \in Paths,
           fs_create_file(p) \/ fs_create_dir(p)
    PROVE  NS!Next
<1>1. PICK d \in Dirs, i \in Inode, k \in {"r", "d"} :
        /\ IInv' /\ ~Live(i)
        /\ AddsName(d, basename(p), i)
        /\ \A j \in Inode : Live(j)' <=> Live(j) \/ j = i
        /\ inode'[i].fileType = k
        /\ \A j \in Inode \ {i} : inode'[j].fileType = inode[j].fileType
  BY CreateFileKeeps, CreateDirKeeps
<1>. DEFINE n == basename(p)
<1>2. n \in Names /\ d \in Inode /\ KindOf[d] = "d" /\ KindOf[i] = "none"
  BY <1>1, NameTypes, KindFacts
<1>3. mounted /\ UNCHANGED <<fd, mounted, torn>>
  BY DEF fs_create_file, fs_create_dir, CreateChecked
<1>4. NamedBindings' = NamedBindings \cup {<<d, n, i>>} /\ ~NS!IsBound(d, n)
  BY <1>1, AddedName
<1>5. KindOf' = [KindOf EXCEPT ![i] = k]
  <2>1. KindOf = [j \in Inode |-> IF Live(j) THEN inode[j].fileType ELSE "none"]
    BY KindIs
  <2>2. KindOf' = [j \in Inode |-> IF Live(j)' THEN inode'[j].fileType ELSE "none"]
    BY <1>1, <1>3 DEF IInv, NoDanglingEntry, KindOf
  <2>. QED
    BY <1>1, <2>1, <2>2
<1>. HIDE DEF n
<1>6. NS!Create(d, n, i, k)
  BY <1>2, <1>3, <1>4, <1>5 DEF NS!Create
<1>. QED
  BY <1>1, <1>2, <1>6 DEF NS!Next

\* A create that fails, a write and a failed remove change no name.
LEMMA NothingRefines ==
    ASSUME IInv, ~torn, IInv', ~torn', SameNodes,
           UNCHANGED Bindings \/ CleanEffect({}, {}),
           UNCHANGED <<fd, mounted>>
    PROVE  UNCHANGED NS!vars
<1>1. KindOf' = KindOf
  BY KindKept
<1>2. NamedBindings' = NamedBindings
  <2>1. CASE UNCHANGED Bindings
    BY <2>1 DEF NamedBindings
  <2>2. CASE CleanEffect({}, {})
    <3>1. NamedBindings' = {BindingOf(r) : r \in NamedEntries \ {}}
                           \cup {BindingOf(q)' : q \in {x \in {} : NameOf(x)' # NoName}}
      BY <2>2, EffectOnNames
    <3>. QED
      BY <3>1, NamedAre
  <2>. QED
    BY <2>1, <2>2
<1>. QED
  BY <1>1, <1>2 DEF NS!vars

\* A write changes no name and no node.
LEMMA WriteRefines ==
    ASSUME IInv, ~torn, NEW f \in Fd, NEW k \in Order,
           fs_write_block(f, k) \/ fs_write_new_block(f, k)
    PROVE  UNCHANGED NS!vars
<1>1. IInv' /\ SameNodes /\ CleanEffect({}, {})
  BY WriteBlockKeeps, WriteNewBlockKeeps
<1>2. UNCHANGED <<fd, mounted, torn>>
  BY DEF fs_write_block, fs_write_new_block
<1>. QED
  BY <1>1, <1>2, NothingRefines

\* A create that finds no block marks an inode that is no node.
LEMMA CreateNoBlockRefines ==
    ASSUME IInv, ~torn, NEW p \in Paths, fs_create_no_block(p)
    PROVE  UNCHANGED NS!vars
<1>1. IInv' /\ SameNodes /\ UNCHANGED Bindings
  BY CreateNoBlockKeeps
<1>2. UNCHANGED <<fd, mounted, torn>>
  BY DEF fs_create_no_block
<1>. QED
  BY <1>1, <1>2, NothingRefines

\* Opening, closing and a remove that ends in its loop over the descriptors.
LEMMA DescriptorRefines ==
    ASSUME IInv, ~torn, NamePrefix = {},
           \/ \E p \in Paths : fs_open(p) \/ fs_remove_busy(p)
           \/ \E f \in Fd : fs_close(f)
    PROVE  [NS!Next]_(NS!vars)
<1>1. UNCHANGED <<inode, dblock, imap, mounted>> /\ mounted
  BY DEF fs_open, fs_remove_busy, fs_close, RemoveChecked
<1>2. NamedBindings' = NamedBindings
  BY <1>1 DEF NamedBindings, Bindings, EntriesInUse, Entry
<1>3. KindOf' = KindOf
  <2>1. \A i : Live(i)' <=> Live(i)
    BY <1>1 DEF Live, Refs, EntriesInUse, Entry
  <2>. QED
    BY <1>1, <2>1 DEF KindOf
<1>4. ASSUME NEW p \in Paths, fs_open(p)
      PROVE  NS!Next
  <2>1. PICK f \in Fd, i \in Inode : /\ fd[f] = Closed
                                     /\ Live(i) /\ inode[i].fileType = "r"
                                     /\ fd' = [fd EXCEPT ![f] = i]
    BY <1>4, OpenKeeps
  <2>2. NS!Open(f, i)
    BY <1>1, <1>2, <1>3, <2>1, KindFacts DEF NS!Open
  <2>. QED
    BY <2>2 DEF NS!Next
<1>5. ASSUME NEW f \in Fd, fd' = [fd EXCEPT ![f] = Closed]
      PROVE  NS!Next
  <2>1. NS!Close(f)
    BY <1>1, <1>2, <1>3, <1>5 DEF NS!Close
  <2>. QED
    BY <2>1 DEF NS!Next
<1>6. ASSUME NEW p \in Paths, fs_remove_busy(p)
      PROVE  [NS!Next]_(NS!vars)
  <2>1. OpenFds \subseteq Nat /\ OpenFds # {}
    BY <1>6 DEF OpenFds, Fd, fs_remove_busy, NoFdOpen
  <2>2. Min(OpenFds) \in Fd
    BY <2>1, MinProperties DEF OpenFds
  <2>3. fd' = [fd EXCEPT ![Min(OpenFds)] = Closed] \/ fd' = fd
    BY <1>6 DEF fs_remove_busy
  <2>4. CASE fd' = fd
    BY <1>1, <1>2, <1>3, <2>4 DEF NS!vars
  <2>. QED
    BY <1>5, <2>2, <2>3, <2>4
<1>7. ASSUME NEW f \in Fd, fs_close(f)
      PROVE  NS!Next
  <2>1. fd' = [fd EXCEPT ![f] = Closed]
    BY <1>7 DEF fs_close
  <2>. QED
    BY <1>5, <2>1
<1>. QED
  BY <1>4, <1>6, <1>7

\* A remove drops one of several names, or the last and the node with it: a
\* directory is empty then, and no descriptor is open on a file.
LEMMA RemoveRefines ==
    ASSUME IInv, ~torn, NamePrefix = {}, NEW p \in Paths, fs_remove(p)
    PROVE  NS!Next
<1>1. mounted /\ UNCHANGED <<fd, mounted, torn>>
  BY DEF fs_remove, fs_remove_dir, fs_remove_dir_link, fs_remove_file_link,
         fs_remove_file, RemoveChecked
<1>2. CASE fs_remove_dir_link(p) \/ fs_remove_file_link(p)
  <2>1. PICK i \in Inode \ {Root} : \E r \in Refs(i) :
          IInv' /\ SameNodes /\ DropsName(r) /\ Refs(i) # {r}
    BY <1>2, RemoveDirLinkKeeps, RemoveFileLinkKeeps
  <2>2. PICK r \in Refs(i) : IInv' /\ SameNodes /\ DropsName(r) /\ Refs(i) # {r}
    BY <2>1
  <2>. DEFINE b == BindingOf(r)
  <2>3. b \in NamedBindings /\ NamedBindings' = NamedBindings \ {b}
    BY <2>2, DroppedName
  <2>4. b[3] = i
    BY DEF BindingOf, Refs, NumberOf
  <2>5. KindOf' = KindOf
    BY <1>1, <2>2, KindKept
  <2>6. NS!NamesOf(i) # {b}
    <3>1. PICK q \in Refs(i) : q # r
      BY <2>2
    <3>2. q \in NamedEntries /\ r \in NamedEntries
      BY DEF Refs, NamedEntries, NumberOf, IInv, Consistent, UsedSlotsNumbered, Root
    <3>3. BindingOf(q) # b
      BY <3>1, <3>2, BindingsApart DEF BindingOf
    <3>4. BindingOf(q) \in NS!NamesOf(i)
      BY <3>1, NamesAreRefs
    <3>. QED
      BY <3>3, <3>4
  <2>. HIDE DEF b
  <2>7. NS!Unlink(b)
    BY <1>1, <2>3, <2>4, <2>5, <2>6 DEF NS!Unlink
  <2>. QED
    BY <2>3, <2>7 DEF NS!Next
<1>3. CASE fs_remove_dir(p) \/ fs_remove_file(p)
  <2>1. PICK i \in Inode \ {Root} : \E r \in Refs(i) :
          /\ IInv' /\ DropsName(r) /\ Refs(i) = {r}
          /\ \/ inode[i].fileType = "d" /\ inode[i].vacantFile = {}
             \/ inode[i].fileType = "r" /\ OpenFds = {}
          /\ \A j \in Inode : Live(j)' <=> Live(j) /\ j # i
          /\ \A j \in Inode : inode'[j].fileType = inode[j].fileType
    <3>1. CASE fs_remove_dir(p)
      BY <3>1, RemoveDirKeeps
    <3>2. CASE fs_remove_file(p)
      BY <3>2, RemoveFileKeeps DEF fs_remove_file, NoFdOpen
    <3>. QED
      BY <1>3, <3>1, <3>2
  <2>2. PICK r \in Refs(i) : DropsName(r) /\ Refs(i) = {r}
    BY <2>1
  <2>. DEFINE b == BindingOf(r)
  <2>3. b \in NamedBindings /\ NamedBindings' = NamedBindings \ {b}
    BY <2>2, DroppedName
  <2>4. b[3] = i
    BY DEF BindingOf, Refs, NumberOf
  <2>5. NS!NamesOf(i) = {b}
    BY <2>2, NamesAreRefs
  <2>6. \A c \in NamedBindings : c[1] # i
    <3>. SUFFICES ASSUME NEW q \in NamedEntries PROVE q[1] # i
      BY NamedAre DEF BindingOf
    <3>1. q[1] \in Dirs /\ q[2] \in inode[q[1]].vacantFile
      BY EntryFacts DEF NamedEntries
    <3>. QED
      BY <2>1, <3>1 DEF Dirs
  <2>7. \A f \in Fd : fd[f] # i
    <3>. SUFFICES ASSUME NEW f \in Fd, fd[f] = i PROVE FALSE
      OBVIOUS
    <3>1. f \in OpenFds
      BY ConstantTypes DEF OpenFds
    <3>2. inode[i].fileType = "r"
      BY <3>1 DEF IInv, FdLive
    <3>. QED
      BY <2>1, <3>1, <3>2
  <2>8. KindOf' = [KindOf EXCEPT ![i] = "none"]
    <3>1. KindOf = [j \in Inode |-> IF Live(j) THEN inode[j].fileType ELSE "none"]
      BY KindIs
    <3>2. KindOf' = [j \in Inode |-> IF Live(j)' THEN inode'[j].fileType ELSE "none"]
      BY <1>1, <2>1 DEF IInv, NoDanglingEntry, KindOf
    <3>. QED
      BY <2>1, <3>1, <3>2
  <2>. HIDE DEF b
  <2>9. NS!Unlink(b)
    BY <1>1, <2>3, <2>4, <2>5, <2>6, <2>7, <2>8 DEF NS!Unlink
  <2>. QED
    BY <2>3, <2>9 DEF NS!Next
<1>. QED
  BY <1>2, <1>3 DEF fs_remove

\* A link adds a name to a node.
LEMMA LinkRefines ==
    ASSUME IInv, ~torn, NamePrefix = {}, NEW src \in Paths, NEW dst \in Paths,
           fs_link(src, dst)
    PROVE  NS!Next
<1>1. PICK d \in Dirs, i \in Inode \ {Root} :
        IInv' /\ SameNodes /\ Live(i) /\ AddsName(d, basename(dst), i)
  BY LinkKeeps
<1>. DEFINE n == basename(dst)
<1>2. n \in Names /\ d \in Inode /\ KindOf[d] = "d" /\ KindOf[i] # "none"
  BY <1>1, NameTypes, KindFacts
<1>3. mounted /\ UNCHANGED <<fd, mounted, torn>>
  BY DEF fs_link
<1>4. NamedBindings' = NamedBindings \cup {<<d, n, i>>} /\ ~NS!IsBound(d, n)
  BY <1>1, AddedName
<1>5. KindOf' = KindOf
  BY <1>1, <1>3, KindKept
<1>. HIDE DEF n
<1>6. NS!Link(d, n, i)
  BY <1>2, <1>3, <1>4, <1>5 DEF NS!Link
<1>. QED
  BY <1>1, <1>2, <1>6 DEF NS!Next

\* A move gives a node a name in the place of another.
LEMMA MoveRefines ==
    ASSUME IInv, ~torn, NamePrefix = {}, NEW src \in Paths, NEW dst \in Paths,
           fs_move(src, dst)
    PROVE  NS!Next
<1>1. PICK r \in EntriesInUse, d \in Dirs :
        IInv' /\ SameNodes /\ MovesName(r, d, basename(dst))
  BY MoveRenameKeeps, MoveAcrossKeeps DEF fs_move
<1>. DEFINE n == basename(dst)
            b == BindingOf(r)
<1>2. n \in Names /\ d \in Inode /\ KindOf[d] = "d"
  BY <1>1, NameTypes, KindFacts
<1>3. mounted /\ UNCHANGED <<fd, mounted, torn>>
  BY DEF fs_move, fs_move_rename, fs_move_across, MoveChecked
<1>4. b \in NamedBindings /\ b[3] = NumberOf(r) /\ ~NS!IsBound(d, n)
  BY <1>1, MovedName DEF BindingOf
<1>5. NamedBindings' = (NamedBindings \ {b}) \cup {<<d, n, b[3]>>}
  BY <1>1, <1>4, MovedName
<1>6. KindOf' = KindOf
  BY <1>1, <1>3, KindKept
<1>. HIDE DEF n, b
<1>7. NS!Rename(b, d, n)
  BY <1>2, <1>3, <1>4, <1>5, <1>6 DEF NS!Rename
<1>. QED
  BY <1>2, <1>4, <1>7 DEF NS!Next

\* Every step from a state where no remove was torn is one of Namespace, or
\* changes no name, node or descriptor.
LEMMA StepRefines ==
    ASSUME IInv, ~torn, NamePrefix = {}, [Next]_vars
    PROVE  [NS!Next]_(NS!vars)
<1>1. CASE UNCHANGED vars
  <2>1. UNCHANGED <<inode, dblock, imap, fd, mounted>>
    BY <1>1 DEF vars
  <2>2. \A i : Live(i)' <=> Live(i)
    BY <2>1 DEF Live, Refs, EntriesInUse, Entry
  <2>3. KindOf' = KindOf
    BY <2>1, <2>2 DEF KindOf
  <2>4. NamedBindings' = NamedBindings
    BY <2>1 DEF NamedBindings, Bindings, EntriesInUse, Entry
  <2>. QED
    BY <2>1, <2>3, <2>4 DEF NS!vars
<1>2. CASE fs_format \/ fs_mount \/ fs_unmount
  BY <1>2, MountRefines
<1>3. ASSUME NEW p \in Paths, fs_create_file(p) \/ fs_create_dir(p)
      PROVE  NS!Next
  BY <1>3, CreateRefines
<1>4. ASSUME NEW p \in Paths, fs_create_no_block(p)
      PROVE  UNCHANGED NS!vars
  BY <1>4, CreateNoBlockRefines
<1>5. ASSUME NEW p \in Paths, fs_open(p) \/ fs_remove_busy(p)
      PROVE  [NS!Next]_(NS!vars)
  BY <1>5, DescriptorRefines
<1>6. ASSUME NEW p \in Paths,
             \/ fs_remove_dir(p) \/ fs_remove_dir_link(p)
             \/ fs_remove_file_link(p) \/ fs_remove_file(p)
      PROVE  NS!Next
  BY <1>6, RemoveRefines DEF fs_remove
<1>7. ASSUME NEW p \in Paths, NEW q \in Paths,
             fs_move_rename(p, q) \/ fs_move_across(p, q) \/ fs_link(p, q)
      PROVE  NS!Next
  BY <1>7, MoveRefines, LinkRefines DEF fs_move
<1>8. ASSUME NEW f \in Fd, fs_close(f)
      PROVE  [NS!Next]_(NS!vars)
  BY <1>8, DescriptorRefines
<1>9. ASSUME NEW f \in Fd, NEW k \in Order,
             fs_write_block(f, k) \/ fs_write_new_block(f, k)
      PROVE  UNCHANGED NS!vars
  BY <1>9, WriteRefines
<1>. QED
  BY <1>1, <1>2, <1>3, <1>4, <1>5, <1>6, <1>7, <1>8, <1>9 DEF Next, Bound, NotBound

\* F17FS implements Namespace as long as no remove was torn: every call adds,
\* drops or changes one name at most, no node goes while it has a name, and none
\* stays without one (the calls of F17FS.h:44-169).
THEOREM Implementation ==
    ASSUME NamePrefix = {}
    PROVE  Spec => ImplementsNamespace
<1>1. IInv /\ [Next]_vars => [~torn => [NS!Next]_(NS!vars)]_vars
  BY StepRefines
<1>. QED
  BY <1>1, InitRefines, Invariant, PTL DEF Spec, ImplementsNamespace

-----------------------------------------------------------------------------
(* The walk *)

\* The directories that the walk of q meets, up to the N-th.
IsWalk(w, q, N) ==
    w = [k \in 0 .. N |-> IF k = 0 THEN Root ELSE SearchStep(w[k - 1], q[k])]

\* There is a walk of any length: the least length without one would be one step
\* longer than a walk.
LEMMA WalkExists ==
    ASSUME NEW N \in Nat, NEW q
    PROVE  \E w : IsWalk(w, q, N)
<1>. DEFINE S == {k \in 0 .. N : ~ \E w : IsWalk(w, q, k)}
<1>. SUFFICES ASSUME S # {} PROVE FALSE
  OBVIOUS
<1>1. S \in SUBSET Nat
  OBVIOUS
<1>2. PICK m \in S : \A y \in S : m <= y
  BY <1>1, MinProperties
<1>3. m # 0
  <2>1. IsWalk([k \in 0 .. 0 |-> Root], q, 0)
    BY DEF IsWalk
  <2>. QED
    BY <2>1
<1>4. PICK w : IsWalk(w, q, m - 1)
  BY <1>2, <1>3
<1>. DEFINE v == [k \in 0 .. m |-> IF k = m THEN SearchStep(w[m - 1], q[m]) ELSE w[k]]
<1>5. \A k \in 0 .. (m - 1) :
        w[k] = IF k = 0 THEN Root ELSE SearchStep(w[k - 1], q[k])
  BY <1>4 DEF IsWalk
<1>6. \A k \in 0 .. m : v[k] = IF k = 0 THEN Root ELSE SearchStep(v[k - 1], q[k])
  <2>. SUFFICES ASSUME NEW k \in 0 .. m
                PROVE  v[k] = IF k = 0 THEN Root ELSE SearchStep(v[k - 1], q[k])
    OBVIOUS
  <2>1. CASE k = 0
    BY <2>1, <1>1, <1>2, <1>3, <1>5
  <2>2. CASE k # 0
    <3>1. v[k - 1] = w[k - 1]
      BY <2>2, <1>1, <1>2
    <3>2. v[k] = SearchStep(w[k - 1], q[k])
      BY <2>2, <1>1, <1>2, <1>5
    <3>. QED
      BY <2>2, <3>1, <3>2
  <2>. QED
    BY <2>1, <2>2
<1>7. IsWalk(v, q, m)
  BY <1>6 DEF IsWalk
<1>. QED
  BY <1>2, <1>7

\* What searchPath returns is the step after a walk of the path but its last name.
LEMMA SearchWalks ==
    ASSUME NEW q, Len(q) \in Nat, Len(q) # 0
    PROVE  \E w : /\ IsWalk(w, q, Len(q) - 1)
                  /\ searchPath(q) = SearchStep(w[Len(q) - 1], q[Len(q)])
<1>. DEFINE walk[k \in 0 .. (Len(q) - 1)] ==
              IF k = 0 THEN Root ELSE SearchStep(walk[k - 1], q[k])
<1>1. \E w : w = [k \in 0 .. (Len(q) - 1) |->
                    IF k = 0 THEN Root ELSE SearchStep(w[k - 1], q[k])]
  <2>1. Len(q) - 1 \in Nat
    OBVIOUS
  <2>2. \E w : IsWalk(w, q, Len(q) - 1)
    BY <2>1, WalkExists
  <2>. QED
    BY <2>2, Zenon DEF IsWalk
<1>2. walk = [k \in 0 .. (Len(q) - 1) |->
                IF k = 0 THEN Root ELSE SearchStep(walk[k - 1], q[k])]
  BY <1>1
<1>3. searchPath(q) = SearchStep(walk[Len(q) - 1], q[Len(q)])
  BY DEF searchPath
<1>. HIDE DEF walk
<1>. QED
  BY <1>2, <1>3 DEF IsWalk

\* Two walks by the same names meet the same directories.
SameNames(p, q, M) == \A k \in 1 .. M : p[k] = q[k]

LEMMA WalksAgree ==
    ASSUME NEW N \in Nat, NEW M \in Nat, M <= N, NEW q, NEW p,
           SameNames(p, q, M),
           NEW w, IsWalk(w, q, N), NEW v, IsWalk(v, p, M)
    PROVE  v[M] = w[M]
<1>. DEFINE S == {k \in 0 .. M : v[k] # w[k]}
<1>. SUFFICES ASSUME S # {} PROVE FALSE
  OBVIOUS
<1>1. S \in SUBSET Nat
  OBVIOUS
<1>2. PICK m \in S : \A y \in S : m <= y
  BY <1>1, MinProperties
<1>3. \A k \in 0 .. N : w[k] = IF k = 0 THEN Root ELSE SearchStep(w[k - 1], q[k])
  BY DEF IsWalk
<1>4. \A k \in 0 .. M : v[k] = IF k = 0 THEN Root ELSE SearchStep(v[k - 1], p[k])
  BY DEF IsWalk
<1>5. m \in 0 .. M /\ m \in 0 .. N /\ m # 0
  BY <1>3, <1>4
<1>6. v[m - 1] = w[m - 1]
  BY <1>2, <1>5
<1>. QED
  BY <1>3, <1>4, <1>5, <1>6 DEF SameNames

\* A path and the path of its directory.
Path == Seq(Names)

LEMMA PathFacts ==
    ASSUME NEW q \in Path, Len(q) # 0
    PROVE  /\ Len(q) \in Nat
           /\ dirname(q) \in Path
           /\ Len(dirname(q)) = Len(q) - 1
           /\ \A k \in 1 .. (Len(q) - 1) : dirname(q)[k] = q[k]
           /\ basename(q) \in Names
<1>1. Len(q) \in Nat /\ \A k \in 1 .. Len(q) : q[k] \in Names
  BY DEF Path
<1>2. \A k \in 1 .. (Len(q) - 1) : q[k] \in Names
  BY <1>1
<1>. PICK m : m = Len(q) - 1
  OBVIOUS
<1>. PICK p : p = SubSeq(q, 1, m)
  OBVIOUS
<1>3. m \in Int /\ m \in Nat /\ (IF 1 <= m THEN m - 1 + 1 ELSE 0) = m /\ m - 1 + 1 = m
  BY <1>1
<1>4. \A k \in 1 .. m : q[k] \in Names
  BY <1>2
<1>5. /\ p \in Seq(Names)
      /\ Len(p) = (IF 1 <= m THEN m - 1 + 1 ELSE 0)
      /\ \A k \in 1 .. (m - 1 + 1) : p[k] = q[1 + k - 1]
  BY <1>3, <1>4, SubSeqProperties
<1>6. \A k \in 1 .. m : p[k] = q[k]
  BY <1>3, <1>5
<1>7. dirname(q) = p
  BY DEF dirname
<1>8. basename(q) \in Names
  BY <1>1 DEF basename
<1>. QED
  BY <1>1, <1>3, <1>5, <1>6, <1>7, <1>8 DEF Path

\* What searchPath computes component by component: the search of a path is one
\* step from the search of the path of its directory.
SearchLaw ==
    \A q \in Path : \A d :
       d = searchPath(dirname(q)) =>
          searchPath(q) = IF Len(q) = 0 THEN Root ELSE SearchStep(d, basename(q))

LEMMA SearchIsSteps == SearchLaw
<1>. SUFFICES ASSUME NEW q \in Path
              PROVE  searchPath(q) = IF Len(q) = 0 THEN Root
                                     ELSE SearchStep(searchPath(dirname(q)), basename(q))
  BY DEF SearchLaw
<1>1. CASE Len(q) = 0
  BY <1>1 DEF searchPath
<1>2. CASE Len(q) # 0
  <2>. PICK p, N : p = dirname(q) /\ N = Len(q) - 1
    OBVIOUS
  <2>1. /\ Len(q) \in Nat /\ N \in Nat /\ Len(p) = N
        /\ \A k \in 1 .. N : p[k] = q[k]
        /\ q[Len(q)] = basename(q)
    BY <1>2, PathFacts DEF basename
  <2>2. PICK w : IsWalk(w, q, N) /\ searchPath(q) = SearchStep(w[N], q[Len(q)])
    BY <1>2, <2>1, SearchWalks
  <2>3. w[N] = searchPath(p)
    <3>1. \A k \in 0 .. N : w[k] = IF k = 0 THEN Root ELSE SearchStep(w[k - 1], q[k])
      BY <2>2 DEF IsWalk
    <3>2. CASE N = 0
      <4>1. w[0] = Root
        <5>1. 0 \in 0 .. N
          BY <3>2
        <5>. QED
          BY <3>1, <5>1, Zenon
      <4>2. searchPath(p) = Root
        BY <2>1, <3>2 DEF searchPath
      <4>. QED
        BY <3>2, <4>1, <4>2
    <3>3. CASE N # 0
      <4>. PICK M : M = N - 1
        OBVIOUS
      <4>1. PICK v : IsWalk(v, p, M) /\ searchPath(p) = SearchStep(v[M], p[N])
        BY <2>1, <3>3, SearchWalks
      <4>2. M \in Nat /\ M <= N
        BY <2>1, <3>3
      <4>3. SameNames(p, q, M)
        BY <2>1, <4>2 DEF SameNames
      <4>5. v[M] = w[M]
        BY <2>1, <2>2, <4>1, <4>2, <4>3, WalksAgree
      <4>4. w[N] = SearchStep(w[M], q[N])
        BY <2>1, <3>1, <3>3
      <4>6. p[N] = q[N]
        BY <2>1, <3>3
      <4>. QED
        BY <4>1, <4>4, <4>5, <4>6, Zenon
    <3>. QED
      BY <3>2, <3>3
  <2>. QED
    BY <1>2, <2>1, <2>2, <2>3
<1>. QED
  BY <1>1, <1>2

LEMMA SearchIsStepsNext == SearchLaw'
BY SearchIsSteps, PTL

-----------------------------------------------------------------------------
(* What a step of the walk means *)

\* A binding is an entry in use with a name, and its inode is named.
LEMMA BindingFacts ==
    ASSUME IInv, ~torn, NEW d, NEW n, NEW i, <<d, n, i>> \in NamedBindings
    PROVE  /\ d \in Dirs /\ n # NoName
           /\ i \in Inode /\ i # 0 /\ Live(i)
           /\ \E s \in inode[d].vacantFile :
                 Entry(d, s).filename = n /\ Entry(d, s).inodeNumber = i
<1>1. PICK r \in NamedEntries : <<d, n, i>> = BindingOf(r)
  BY NamedAre
<1>2. r \in EntriesInUse /\ d = r[1] /\ n = NameOf(r) /\ i = NumberOf(r) /\ n # NoName
  BY <1>1 DEF BindingOf, NamedEntries
<1>3. NumberOf(r) # 0
  BY <1>2 DEF IInv, Consistent, UsedSlotsNumbered
<1>. QED
  BY <1>2, <1>3, EntryFacts DEF NameOf, NumberOf

\* A slot in use with a name binds it.
LEMMA SlotBinds ==
    ASSUME IInv, ~torn, NEW d \in Dirs, NEW s \in inode[d].vacantFile,
           Entry(d, s).filename # NoName
    PROVE  <<d, Entry(d, s).filename, Entry(d, s).inodeNumber>> \in NamedBindings
<1>1. <<d, s>> \in EntriesInUse
  BY SlotIsEntry
<1>2. <<d, s>> \in NamedEntries
  BY <1>1 DEF NamedEntries, NameOf
<1>3. BindingOf(<<d, s>>) = <<d, Entry(d, s).filename, Entry(d, s).inodeNumber>>
  BY DEF BindingOf, NameOf, NumberOf
<1>. QED
  BY <1>2, <1>3, NamedAre

\* A name of a directory binds one inode.
LEMMA BindsOne ==
    ASSUME IInv, ~torn, NEW d, NEW n, NEW i, NEW j,
           <<d, n, i>> \in NamedBindings, <<d, n, j>> \in NamedBindings
    PROVE  i = j
<1>1. PICK r \in NamedEntries : <<d, n, i>> = BindingOf(r)
  BY NamedAre
<1>2. PICK q \in NamedEntries : <<d, n, j>> = BindingOf(q)
  BY NamedAre
<1>3. r[1] = q[1] /\ NameOf(r) = NameOf(q) /\ i = NumberOf(r) /\ j = NumberOf(q)
  BY <1>1, <1>2 DEF BindingOf
<1>4. r = q
  BY <1>3, BindingsApart
<1>. QED
  BY <1>3, <1>4

\* The name is in the listing of the directory (fs_get_dir).
Lists(d, n) == \E s \in inode[d].vacantFile : Entry(d, s).filename = n

\* A step of the walk finds the directory that the name binds, and getFileInodeID
\* what it binds, of any type.
Meaning ==
    /\ \A d, n, i : <<d, n, i>> \in NamedBindings =>
          d \in Dirs /\ i # 0 /\ Lists(d, n)
    /\ \A d : \A n \in Names :
          SearchStep(d, n) # SIZE_MAX =>
             /\ <<d, n, SearchStep(d, n)>> \in NamedBindings
             /\ inode[SearchStep(d, n)].fileType = "d"
    /\ \A d : \A n \in Names : \A i :
          <<d, n, i>> \in NamedBindings /\ inode[i].fileType = "d" => SearchStep(d, n) = i
    /\ \A d \in Dirs : \A n \in Names :
          getFileInodeID(d, n) # 0 => <<d, n, getFileInodeID(d, n)>> \in NamedBindings
    /\ \A d : \A n \in Names : \A i :
          <<d, n, i>> \in NamedBindings => getFileInodeID(d, n) = i

LEMMA LookupMeans ==
    ASSUME NamePrefix = {}, IInv, ~torn
    PROVE  Meaning
<1>1. ASSUME NEW d \in Inode, NEW n \in Names, inode[d].fileType = "d", SubDirs(d, n) # {}
      PROVE  /\ Max(SubDirs(d, n)) \in SubDirs(d, n)
             /\ Max(SubDirs(d, n)) \in inode[d].vacantFile
             /\ Entry(d, Max(SubDirs(d, n))).filename = n
             /\ inode[Entry(d, Max(SubDirs(d, n))).inodeNumber].fileType = "d"
  <2>1. inode[d] \in InodeRecord
    BY DEF IInv, TypeOK
  <2>2. SubDirs(d, n) \in SUBSET (0 .. (Dentries - 1)) /\ Dentries - 1 \in Nat
    BY <2>1, SizeAssumption DEF SubDirs, InodeRecord, Slot
  <2>3. Max(SubDirs(d, n)) \in SubDirs(d, n)
    BY <1>1, <2>2, MaxProperties
  <2>. QED
    BY <2>3 DEF SubDirs, Matches
<1>2. ASSUME NEW d, NEW n \in Names, SearchStep(d, n) # SIZE_MAX
      PROVE  /\ <<d, n, SearchStep(d, n)>> \in NamedBindings
             /\ inode[SearchStep(d, n)].fileType = "d"
  <2>1. d \in Inode /\ inode[d].fileType = "d" /\ SubDirs(d, n) # {}
    BY <1>2 DEF SearchStep
  <2>2. PICK s : s = Max(SubDirs(d, n))
    OBVIOUS
  <2>3. s \in inode[d].vacantFile /\ Entry(d, s).filename = n
    BY <1>1, <2>1, <2>2
  <2>4. d \in Dirs
    BY <2>1, <2>3 DEF IInv, Consistent, UnnamedDirsEmpty, Dirs
  <2>5. SearchStep(d, n) = Entry(d, s).inodeNumber
    BY <2>1, <2>2 DEF SearchStep
  <2>6. inode[SearchStep(d, n)].fileType = "d"
    BY <1>1, <2>1, <2>2, <2>5
  <2>. QED
    BY <2>3, <2>4, <2>5, <2>6, SlotBinds, NameAssumption
<1>3. ASSUME NEW d, NEW n \in Names, NEW i, <<d, n, i>> \in NamedBindings,
             inode[i].fileType = "d"
      PROVE  SearchStep(d, n) = i
  <2>1. PICK s \in inode[d].vacantFile :
          Entry(d, s).filename = n /\ Entry(d, s).inodeNumber = i
    BY <1>3, BindingFacts
  <2>2. s \in SubDirs(d, n) /\ d \in Inode /\ inode[d].fileType = "d"
    BY <1>3, <2>1, BindingFacts DEF SubDirs, Matches, Dirs
  <2>3. SearchStep(d, n) = Entry(d, Max(SubDirs(d, n))).inodeNumber
    BY <2>2 DEF SearchStep
  <2>4. SearchStep(d, n) \in Inode
    <3>1. Max(SubDirs(d, n)) \in Slot
      BY <1>1, <2>2 DEF IInv, TypeOK, InodeRecord
    <3>. QED
      BY <2>2, <2>3, <3>1, EntryType DEF IInv, Dentry
  <2>5. SearchStep(d, n) # SIZE_MAX
    BY <2>4, ConstantTypes DEF Inode
  <2>6. <<d, n, SearchStep(d, n)>> \in NamedBindings
    BY <1>2, <2>5
  <2>. QED
    BY <1>3, <2>6, BindsOne
<1>4. ASSUME NEW d \in Dirs, NEW n \in Names, Hits(d, n) # {}
      PROVE  <<d, n, getFileInodeID(d, n)>> \in NamedBindings
  <2>1. PICK s : s = Min(Hits(d, n))
    OBVIOUS
  <2>2. s \in Hits(d, n) /\ getFileInodeID(d, n) = Entry(d, s).inodeNumber
    BY <1>4, <2>1, HitType DEF IInv, Dirs
  <2>3. s \in inode[d].vacantFile /\ Entry(d, s).filename = n
    BY <2>2 DEF Hits, Matches
  <2>. QED
    BY <2>2, <2>3, SlotBinds, NameAssumption
<1>5. ASSUME NEW d \in Dirs, NEW n \in Names, getFileInodeID(d, n) # 0
      PROVE  <<d, n, getFileInodeID(d, n)>> \in NamedBindings
  BY <1>4, <1>5 DEF getFileInodeID
<1>6. ASSUME NEW d, NEW n \in Names, NEW i, <<d, n, i>> \in NamedBindings
      PROVE  getFileInodeID(d, n) = i
  <2>1. d \in Dirs /\ Hits(d, n) # {}
    BY <1>6, BindingFacts DEF Hits, Matches
  <2>2. <<d, n, getFileInodeID(d, n)>> \in NamedBindings
    BY <1>4, <2>1
  <2>. QED
    BY <1>6, <2>2, BindsOne
<1>7. ASSUME NEW d, NEW n, NEW i, <<d, n, i>> \in NamedBindings
      PROVE  d \in Dirs /\ i # 0 /\ Lists(d, n)
  BY <1>7, BindingFacts DEF Lists
<1>. QED
  BY <1>2, <1>3, <1>5, <1>6, <1>7 DEF Meaning

\* A path given by a caller is not empty.
LEMMA PathsArePaths ==
    ASSUME NEW p \in Paths
    PROVE  p \in Path /\ Len(p) # 0 /\ dirname(p) \in Path /\ basename(p) \in Names
<1>1. PICK n \in 1 .. MaxDepth : p \in [1 .. n -> Names]
  BY DEF Paths
<1>2. p \in Path /\ Len(p) # 0
  BY <1>1 DEF Path
<1>. QED
  BY <1>2, PathFacts

\* A path that resolves does so to what its last name binds in the directory its
\* walk ends at, and a path whose last name is bound there resolves.
PathMeaning ==
    \A p \in Path : \A d : Len(p) # 0 /\ d = searchPath(dirname(p)) =>
       /\ Resolve(p) # 0 =>
             /\ d # SIZE_MAX
             /\ <<d, basename(p), Resolve(p)>> \in NamedBindings
       /\ \A i : d # SIZE_MAX /\ <<d, basename(p), i>> \in NamedBindings => Resolve(p) = i

LEMMA PathMeans ==
    ASSUME NamePrefix = {}, IInv, ~torn
    PROVE  PathMeaning
<1>. SUFFICES ASSUME NEW p \in Path, NEW d, Len(p) # 0, d = searchPath(dirname(p))
              PROVE  /\ Resolve(p) # 0 =>
                          /\ d # SIZE_MAX
                          /\ <<d, basename(p), Resolve(p)>> \in NamedBindings
                     /\ \A i : d # SIZE_MAX /\ <<d, basename(p), i>> \in NamedBindings
                                  => Resolve(p) = i
  BY DEF PathMeaning
<1>1. basename(p) \in Names
  BY PathFacts
<1>2. ASSUME Resolve(p) # 0
      PROVE  d # SIZE_MAX /\ <<d, basename(p), Resolve(p)>> \in NamedBindings
  <2>1. d # SIZE_MAX /\ Resolve(p) = getFileInodeID(d, basename(p))
    BY <1>2 DEF Resolve
  <2>2. d \in Dirs
    BY <2>1, SearchFinds
  <2>. QED
    BY <1>1, <1>2, <2>1, <2>2, LookupMeans DEF Meaning
<1>3. ASSUME NEW i, d # SIZE_MAX, <<d, basename(p), i>> \in NamedBindings
      PROVE  Resolve(p) = i
  BY <1>1, <1>3, LookupMeans DEF Meaning, Resolve
<1>. QED
  BY <1>2, <1>3

\* The same of the next state.
LEMMA PathMeansNext ==
    ASSUME NamePrefix = {}
    PROVE  (IInv /\ ~torn => Meaning /\ PathMeaning)'
<1>1. IInv /\ ~torn => Meaning /\ PathMeaning
  BY LookupMeans, PathMeans
<1>. QED
  BY <1>1, PTL

-----------------------------------------------------------------------------
(* What a step of F17FS does to the walks *)

\* A walk that has left the tree does not come back.
LEMMA LostStays == \A n : SearchStep(SIZE_MAX, n) = SIZE_MAX
BY ConstantTypes DEF SearchStep, Inode

LEMMA LostStaysNext == (\A n : SearchStep(SIZE_MAX, n) = SIZE_MAX)'
BY LostStays, PTL

\* When every step of a walk that finds a directory still finds it afterwards,
\* so does every search.
LEMMA SearchesKept ==
    ASSUME \A d : \A n \in Names :
              SearchStep(d, n) # SIZE_MAX => SearchStep(d, n)' = SearchStep(d, n)
    PROVE  \A q \in Path : searchPath(q) # SIZE_MAX => searchPath(q)' = searchPath(q)
<1>. DEFINE Kept(q) == searchPath(q) # SIZE_MAX => searchPath(q)' = searchPath(q)
            S == {Len(q) : q \in {r \in Path : ~Kept(r)}}
<1>. SUFFICES ASSUME S # {} PROVE FALSE
  OBVIOUS
<1>1. S \in SUBSET Nat
  BY DEF Path
<1>2. PICK m \in S : \A y \in S : m <= y
  BY <1>1, MinProperties
<1>3. PICK q \in Path : Len(q) = m /\ searchPath(q) # SIZE_MAX /\ searchPath(q)' # searchPath(q)
  BY <1>2
<1>4. Len(q) # 0
  <2>. SUFFICES ASSUME Len(q) = 0 PROVE FALSE
    OBVIOUS
  <2>. QED
    BY <1>3 DEF searchPath, Root
<1>5. PICK p, n : p = dirname(q) /\ n = basename(q)
  OBVIOUS
<1>6. p \in Path /\ n \in Names /\ Len(p) < m
  BY <1>1, <1>2, <1>3, <1>4, <1>5, PathFacts
<1>7. Kept(p)
  <2>. SUFFICES ASSUME ~Kept(p) PROVE FALSE
    OBVIOUS
  <2>1. Len(p) \in S
    BY <1>6
  <2>. QED
    BY <1>1, <1>2, <1>6, <2>1
<1>8. PICK d : d = searchPath(p)
  OBVIOUS
<1>9. searchPath(q) = SearchStep(d, n)
  BY <1>4, <1>5, <1>8, SearchIsSteps DEF SearchLaw
<1>10. d # SIZE_MAX
  BY <1>3, <1>9, LostStays
<1>11. searchPath(p)' = d
  BY <1>7, <1>8, <1>10
<1>12. searchPath(q)' = SearchStep(d, n)'
  BY <1>4, <1>5, <1>11, SearchIsStepsNext DEF SearchLaw
<1>. QED
  BY <1>3, <1>6, <1>9, <1>12

\* When every step of a walk finds afterwards what it found, or nothing, so does
\* every search.
LEMMA SearchesDrop ==
    ASSUME \A d : \A n \in Names :
              SearchStep(d, n)' # SIZE_MAX => SearchStep(d, n)' = SearchStep(d, n)
    PROVE  \A q \in Path : searchPath(q)' # SIZE_MAX => searchPath(q)' = searchPath(q)
<1>. DEFINE Kept(q) == searchPath(q)' # SIZE_MAX => searchPath(q)' = searchPath(q)
            S == {Len(q) : q \in {r \in Path : ~Kept(r)}}
<1>. SUFFICES ASSUME S # {} PROVE FALSE
  OBVIOUS
<1>1. S \in SUBSET Nat
  BY DEF Path
<1>2. PICK m \in S : \A y \in S : m <= y
  BY <1>1, MinProperties
<1>3. PICK q \in Path : Len(q) = m /\ searchPath(q)' # SIZE_MAX /\ searchPath(q)' # searchPath(q)
  BY <1>2
<1>4. Len(q) # 0
  <2>. SUFFICES ASSUME Len(q) = 0 PROVE FALSE
    OBVIOUS
  <2>. QED
    BY <1>3 DEF searchPath, Root
<1>5. PICK p, n : p = dirname(q) /\ n = basename(q)
  OBVIOUS
<1>6. p \in Path /\ n \in Names /\ Len(p) < m
  BY <1>1, <1>2, <1>3, <1>4, <1>5, PathFacts
<1>7. Kept(p)
  <2>. SUFFICES ASSUME ~Kept(p) PROVE FALSE
    OBVIOUS
  <2>1. Len(p) \in S
    BY <1>6
  <2>. QED
    BY <1>1, <1>2, <1>6, <2>1
<1>8. PICK d : d = searchPath(p)'
  OBVIOUS
<1>9. searchPath(q)' = SearchStep(d, n)'
  BY <1>4, <1>5, <1>8, SearchIsStepsNext DEF SearchLaw
<1>10. d # SIZE_MAX
  BY <1>3, <1>9, LostStaysNext
<1>11. searchPath(p) = d
  BY <1>7, <1>8, <1>10
<1>12. searchPath(q) = SearchStep(d, n)
  BY <1>4, <1>5, <1>11, SearchIsSteps DEF SearchLaw
<1>. QED
  BY <1>3, <1>6, <1>9, <1>12

-----------------------------------------------------------------------------
(* What a call does to the paths *)

\* The step changes the type of nothing that has a name.
TypesKept == \A i \in Inode : Live(i) => inode'[i].fileType = inode[i].fileType

\* Every call but a format keeps the types.
LEMMA CallsKeepTypes ==
    ASSUME IInv, NamePrefix = {}, Next, ~torn, ~fs_format
    PROVE  TypesKept
<1>1. SameNodes => TypesKept
  BY DEF SameNodes, TypesKept
<1>2. inode' = inode => TypesKept
  BY DEF TypesKept
<1>3. CASE fs_mount \/ fs_unmount
  BY <1>2, <1>3 DEF fs_mount, fs_unmount
<1>4. ASSUME NEW p \in Paths, fs_create_file(p) \/ fs_create_dir(p) PROVE TypesKept
  <2>1. PICK i \in Inode : /\ ~Live(i)
                           /\ \A j \in Inode \ {i} : inode'[j].fileType = inode[j].fileType
    BY <1>4, CreateFileKeeps, CreateDirKeeps
  <2>. QED
    BY <2>1 DEF TypesKept
<1>5. ASSUME NEW p \in Paths, fs_create_no_block(p) \/ fs_open(p) \/ fs_remove_busy(p)
      PROVE  TypesKept
  BY <1>2, <1>5 DEF fs_create_no_block, fs_open, fs_remove_busy
<1>6. ASSUME NEW p \in Paths, fs_remove_dir(p) \/ fs_remove_file(p) PROVE TypesKept
  <2>1. \A j \in Inode : inode'[j].fileType = inode[j].fileType
    BY <1>6, RemoveDirKeeps, RemoveFileKeeps
  <2>. QED
    BY <2>1 DEF TypesKept
<1>7. ASSUME NEW p \in Paths, fs_remove_dir_link(p) \/ fs_remove_file_link(p)
      PROVE  TypesKept
  BY <1>1, <1>7, RemoveDirLinkKeeps, RemoveFileLinkKeeps
<1>8. ASSUME NEW p \in Paths, NEW q \in Paths,
             fs_move_rename(p, q) \/ fs_move_across(p, q) \/ fs_link(p, q)
      PROVE  TypesKept
  BY <1>1, <1>8, MoveRenameKeeps, MoveAcrossKeeps, LinkKeeps
<1>9. ASSUME NEW f \in Fd, fs_close(f) PROVE TypesKept
  BY <1>2, <1>9 DEF fs_close
<1>10. ASSUME NEW f \in Fd, NEW k \in Order,
              fs_write_block(f, k) \/ fs_write_new_block(f, k)
       PROVE  TypesKept
  BY <1>1, <1>10, WriteBlockKeeps, WriteNewBlockKeeps
<1>. QED
  BY <1>3, <1>4, <1>5, <1>6, <1>7, <1>8, <1>9, <1>10 DEF Next, Bound, NotBound

\* When no binding goes, and what has a name keeps its type, a path that resolves
\* resolves as before.
LEMMA BoundStays ==
    ASSUME NamePrefix = {}, IInv, ~torn, IInv', ~torn', TypesKept,
           NamedBindings \subseteq NamedBindings'
    PROVE  /\ \A q \in Path : searchPath(q) # SIZE_MAX => searchPath(q)' = searchPath(q)
           /\ \A p \in Paths : Resolve(p) # 0 => Resolve(p)' = Resolve(p)
<1>1. Meaning /\ PathMeaning /\ Meaning' /\ PathMeaning'
  BY LookupMeans, PathMeans, PathMeansNext
<1>2. ASSUME NEW d, NEW n \in Names, SearchStep(d, n) # SIZE_MAX
      PROVE  SearchStep(d, n)' = SearchStep(d, n)
  <2>1. PICK e : e = SearchStep(d, n)
    OBVIOUS
  <2>2. <<d, n, e>> \in NamedBindings /\ inode[e].fileType = "d"
    BY <1>1, <1>2, <2>1 DEF Meaning
  <2>3. <<d, n, e>> \in NamedBindings' /\ inode'[e].fileType = "d"
    BY <2>2, BindingFacts DEF TypesKept
  <2>4. SearchStep(d, n)' = e
    BY <1>1, <2>3 DEF Meaning
  <2>. QED
    BY <2>1, <2>4
<1>3. \A q \in Path : searchPath(q) # SIZE_MAX => searchPath(q)' = searchPath(q)
  BY <1>2, SearchesKept
<1>4. ASSUME NEW p \in Paths, Resolve(p) # 0
      PROVE  Resolve(p)' = Resolve(p)
  <2>1. PICK d, i : d = searchPath(dirname(p)) /\ i = Resolve(p)
    OBVIOUS
  <2>2. d # SIZE_MAX /\ <<d, basename(p), i>> \in NamedBindings
    BY <1>1, <1>4, <2>1, PathsArePaths DEF PathMeaning
  <2>3. searchPath(dirname(p))' = d
    BY <1>3, <2>1, <2>2, PathsArePaths
  <2>4. <<d, basename(p), i>> \in NamedBindings'
    BY <2>2
  <2>5. Resolve(p)' = i
    BY <1>1, <2>2, <2>3, <2>4, PathsArePaths DEF PathMeaning
  <2>. QED
    BY <2>1, <2>5
<1>. QED
  BY <1>3, <1>4

\* The next state of a step that changes records or blocks is one where no remove
\* was torn.
LEMMA WholeStays ==
    ASSUME IInv, ~torn, Next, <<inode, dblock>>' # <<inode, dblock>>
    PROVE  ~torn'
<1>1. ASSUME NEW p \in Paths, fs_remove_busy(p) PROVE FALSE
  BY <1>1 DEF fs_remove_busy
<1>2. CASE torn' = torn \/ torn' = FALSE
  BY <1>2
<1>. QED
  BY <1>1, <1>2, ZenonT(30) DEF Next, Bound, NotBound, fs_format, fs_mount, fs_unmount,
     fs_create_file, fs_create_dir, fs_create_no_block, fs_open, fs_remove_dir,
     fs_remove_dir_link, fs_remove_file_link, fs_remove_file, fs_move_rename,
     fs_move_across, fs_link, fs_close, fs_write_block, fs_write_new_block

\* A step that drops no entry changes what no path means.
LEMMA StepKeepsPaths ==
    ASSUME IInv, NamePrefix = {}, Next, ~torn, Bindings \subseteq Bindings',
           <<inode, dblock>>' # <<inode, dblock>>,
           NEW p \in Paths, Resolve(p) # 0
    PROVE  Resolve(p)' = Resolve(p)
<1>1. IInv' /\ ~torn'
  BY StepInvariant, WholeStays
<1>2. NamedBindings \subseteq NamedBindings'
  BY DEF NamedBindings
<1>3. CASE fs_format
  <2>1. NamedBindings' = {}
    BY <1>3 DEF fs_format, FreshTable, DirRecord, ZeroInode, NamedBindings, Bindings,
       EntriesInUse
  <2>2. \E d : <<d, basename(p), Resolve(p)>> \in NamedBindings
    BY PathMeans, PathsArePaths DEF PathMeaning
  <2>. QED
    BY <1>2, <2>1, <2>2
<1>4. CASE ~fs_format
  <2>1. TypesKept
    BY <1>4, CallsKeepTypes
  <2>. QED
    BY <1>1, <1>2, <2>1, BoundStays
<1>. QED
  BY <1>3, <1>4

\* A name added by create, link or move shadows no other: a step that drops no
\* entry changes the meaning of no path that names something, however long the
\* path, and through whatever links its walk goes (searchPath, F17FS.c:197-262).
THEOREM PathsStable ==
    ASSUME NamePrefix = {}
    PROVE  Spec => ResolutionStable
<1>1. IInv /\ [Next]_vars =>
        [~torn /\ Bindings \subseteq Bindings' =>
           \A r \in Paths : Resolve(r) # 0 => Resolve(r)' = Resolve(r)]_<<inode, dblock>>
  <2>. SUFFICES ASSUME IInv, [Next]_vars, <<inode, dblock>>' # <<inode, dblock>>,
                       ~torn, Bindings \subseteq Bindings',
                       NEW r \in Paths, Resolve(r) # 0
                PROVE  Resolve(r)' = Resolve(r)
    OBVIOUS
  <2>1. Next
    BY DEF vars
  <2>. QED
    BY <2>1, StepKeepsPaths
<1>. QED
  BY <1>1, Invariant, PTL DEF Spec, ResolutionStable

\* What was created is listed where its path says, and found there.
LEMMA CreateLists ==
    ASSUME IInv, NamePrefix = {}, ~torn, NEW p \in Paths, fs_create(p)
    PROVE  basename(p) \in fs_get_dir(dirname(p))' /\ Resolve(p)' # 0
<1>1. PICK d \in Dirs, i \in Inode :
        /\ IInv' /\ d = searchPath(dirname(p)) /\ ~Live(i)
        /\ AddsName(d, basename(p), i)
        /\ \A j \in Inode \ {i} : inode'[j].fileType = inode[j].fileType
  BY CreateFileKeeps, CreateDirKeeps DEF fs_create
<1>2. TypesKept /\ ~torn'
  BY <1>1 DEF TypesKept, fs_create, fs_create_file, fs_create_dir
<1>. PICK n, q : n = basename(p) /\ q = dirname(p)
  OBVIOUS
<1>3. q \in Path /\ p \in Path /\ Len(p) # 0 /\ n \in Names
  BY PathsArePaths
<1>4. NamedBindings' = NamedBindings \cup {<<d, n, i>>}
  BY <1>1, AddedName
<1>5. Meaning' /\ PathMeaning'
  BY <1>1, <1>2, PathMeansNext
<1>6. d # SIZE_MAX
  BY <1>1, ConstantTypes DEF Dirs, Inode
<1>7. searchPath(q)' = d
  BY <1>1, <1>2, <1>3, <1>4, <1>6, BoundStays
<1>8. i # 0 /\ Resolve(p)' = i
  BY <1>3, <1>4, <1>5, <1>6, <1>7 DEF Meaning, PathMeaning
<1>9. <<d, n, i>> \in NamedBindings'
  BY <1>4
<1>10. d \in Dirs' /\ Lists(d, n)'
  BY <1>5, <1>9 DEF Meaning
<1>11. inode'[d].fileType = "d"
  BY <1>10 DEF Dirs
<1>12. Len(q) # 0 => d # 0 /\ Resolve(q)' = d
  <2>. SUFFICES ASSUME Len(q) # 0 PROVE d # 0 /\ Resolve(q)' = d
    OBVIOUS
  <2>. PICK x, m : x = searchPath(dirname(q))' /\ m = basename(q)
    OBVIOUS
  <2>1. d = SearchStep(x, m)'
    BY <1>3, <1>7, SearchIsStepsNext DEF SearchLaw
  <2>2. x # SIZE_MAX
    BY <1>6, <2>1, LostStaysNext
  <2>3. m \in Names
    BY <1>3, PathFacts
  <2>4. <<x, m, d>> \in NamedBindings'
    BY <1>5, <1>6, <2>1, <2>3 DEF Meaning
  <2>5. d # 0
    BY <1>5, <2>4 DEF Meaning
  <2>6. Resolve(q)' = d
    BY <1>3, <1>5, <2>2, <2>4 DEF PathMeaning
  <2>. QED
    BY <2>5, <2>6
<1>13. Len(q) = 0 => d = Root
  BY <1>7 DEF searchPath
<1>14. Len(q) \in Nat
  BY <1>3 DEF Path
<1>15. fs_get_dir(q)' = {Entry(d, s)'.filename : s \in inode'[d].vacantFile}
  <2>1. CASE Len(q) = 0
    BY <1>11, <1>13, <2>1 DEF fs_get_dir
  <2>2. CASE Len(q) # 0
    BY <1>11, <1>12, <1>14, <2>2 DEF fs_get_dir
  <2>. QED
    BY <2>1, <2>2
<1>16. n \in {Entry(d, s)'.filename : s \in inode'[d].vacantFile}
  BY <1>10 DEF Lists
<1>. QED
  BY <1>8, <1>15, <1>16

\* A remove drops the binding of its path and no other.
LEMMA RemoveDrops ==
    ASSUME IInv, NamePrefix = {}, ~torn, NEW p \in Paths, fs_remove(p)
    PROVE  Resolve(p)' = 0 /\ Cardinality(Bindings \ Bindings') = 1
<1>1. PICK i \in Inode : \E x \in Refs(i) : 
        IInv' /\ TypesKept /\ EntryOf(x, p) /\ DropsName(x)
  BY RemoveDirKeeps, RemoveDirLinkKeeps, RemoveFileKeeps, RemoveFileLinkKeeps
     DEF fs_remove, TypesKept, SameNodes
<1>2. PICK r \in Refs(i) : IInv' /\ TypesKept /\ EntryOf(r, p) /\ DropsName(r)
  BY <1>1
<1>3. ~torn'
  BY DEF fs_remove, fs_remove_dir, fs_remove_dir_link, fs_remove_file_link, fs_remove_file
<1>. PICK b, d, n : b = BindingOf(r) /\ d = searchPath(dirname(p)) /\ n = basename(p)
  OBVIOUS
<1>4. b[1] = d /\ b[2] = n /\ b = <<d, n, NumberOf(r)>>
  BY <1>2 DEF BindingOf, EntryOf
<1>5. b \in NamedBindings /\ NamedBindings' = NamedBindings \ {b}
  BY <1>2, DroppedName
<1>6. Meaning /\ PathMeaning /\ Meaning' /\ PathMeaning'
  BY <1>2, <1>3, LookupMeans, PathMeans, PathMeansNext
<1>7. ASSUME NEW e, NEW m \in Names, SearchStep(e, m)' # SIZE_MAX
      PROVE  SearchStep(e, m)' = SearchStep(e, m)
  <2>1. PICK x : x = SearchStep(e, m)'
    OBVIOUS
  <2>2. <<e, m, x>> \in NamedBindings' /\ inode'[x].fileType = "d"
    BY <1>6, <1>7, <2>1 DEF Meaning
  <2>3. <<e, m, x>> \in NamedBindings
    BY <1>5, <2>2
  <2>4. inode[x].fileType = "d"
    BY <1>2, <2>2, <2>3, BindingFacts DEF TypesKept
  <2>5. SearchStep(e, m) = x
    BY <1>6, <2>3, <2>4 DEF Meaning
  <2>. QED
    BY <2>1, <2>5
<1>8. \A q \in Path : searchPath(q)' # SIZE_MAX => searchPath(q)' = searchPath(q)
  BY <1>7, SearchesDrop
<1>9. Resolve(p)' = 0
  <2>. SUFFICES ASSUME Resolve(p)' # 0 PROVE FALSE
    OBVIOUS
  <2>1. PICK x, j : x = searchPath(dirname(p))' /\ j = Resolve(p)'
    OBVIOUS
  <2>2. x # SIZE_MAX /\ <<x, n, j>> \in NamedBindings'
    BY <1>6, <2>1, PathsArePaths DEF PathMeaning
  <2>3. x = d
    BY <1>8, <2>1, <2>2, PathsArePaths
  <2>4. <<d, n, j>> \in NamedBindings /\ <<d, n, j>> # b
    BY <1>5, <2>2, <2>3
  <2>. QED
    BY <1>4, <1>5, <2>4, BindsOne
<1>10. Bindings \ Bindings' = {b}
  <2>1. Bindings = {BindingOf(q) : q \in EntriesInUse}
    BY DEF Bindings, BindingOf, NameOf, NumberOf
  <2>2. Bindings' = {BindingOf(q)' : q \in EntriesInUse'}
    BY DEF Bindings, BindingOf, NameOf, NumberOf
  <2>3. b \in Bindings /\ b \notin Bindings'
    BY <1>5 DEF NamedBindings
  <2>4. ASSUME NEW q \in EntriesInUse, q # r PROVE BindingOf(q) \in Bindings'
    <3>1. q \in EntriesInUse' /\ NameOf(q)' = NameOf(q) /\ NumberOf(q)' = NumberOf(q)
      <4>1. PICK In : (In = {} \/ In = {r}) /\ Effect({r}, In)
        BY <1>2 DEF DropsName, CleanEffect
      <4>2. q \notin {r} \cup In
        BY <2>4, <4>1
      <4>. QED
        BY <4>1, <4>2, EffectKeeps
    <3>2. BindingOf(q)' = BindingOf(q)
      BY <3>1 DEF BindingOf
    <3>. QED
      BY <2>2, <3>1, <3>2
  <2>. QED
    BY <2>1, <2>3, <2>4
<1>. QED
  BY <1>9, <1>10, FS_Singleton

\* What fs_create made is in the listing of the directory that its path names,
\* and the path resolves to it (F17FS.h:76).
THEOREM CreatedIsListed ==
    ASSUME NamePrefix = {}
    PROVE  Spec => CreateListed
<1>1. IInv => [\A p \in Paths : ~torn /\ fs_create(p) =>
                 /\ basename(p) \in fs_get_dir(dirname(p))'
                 /\ Resolve(p)' # 0]_imap
  BY CreateLists
<1>. QED
  BY <1>1, Invariant, PTL DEF Spec, CreateListed

\* A successful remove unbinds the path it was given, and that entry only.
THEOREM RemovedIsUnbound ==
    ASSUME NamePrefix = {}
    PROVE  Spec => RemoveUnbinds
<1>1. IInv => [imap' \subseteq imap =>
                 \A p \in Paths : ~torn /\ Resolve(p) # 0 /\ fs_remove(p) =>
                    /\ Resolve(p)' = 0
                    /\ Cardinality(Bindings \ Bindings') = 1]_inode
  BY RemoveDrops
<1>. QED
  BY <1>1, Invariant, PTL DEF Spec, RemoveUnbinds
=============================================================================
