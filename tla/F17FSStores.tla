---------------------------- MODULE F17FSStores ----------------------------
(***************************************************************************)
(* The calls of F17FS.c as the stores they make.  The volume is a file     *)
(* mapped into memory and shared (block_store.c:62), so every store of a   *)
(* call survives the process that made it: a process that dies inside a    *)
(* call leaves the volume with some first stores of the call and without   *)
(* the others, and the next fs_mount takes it as it is.                    *)
(*                                                                         *)
(* A call reads the copies it works on before its first store to what they *)
(* were read from, so that what it will store is known when it begins: a   *)
(* call begins by making the list of its stores, in the order of the code, *)
(* and then makes them one by one.  The guards are those of the actions of *)
(* F17FS.  A store of a record or of a block (a memcpy) is one step, and   *)
(* the many stores of fs_format are one step: nothing is on the volume     *)
(* before it returns.                                                      *)
(***************************************************************************)
EXTENDS F17FS

CONSTANT MaxCrashes     \* bound: crashes of a behavior

ASSUME CrashAssumption == MaxCrashes \in Nat

VARIABLES
    todo,       \* the stores the call in progress has still to make
    atRisk,     \* the inode that a remove or a move in progress works on, or None
    harmed,     \* the inodes that were at risk when a call on them was cut off
    crashes     \* how many crashes there were

storesVars == <<vars, todo, atRisk, harmed, crashes>>

None == -1

\* A store of one bit of a map, of a record of the inode table, of a block.
Mark(map, n)      == [to |-> map, at |-> n, bit |-> TRUE]
Clear(map, n)     == [to |-> map, at |-> n, bit |-> FALSE]
PutInode(i, r)    == [to |-> "inode", at |-> i, value |-> r]
PutBlock(b, c)    == [to |-> "dblock", at |-> b, value |-> c]

Volume == [fbm |-> fbm, imap |-> imap, inode |-> inode, dblock |-> dblock]

Stored(v, s) ==
    CASE s.to \in {"fbm", "imap"} ->
           [v EXCEPT ![s.to] = IF s.bit THEN bitmap_set(@, s.at)
                                        ELSE bitmap_reset(@, s.at)]
      [] OTHER -> [v EXCEPT ![s.to][s.at] = s.value]

\* The volume when the call in progress returns.
AllStored ==
    LET after[k \in 0 .. Len(todo)] ==
            IF k = 0 THEN Volume ELSE Stored(after[k - 1], todo[k])
    IN  after[Len(todo)]

-----------------------------------------------------------------------------
(* The stores of each call, in the order of the code *)

\* The directory d's block with an entry for inode i in slot s.
BlockWithEntry(d, s, n, i) ==
    PutBlock(inode[d].directPointer[0],
             [dblock[inode[d].directPointer[0]] EXCEPT
                 ![s] = [filename |-> n, inodeNumber |-> i]])

EntryStores(d, s, n, i) ==
    << PutInode(d, SetBit(inode[d], s)), BlockWithEntry(d, s, n, i) >>

CreateFileStores(d, n) ==
    << Mark("imap", FreeInode),
       PutInode(FreeInode, [ZeroInode EXCEPT !.fileType = "r", !.linkCount = 1]) >>
    \o EntryStores(d, FreeSlot(d), n, FreeInode)

CreateDirStores(d, n) ==
    << Mark("imap", FreeInode),
       Mark("fbm", FreeBlock),
       PutBlock(FreeBlock, ZeroBlock),
       PutInode(FreeInode, DirRecord(FreeBlock)) >>
    \o EntryStores(d, FreeSlot(d), n, FreeInode)

NewBlockStores(i, k) ==
    << Mark("fbm", FreeBlock),
       PutInode(i, [inode[i] EXCEPT !.directPointer[k] = FreeBlock]),
       PutBlock(FreeBlock, ZeroBlock) >>

\* The parent directory d after the entries in its slots S are gone.
WithoutEntriesStore(d, S) ==
    PutBlock(inode[d].directPointer[0], WithoutEntries(d, S)[inode[d].directPointer[0]])

WithoutInodesStore(d, S) ==
    PutBlock(inode[d].directPointer[0], WithoutInodes(d, S)[inode[d].directPointer[0]])

\* Mutant: the directory's block is released before its entry is cleared.
ReleaseFirstStores(d, i, S) ==
    << Clear("fbm", inode[i].directPointer[0]),
       PutInode(d, ClearBit(inode[d], S)),
       WithoutEntriesStore(d, S),
       Clear("imap", i) >>

RemoveDirStores(d, i, S) ==
    << PutInode(d, ClearBit(inode[d], S)),
       WithoutEntriesStore(d, S),
       Clear("fbm", inode[i].directPointer[0]),
       Clear("imap", i) >>

RemoveDirLinkStores(d, i, S) ==
    << PutInode(d, ClearBit(inode[d], S)),
       WithoutEntriesStore(d, S),
       PutInode(i, Unlinked(i)) >>

RemoveFileLinkStores(d, i, S) ==
    << PutInode(i, Unlinked(i)),
       WithoutInodesStore(d, S),
       PutInode(d, ClearBit(inode[d], S)) >>

\* The blocks are released one by one, in the order of the pointers; the turns
\* of the loop for the other pointers clear nothing.
ReleaseStores(i) ==
    [k \in 1 .. DirectBlocks |->
        LET b == inode[i].directPointer[k - 1]
        IN  Clear("fbm", IF b \in HeldBlocks(i) THEN b ELSE None)]

RemoveFileStores(d, i, S) ==
    ReleaseStores(i)
    \o << Clear("imap", i),
          WithoutInodesStore(d, S),
          PutInode(d, ClearBit(inode[d], S)) >>

MoveAcrossStores(d, e, s, t, n, i) ==
    << BlockWithEntry(e, t, n, i),
       PutBlock(inode[d].directPointer[0],
                [dblock[inode[d].directPointer[0]] EXCEPT ![s] = NoEntry]),
       PutInode(e, SetBit(inode[e], t)),
       PutInode(d, ClearBit(inode[d], {s})) >>

\* Mutants: the link is counted after its entry is there; the second store of
\* a directory linked into itself has only one of the two changes.
CountLastStores(d, s, n, i) ==
    EntryStores(d, s, n, i) \o << PutInode(i, Linked(inode[i])) >>

StaleLinkStores(d, s, n, i) ==
    << PutInode(i, Linked(inode[i])) >> \o EntryStores(d, s, n, i)

LinkStores(d, s, n, i) ==
    << PutInode(i, Linked(inode[i])),
       PutInode(d, SetBit(IF i = d THEN Linked(inode[d]) ELSE inode[d], s)),
       BlockWithEntry(d, s, n, i) >>

-----------------------------------------------------------------------------
(* The calls begin *)

Begin(stores) ==
    /\ todo' = stores
    /\ atRisk' = None
    /\ UNCHANGED <<vars, harmed, crashes>>

\* A call that takes the file i, or a name of it, apart: a crash inside it may
\* leave that inode named with its blocks or itself released, with too few links
\* counted, or with a second, stale entry.
BeginAtRisk(i, stores) ==
    /\ todo' = stores
    /\ atRisk' = i
    /\ UNCHANGED <<vars, harmed, crashes>>

begin_create_file(p) ==
    /\ CreateChecked(p)
    /\ Begin(CreateFileStores(searchPath(dirname(p)), basename(p)))

begin_create_dir(p) ==
    /\ CreateChecked(p)
    /\ Begin(IF FreeBlock = SIZE_MAX THEN << Mark("imap", FreeInode) >>
             ELSE CreateDirStores(searchPath(dirname(p)), basename(p)))

begin_write(f, k) ==
    LET i == fd[f]
        b == inode[i].directPointer[k]
    IN  /\ f \in OpenFds
        /\ AtPosition(i, k)
        /\ \/ /\ b # 0
              /\ bitmap_test(fbm, b)
              /\ Begin(<< PutBlock(b, ZeroBlock) >>)
           \/ /\ b = 0
              /\ FreeBlock # SIZE_MAX
              /\ Begin(NewBlockStores(i, k))

begin_remove_dir(p) ==
    LET d == searchPath(dirname(p))
        i == Resolve(p)
        S == ExactSlot(d, basename(p))
    IN  /\ RemoveChecked(p, "d")
        /\ inode[i].vacantFile = {} \/ inode[i].linkCount > 1
        /\ Begin(IF inode[i].linkCount > 1 THEN RemoveDirLinkStores(d, i, S)
                 ELSE RemoveDirStores(d, i, S))

begin_remove_file(p) ==
    LET d == searchPath(dirname(p))
        i == Resolve(p)
        S == ExactSlot(d, basename(p))
    IN  /\ RemoveChecked(p, "r")
        /\ inode[i].linkCount > 1 \/ NoFdOpen
        /\ BeginAtRisk(i, IF inode[i].linkCount > 1 THEN RemoveFileLinkStores(d, i, S)
                           ELSE RemoveFileStores(d, i, S))

\* Return -7, after the blocks were released; the descriptors are in memory,
\* and what the call does to them cannot be seen before it returns.
begin_remove_busy(p) ==
    LET i == Resolve(p)
        f == Min(OpenFds)
    IN  /\ RemoveChecked(p, "r")
        /\ inode[i].linkCount <= 1
        /\ ~NoFdOpen
        /\ todo' = ReleaseStores(i)
        /\ fd' = IF fd[f] = i THEN [fd EXCEPT ![f] = Closed] ELSE fd
        /\ torn' = (torn \/ HeldBlocks(i) # {})
        /\ UNCHANGED <<fbm, imap, inode, dblock, mounted, atRisk, harmed, crashes>>

begin_move(src, dst) ==
    LET d == searchPath(dirname(src))
        e == searchPath(dirname(dst))
        i == Resolve(src)
        b == inode[d].directPointer[0]
        S == {s \in Slot : Entry(d, s) = [filename |-> basename(src), inodeNumber |-> i]}
    IN  /\ MoveChecked(src, dst)
        /\ \/ /\ d = e
              /\ S # {}
              /\ Begin(<< PutBlock(b, [dblock[b] EXCEPT ![Min(S)].filename = basename(dst)]) >>)
           \/ /\ d # e
              /\ FreeSlot(e) # SIZE_MAX
              /\ BeginAtRisk(i, MoveAcrossStores(d, e,
                                   Min({x \in Slot : Entry(d, x).inodeNumber = i}),
                                   FreeSlot(e), basename(dst), i))

begin_link(src, dst) ==
    LET d == searchPath(dirname(dst))
        i == Resolve(src)
    IN  /\ i # 0
        /\ inode[i].linkCount < MaxLink
        /\ d # SIZE_MAX
        /\ FreeSlot(d) # SIZE_MAX
        /\ Unbound(dst)
        /\ Begin(LinkStores(d, FreeSlot(d), basename(dst), i))

-----------------------------------------------------------------------------
\* The next store of the call in progress.
Store ==
    /\ todo # <<>>
    /\ LET v == Stored(Volume, Head(todo))
       IN  /\ fbm' = v.fbm
           /\ imap' = v.imap
           /\ inode' = v.inode
           /\ dblock' = v.dblock
    /\ todo' = Tail(todo)
    /\ atRisk' = IF Len(todo) = 1 THEN None ELSE atRisk
    /\ UNCHANGED <<fd, mounted, torn, harmed, crashes>>

\* The inodes that a crash has harmed, or would harm now.
Exempt == IF atRisk = None THEN harmed ELSE harmed \cup {atRisk}

\* The process dies inside a call.  Between two calls its death is the same as
\* an fs_unmount.  What harmed and atRisk record is read by no call.
Crash ==
    /\ todo # <<>>
    /\ crashes < MaxCrashes
    /\ crashes' = crashes + 1
    /\ todo' = <<>>
    /\ mounted' = FALSE
    /\ fd' = NoFds
    /\ harmed' = Exempt
    /\ atRisk' = None
    /\ UNCHANGED <<fbm, imap, inode, dblock, torn>>

\* The calls that make no store to the volume, or none before they return.
OneStep ==
    /\ todo = <<>>
    /\ \/ fs_format /\ harmed' = {}
       \/ /\ \/ fs_mount
             \/ fs_unmount
             \/ \E p \in Bound : fs_open(p)
             \/ \E f \in Fd : fs_close(f)
          /\ UNCHANGED harmed
    /\ UNCHANGED <<todo, atRisk, crashes>>

StoresInit ==
    /\ Init
    /\ todo = <<>>
    /\ atRisk = None
    /\ harmed = {}
    /\ crashes = 0

\* A call begins when none is in progress.
BeginCall ==
    /\ mounted
    /\ todo = <<>>
    /\ \/ \E p \in NotBound : begin_create_file(p) \/ begin_create_dir(p)
       \/ \E p \in Bound :
            \/ begin_remove_dir(p)
            \/ begin_remove_file(p)
            \/ begin_remove_busy(p)
            \/ \E q \in NotBound : begin_move(p, q) \/ begin_link(p, q)
       \/ \E f \in Fd, k \in Order : begin_write(f, k)

StoresNext ==
    \/ Store
    \/ Crash
    \/ OneStep
    \/ BeginCall

StoresSpec == StoresInit /\ [][StoresNext]_storesVars

\* What is left of a file after a crash inside a call on it: the inode, and the
\* blocks its record points to, some of which may be released.
Remains(s) ==
    \/ s.to \in {"imap", "inode"} /\ s.at \in harmed
    \/ s.to \in {"fbm", "dblock"} /\ s.at \in UNION {Claims(i) : i \in harmed}

\* No store of the call in progress is to such an inode or to such a block: the
\* call neither writes, links or takes apart what a crash has harmed, nor is given
\* its inode or a block of it as a free one.
RemainsUntouched == \A k \in DOMAIN todo : ~Remains(todo[k])

\* From a torn remove on, and from a call on that stores to the remains, two
\* files may share an inode or blocks: what the calls do then is not followed.
Whole == ~torn /\ RemainsUntouched

WholeSpec == StoresInit /\ [][Whole /\ StoresNext]_storesVars

-----------------------------------------------------------------------------
(* What a crash can do, and what it cannot *)

\* No crash leaves an entry in use that names a free inode, or an inode with more
\* entries than its link count, whose next remove would free it too early,
\* except for the one that was being removed, or moved from one directory to
\* another (fs_remove and fs_move, F17FS.c:776, 1098).  Nor do the calls that
\* follow spread the harm to another inode, up to the first one that stores to
\* the remains of that one.
CrashKeepsEntries ==
    ~torn => \A i \in Inode \ Exempt : Live(i) =>
                /\ i \in imap
                /\ i # Root => Cardinality(Refs(i)) <= inode[i].linkCount

\* Nor does a crash, or a call up to that one, leave a named inode with a free
\* block, save the harmed one, or two of them with one block: what a crash loses
\* of the map is blocks that nothing uses (the order of block_store_release and
\* block_store_write in fs_create and fs_remove).
CrashKeepsBlocks ==
    LET live == {i \in Inode : Live(i)}
    IN  ~torn => \A i \in live :
                    /\ i \notin Exempt => Claims(i) \subseteq fbm \ Meta
                    /\ \A j \in live \ {i} : Claims(i) \cap Claims(j) = {}

\* Seen at its return each call does, store by store, what its action of F17FS
\* does in one step: no store is made from a copy that an earlier store of the
\* call has made stale.  It is stated of the calls that leave alone what a crash
\* has harmed.
AtReturn(part, now) == IF todo = <<>> THEN now ELSE AllStored[part]

Calls == INSTANCE F17FS WITH fbm    <- AtReturn("fbm", fbm),
                             imap   <- AtReturn("imap", imap),
                             inode  <- AtReturn("inode", inode),
                             dblock <- AtReturn("dblock", dblock)

StoresImplementCalls ==
    [][crashes' = crashes /\ RemainsUntouched' =>
            UNCHANGED <<AllStored, fd, mounted, torn>> \/ Calls!Next]_storesVars
=============================================================================
