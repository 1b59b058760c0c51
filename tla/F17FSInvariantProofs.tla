------------------------ MODULE F17FSInvariantProofs ------------------------
(***************************************************************************)
(* The invariants of F17FS hold in every state, for every size of the      *)
(* tables, when no name is a proper prefix of another.                     *)
(*                                                                         *)
(* Every call changes entries of at most one slot of one directory, or of  *)
(* two for a move.  Effect says which entries a step takes out and puts    *)
(* in; what that does to the references and to the invariants is proved    *)
(* here once, and each call is shown to have such an effect where the      *)
(* invariant is proved of it.                                              *)
(***************************************************************************)
EXTENDS F17FSInvariant, F17FSProofs

-----------------------------------------------------------------------------
(* Facts about a state *)

\* A directory has a record and a block of its own, in use and not the metadata's.
LEMMA DirFacts ==
    ASSUME IInv, ~torn, NEW d \in Dirs
    PROVE  /\ d \in Inode
           /\ d \in imap
           /\ inode[d].fileType = "d"
           /\ inode[d].vacantFile \subseteq Slot
           /\ inode[d].directPointer[0] \in Block
           /\ inode[d].directPointer[0] \in fbm
           /\ inode[d].directPointer[0] # 0
           /\ dblock[inode[d].directPointer[0]] \in [Slot -> Dentry]
           /\ \A e \in Dirs \ {d} : inode[e].directPointer[0] # inode[d].directPointer[0]
<1>1. d \in Inode /\ Live(d) /\ inode[d].fileType = "d"
  BY DEF Dirs
<1>2. inode[d] \in InodeRecord
  BY <1>1 DEF IInv, TypeOK
<1>3. inode[d].vacantFile \subseteq Slot /\ inode[d].directPointer[0] \in Block
  BY <1>2, ConstantTypes DEF InodeRecord
<1>4. dblock[inode[d].directPointer[0]] \in [Slot -> Dentry]
  BY <1>3 DEF IInv, TypeOK
<1>5. \A e \in Dirs : e \in Inode /\ Live(e) /\ Claims(e) = {inode[e].directPointer[0]}
  BY DEF Dirs, Claims
<1>6. d \in imap
  BY <1>1 DEF IInv, NoDanglingEntry
<1>7. inode[d].directPointer[0] \in fbm
  BY <1>1, <1>5 DEF IInv, BlocksExact
<1>8. inode[d].directPointer[0] \notin Meta
  BY <1>1, <1>5 DEF IInv, BlocksExact
<1>9. 0 \in Meta
  BY SizeAssumption DEF Meta
<1>10. \A e \in Dirs \ {d} : inode[e].directPointer[0] # inode[d].directPointer[0]
  <2>. SUFFICES ASSUME NEW e \in Dirs \ {d} PROVE Claims(d) \cap Claims(e) = {}
    BY <1>5
  <2>. QED
    BY <1>1, <1>5 DEF IInv, BlocksExact
<1>. QED
  BY <1>1, <1>3, <1>4, <1>6, <1>7, <1>8, <1>9, <1>10

\* An entry in use is in a directory, and names something.
LEMMA EntryFacts ==
    ASSUME IInv, ~torn, NEW r \in EntriesInUse
    PROVE  /\ r[1] \in Dirs /\ r[2] \in Slot /\ r = <<r[1], r[2]>>
           /\ r[2] \in inode[r[1]].vacantFile
           /\ NumberOf(r) \in Inode
           /\ NameOf(r) \in Names \cup {NoName}
           /\ Live(NumberOf(r))
           /\ r \in Refs(NumberOf(r))
<1>1. /\ r \in Inode \X Slot /\ inode[r[1]].fileType = "d"
      /\ r[2] \in inode[r[1]].vacantFile
  BY DEF EntriesInUse
<1>2. r[1] \in Dirs
  BY <1>1 DEF IInv, Consistent, UnnamedDirsEmpty, Dirs
<1>3. Entry(r[1], r[2]) \in Dentry
  BY <1>1, EntryType DEF IInv
<1>4. NumberOf(r) \in Inode /\ NameOf(r) \in Names \cup {NoName}
  BY <1>3 DEF NumberOf, NameOf, Dentry
<1>5. r \in Refs(NumberOf(r))
  BY DEF Refs, NumberOf
<1>6. Live(NumberOf(r))
  BY <1>5 DEF Live
<1>. QED
  BY <1>1, <1>2, <1>4, <1>5, <1>6

\* A slot in use of a directory is an entry in use.
LEMMA SlotIsEntry ==
    ASSUME IInv, ~torn, NEW d \in Dirs, NEW s
    PROVE  s \in inode[d].vacantFile <=> <<d, s>> \in EntriesInUse
BY DirFacts DEF EntriesInUse

\* The walk of a path ends at a directory.
LEMMA SearchFinds ==
    ASSUME IInv, ~torn, NEW p, searchPath(p) # SIZE_MAX
    PROVE  searchPath(p) \in Dirs
<1>1. Root \in Dirs
  BY ConstantTypes DEF IInv, Consistent, RootIsDir, Dirs, Live
<1>2. ASSUME NEW d, NEW n, SearchStep(d, n) # SIZE_MAX
      PROVE  SearchStep(d, n) \in Dirs
  <2>1. d \in Inode /\ inode[d].fileType = "d" /\ SubDirs(d, n) # {}
    BY <1>2 DEF SearchStep
  <2>2. SubDirs(d, n) \subseteq 0 .. (Dentries - 1) /\ Dentries - 1 \in Nat
    <3>1. inode[d].vacantFile \subseteq Slot
      BY <2>1 DEF IInv, TypeOK, InodeRecord
    <3>. QED
      BY <3>1, SizeAssumption DEF SubDirs, Slot
  <2>. DEFINE s == Max(SubDirs(d, n))
  <2>3. s \in SubDirs(d, n)
    BY <2>1, <2>2, MaxProperties
  <2>4. <<d, s>> \in EntriesInUse /\ inode[NumberOf(<<d, s>>)].fileType = "d"
    BY <2>1, <2>2, <2>3 DEF SubDirs, EntriesInUse, Slot, NumberOf
  <2>5. NumberOf(<<d, s>>) \in Inode /\ Live(NumberOf(<<d, s>>))
    BY <2>4, EntryFacts
  <2>6. SearchStep(d, n) = NumberOf(<<d, s>>)
    BY <2>1 DEF SearchStep, NumberOf
  <2>. QED
    BY <2>4, <2>5, <2>6 DEF Dirs
<1>. QED
  BY <1>1, <1>2 DEF searchPath

\* A path that names something names it by an entry in use, which is the one
\* remove looks for by its exact name.
LEMMA ResolveFinds ==
    ASSUME IInv, ~torn, NamePrefix = {}, NEW p \in Paths, Resolve(p) # 0
    PROVE  /\ searchPath(dirname(p)) \in Dirs
           /\ basename(p) \in Names
           /\ Resolve(p) \in Inode \ {Root}
           /\ Live(Resolve(p))
           /\ \E s \in Slot :
                /\ <<searchPath(dirname(p)), s>> \in EntriesInUse
                /\ <<searchPath(dirname(p)), s>> \in Refs(Resolve(p))
                /\ NumberOf(<<searchPath(dirname(p)), s>>) = Resolve(p)
                /\ NameOf(<<searchPath(dirname(p)), s>>) = basename(p)
                /\ ExactSlot(searchPath(dirname(p)), basename(p)) = {s}
<1>. DEFINE d == searchPath(dirname(p))
            n == basename(p)
<1>1. d # SIZE_MAX /\ Resolve(p) = getFileInodeID(d, n)
  BY DEF Resolve
<1>2. d \in Dirs
  BY <1>1, SearchFinds
<1>3. n \in Names
  BY NameTypes
<1>. HIDE DEF d, n
<1>4. Hits(d, n) # {} /\ Resolve(p) = Entry(d, Min(Hits(d, n))).inodeNumber
  BY <1>1 DEF getFileInodeID
<1>5. Hits(d, n) = {s \in inode[d].vacantFile : Entry(d, s).filename = n}
  BY DEF Hits, Matches
<1>6. Hits(d, n) \subseteq Nat
  BY <1>2, DirFacts DEF Hits, Slot
<1>. DEFINE s == Min(Hits(d, n))
<1>7. s \in Hits(d, n)
  BY <1>4, <1>6, MinProperties
<1>8. ExactSlot(d, n) = {s}
  BY <1>4, <1>5 DEF ExactSlot
<1>9. /\ s \in inode[d].vacantFile
      /\ NumberOf(<<d, s>>) = Resolve(p)
      /\ NameOf(<<d, s>>) = n
  BY <1>4, <1>5, <1>7 DEF NumberOf, NameOf
<1>. HIDE DEF s
<1>10. <<d, s>> \in EntriesInUse
  BY <1>2, <1>9, SlotIsEntry
<1>11. s \in Slot /\ <<d, s>> \in Refs(Resolve(p)) /\ Live(Resolve(p)) /\ Resolve(p) \in Inode
  BY <1>9, <1>10, EntryFacts
<1>. QED
  BY <1>2, <1>3, <1>8, <1>9, <1>10, <1>11 DEF Root, d, n

\* A name that resolves to nothing is in no entry in use of its directory.
LEMMA UnboundIsFresh ==
    ASSUME IInv, ~torn, NamePrefix = {}, NEW p \in Paths, Unbound(p),
           searchPath(dirname(p)) # SIZE_MAX
    PROVE  /\ searchPath(dirname(p)) \in Dirs
           /\ basename(p) \in Names
           /\ basename(p) # NoName
           /\ \A r \in EntriesInUse :
                 r[1] = searchPath(dirname(p)) => NameOf(r) # basename(p)
<1>. DEFINE d == searchPath(dirname(p))
            n == basename(p)
<1>1. d \in Dirs
  BY SearchFinds
<1>2. n \in Names /\ n # NoName
  BY NameTypes, NameAssumption
<1>3. getFileInodeID(d, n) = 0
  BY DEF Unbound, Resolve
<1>. HIDE DEF d, n
<1>4. Hits(d, n) = {s \in inode[d].vacantFile : Entry(d, s).filename = n}
  BY DEF Hits, Matches
<1>5. Hits(d, n) = {}
  <2>. SUFFICES ASSUME Hits(d, n) # {} PROVE FALSE
    OBVIOUS
  <2>. DEFINE s == Min(Hits(d, n))
  <2>1. Hits(d, n) \subseteq Nat
    BY <1>1, DirFacts DEF Hits, Slot
  <2>2. s \in Hits(d, n)
    BY <2>1, MinProperties
  <2>3. <<d, s>> \in EntriesInUse /\ NameOf(<<d, s>>) = n /\ NumberOf(<<d, s>>) = 0
    BY <1>1, <1>3, <1>4, <2>2, SlotIsEntry DEF NameOf, NumberOf, getFileInodeID
  <2>. QED
    BY <2>3, <1>2 DEF IInv, Consistent, UsedSlotsNumbered
<1>6. ASSUME NEW r \in EntriesInUse, r[1] = d PROVE NameOf(r) # n
  <2>1. r[2] \in inode[d].vacantFile
    BY <1>6, EntryFacts
  <2>. QED
    BY <1>4, <1>5, <1>6, <2>1 DEF NameOf
<1>. QED
  BY <1>1, <1>2, <1>6 DEF d, n

-----------------------------------------------------------------------------
(* What a step does to the entries *)

\* The step takes the entries Out out of use and puts In in use, or changes
\* those that are in both, and leaves every other slot of a directory as it is.
Effect(Out, In) ==
    /\ EntriesInUse' = (EntriesInUse \ Out) \cup In
    /\ \A d \in Dirs : \A s \in Slot :
          <<d, s>> \notin Out \cup In => Entry(d, s)' = Entry(d, s)

\* An entry that stays keeps its name and number.
LEMMA EffectKeeps ==
    ASSUME IInv, ~torn, NEW Out, NEW In, Effect(Out, In),
           NEW r \in EntriesInUse, r \notin Out \cup In
    PROVE  r \in EntriesInUse' /\ NameOf(r)' = NameOf(r) /\ NumberOf(r)' = NumberOf(r)
<1>1. r[1] \in Dirs /\ r[2] \in Slot /\ r = <<r[1], r[2]>>
  BY EntryFacts
<1>2. Entry(r[1], r[2])' = Entry(r[1], r[2])
  BY <1>1 DEF Effect
<1>. QED
  BY <1>2 DEF Effect, NameOf, NumberOf

\* The references to an inode are those that stay, and those put in.
LEMMA EffectOnRefs ==
    ASSUME IInv, ~torn, NEW Out, NEW In, Effect(Out, In),
           In \cap EntriesInUse \subseteq Out, NEW i
    PROVE  Refs(i)' = (Refs(i) \ Out) \cup {r \in In : NumberOf(r)' = i}
<1>1. Refs(i)' = {r \in EntriesInUse' : NumberOf(r)' = i}
  BY DEF Refs, NumberOf
<1>2. Refs(i) = {r \in EntriesInUse : NumberOf(r) = i}
  BY DEF Refs, NumberOf
<1>3. EntriesInUse' = (EntriesInUse \ Out) \cup In
  BY DEF Effect
<1>4. \A r \in EntriesInUse \ Out : NumberOf(r)' = NumberOf(r)
  BY EffectKeeps
<1>. QED
  BY <1>1, <1>2, <1>3, <1>4

\* What is taken out is blanked, and what is put in, one entry at most, is at a
\* slot that was not in use or is changed, and has a number and a new name, or
\* neither.
CleanEffect(Out, In) ==
    /\ Effect(Out, In)
    /\ In \cap EntriesInUse \subseteq Out
    /\ \A q, e \in In : q = e
    /\ \A q \in Out \ In : NumberOf(q)' = 0
    /\ \A q \in In :
          /\ NameOf(q)' = NoName <=> NumberOf(q)' = 0
          /\ \A e \in EntriesInUse \ Out :
                e[1] = q[1] /\ NameOf(e) = NameOf(q)' => NameOf(e) = NoName

\* Slots stay blank when unused, numbered when named, and named apart.
LEMMA EffectOnSlots ==
    ASSUME IInv, ~torn, TypeOK', NEW Out, NEW In, CleanEffect(Out, In),
           \A d \in Dirs' : d \in Dirs \/ \A s \in Slot : Entry(d, s)' = NoEntry
    PROVE  UnusedSlotsBlank' /\ UsedSlotsNumbered' /\ UniqueNames'
<1>. USE DEF CleanEffect
<1>1. EntriesInUse' = (EntriesInUse \ Out) \cup In
  BY DEF Effect
<1>2. \A q \in EntriesInUse \ Out : NameOf(q)' = NameOf(q) /\ NumberOf(q)' = NumberOf(q)
  BY EffectKeeps
<1>3. UnusedSlotsBlank'
  <2>. SUFFICES ASSUME NEW d \in Dirs', NEW s \in Slot, s \notin inode'[d].vacantFile
                PROVE  NumberOf(<<d, s>>)' = 0
    BY DEF UnusedSlotsBlank
  <2>1. <<d, s>> \notin EntriesInUse'
    BY DEF EntriesInUse
  <2>2. NumberOf(<<d, s>>)' = Entry(d, s)'.inodeNumber
    BY DEF NumberOf
  <2>3. CASE \A x \in Slot : Entry(d, x)' = NoEntry
    BY <2>2, <2>3 DEF NoEntry
  <2>4. CASE d \in Dirs /\ <<d, s>> \in Out
    BY <1>1, <2>1, <2>4
  <2>5. CASE d \in Dirs /\ <<d, s>> \notin Out
    <3>1. <<d, s>> \notin In /\ <<d, s>> \notin EntriesInUse
      BY <1>1, <2>1, <2>5
    <3>2. Entry(d, s)' = Entry(d, s)
      BY <2>5, <3>1 DEF Effect
    <3>3. s \notin inode[d].vacantFile
      BY <2>5, <3>1, SlotIsEntry
    <3>4. NumberOf(<<d, s>>) = 0
      BY <2>5, <3>3 DEF IInv, Consistent, UnusedSlotsBlank
    <3>. QED
      BY <2>2, <3>2, <3>4 DEF NumberOf
  <2>. QED
    BY <2>3, <2>4, <2>5
<1>4. UsedSlotsNumbered'
  <2>. SUFFICES ASSUME NEW q \in EntriesInUse'
                PROVE  NameOf(q)' = NoName <=> NumberOf(q)' = 0
    BY DEF UsedSlotsNumbered
  <2>1. CASE q \in In
    BY <2>1
  <2>2. CASE q \in EntriesInUse \ Out
    BY <1>2, <2>2 DEF IInv, Consistent, UsedSlotsNumbered
  <2>. QED
    BY <1>1, <2>1, <2>2
<1>5. ASSUME NEW q \in EntriesInUse', NEW e \in EntriesInUse', q[1] = e[1],
             NameOf(q)' = NameOf(e)', NameOf(q)' # NoName
      PROVE  q = e
  <2>1. CASE q \in In /\ e \in In
    BY <2>1
  <2>2. CASE q \in In /\ e \in EntriesInUse \ Out
    BY <1>2, <1>5, <2>2
  <2>3. CASE e \in In /\ q \in EntriesInUse \ Out
    BY <1>2, <1>5, <2>3
  <2>4. CASE q \in EntriesInUse \ Out /\ e \in EntriesInUse \ Out
    <3>1. /\ q[1] \in Dirs /\ q = <<q[1], q[2]>> /\ e = <<e[1], e[2]>>
          /\ q[2] \in inode[q[1]].vacantFile /\ e[2] \in inode[q[1]].vacantFile
      BY <1>5, <2>4, EntryFacts
    <3>2. NameOf(q) = NameOf(e) /\ NameOf(q) # NoName
      BY <1>2, <1>5, <2>4
    <3>3. q[2] = e[2]
      BY <3>1, <3>2, <1>5 DEF IInv, UniqueNames, NameOf, Dirs
    <3>. QED
      BY <1>5, <3>1, <3>3
  <2>. QED
    BY <1>1, <2>1, <2>2, <2>3, <2>4
<1>6. UniqueNames'
  <2>. SUFFICES ASSUME NEW d \in Inode, inode'[d].fileType = "d",
                       NEW s \in inode'[d].vacantFile, NEW t \in inode'[d].vacantFile,
                       Entry(d, s)'.filename = Entry(d, t)'.filename,
                       Entry(d, s)'.filename # NoName
                PROVE  s = t
    BY DEF UniqueNames
  <2>1. <<d, s>> \in EntriesInUse' /\ <<d, t>> \in EntriesInUse'
    BY DEF EntriesInUse, TypeOK, InodeRecord
  <2>2. NameOf(<<d, s>>)' = NameOf(<<d, t>>)' /\ NameOf(<<d, s>>)' # NoName
    BY DEF NameOf
  <2>. QED
    BY <1>5, <2>1, <2>2
<1>. QED
  BY <1>3, <1>4, <1>6

\* The references to an inode can be counted.
LEMMA RefsFinite ==
    ASSUME NEW i
    PROVE  IsFiniteSet(Refs(i)) /\ Cardinality(Refs(i)) \in Nat
<1>1. IsFiniteSet(Inode) /\ IsFiniteSet(Slot)
  BY FS_Interval, SizeAssumption DEF Inode, Slot
<1>2. IsFiniteSet(Inode \X Slot)
  BY <1>1, FS_Product
<1>3. Refs(i) \in SUBSET (Inode \X Slot)
  BY DEF Refs, EntriesInUse
<1>. QED
  BY <1>2, <1>3, FS_Subset, FS_CardinalityType

\* A record with the type and the pointers it had claims the blocks it did.
LEMMA SameClaims ==
    ASSUME NEW i, inode'[i].fileType = inode[i].fileType,
           inode'[i].directPointer = inode[i].directPointer
    PROVE  Claims(i)' = Claims(i)
BY DEF Claims

-----------------------------------------------------------------------------
(* Steps that keep, free or add an inode *)

\* The records, but for the counts and the slots in use, the maps and the
\* descriptors are as they were.
SameRecords ==
    /\ \A i \in Inode : /\ inode'[i].fileType = inode[i].fileType
                        /\ inode'[i].directPointer = inode[i].directPointer
    /\ UNCHANGED <<fbm, imap, fd, torn>>

CountsExact ==
    \A i \in Inode \ {Root} : Refs(i) # {} => inode[i].linkCount = Cardinality(Refs(i))

\* A step that changes which entries name the inodes, but not which inodes are
\* named, keeps the invariant if it keeps the counts.
LEMMA RelinkKeeps ==
    ASSUME IInv, ~torn, TypeOK', NEW Out, NEW In, CleanEffect(Out, In),
           SameRecords, CountsExact',
           \A i \in Inode : Live(i)' <=> Live(i),
           \A i \in Inode : ~Live(i) => inode'[i].vacantFile = inode[i].vacantFile
    PROVE  IInv'
<1>1. Dirs' = Dirs
  BY DEF Dirs, SameRecords
<1>2. UnusedSlotsBlank' /\ UsedSlotsNumbered' /\ UniqueNames'
  BY <1>1, EffectOnSlots
<1>3. RootIsDir'
  BY ConstantTypes DEF IInv, Consistent, RootIsDir, SameRecords
<1>4. LiveHasType'
  BY DEF IInv, Consistent, LiveHasType, SameRecords
<1>5. UnnamedDirsEmpty'
  BY DEF IInv, Consistent, UnnamedDirsEmpty, SameRecords
<1>6. NoDanglingEntry'
  BY DEF IInv, NoDanglingEntry, SameRecords
<1>7. LinkCountExact'
  BY DEF LinkCountExact, CountsExact
<1>8. BlocksExact'
  <2>1. \A i \in Inode : Claims(i)' = Claims(i)
    BY SameClaims DEF SameRecords
  <2>2. {j \in Inode : Live(j)}' = {j \in Inode : Live(j)}
    OBVIOUS
  <2>3. UNION {Claims(i)' : i \in {j \in Inode : Live(j)}'}
            = UNION {Claims(i) : i \in {j \in Inode : Live(j)}}
    BY <2>1, <2>2
  <2>4. fbm = Meta \cup UNION {Claims(i) : i \in {j \in Inode : Live(j)}}
    BY DEF IInv, BlocksExact
  <2>5. fbm' = Meta \cup UNION {Claims(i)' : i \in {j \in Inode : Live(j)}'}
    BY <2>3, <2>4 DEF SameRecords
  <2>6. ASSUME NEW i \in Inode, Live(i)'
        PROVE  /\ Claims(i)' \cap Meta = {}
               /\ \A j \in Inode \ {i} : Live(j)' => Claims(i)' \cap Claims(j)' = {}
               /\ \A k, l \in Order :
                    inode'[i].fileType = "r" /\ inode'[i].directPointer[k] # 0
                    /\ inode'[i].directPointer[k] = inode'[i].directPointer[l] => k = l
    <3>1. Live(i)
      BY <2>6
    <3>. QED
      BY <2>1, <3>1 DEF IInv, BlocksExact, SameRecords
  <2>. QED
    BY <2>5, <2>6 DEF BlocksExact
<1>9. FdLive'
  <2>. SUFFICES ASSUME NEW f \in OpenFds'
                PROVE  inode'[fd'[f]].fileType = "r" /\ Refs(fd[f])' # {}
    BY DEF FdLive
  <2>1. f \in OpenFds /\ fd' = fd
    BY DEF OpenFds, SameRecords
  <2>2. PICK i \in Inode : i = fd[f]
    BY <2>1 DEF IInv, TypeOK, OpenFds
  <2>3. inode[i].fileType = "r" /\ Live(i)
    BY <2>1, <2>2 DEF IInv, FdLive, Live
  <2>4. i # Root
    BY <2>3 DEF IInv, Consistent, RootIsDir
  <2>5. Refs(i)' # {}
    BY <2>3, <2>4 DEF Live
  <2>. QED
    BY <2>1, <2>2, <2>3, <2>5 DEF SameRecords
<1>. QED
  BY <1>2, <1>3, <1>4, <1>5, <1>6, <1>7, <1>8, <1>9 DEF IInv, Consistent

\* A step that takes out the last entry of an inode and frees the inode with its
\* blocks keeps the invariant, if the inode is an empty directory or no
\* descriptor is open.
LEMMA FreeKeeps ==
    ASSUME IInv, ~torn, TypeOK', NEW i \in Inode \ {Root}, NEW Out,
           CleanEffect(Out, {}), Refs(i) # {}, Refs(i) \subseteq Out, Out \subseteq Refs(i),
           \A j \in Inode : /\ inode'[j].fileType = inode[j].fileType
                            /\ inode'[j].directPointer = inode[j].directPointer
                            /\ inode'[j].linkCount = inode[j].linkCount
                            /\ ~Live(j) => inode'[j].vacantFile = inode[j].vacantFile,
           inode[i].fileType = "d" => inode'[i].vacantFile = {},
           inode[i].fileType = "d" \/ OpenFds = {},
           fbm' = fbm \ Claims(i), imap' = imap \ {i}, UNCHANGED <<fd, torn>>
    PROVE  /\ IInv'
           /\ \A j \in Inode : Live(j)' <=> Live(j) /\ j # i
<1>1. \A j : Refs(j)' = Refs(j) \ Out
  BY EffectOnRefs DEF CleanEffect
<1>2. ASSUME NEW j, j # i PROVE Refs(j)' = Refs(j)
  <2>1. Refs(j) \cap Refs(i) = {}
    BY <1>2 DEF Refs
  <2>. QED
    BY <1>1, <2>1
<1>3. Refs(i)' = {}
  BY <1>1
<1>4. \A j \in Inode : Live(j)' <=> Live(j) /\ j # i
  BY <1>2, <1>3 DEF Live
<1>5. Dirs' \subseteq Dirs
  BY <1>4 DEF Dirs
<1>6. UnusedSlotsBlank' /\ UsedSlotsNumbered' /\ UniqueNames'
  BY <1>5, EffectOnSlots
<1>7. RootIsDir'
  BY ConstantTypes DEF IInv, Consistent, RootIsDir
<1>8. LiveHasType'
  BY <1>4 DEF IInv, Consistent, LiveHasType
<1>9. UnnamedDirsEmpty'
  BY <1>4 DEF IInv, Consistent, UnnamedDirsEmpty
<1>10. NoDanglingEntry'
  BY <1>4 DEF IInv, NoDanglingEntry
<1>11. LinkCountExact'
  BY <1>2, <1>3 DEF IInv, LinkCountExact
<1>12. BlocksExact'
  <2>1. \A j \in Inode : Claims(j)' = Claims(j)
    BY SameClaims
  <2>2. Live(i)
    BY DEF Live
  <2>3. \A j \in Inode : Live(j) => Claims(j) \cap Meta = {}
    BY DEF IInv, BlocksExact
  <2>4. \A j \in Inode \ {i} : Live(j) => Claims(i) \cap Claims(j) = {}
    BY <2>2 DEF IInv, BlocksExact
  <2>5. fbm = Meta \cup UNION {Claims(j) : j \in {k \in Inode : Live(k)}}
    BY DEF IInv, BlocksExact
  <2>6. fbm' = Meta \cup UNION {Claims(j) : j \in {k \in Inode : Live(k) /\ k # i}}
    BY <2>2, <2>3, <2>4, <2>5
  <2>7. {k \in Inode : Live(k)}' = {k \in Inode : Live(k) /\ k # i}
    BY <1>4
  <2>8. UNION {Claims(j)' : j \in {k \in Inode : Live(k)}'}
            = UNION {Claims(j) : j \in {k \in Inode : Live(k) /\ k # i}}
    BY <2>1, <2>7
  <2>9. fbm' = Meta \cup UNION {Claims(j)' : j \in {k \in Inode : Live(k)}'}
    BY <2>6, <2>8
  <2>10. ASSUME NEW j \in Inode, Live(j)'
         PROVE  /\ Claims(j)' \cap Meta = {}
                /\ \A h \in Inode \ {j} : Live(h)' => Claims(j)' \cap Claims(h)' = {}
                /\ \A k, l \in Order :
                     inode'[j].fileType = "r" /\ inode'[j].directPointer[k] # 0
                     /\ inode'[j].directPointer[k] = inode'[j].directPointer[l] => k = l
    <3>1. Live(j)
      BY <1>4, <2>10
    <3>. QED
      BY <1>4, <2>1, <3>1 DEF IInv, BlocksExact
  <2>. QED
    BY <2>9, <2>10 DEF BlocksExact
<1>13. FdLive'
  <2>. SUFFICES ASSUME NEW f \in OpenFds'
                PROVE  inode'[fd'[f]].fileType = "r" /\ Refs(fd[f])' # {}
    BY DEF FdLive
  <2>1. f \in OpenFds /\ fd' = fd
    BY DEF OpenFds
  <2>2. PICK j \in Inode : j = fd[f]
    BY <2>1 DEF IInv, TypeOK, OpenFds
  <2>3. inode[j].fileType = "r" /\ Refs(j) # {}
    BY <2>1, <2>2 DEF IInv, FdLive
  <2>4. j # i
    BY <2>1, <2>3
  <2>5. Refs(j)' # {}
    BY <1>2, <2>3, <2>4
  <2>. QED
    BY <2>1, <2>2, <2>3, <2>5
<1>. QED
  BY <1>4, <1>6, <1>7, <1>8, <1>9, <1>10, <1>11, <1>12, <1>13 DEF IInv, Consistent

\* A step that puts one entry in use, for an inode that was not in use and gets a
\* record, and blocks that were free, keeps the invariant.
LEMMA AddKeeps ==
    ASSUME IInv, ~torn, TypeOK', NEW i \in Inode \ imap, NEW r,
           CleanEffect({}, {r}), NumberOf(r)' = i,
           \A j \in Inode \ {i} : /\ inode'[j].fileType = inode[j].fileType
                                  /\ inode'[j].directPointer = inode[j].directPointer
                                  /\ inode'[j].linkCount = inode[j].linkCount
                                  /\ ~Live(j) => inode'[j].vacantFile = inode[j].vacantFile,
           inode'[i].linkCount = 1,
           \/ inode'[i].fileType = "r" /\ inode'[i].directPointer = NoPointers
           \/ inode'[i].fileType = "d" /\ \A s \in Slot : Entry(i, s)' = NoEntry,
           Claims(i)' \cap fbm = {}, fbm' = fbm \cup Claims(i)', imap' = imap \cup {i},
           UNCHANGED <<fd, torn>>
    PROVE  /\ IInv'
           /\ \A j \in Inode : Live(j)' <=> Live(j) \/ j = i
<1>1. ~Live(i) /\ Refs(i) = {} /\ i # Root
  BY DEF IInv, NoDanglingEntry, Live
<1>2. \A j \in Inode \ {i} : Refs(j)' = Refs(j)
  <2>1. \A j : Refs(j)' = Refs(j) \cup {q \in {r} : NumberOf(q)' = j}
    BY EffectOnRefs DEF CleanEffect
  <2>. QED
    BY <2>1
<1>3. Refs(i)' = {r}
  <2>1. Refs(i)' = Refs(i) \cup {q \in {r} : NumberOf(q)' = i}
    BY EffectOnRefs DEF CleanEffect
  <2>. QED
    BY <1>1, <2>1
<1>4. \A j \in Inode : Live(j)' <=> Live(j) \/ j = i
  BY <1>2, <1>3 DEF Live
<1>5. \A d \in Dirs' : d \in Dirs \/ \A s \in Slot : Entry(d, s)' = NoEntry
  BY <1>4 DEF Dirs
<1>6. UnusedSlotsBlank' /\ UsedSlotsNumbered' /\ UniqueNames'
  BY <1>5, EffectOnSlots
<1>7. RootIsDir'
  BY <1>1, ConstantTypes DEF IInv, Consistent, RootIsDir
<1>8. LiveHasType'
  BY <1>4 DEF IInv, Consistent, LiveHasType
<1>9. UnnamedDirsEmpty'
  BY <1>4 DEF IInv, Consistent, UnnamedDirsEmpty
<1>10. NoDanglingEntry'
  BY <1>4 DEF IInv, NoDanglingEntry
<1>11. LinkCountExact'
  <2>1. Cardinality({r}) = 1
    BY FS_Singleton
  <2>. QED
    BY <1>2, <1>3, <2>1, ZenonT(30) DEF IInv, LinkCountExact
<1>12. BlocksExact'
  <2>1. \A j \in Inode \ {i} : Claims(j)' = Claims(j)
    BY SameClaims
  <2>2. fbm = Meta \cup UNION {Claims(j) : j \in {k \in Inode : Live(k)}}
    BY DEF IInv, BlocksExact
  <2>3. {k \in Inode : Live(k)}' = {k \in Inode : Live(k)} \cup {i}
    BY <1>4
  <2>4. UNION {Claims(j)' : j \in {k \in Inode : Live(k)}'}
            = Claims(i)' \cup UNION {Claims(j)' : j \in {k \in Inode : Live(k)}}
    BY <2>3
  <2>5. UNION {Claims(j)' : j \in {k \in Inode : Live(k)}}
            = UNION {Claims(j) : j \in {k \in Inode : Live(k)}}
    BY <1>1, <2>1
  <2>6. fbm' = Meta \cup UNION {Claims(j)' : j \in {k \in Inode : Live(k)}'}
    BY <2>2, <2>4, <2>5
  <2>7. \A j \in Inode : Live(j) => Claims(j) \subseteq fbm /\ j # i
    BY <1>1, <2>2
  <2>8. ASSUME NEW j \in Inode, Live(j)'
        PROVE  Claims(j)' \cap Meta = {}
    BY <1>4, <2>1, <2>2, <2>8 DEF IInv, BlocksExact
  <2>9. ASSUME NEW j \in Inode, NEW h \in Inode \ {j}, Live(j)', Live(h)'
        PROVE  Claims(j)' \cap Claims(h)' = {}
    <3>1. CASE j # i /\ h # i
      BY <1>4, <2>1, <2>9, <3>1 DEF IInv, BlocksExact
    <3>2. CASE j = i
      BY <1>4, <2>1, <2>7, <2>9, <3>2
    <3>3. CASE h = i
      BY <1>4, <2>1, <2>7, <2>9, <3>3
    <3>. QED
      BY <3>1, <3>2, <3>3
  <2>10. ASSUME NEW j \in Inode, Live(j)', NEW k \in Order, NEW l \in Order,
                inode'[j].fileType = "r", inode'[j].directPointer[k] # 0,
                inode'[j].directPointer[k] = inode'[j].directPointer[l]
         PROVE  k = l
    <3>1. CASE j = i
      BY <2>10, <3>1 DEF NoPointers
    <3>2. CASE j # i
      BY <1>4, <2>10, <3>2 DEF IInv, BlocksExact
    <3>. QED
      BY <3>1, <3>2
  <2>. QED
    BY <2>6, <2>8, <2>9, <2>10 DEF BlocksExact
<1>13. FdLive'
  <2>. SUFFICES ASSUME NEW f \in OpenFds'
                PROVE  inode'[fd'[f]].fileType = "r" /\ Refs(fd[f])' # {}
    BY DEF FdLive
  <2>1. f \in OpenFds /\ fd' = fd
    BY DEF OpenFds
  <2>2. PICK j \in Inode : j = fd[f]
    BY <2>1 DEF IInv, TypeOK, OpenFds
  <2>3. inode[j].fileType = "r" /\ Refs(j) # {}
    BY <2>1, <2>2 DEF IInv, FdLive
  <2>4. j # i
    BY <1>1, <2>3
  <2>5. Refs(j)' # {}
    BY <1>2, <2>3, <2>4
  <2>. QED
    BY <2>1, <2>2, <2>3, <2>4, <2>5
<1>. QED
  BY <1>4, <1>6, <1>7, <1>8, <1>9, <1>10, <1>11, <1>12, <1>13 DEF IInv, Consistent

-----------------------------------------------------------------------------
(* The effects of adding and dropping an entry *)

\* The entries in use after a step, from what it does to the slots of each
\* directory.
LEMMA EntriesBySlots ==
    ASSUME IInv, ~torn, NEW Out, NEW In \in SUBSET (Dirs \X Slot),
           \A e \in Dirs :
              /\ inode'[e].fileType = "d"
              /\ \A x \in Slot : x \in inode'[e].vacantFile <=>
                    (x \in inode[e].vacantFile /\ <<e, x>> \notin Out) \/ <<e, x>> \in In,
           \A j \in Inode \ Dirs : inode'[j].fileType = "d" => inode'[j].vacantFile = {}
    PROVE  EntriesInUse' = (EntriesInUse \ Out) \cup In
<1>1. ASSUME NEW e \in Inode, NEW x \in Slot
      PROVE  <<e, x>> \in EntriesInUse' <=> <<e, x>> \in (EntriesInUse \ Out) \cup In
  <2>1. <<e, x>> \in EntriesInUse' <=> inode'[e].fileType = "d" /\ x \in inode'[e].vacantFile
    BY DEF EntriesInUse
  <2>2. CASE e \in Dirs
    <3>1. x \in inode[e].vacantFile <=> <<e, x>> \in EntriesInUse
      BY <2>2, SlotIsEntry
    <3>. QED
      BY <2>1, <2>2, <3>1
  <2>3. CASE e \notin Dirs
    <3>1. <<e, x>> \notin EntriesInUse
      BY <2>3, EntryFacts
    <3>. QED
      BY <2>1, <2>3, <3>1
  <2>. QED
    BY <2>2, <2>3
<1>2. EntriesInUse' \subseteq Inode \X Slot /\ EntriesInUse \subseteq Inode \X Slot
  BY DEF EntriesInUse
<1>3. In \subseteq Inode \X Slot
  BY DEF Dirs
<1>. QED
  BY <1>1, <1>2, <1>3

\* Of the directories only the slots in use of d change, to V, and what is no
\* directory has none.
DirSlots(d, V) ==
    /\ \A e \in Dirs :
          /\ inode'[e].fileType = "d"
          /\ inode'[e].directPointer = inode[e].directPointer
          /\ inode'[e].vacantFile = IF e = d THEN V ELSE inode[e].vacantFile
    /\ \A j \in Inode \ Dirs : inode'[j].fileType = "d" => inode'[j].vacantFile = {}

\* The directories that were removed, and what is no directory, have no slot in
\* use, and keep none when their records stay.
LEMMA NoOtherSlots ==
    ASSUME IInv, ~torn, NEW j \in Inode \ Dirs, inode[j].fileType = "d"
    PROVE  inode[j].vacantFile = {}
BY DEF IInv, Consistent, UnnamedDirsEmpty, Dirs

\* An entry stored at a free slot, for an inode that is not the root, under a
\* name that is new to the directory.
LEMMA AddEffect ==
    ASSUME IInv, ~torn, NEW d \in Dirs, NEW s \in Slot \ inode[d].vacantFile,
           NEW n \in Names, NEW i \in Inode \ {Root},
           \A r \in EntriesInUse : r[1] = d => NameOf(r) # n,
           NEW blocks \in [Block -> [Slot -> Dentry]],
           \A e \in Dirs : blocks[inode[e].directPointer[0]] = dblock[inode[e].directPointer[0]],
           dblock' = AddEntry(blocks, d, s, n, i),
           DirSlots(d, inode[d].vacantFile \cup {s})
    PROVE  /\ CleanEffect({}, {<<d, s>>})
           /\ <<d, s>> \notin EntriesInUse
           /\ NumberOf(<<d, s>>)' = i
           /\ NameOf(<<d, s>>)' = n
<1>. DEFINE b == inode[d].directPointer[0]
            r == <<d, s>>
            new == [filename |-> n, inodeNumber |-> i]
<1>. USE DEF DirSlots
<1>1. b \in Block /\ dblock[b] \in [Slot -> Dentry]
  BY DirFacts
<1>2. dblock' = [blocks EXCEPT ![b] = [dblock[b] EXCEPT ![s] = new]]
  BY DEF AddEntry
<1>3. Entry(d, s)' = new
  BY <1>1, <1>2 DEF Entry
<1>4. \A x \in Slot \ {s} : Entry(d, x)' = Entry(d, x)
  BY <1>1, <1>2 DEF Entry
<1>5. ASSUME NEW e \in Dirs \ {d}, NEW x \in Slot PROVE Entry(e, x)' = Entry(e, x)
  <2>. DEFINE c == inode[e].directPointer[0]
  <2>1. c \in Block /\ c # b
    BY DirFacts
  <2>2. dblock'[c] = dblock[c]
    BY <1>1, <1>2, <2>1
  <2>. QED
    BY <2>2 DEF Entry
<1>6. r \notin EntriesInUse
  BY SlotIsEntry
<1>7. EntriesInUse' = EntriesInUse \cup {r}
  <2>. DEFINE Out == {}
              In  == {r}
  <2>1. In \in SUBSET (Dirs \X Slot)
    OBVIOUS
  <2>2. ASSUME NEW e \in Dirs
        PROVE  /\ inode'[e].fileType = "d"
               /\ \A x \in Slot : x \in inode'[e].vacantFile <=>
                    (x \in inode[e].vacantFile /\ <<e, x>> \notin Out) \/ <<e, x>> \in In
    OBVIOUS
  <2>. HIDE DEF Out, In
  <2>3. EntriesInUse' = (EntriesInUse \ Out) \cup In
    BY <2>1, <2>2, EntriesBySlots
  <2>. QED
    BY <2>3 DEF Out, In
<1>8. Effect({}, {r})
  BY <1>4, <1>5, <1>7 DEF Effect
<1>9. NumberOf(r)' = i /\ NameOf(r)' = n
  BY <1>3 DEF NumberOf, NameOf
<1>10. i # 0 /\ n # NoName
  BY NameAssumption DEF Root
<1>. QED
  BY <1>6, <1>8, <1>9, <1>10 DEF CleanEffect

\* An entry taken out of use, its number blanked.
LEMMA DropEffect ==
    ASSUME IInv, ~torn, NEW d \in Dirs, NEW s \in Slot, <<d, s>> \in EntriesInUse,
           NEW block \in [Slot -> Dentry], block[s].inodeNumber = 0,
           \A x \in Slot \ {s} : block[x] = dblock[inode[d].directPointer[0]][x],
           dblock' = [dblock EXCEPT ![inode[d].directPointer[0]] = block],
           DirSlots(d, inode[d].vacantFile \ {s})
    PROVE  CleanEffect({<<d, s>>}, {})
<1>. DEFINE b == inode[d].directPointer[0]
            r == <<d, s>>
<1>. USE DEF DirSlots
<1>1. b \in Block
  BY DirFacts
<1>2. dblock \in [Block -> [Slot -> Dentry]]
  BY DEF IInv, TypeOK
<1>3. dblock'[b] = block
  BY <1>1, <1>2
<1>4. Entry(d, s)'.inodeNumber = 0 /\ \A x \in Slot \ {s} : Entry(d, x)' = Entry(d, x)
  BY <1>3 DEF Entry
<1>5. ASSUME NEW e \in Dirs \ {d}, NEW x \in Slot PROVE Entry(e, x)' = Entry(e, x)
  <2>. DEFINE c == inode[e].directPointer[0]
  <2>1. c \in Block /\ c # b
    BY DirFacts
  <2>2. dblock'[c] = dblock[c]
    BY <1>1, <1>2, <2>1
  <2>. QED
    BY <2>2 DEF Entry
<1>6. EntriesInUse' = EntriesInUse \ {r}
  <2>. DEFINE Out == {r}
              In  == {}
  <2>1. In \in SUBSET (Dirs \X Slot)
    OBVIOUS
  <2>2. ASSUME NEW e \in Dirs
        PROVE  /\ inode'[e].fileType = "d"
               /\ \A x \in Slot : x \in inode'[e].vacantFile <=>
                    (x \in inode[e].vacantFile /\ <<e, x>> \notin Out) \/ <<e, x>> \in In
    OBVIOUS
  <2>. HIDE DEF Out, In
  <2>3. EntriesInUse' = (EntriesInUse \ Out) \cup In
    BY <2>1, <2>2, EntriesBySlots
  <2>. QED
    BY <2>3 DEF Out, In
<1>7. Effect({r}, {})
  BY <1>4, <1>5, <1>6 DEF Effect
<1>8. NumberOf(r)' = 0
  BY <1>4 DEF NumberOf
<1>. QED
  BY <1>7, <1>8 DEF CleanEffect

\* What a record is when the bit of a slot is set, or those of some are cleared.
LEMMA SlotBits ==
    ASSUME NEW r \in InodeRecord, NEW s, NEW S
    PROVE  /\ SetBit(r, s).vacantFile = r.vacantFile \cup {s}
           /\ SetBit(r, s).fileType = r.fileType
           /\ SetBit(r, s).directPointer = r.directPointer
           /\ SetBit(r, s).linkCount = r.linkCount
           /\ ClearBit(r, S).vacantFile = r.vacantFile \ S
           /\ ClearBit(r, S).fileType = r.fileType
           /\ ClearBit(r, S).directPointer = r.directPointer
           /\ ClearBit(r, S).linkCount = r.linkCount
BY DEF SetBit, ClearBit, bitmap_set, InodeRecord

-----------------------------------------------------------------------------
(* Every call keeps the invariant *)

\* The step adds the name n, new to the directory d, for the inode i.
AddsName(d, n, i) ==
    /\ d \in Dirs /\ n \in Names /\ i \in Inode \ {Root}
    /\ \A r \in EntriesInUse : r[1] = d => NameOf(r) # n
    /\ \E s \in Slot :
         /\ CleanEffect({}, {<<d, s>>})
         /\ <<d, s>> \notin EntriesInUse
         /\ NumberOf(<<d, s>>)' = i
         /\ NameOf(<<d, s>>)' = n

\* What create found: a directory and a free slot of it, a free inode, a new name.
LEMMA CreateFinds ==
    ASSUME IInv, ~torn, NamePrefix = {}, NEW p \in Paths, CreateChecked(p)
    PROVE  /\ searchPath(dirname(p)) \in Dirs
           /\ FreeSlot(searchPath(dirname(p)))
                \in Slot \ inode[searchPath(dirname(p))].vacantFile
           /\ FreeInode \in Inode \ imap
           /\ FreeInode # Root
           /\ FreeInode \notin Dirs
           /\ ~Live(FreeInode)
           /\ basename(p) \in Names
           /\ \A r \in EntriesInUse :
                 r[1] = searchPath(dirname(p)) => NameOf(r) # basename(p)
<1>1. FreeInode \in Inode \ imap
  BY AllocatorTypes DEF CreateChecked
<1>2. ~Live(FreeInode)
  BY <1>1 DEF IInv, NoDanglingEntry
<1>3. FreeInode # Root /\ FreeInode \notin Dirs
  BY <1>2 DEF Live, Dirs
<1>. QED
  BY <1>1, <1>2, <1>3, UnboundIsFresh, AllocatorTypes DEF CreateChecked

\* Creating a file adds its name and keeps the invariant.
LEMMA CreateFileKeeps ==
    ASSUME IInv, ~torn, NamePrefix = {}, NEW p \in Paths, fs_create_file(p)
    PROVE  /\ IInv'
           /\ \E d \in Dirs, i \in Inode :
                /\ d = searchPath(dirname(p)) /\ i = FreeInode /\ ~Live(i)
                /\ AddsName(d, basename(p), i)
                /\ \A j \in Inode : Live(j)' <=> Live(j) \/ j = i
                /\ inode'[i].fileType = "r"
                /\ \A j \in Inode \ {i} : inode'[j].fileType = inode[j].fileType
<1>. PICK d, s, i : d = searchPath(dirname(p)) /\ s = FreeSlot(d) /\ i = FreeInode
  OBVIOUS
<1>. DEFINE n == basename(p)
            rec == [ZeroInode EXCEPT !.fileType = "r", !.linkCount = 1]
<1>1. /\ d \in Dirs /\ s \in Slot \ inode[d].vacantFile
      /\ i \in Inode \ imap /\ i # Root /\ i \notin Dirs /\ ~Live(i)
      /\ n \in Names
      /\ \A r \in EntriesInUse : r[1] = d => NameOf(r) # n
  BY CreateFinds DEF fs_create_file
<1>2. /\ inode' = [inode EXCEPT ![i] = rec, ![d] = SetBit(inode[d], s)]
      /\ dblock' = AddEntry(dblock, d, s, n, i)
      /\ imap' = imap \cup {i} /\ fbm' = fbm /\ fd' = fd /\ torn' = torn
  BY DEF fs_create_file, bitmap_set
<1>. HIDE DEF n
<1>3. TypeOK /\ TypeOK'
  BY CreateFileTypes DEF IInv
<1>4. inode \in [Inode -> InodeRecord] /\ dblock \in [Block -> [Slot -> Dentry]]
  BY <1>3 DEF TypeOK
<1>5. d \in Inode /\ d # i /\ inode[d].fileType = "d"
  BY <1>1, DirFacts
<1>6. /\ rec.fileType = "r" /\ rec.linkCount = 1 /\ rec.directPointer = NoPointers
      /\ rec.vacantFile = {}
  BY DEF ZeroInode
<1>. HIDE DEF rec
<1>7. /\ inode'[i] = rec
      /\ inode'[d] = SetBit(inode[d], s)
      /\ \A j \in Inode \ {i, d} : inode'[j] = inode[j]
  BY <1>1, <1>2, <1>4, <1>5
<1>8. /\ inode'[d].vacantFile = inode[d].vacantFile \cup {s}
      /\ inode'[d].fileType = "d"
      /\ inode'[d].directPointer = inode[d].directPointer
      /\ inode'[d].linkCount = inode[d].linkCount
  BY <1>4, <1>5, <1>7, SlotBits
<1>9. /\ CleanEffect({}, {<<d, s>>})
      /\ <<d, s>> \notin EntriesInUse
      /\ NumberOf(<<d, s>>)' = i
      /\ NameOf(<<d, s>>)' = n
  <2>1. DirSlots(d, inode[d].vacantFile \cup {s})
    <3>1. \A e \in Dirs :
             /\ inode'[e].fileType = "d"
             /\ inode'[e].directPointer = inode[e].directPointer
             /\ inode'[e].vacantFile = IF e = d THEN inode[d].vacantFile \cup {s}
                                       ELSE inode[e].vacantFile
      BY <1>1, <1>7, <1>8, DirFacts
    <3>2. \A j \in Inode \ Dirs : inode'[j].fileType = "d" => inode'[j].vacantFile = {}
      BY <1>1, <1>6, <1>7, NoOtherSlots
    <3>. QED
      BY <3>1, <3>2 DEF DirSlots
  <2>2. i \in Inode \ {Root}
    BY <1>1
  <2>. QED
    BY <1>1, <1>2, <1>4, <2>1, <2>2, AddEffect
<1>10. AddsName(d, n, i)
  BY <1>1, <1>9 DEF AddsName
<1>11. \A j \in Inode \ {i} : /\ inode'[j].fileType = inode[j].fileType
                              /\ inode'[j].directPointer = inode[j].directPointer
                              /\ inode'[j].linkCount = inode[j].linkCount
                              /\ ~Live(j) => inode'[j].vacantFile = inode[j].vacantFile
  <2>1. Live(d)
    BY <1>1 DEF Dirs
  <2>. QED
    BY <1>5, <1>7, <1>8, <2>1
<1>12. Claims(i)' = {}
  BY <1>6, <1>7 DEF Claims, NoPointers
<1>13. IInv' /\ \A j \in Inode : Live(j)' <=> Live(j) \/ j = i
  BY <1>1, <1>2, <1>3, <1>6, <1>7, <1>9, <1>11, <1>12, AddKeeps, ZenonT(30)
<1>. QED
  BY <1>1, <1>6, <1>7, <1>10, <1>11, <1>13 DEF n

\* Creating a directory adds its name and keeps the invariant.
LEMMA CreateDirKeeps ==
    ASSUME IInv, ~torn, NamePrefix = {}, NEW p \in Paths, fs_create_dir(p)
    PROVE  /\ IInv'
           /\ \E d \in Dirs, i \in Inode :
                /\ d = searchPath(dirname(p)) /\ i = FreeInode /\ ~Live(i)
                /\ AddsName(d, basename(p), i)
                /\ \A j \in Inode : Live(j)' <=> Live(j) \/ j = i
                /\ inode'[i].fileType = "d"
                /\ \A j \in Inode \ {i} : inode'[j].fileType = inode[j].fileType
<1>. PICK d, s, i, b :
       d = searchPath(dirname(p)) /\ s = FreeSlot(d) /\ i = FreeInode /\ b = FreeBlock
  OBVIOUS
<1>. DEFINE n == basename(p)
            blocks == [dblock EXCEPT ![b] = ZeroBlock]
<1>1. /\ d \in Dirs /\ s \in Slot \ inode[d].vacantFile
      /\ i \in Inode \ imap /\ i # Root /\ i \notin Dirs /\ ~Live(i)
      /\ n \in Names
      /\ \A r \in EntriesInUse : r[1] = d => NameOf(r) # n
  BY CreateFinds DEF fs_create_dir
<1>2. /\ inode' = [inode EXCEPT ![i] = DirRecord(b), ![d] = SetBit(inode[d], s)]
      /\ dblock' = AddEntry(blocks, d, s, n, i)
      /\ imap' = imap \cup {i} /\ fbm' = fbm \cup {b} /\ fd' = fd /\ torn' = torn
  BY DEF fs_create_dir, bitmap_set
<1>3. b \in Block \ fbm
  BY AllocatorTypes DEF fs_create_dir
<1>4. TypeOK /\ TypeOK'
  BY CreateDirTypes DEF IInv
<1>. HIDE DEF n
<1>5. inode \in [Inode -> InodeRecord] /\ dblock \in [Block -> [Slot -> Dentry]]
  BY <1>4 DEF TypeOK
<1>6. blocks \in [Block -> [Slot -> Dentry]] /\ blocks[b] = ZeroBlock
  BY <1>3, <1>5, RecordTypes
<1>7. \A e \in Dirs : /\ inode[e].directPointer[0] # b
                      /\ blocks[inode[e].directPointer[0]] = dblock[inode[e].directPointer[0]]
  BY <1>3, <1>5, DirFacts
<1>8. d \in Inode /\ d # i /\ inode[d].fileType = "d"
  BY <1>1, DirFacts
<1>9. /\ DirRecord(b).fileType = "d" /\ DirRecord(b).linkCount = 1
      /\ DirRecord(b).directPointer[0] = b
      /\ DirRecord(b).vacantFile = {}
  BY ConstantTypes DEF DirRecord, NoPointers
<1>10. /\ inode'[i] = DirRecord(b)
       /\ inode'[d] = SetBit(inode[d], s)
       /\ \A j \in Inode \ {i, d} : inode'[j] = inode[j]
  BY <1>1, <1>2, <1>5, <1>8
<1>11. /\ inode'[d].vacantFile = inode[d].vacantFile \cup {s}
       /\ inode'[d].fileType = "d"
       /\ inode'[d].directPointer = inode[d].directPointer
       /\ inode'[d].linkCount = inode[d].linkCount
  BY <1>5, <1>8, <1>10, SlotBits
<1>12. /\ CleanEffect({}, {<<d, s>>})
       /\ <<d, s>> \notin EntriesInUse
       /\ NumberOf(<<d, s>>)' = i
       /\ NameOf(<<d, s>>)' = n
  <2>1. DirSlots(d, inode[d].vacantFile \cup {s})
    <3>1. \A e \in Dirs :
             /\ inode'[e].fileType = "d"
             /\ inode'[e].directPointer = inode[e].directPointer
             /\ inode'[e].vacantFile = IF e = d THEN inode[d].vacantFile \cup {s}
                                       ELSE inode[e].vacantFile
      BY <1>1, <1>10, <1>11, DirFacts
    <3>2. \A j \in Inode \ Dirs : inode'[j].fileType = "d" => inode'[j].vacantFile = {}
      BY <1>1, <1>9, <1>10, NoOtherSlots
    <3>. QED
      BY <3>1, <3>2 DEF DirSlots
  <2>2. i \in Inode \ {Root}
    BY <1>1
  <2>. HIDE DEF blocks
  <2>. QED
    BY <1>1, <1>2, <1>6, <1>7, <2>1, <2>2, AddEffect
<1>13. AddsName(d, n, i)
  BY <1>1, <1>12 DEF AddsName
<1>14. \A j \in Inode \ {i} : /\ inode'[j].fileType = inode[j].fileType
                              /\ inode'[j].directPointer = inode[j].directPointer
                              /\ inode'[j].linkCount = inode[j].linkCount
                              /\ ~Live(j) => inode'[j].vacantFile = inode[j].vacantFile
  <2>1. Live(d)
    BY <1>1 DEF Dirs
  <2>. QED
    BY <1>8, <1>10, <1>11, <2>1
<1>15. Claims(i)' = {b}
  BY <1>9, <1>10 DEF Claims
<1>16. \A x \in Slot : Entry(i, x)' = NoEntry
  <2>1. dblock'[b] = ZeroBlock
    <3>1. inode[d].directPointer[0] # b
      BY <1>1, <1>7
    <3>. QED
      BY <1>2, <1>3, <1>6, <3>1 DEF AddEntry
  <2>. QED
    BY <1>9, <1>10, <2>1 DEF Entry, ZeroBlock
<1>17. IInv' /\ \A j \in Inode : Live(j)' <=> Live(j) \/ j = i
  <2>1. inode'[i].fileType = "d" /\ inode'[i].linkCount = 1
    BY <1>9, <1>10
  <2>2. /\ Claims(i)' \cap fbm = {} /\ fbm' = fbm \cup Claims(i)' /\ imap' = imap \cup {i}
        /\ UNCHANGED <<fd, torn>>
    BY <1>2, <1>3, <1>15
  <2>. QED
    BY <1>1, <1>4, <1>12, <1>14, <1>16, <2>1, <2>2, AddKeeps
<1>. QED
  BY <1>1, <1>9, <1>10, <1>13, <1>14, <1>17 DEF n

\* The step names what was named, and changes the type of nothing.
SameNodes ==
    \A j \in Inode : /\ Live(j)' <=> Live(j)
                     /\ inode'[j].fileType = inode[j].fileType

\* A step that leaves the records and the blocks as they are keeps the invariant
\* if it opens no descriptor on what is not a named regular file.
LEMMA QuietKeeps ==
    ASSUME IInv, ~torn, TypeOK', FdLive', imap \subseteq imap',
           UNCHANGED <<inode, dblock, fbm, torn>>
    PROVE  IInv' /\ SameNodes /\ UNCHANGED Bindings
<1>1. EntriesInUse' = EntriesInUse
  BY DEF EntriesInUse
<1>2. \A d, s : Entry(d, s)' = Entry(d, s)
  BY DEF Entry
<1>3. \A i : Refs(i)' = Refs(i)
  BY <1>1, <1>2 DEF Refs
<1>4. \A i : Live(i)' <=> Live(i)
  BY <1>3 DEF Live
<1>5. Dirs' = Dirs
  BY <1>4 DEF Dirs
<1>6. \A r : NameOf(r)' = NameOf(r) /\ NumberOf(r)' = NumberOf(r)
  BY <1>2 DEF NameOf, NumberOf
<1>7. Consistent'
  <2>1. RootIsDir' /\ LiveHasType' /\ UnnamedDirsEmpty'
    BY <1>4 DEF IInv, Consistent, RootIsDir, LiveHasType, UnnamedDirsEmpty
  <2>2. UnusedSlotsBlank'
    BY <1>5, <1>6 DEF IInv, Consistent, UnusedSlotsBlank
  <2>3. UsedSlotsNumbered'
    BY <1>1, <1>6 DEF IInv, Consistent, UsedSlotsNumbered
  <2>. QED
    BY <2>1, <2>2, <2>3 DEF Consistent
<1>8. NoDanglingEntry'
  BY <1>4 DEF IInv, NoDanglingEntry
<1>9. LinkCountExact'
  BY <1>3 DEF IInv, LinkCountExact
<1>10. BlocksExact'
  <2>1. \A i : Claims(i)' = Claims(i)
    BY DEF Claims
  <2>2. {j \in Inode : Live(j)}' = {j \in Inode : Live(j)}
    BY <1>4
  <2>3. UNION {Claims(i)' : i \in {j \in Inode : Live(j)}'}
            = UNION {Claims(i) : i \in {j \in Inode : Live(j)}}
    BY <2>1, <2>2
  <2>4. fbm' = Meta \cup UNION {Claims(i)' : i \in {j \in Inode : Live(j)}'}
    BY <2>3 DEF IInv, BlocksExact
  <2>. QED
    BY <1>4, <2>1, <2>4 DEF IInv, BlocksExact
<1>11. UniqueNames'
  BY <1>2, <1>4 DEF IInv, UniqueNames
<1>12. Bindings' = Bindings
  BY <1>1, <1>2 DEF Bindings
<1>. QED
  BY <1>4, <1>7, <1>8, <1>9, <1>10, <1>11, <1>12 DEF IInv, SameNodes

\* A create that finds no block marks an inode, which nothing names.
LEMMA CreateNoBlockKeeps ==
    ASSUME IInv, ~torn, NEW p \in Paths, fs_create_no_block(p)
    PROVE  IInv' /\ SameNodes /\ UNCHANGED Bindings
<1>1. TypeOK'
  BY CreateNoBlockTypes DEF IInv
<1>2. imap \subseteq imap' /\ UNCHANGED <<fbm, inode, dblock, fd, torn>>
  BY DEF fs_create_no_block, bitmap_set
<1>3. \A i : Refs(i)' = Refs(i)
  BY <1>2 DEF Refs, EntriesInUse, Entry
<1>4. FdLive'
  BY <1>2, <1>3 DEF IInv, FdLive, OpenFds
<1>. QED
  BY <1>1, <1>2, <1>4, QuietKeeps

\* Opening finds a regular file that is named.
LEMMA OpenKeeps ==
    ASSUME IInv, ~torn, NamePrefix = {}, NEW p \in Paths, fs_open(p)
    PROVE  /\ IInv' /\ SameNodes /\ UNCHANGED Bindings
           /\ \E f \in Fd, i \in Inode :
                /\ fd[f] = Closed
                /\ Live(i) /\ inode[i].fileType = "r"
                /\ fd' = [fd EXCEPT ![f] = i]
<1>. PICK i, f : i = Resolve(p) /\ f = bitmap_ffz(OpenFds, NumFds)
  OBVIOUS
<1>1. TypeOK'
  BY OpenTypes DEF IInv
<1>2. fd' = [fd EXCEPT ![f] = i] /\ UNCHANGED <<fbm, imap, inode, dblock, torn>>
  BY DEF fs_open
<1>3. f \in Fd \ OpenFds
  BY AllocatorTypes DEF fs_open
<1>4. i \in Inode \ {Root} /\ Live(i)
  BY ResolveFinds DEF fs_open
<1>5. inode[i].fileType = "r"
  <2>1. inode[i] \in InodeRecord
    BY <1>4 DEF IInv, TypeOK
  <2>2. inode[i].fileType # "none" /\ inode[i].fileType # "d"
    BY <1>4 DEF IInv, Consistent, LiveHasType, fs_open
  <2>. QED
    BY <2>1, <2>2 DEF InodeRecord, FileType
<1>6. \A j : Refs(j)' = Refs(j)
  BY <1>2 DEF Refs, EntriesInUse, Entry
<1>7. FdLive'
  <2>. SUFFICES ASSUME NEW g \in OpenFds'
                PROVE  inode'[fd'[g]].fileType = "r" /\ Refs(fd[g])' # {}
    BY DEF FdLive
  <2>1. CASE g = f
    <3>1. fd'[g] = i
      BY <1>2, <1>3, <2>1 DEF IInv, TypeOK
    <3>2. Refs(i)' # {}
      BY <1>4, <1>6 DEF Live
    <3>. QED
      BY <1>2, <1>5, <3>1, <3>2
  <2>2. CASE g # f
    <3>1. g \in OpenFds /\ fd'[g] = fd[g]
      BY <1>2, <2>2 DEF OpenFds, IInv, TypeOK
    <3>. PICK j : j = fd[g]
      OBVIOUS
    <3>2. inode[j].fileType = "r" /\ Refs(j) # {}
      BY <3>1 DEF IInv, FdLive
    <3>. QED
      BY <1>2, <1>6, <3>1, <3>2
  <2>. QED
    BY <2>1, <2>2
<1>8. fd[f] = Closed
  BY <1>3 DEF OpenFds
<1>. QED
  BY <1>1, <1>2, <1>3, <1>4, <1>5, <1>7, <1>8, QuietKeeps

\* A step that only closes a descriptor keeps the invariant.
LEMMA CloseKeeps ==
    ASSUME IInv, ~torn, TypeOK', NEW f \in Fd,
           fd' = [fd EXCEPT ![f] = Closed] \/ fd' = fd,
           UNCHANGED <<fbm, imap, inode, dblock, torn>>
    PROVE  IInv' /\ SameNodes /\ UNCHANGED Bindings
<1>1. \A j : Refs(j)' = Refs(j)
  BY DEF Refs, EntriesInUse, Entry
<1>2. FdLive'
  <2>. SUFFICES ASSUME NEW g \in OpenFds'
                PROVE  inode'[fd'[g]].fileType = "r" /\ Refs(fd[g])' # {}
    BY DEF FdLive
  <2>1. g \in OpenFds /\ fd'[g] = fd[g]
    BY DEF OpenFds, IInv, TypeOK
  <2>. PICK j : j = fd[g]
    OBVIOUS
  <2>2. inode[j].fileType = "r" /\ Refs(j) # {}
    BY <2>1 DEF IInv, FdLive
  <2>. QED
    BY <1>1, <2>1, <2>2
<1>. QED
  BY <1>2, QuietKeeps

\* A remove that ends in its loop over the descriptors, of a file that has no
\* block, closes one descriptor at most.
LEMMA RemoveBusyKeeps ==
    ASSUME IInv, ~torn, NEW p \in Paths, fs_remove_busy(p), ~torn'
    PROVE  /\ IInv' /\ SameNodes /\ UNCHANGED Bindings
           /\ \E f \in Fd : fd' = [fd EXCEPT ![f] = Closed] \/ fd' = fd
<1>1. TypeOK'
  BY RemoveBusyTypes DEF IInv
<1>2. HeldBlocks(Resolve(p)) = {}
  BY DEF fs_remove_busy
<1>3. UNCHANGED <<fbm, imap, inode, dblock, torn>>
  BY <1>1, <1>2 DEF fs_remove_busy, IInv, TypeOK
<1>4. PICK f \in Fd : f = Min(OpenFds)
  <2>1. OpenFds \subseteq Nat /\ OpenFds # {}
    BY DEF OpenFds, Fd, fs_remove_busy, NoFdOpen
  <2>2. Min(OpenFds) \in OpenFds
    BY <2>1, MinProperties
  <2>. QED
    BY <2>2 DEF OpenFds
<1>5. fd' = [fd EXCEPT ![f] = Closed] \/ fd' = fd
  BY <1>4 DEF fs_remove_busy
<1>. QED
  BY <1>1, <1>3, <1>5, CloseKeeps

\* A step that leaves the entries and the slots in use as they are has no effect.
LEMMA EmptyEffect ==
    ASSUME IInv, ~torn,
           \A j \in Inode : /\ inode'[j].fileType = inode[j].fileType
                            /\ inode'[j].vacantFile = inode[j].vacantFile,
           \A d \in Dirs : /\ inode'[d].directPointer[0] = inode[d].directPointer[0]
                           /\ dblock'[inode[d].directPointer[0]]
                                = dblock[inode[d].directPointer[0]]
    PROVE  CleanEffect({}, {})
<1>1. EntriesInUse' = EntriesInUse
  BY DEF EntriesInUse
<1>2. \A d \in Dirs, s \in Slot : Entry(d, s)' = Entry(d, s)
  BY DEF Entry
<1>. QED
  BY <1>1, <1>2 DEF CleanEffect, Effect

\* The blocks of an open file are no directory's.
LEMMA FileBlocks ==
    ASSUME IInv, ~torn, NEW f \in OpenFds
    PROVE  /\ fd[f] \in Inode \ Dirs
           /\ inode[fd[f]].fileType = "r"
           /\ Live(fd[f])
           /\ \A k \in Order, d \in Dirs :
                inode[fd[f]].directPointer[k] # inode[d].directPointer[0]
<1>. PICK i : i = fd[f]
  OBVIOUS
<1>1. i \in Inode /\ inode[i].fileType = "r" /\ Live(i)
  BY DEF OpenFds, IInv, TypeOK, FdLive, Live
<1>2. i \notin Dirs
  BY <1>1 DEF Dirs
<1>3. ASSUME NEW k \in Order, NEW d \in Dirs,
             inode[i].directPointer[k] = inode[d].directPointer[0]
      PROVE  FALSE
  <2>1. d \in Inode \ {i} /\ Live(d) /\ Claims(d) = {inode[d].directPointer[0]}
    BY <1>2 DEF Dirs, Claims
  <2>2. inode[d].directPointer[0] # 0
    BY DirFacts
  <2>3. inode[i].directPointer[k] \in Claims(i)
    BY <1>1, <1>3, <2>2 DEF Claims
  <2>4. Claims(i) \cap Claims(d) = {}
    BY <1>1, <2>1 DEF IInv, BlocksExact
  <2>. QED
    BY <1>3, <2>1, <2>3, <2>4
<1>. QED
  BY <1>1, <1>2, <1>3

\* Writing a block a file has touches no directory.
LEMMA WriteBlockKeeps ==
    ASSUME IInv, ~torn, NEW f \in Fd, NEW k \in Order, fs_write_block(f, k)
    PROVE  IInv' /\ SameNodes /\ CleanEffect({}, {})
<1>. PICK b : b = inode[fd[f]].directPointer[k]
  OBVIOUS
<1>1. TypeOK'
  BY WriteTypes DEF IInv
<1>2. /\ f \in OpenFds /\ dblock' = [dblock EXCEPT ![b] = ZeroBlock]
      /\ UNCHANGED <<fbm, imap, inode, fd, torn>>
  BY DEF fs_write_block
<1>3. \A d \in Dirs : inode[d].directPointer[0] # b
  BY <1>2, FileBlocks
<1>4. \A d \in Dirs : dblock'[inode[d].directPointer[0]] = dblock[inode[d].directPointer[0]]
  <2>. SUFFICES ASSUME NEW d \in Dirs
                PROVE  dblock'[inode[d].directPointer[0]] = dblock[inode[d].directPointer[0]]
    OBVIOUS
  <2>1. inode[d].directPointer[0] \in Block \ {b}
    BY <1>3, DirFacts
  <2>. QED
    BY <1>2, <2>1 DEF IInv, TypeOK
<1>5. CleanEffect({}, {})
  BY <1>2, <1>4, EmptyEffect
<1>6. \A i : Refs(i)' = Refs(i)
  <2>1. \A i : Refs(i)' = (Refs(i) \ {}) \cup {r \in {} : NumberOf(r)' = i}
    BY <1>5, EffectOnRefs DEF CleanEffect
  <2>. QED
    BY <2>1
<1>7. \A i : Live(i)' <=> Live(i)
  BY <1>6 DEF Live
<1>8. CountsExact'
  BY <1>2, <1>6 DEF IInv, LinkCountExact, CountsExact
<1>9. SameRecords
  BY <1>2 DEF SameRecords
<1>10. IInv'
  BY <1>1, <1>2, <1>5, <1>7, <1>8, <1>9, RelinkKeeps
<1>. QED
  BY <1>2, <1>5, <1>7, <1>10 DEF SameNodes

\* Allocating a block for a file touches no directory, and no block in use.
LEMMA WriteNewBlockKeeps ==
    ASSUME IInv, ~torn, NEW f \in Fd, NEW k \in Order, fs_write_new_block(f, k)
    PROVE  IInv' /\ SameNodes /\ CleanEffect({}, {})
<1>. PICK i, b : i = fd[f] /\ b = FreeBlock
  OBVIOUS
<1>1. TypeOK /\ TypeOK'
  BY WriteTypes DEF IInv
<1>2. /\ f \in OpenFds
      /\ inode' = [inode EXCEPT ![i].directPointer[k] = b]
      /\ dblock' = [dblock EXCEPT ![b] = ZeroBlock]
      /\ fbm' = fbm \cup {b}
      /\ UNCHANGED <<imap, fd, torn>>
  BY DEF fs_write_new_block, bitmap_set
<1>3. b \in Block \ fbm
  BY AllocatorTypes DEF fs_write_new_block
<1>4. i \in Inode \ Dirs /\ inode[i].fileType = "r" /\ Live(i)
  BY <1>2, FileBlocks
<1>5. inode[i] \in InodeRecord /\ inode[i].directPointer \in [Order -> Block]
  BY <1>1, <1>4 DEF TypeOK, InodeRecord
<1>6. /\ inode'[i] = [inode[i] EXCEPT !.directPointer[k] = b]
      /\ \A j \in Inode \ {i} : inode'[j] = inode[j]
  BY <1>1, <1>2, <1>4 DEF TypeOK
<1>7. /\ inode'[i].fileType = "r"
      /\ inode'[i].vacantFile = inode[i].vacantFile
      /\ inode'[i].linkCount = inode[i].linkCount
      /\ inode'[i].directPointer = [inode[i].directPointer EXCEPT ![k] = b]
  BY <1>4, <1>5, <1>6 DEF InodeRecord
<1>8. \A j \in Inode : /\ inode'[j].fileType = inode[j].fileType
                       /\ inode'[j].vacantFile = inode[j].vacantFile
                       /\ inode'[j].linkCount = inode[j].linkCount
  BY <1>4, <1>6, <1>7
<1>9. CleanEffect({}, {})
  <2>1. \A d \in Dirs : /\ inode'[d].directPointer[0] = inode[d].directPointer[0]
                        /\ dblock'[inode[d].directPointer[0]]
                             = dblock[inode[d].directPointer[0]]
    <3>. SUFFICES ASSUME NEW d \in Dirs
                  PROVE  /\ inode'[d].directPointer[0] = inode[d].directPointer[0]
                         /\ dblock'[inode[d].directPointer[0]]
                              = dblock[inode[d].directPointer[0]]
      OBVIOUS
    <3>1. inode'[d] = inode[d] /\ inode[d].directPointer[0] \in Block \ {b}
      BY <1>3, <1>4, <1>6, DirFacts
    <3>. QED
      BY <1>1, <1>2, <3>1 DEF TypeOK
  <2>. QED
    BY <1>8, <2>1, EmptyEffect
<1>10. \A j : Refs(j)' = Refs(j)
  <2>1. \A j : Refs(j)' = (Refs(j) \ {}) \cup {r \in {} : NumberOf(r)' = j}
    BY <1>9, EffectOnRefs DEF CleanEffect
  <2>. QED
    BY <2>1
<1>11. \A j : Live(j)' <=> Live(j)
  BY <1>10 DEF Live
<1>12. Dirs' = Dirs
  BY <1>8, <1>11 DEF Dirs
<1>13. Consistent'
  <2>1. UnusedSlotsBlank' /\ UsedSlotsNumbered'
    BY <1>1, <1>9, <1>12, EffectOnSlots
  <2>2. RootIsDir' /\ LiveHasType' /\ UnnamedDirsEmpty'
    BY <1>8, <1>11, ConstantTypes
       DEF IInv, Consistent, RootIsDir, LiveHasType, UnnamedDirsEmpty
  <2>. QED
    BY <2>1, <2>2 DEF Consistent
<1>14. UniqueNames'
  BY <1>1, <1>9, <1>12, EffectOnSlots
<1>15. NoDanglingEntry'
  BY <1>2, <1>11 DEF IInv, NoDanglingEntry
<1>16. LinkCountExact'
  BY <1>2, <1>8, <1>10 DEF IInv, LinkCountExact
<1>17. BlocksExact'
  <2>1. \A j \in Inode \ {i} : Claims(j)' = Claims(j)
    BY <1>6, SameClaims
  <2>2. fbm = Meta \cup UNION {Claims(j) : j \in {h \in Inode : Live(h)}}
    BY <1>2 DEF IInv, BlocksExact
  <2>3. 0 \in fbm /\ b # 0 /\ \A j \in Inode : Live(j) => Claims(j) \subseteq fbm
    BY <1>3, <2>2, SizeAssumption DEF Meta
  <2>4. Claims(i)' = Claims(i) \cup {b}
    <3>1. inode[i].directPointer[k] = 0
      BY DEF fs_write_new_block
    <3>2. Claims(i)' = {inode'[i].directPointer[l] : l \in Order} \ {0}
      BY <1>7 DEF Claims
    <3>3. Claims(i) = {inode[i].directPointer[l] : l \in Order} \ {0}
      BY <1>4 DEF Claims
    <3>4. \A l \in Order : inode'[i].directPointer[l]
                             = IF l = k THEN b ELSE inode[i].directPointer[l]
      BY <1>5, <1>7
    <3>. QED
      BY <2>3, <3>1, <3>2, <3>3, <3>4
  <2>5. {h \in Inode : Live(h)}' = {h \in Inode : Live(h)}
    BY <1>11
  <2>6. UNION {Claims(j)' : j \in {h \in Inode : Live(h)}'}
            = {b} \cup UNION {Claims(j) : j \in {h \in Inode : Live(h)}}
    BY <1>4, <2>1, <2>4, <2>5
  <2>7. fbm' = Meta \cup UNION {Claims(j)' : j \in {h \in Inode : Live(h)}'}
    BY <1>2, <2>2, <2>6
  <2>8. ASSUME NEW j \in Inode, Live(j)
        PROVE  Claims(j) \cap Meta = {} /\ Claims(j)' \cap Meta = {}
    BY <1>3, <2>1, <2>2, <2>4, <2>8 DEF IInv, BlocksExact
  <2>9. ASSUME NEW j \in Inode, NEW h \in Inode \ {j}, Live(j), Live(h)
        PROVE  Claims(j)' \cap Claims(h)' = {}
    <3>1. Claims(j) \cap Claims(h) = {}
      BY <2>9 DEF IInv, BlocksExact
    <3>2. b \notin Claims(j) /\ b \notin Claims(h)
      BY <1>3, <2>3, <2>9
    <3>. QED
      BY <2>1, <2>4, <3>1, <3>2
  <2>10. ASSUME NEW j \in Inode, Live(j), NEW x \in Order, NEW y \in Order,
                inode'[j].fileType = "r", inode'[j].directPointer[x] # 0,
                inode'[j].directPointer[x] = inode'[j].directPointer[y]
         PROVE  x = y
    <3>1. CASE j # i
      BY <1>6, <2>10, <3>1 DEF IInv, BlocksExact
    <3>2. CASE j = i
      <4>1. \A l \in Order : inode[i].directPointer[l] # b
        <5>1. \A l \in Order : inode[i].directPointer[l] \in Claims(i) \cup {0}
          BY <1>4 DEF Claims
        <5>. QED
          BY <1>3, <1>4, <2>3, <5>1
      <4>2. \A l \in Order : inode'[i].directPointer[l]
                               = IF l = k THEN b ELSE inode[i].directPointer[l]
        BY <1>5, <1>7
      <4>3. CASE x = k \/ y = k
        BY <2>10, <3>2, <4>1, <4>2, <4>3
      <4>4. CASE x # k /\ y # k
        BY <1>4, <2>10, <3>2, <4>2, <4>4 DEF IInv, BlocksExact
      <4>. QED
        BY <4>3, <4>4
    <3>. QED
      BY <3>1, <3>2
  <2>. QED
    BY <1>11, <2>7, <2>8, <2>9, <2>10 DEF BlocksExact
<1>18. FdLive'
  <2>. SUFFICES ASSUME NEW g \in OpenFds'
                PROVE  inode'[fd'[g]].fileType = "r" /\ Refs(fd[g])' # {}
    BY DEF FdLive
  <2>1. g \in OpenFds /\ fd' = fd
    BY <1>2 DEF OpenFds
  <2>. PICK j \in Inode : j = fd[g]
    BY <2>1 DEF IInv, TypeOK, OpenFds
  <2>2. inode[j].fileType = "r" /\ Refs(j) # {}
    BY <2>1 DEF IInv, FdLive
  <2>. QED
    BY <1>8, <1>10, <2>1, <2>2
<1>. QED
  BY <1>1, <1>8, <1>9, <1>11, <1>13, <1>14, <1>15, <1>16, <1>17, <1>18 DEF IInv, SameNodes

-----------------------------------------------------------------------------
(* Removing *)

\* The entry r goes out of use, or stays in use and loses its name and number.
DropsName(r) ==
    /\ r \in EntriesInUse
    /\ NameOf(r) # NoName
    /\ \/ CleanEffect({r}, {})
       \/ CleanEffect({r}, {r}) /\ NumberOf(r)' = 0

\* The entry that a path names.
EntryOf(r, p) == r[1] = searchPath(dirname(p)) /\ NameOf(r) = basename(p)

\* What remove found: the entry of its name, and the inode it holds.
LEMMA RemoveFinds ==
    ASSUME IInv, ~torn, NamePrefix = {}, NEW p \in Paths, NEW t, RemoveChecked(p, t)
    PROVE  \E d \in Dirs, s \in Slot, i \in Inode \ {Root} :
             /\ d = searchPath(dirname(p)) /\ i = Resolve(p)
             /\ ExactSlot(d, basename(p)) = {s}
             /\ <<d, s>> \in EntriesInUse /\ <<d, s>> \in Refs(i)
             /\ NumberOf(<<d, s>>) = i /\ NameOf(<<d, s>>) = basename(p)
             /\ NameOf(<<d, s>>) # NoName
             /\ Live(i) /\ inode[i].fileType = t
<1>1. Resolve(p) # 0 /\ inode[Resolve(p)].fileType = t
  BY DEF RemoveChecked
<1>2. basename(p) # NoName
  BY NameTypes, NameAssumption
<1>. QED
  BY <1>1, <1>2, ResolveFinds

\* An entry cleared by a remove, with its slot's bit, goes out of use.
LEMMA RemoveEffect ==
    ASSUME IInv, ~torn, NEW d \in Dirs, NEW s \in Slot, <<d, s>> \in EntriesInUse,
           \/ dblock' = WithoutEntries(d, {s})
           \/ dblock' = WithoutInodes(d, {s}),
           DirSlots(d, inode[d].vacantFile \ {s})
    PROVE  CleanEffect({<<d, s>>}, {})
<1>. DEFINE b == inode[d].directPointer[0]
            B == dblock[b]
            wiped == [x \in Slot |-> IF x \in {s} THEN NoEntry ELSE B[x]]
            blank == [x \in Slot |-> IF x \in {s} THEN [B[x] EXCEPT !.inodeNumber = 0]
                                     ELSE B[x]]
<1>1. B \in [Slot -> Dentry]
  BY DirFacts
<1>2. NoEntry \in Dentry /\ \A e \in Dentry : [e EXCEPT !.inodeNumber = 0] \in Dentry
  BY RecordTypes, ConstantTypes DEF Dentry, Root
<1>3. /\ wiped \in [Slot -> Dentry] /\ wiped[s].inodeNumber = 0
      /\ \A x \in Slot \ {s} : wiped[x] = B[x]
  BY <1>1, <1>2 DEF NoEntry
<1>4. /\ blank \in [Slot -> Dentry]
      /\ \A x \in Slot \ {s} : blank[x] = B[x]
  BY <1>1, <1>2
<1>5. blank[s].inodeNumber = 0
  BY <1>1 DEF Dentry
<1>6. b \in Block /\ dblock \in [Block -> [Slot -> Dentry]]
  BY DirFacts DEF IInv, TypeOK
<1>7. CASE dblock' = WithoutEntries(d, {s})
  <2>1. dblock' = [dblock EXCEPT ![b] = wiped]
    BY <1>6, <1>7 DEF WithoutEntries
  <2>. HIDE DEF wiped
  <2>. QED
    BY <1>3, <2>1, DropEffect
<1>8. CASE dblock' = WithoutInodes(d, {s})
  <2>1. dblock' = [dblock EXCEPT ![b] = blank]
    BY <1>6, <1>8 DEF WithoutInodes
  <2>. HIDE DEF blank
  <2>. QED
    BY <1>4, <1>5, <2>1, DropEffect
<1>. QED
  BY <1>7, <1>8

\* The slots in use when one bit of d's record is cleared and no record changes
\* its type or pointers.
LEMMA ClearedSlots ==
    ASSUME IInv, ~torn, NEW d \in Dirs, NEW s \in Slot,
           \A j \in Inode : /\ inode'[j].fileType = inode[j].fileType
                            /\ inode'[j].directPointer = inode[j].directPointer,
           \A j \in Inode \ {d} : inode'[j].vacantFile = inode[j].vacantFile,
           inode'[d].vacantFile = inode[d].vacantFile \ {s}
    PROVE  DirSlots(d, inode[d].vacantFile \ {s})
<1>1. \A e \in Dirs : /\ inode'[e].fileType = "d"
                      /\ inode'[e].directPointer = inode[e].directPointer
                      /\ inode'[e].vacantFile = IF e = d THEN inode[d].vacantFile \ {s}
                                                ELSE inode[e].vacantFile
  BY DirFacts
<1>2. \A j \in Inode \ Dirs : inode'[j].fileType = "d" => inode'[j].vacantFile = {}
  BY NoOtherSlots
<1>. QED
  BY <1>1, <1>2 DEF DirSlots

\* An inode with a link count of one, or zero, has one entry.
LEMMA OnlyRef ==
    ASSUME IInv, ~torn, NEW i \in Inode \ {Root}, NEW r \in Refs(i),
           inode[i].linkCount <= 1
    PROVE  Refs(i) = {r}
<1>1. inode[i].linkCount = Cardinality(Refs(i))
  BY DEF IInv, LinkCountExact
<1>2. IsFiniteSet(Refs(i)) /\ Cardinality(Refs(i)) \in Nat
  BY RefsFinite
<1>3. Cardinality(Refs(i)) # 0
  BY <1>2, FS_EmptySet
<1>4. Cardinality(Refs(i)) = 1
  BY <1>1, <1>2, <1>3
<1>. QED
  BY <1>2, <1>4, FS_Singleton

\* The remove of the last link frees the inode and its blocks.
LEMMA LastLinkGoes ==
    ASSUME IInv, ~torn, TypeOK',
           NEW d \in Dirs, NEW s \in Slot, NEW i \in Inode \ {Root},
           <<d, s>> \in Refs(i), inode[i].linkCount <= 1,
           inode' = [inode EXCEPT ![d] = ClearBit(inode[d], {s})],
           \/ dblock' = WithoutEntries(d, {s})
           \/ dblock' = WithoutInodes(d, {s}),
           inode[i].fileType = "d" => inode[i].vacantFile = {},
           inode[i].fileType = "d" \/ OpenFds = {},
           fbm' = fbm \ Claims(i), imap' = imap \ {i}, UNCHANGED <<fd, torn>>
    PROVE  /\ IInv'
           /\ CleanEffect({<<d, s>>}, {})
           /\ Refs(i) = {<<d, s>>}
           /\ \A j \in Inode : Live(j)' <=> Live(j) /\ j # i
<1>1. Refs(i) = {<<d, s>>} /\ <<d, s>> \in EntriesInUse
  BY OnlyRef DEF Refs
<1>2. inode \in [Inode -> InodeRecord] /\ d \in Inode /\ Live(d)
  BY DEF IInv, TypeOK, Dirs
<1>3. /\ inode'[d] = ClearBit(inode[d], {s})
      /\ \A j \in Inode \ {d} : inode'[j] = inode[j]
  BY <1>2
<1>4. /\ inode'[d].vacantFile = inode[d].vacantFile \ {s}
      /\ inode'[d].fileType = inode[d].fileType
      /\ inode'[d].directPointer = inode[d].directPointer
      /\ inode'[d].linkCount = inode[d].linkCount
  BY <1>2, <1>3, SlotBits
<1>5. \A j \in Inode : /\ inode'[j].fileType = inode[j].fileType
                       /\ inode'[j].directPointer = inode[j].directPointer
                       /\ inode'[j].linkCount = inode[j].linkCount
                       /\ ~Live(j) => inode'[j].vacantFile = inode[j].vacantFile
  BY <1>2, <1>3, <1>4
<1>6. CleanEffect({<<d, s>>}, {})
  <2>1. DirSlots(d, inode[d].vacantFile \ {s})
    BY <1>3, <1>4, <1>5, ClearedSlots
  <2>. QED
    BY <1>1, <2>1, RemoveEffect
<1>7. inode[i].fileType = "d" => inode'[i].vacantFile = {}
  BY <1>3, <1>4
<1>8. IInv' /\ \A j \in Inode : Live(j)' <=> Live(j) /\ j # i
  <2>. DEFINE Out == {<<d, s>>}
  <2>1. Refs(i) # {} /\ Refs(i) \subseteq Out /\ Out \subseteq Refs(i) /\ CleanEffect(Out, {})
    BY <1>1, <1>6
  <2>. HIDE DEF Out
  <2>. QED
    BY <1>5, <1>7, <2>1, FreeKeeps
<1>. QED
  BY <1>1, <1>6, <1>8

\* The remove of one of several links leaves the inode with one link less.
LEMMA OneLinkGoes ==
    ASSUME IInv, ~torn, TypeOK', NEW i \in Inode \ {Root}, NEW r \in Refs(i),
           NEW In, CleanEffect({r}, In), In = {} \/ (In = {r} /\ NumberOf(r)' = 0),
           inode[i].linkCount > 1,
           inode'[i].linkCount = inode[i].linkCount - 1,
           \A j \in Inode \ {i} : inode'[j].linkCount = inode[j].linkCount,
           SameRecords,
           \A j \in Inode : ~Live(j) => inode'[j].vacantFile = inode[j].vacantFile
    PROVE  /\ IInv'
           /\ \A j \in Inode : Live(j)' <=> Live(j)
<1>1. \A j : Refs(j)' = (Refs(j) \ {r}) \cup {q \in In : NumberOf(q)' = j}
  BY EffectOnRefs DEF CleanEffect
<1>2. \A j \in Inode \ {Root} : Refs(j)' = Refs(j) \ {r}
  BY <1>1 DEF Root
<1>3. \A j \in Inode \ {i} : r \notin Refs(j)
  BY DEF Refs
<1>4. \A j \in Inode \ {i, Root} : Refs(j)' = Refs(j)
  BY <1>2, <1>3
<1>5. Cardinality(Refs(i)) = inode[i].linkCount
  BY DEF IInv, LinkCountExact
<1>6. Cardinality(Refs(i)') = Cardinality(Refs(i)) - 1
  <2>1. IsFiniteSet(Refs(i))
    BY RefsFinite
  <2>2. Cardinality(Refs(i) \ {r}) = Cardinality(Refs(i)) - 1
    BY <2>1, FS_RemoveElement
  <2>. QED
    BY <1>2, <2>2
<1>7. Refs(i)' # {}
  <2>1. Cardinality(Refs(i)') # 0
    BY <1>5, <1>6
  <2>2. Cardinality({}) = 0
    BY FS_EmptySet
  <2>. QED
    BY <2>1, <2>2
<1>8. \A j \in Inode : Live(j)' <=> Live(j)
  <2>1. Live(i)' /\ Live(i) /\ Live(Root)' /\ Live(Root)
    BY <1>7 DEF Live
  <2>2. \A j \in Inode \ {i, Root} : Live(j)' <=> Live(j)
    BY <1>4 DEF Live
  <2>. QED
    BY <2>1, <2>2
<1>9. CountsExact'
  <2>1. inode'[i].linkCount = Cardinality(Refs(i)')
    BY <1>5, <1>6
  <2>2. \A j \in Inode \ {i, Root} : Refs(j)' # {} =>
          inode'[j].linkCount = Cardinality(Refs(j)')
    BY <1>4 DEF IInv, LinkCountExact
  <2>. QED
    BY <2>1, <2>2 DEF CountsExact
<1>10. IInv'
  BY <1>8, <1>9, RelinkKeeps
<1>. QED
  BY <1>8, <1>10

\* Removing an empty directory by its last name keeps the invariant.
LEMMA RemoveDirKeeps ==
    ASSUME IInv, ~torn, NamePrefix = {}, NEW p \in Paths, fs_remove_dir(p)
    PROVE  /\ IInv'
           /\ \E i \in Inode \ {Root} : \E r \in Refs(i) :
                /\ EntryOf(r, p) /\ DropsName(r)
                /\ Refs(i) = {r} /\ imap' = imap \ {i}
                /\ inode[i].fileType = "d" /\ inode[i].vacantFile = {}
                /\ \A j \in Inode : Live(j)' <=> Live(j) /\ j # i
                /\ \A j \in Inode : inode'[j].fileType = inode[j].fileType
<1>1. PICK d \in Dirs, s \in Slot, i \in Inode \ {Root} :
        /\ d = searchPath(dirname(p)) /\ i = Resolve(p)
        /\ ExactSlot(d, basename(p)) = {s}
        /\ <<d, s>> \in EntriesInUse /\ <<d, s>> \in Refs(i)
        /\ NumberOf(<<d, s>>) = i /\ NameOf(<<d, s>>) = basename(p)
        /\ NameOf(<<d, s>>) # NoName
        /\ Live(i) /\ inode[i].fileType = "d"
  BY RemoveFinds DEF fs_remove_dir
<1>2. TypeOK'
  BY RemoveDirTypes DEF IInv
<1>3. /\ inode' = [inode EXCEPT ![d] = ClearBit(inode[d], {s})]
      /\ dblock' = WithoutEntries(d, {s})
      /\ fbm' = fbm \ {inode[i].directPointer[0]}
      /\ imap' = imap \ {i}
      /\ UNCHANGED <<fd, torn>>
  BY <1>1 DEF fs_remove_dir, bitmap_reset
<1>4. inode[i].vacantFile = {} /\ inode[i].linkCount <= 1
  BY <1>1 DEF fs_remove_dir
<1>5. Claims(i) = {inode[i].directPointer[0]}
  BY <1>1 DEF Claims
<1>6. /\ IInv' /\ CleanEffect({<<d, s>>}, {}) /\ Refs(i) = {<<d, s>>}
      /\ \A j \in Inode : Live(j)' <=> Live(j) /\ j # i
  BY <1>1, <1>2, <1>3, <1>4, <1>5, LastLinkGoes, ZenonT(30)
<1>7. \A j \in Inode : inode'[j].fileType = inode[j].fileType
  <2>1. inode \in [Inode -> InodeRecord] /\ d \in Inode
    BY DEF IInv, TypeOK, Dirs
  <2>2. ClearBit(inode[d], {s}).fileType = inode[d].fileType
    BY <2>1, SlotBits
  <2>. QED
    BY <1>3, <2>1, <2>2
<1>. QED
  BY <1>1, <1>3, <1>4, <1>6, <1>7 DEF DropsName, EntryOf

\* Removing a file by its last name keeps the invariant.
LEMMA RemoveFileKeeps ==
    ASSUME IInv, ~torn, NamePrefix = {}, NEW p \in Paths, fs_remove_file(p)
    PROVE  /\ IInv'
           /\ \E i \in Inode \ {Root} : \E r \in Refs(i) :
                /\ EntryOf(r, p) /\ DropsName(r)
                /\ Refs(i) = {r} /\ imap' = imap \ {i}
                /\ inode[i].fileType = "r"
                /\ \A j \in Inode : Live(j)' <=> Live(j) /\ j # i
                /\ \A j \in Inode : inode'[j].fileType = inode[j].fileType
<1>1. PICK d \in Dirs, s \in Slot, i \in Inode \ {Root} :
        /\ d = searchPath(dirname(p)) /\ i = Resolve(p)
        /\ ExactSlot(d, basename(p)) = {s}
        /\ <<d, s>> \in EntriesInUse /\ <<d, s>> \in Refs(i)
        /\ NumberOf(<<d, s>>) = i /\ NameOf(<<d, s>>) = basename(p)
        /\ NameOf(<<d, s>>) # NoName
        /\ Live(i) /\ inode[i].fileType = "r"
  BY RemoveFinds DEF fs_remove_file
<1>2. TypeOK'
  BY RemoveFileTypes DEF IInv
<1>3. /\ inode' = [inode EXCEPT ![d] = ClearBit(inode[d], {s})]
      /\ dblock' = WithoutInodes(d, {s})
      /\ fbm' = fbm \ HeldBlocks(i)
      /\ imap' = imap \ {i}
      /\ UNCHANGED <<fd, torn>>
  BY <1>1 DEF fs_remove_file, bitmap_reset
<1>4. inode[i].linkCount <= 1 /\ OpenFds = {}
  BY <1>1 DEF fs_remove_file, NoFdOpen
<1>5. HeldBlocks(i) = Claims(i)
  <2>1. Claims(i) = {inode[i].directPointer[k] : k \in Order} \ {0}
    BY <1>1 DEF Claims
  <2>2. Claims(i) \subseteq fbm
    BY <1>1 DEF IInv, BlocksExact
  <2>. QED
    BY <2>1, <2>2 DEF HeldBlocks
<1>6. /\ IInv' /\ CleanEffect({<<d, s>>}, {}) /\ Refs(i) = {<<d, s>>}
      /\ \A j \in Inode : Live(j)' <=> Live(j) /\ j # i
  BY <1>1, <1>2, <1>3, <1>4, <1>5, LastLinkGoes
<1>7. \A j \in Inode : inode'[j].fileType = inode[j].fileType
  <2>1. inode \in [Inode -> InodeRecord] /\ d \in Inode
    BY DEF IInv, TypeOK, Dirs
  <2>2. ClearBit(inode[d], {s}).fileType = inode[d].fileType
    BY <2>1, SlotBits
  <2>. QED
    BY <1>3, <2>1, <2>2
<1>. QED
  BY <1>1, <1>3, <1>4, <1>6, <1>7 DEF DropsName, EntryOf

\* An inode with a link count above one has more than one entry.
LEMMA OtherRef ==
    ASSUME IInv, ~torn, NEW i \in Inode \ {Root}, NEW r \in Refs(i),
           inode[i].linkCount > 1
    PROVE  Refs(i) # {r}
<1>1. inode[i].linkCount = Cardinality(Refs(i))
  BY DEF IInv, LinkCountExact
<1>2. Cardinality(Refs(i)) # 1
  BY <1>1
<1>3. Cardinality({r}) = 1
  BY FS_Singleton
<1>. QED
  BY <1>2, <1>3

\* Removing one of several names of an inode, in another directory, keeps the
\* invariant.
LEMMA OtherLinkKeeps ==
    ASSUME IInv, ~torn, TypeOK', NEW d \in Dirs, NEW s \in Slot,
           NEW i \in Inode \ {Root, d},
           <<d, s>> \in Refs(i), inode[i].linkCount > 1,
           inode' = [inode EXCEPT ![d] = ClearBit(inode[d], {s}), ![i] = Unlinked(i)],
           \/ dblock' = WithoutEntries(d, {s})
           \/ dblock' = WithoutInodes(d, {s}),
           UNCHANGED <<fbm, imap, fd, torn>>
    PROVE  /\ IInv' /\ SameNodes
           /\ CleanEffect({<<d, s>>}, {})
<1>1. /\ inode'[d].vacantFile = inode[d].vacantFile \ {s}
      /\ \A j \in Inode \ {d} : inode'[j].vacantFile = inode[j].vacantFile
      /\ \A j \in Inode : /\ inode'[j].fileType = inode[j].fileType
                          /\ inode'[j].directPointer = inode[j].directPointer
      /\ inode'[i].linkCount = inode[i].linkCount - 1
      /\ \A j \in Inode \ {i} : inode'[j].linkCount = inode[j].linkCount
  <2>1. inode \in [Inode -> InodeRecord] /\ d \in Inode
    BY DEF IInv, TypeOK, Dirs
  <2>2. /\ inode'[d] = ClearBit(inode[d], {s})
        /\ inode'[i] = Unlinked(i)
        /\ \A j \in Inode \ {d, i} : inode'[j] = inode[j]
    BY <2>1
  <2>3. /\ Unlinked(i).linkCount = inode[i].linkCount - 1
        /\ Unlinked(i).vacantFile = inode[i].vacantFile
        /\ Unlinked(i).fileType = inode[i].fileType
        /\ Unlinked(i).directPointer = inode[i].directPointer
    BY <2>1 DEF Unlinked, InodeRecord
  <2>4. /\ inode'[d].vacantFile = inode[d].vacantFile \ {s}
        /\ inode'[d].linkCount = inode[d].linkCount
        /\ inode'[d].fileType = inode[d].fileType
        /\ inode'[d].directPointer = inode[d].directPointer
    BY <2>1, <2>2, SlotBits
  <2>. QED
    BY <2>1, <2>2, <2>3, <2>4
<1>2. <<d, s>> \in EntriesInUse
  BY DEF Refs
<1>3. CleanEffect({<<d, s>>}, {})
  <2>1. DirSlots(d, inode[d].vacantFile \ {s})
    BY <1>1, ClearedSlots
  <2>. QED
    BY <1>2, <2>1, RemoveEffect
<1>4. SameRecords
  BY <1>1 DEF SameRecords
<1>5. \A j \in Inode : ~Live(j) => inode'[j].vacantFile = inode[j].vacantFile
  BY <1>1 DEF Dirs
<1>6. IInv' /\ \A j \in Inode : Live(j)' <=> Live(j)
  <2>. PICK r : r = <<d, s>>
    OBVIOUS
  <2>1. r \in Refs(i) /\ CleanEffect({r}, {}) /\ i \in Inode \ {Root}
    BY <1>3
  <2>. QED
    BY <1>1, <1>4, <1>5, <2>1, OneLinkGoes
<1>. QED
  BY <1>1, <1>3, <1>6 DEF SameNodes

\* Removing the name a directory has in itself keeps the invariant: the record
\* is stored last without the change of its slots, and the entry stays in use,
\* with neither a name nor a number.
LEMMA SelfLinkKeeps ==
    ASSUME IInv, ~torn, TypeOK', NEW d \in Dirs \ {Root}, NEW s \in Slot,
           <<d, s>> \in Refs(d), inode[d].linkCount > 1,
           inode' = [inode EXCEPT ![d] = Unlinked(d)],
           dblock' = WithoutEntries(d, {s}),
           UNCHANGED <<fbm, imap, fd, torn>>
    PROVE  /\ IInv' /\ SameNodes
           /\ CleanEffect({<<d, s>>}, {<<d, s>>})
           /\ NumberOf(<<d, s>>)' = 0
<1>1. inode \in [Inode -> InodeRecord] /\ d \in Inode \ {Root} /\ inode[d].fileType = "d"
  BY DEF IInv, TypeOK, Dirs
<1>2. inode'[d] = Unlinked(d) /\ \A j \in Inode \ {d} : inode'[j] = inode[j]
  BY <1>1
<1>3. /\ Unlinked(d).linkCount = inode[d].linkCount - 1
      /\ Unlinked(d).vacantFile = inode[d].vacantFile
      /\ Unlinked(d).fileType = inode[d].fileType
      /\ Unlinked(d).directPointer = inode[d].directPointer
  BY <1>1 DEF Unlinked, InodeRecord
<1>4. /\ \A j \in Inode : /\ inode'[j].fileType = inode[j].fileType
                          /\ inode'[j].directPointer = inode[j].directPointer
                          /\ inode'[j].vacantFile = inode[j].vacantFile
      /\ inode'[d].linkCount = inode[d].linkCount - 1
      /\ \A j \in Inode \ {d} : inode'[j].linkCount = inode[j].linkCount
  BY <1>2, <1>3
<1>5. <<d, s>> \in EntriesInUse
  BY DEF Refs
<1>6. EntriesInUse' = EntriesInUse
  BY <1>4 DEF EntriesInUse
<1>. PICK b \in Block : b = inode[d].directPointer[0]
  BY DirFacts
<1>7. /\ Entry(d, s)' = NoEntry
      /\ \A x \in Slot \ {s} : Entry(d, x)' = Entry(d, x)
      /\ \A c \in Block \ {b} : dblock'[c] = dblock[c]
  <2>1. dblock \in [Block -> [Slot -> Dentry]]
    BY DEF IInv, TypeOK
  <2>2. dblock' = [dblock EXCEPT ![b] =
                     [x \in Slot |-> IF x \in {s} THEN NoEntry ELSE dblock[b][x]]]
    BY <2>1 DEF WithoutEntries
  <2>3. dblock'[b] = [x \in Slot |-> IF x \in {s} THEN NoEntry ELSE dblock[b][x]]
    BY <2>1, <2>2
  <2>4. inode'[d].directPointer[0] = b
    BY <1>1, <1>4
  <2>. QED
    BY <2>1, <2>2, <2>3, <2>4 DEF Entry
<1>8. ASSUME NEW e \in Dirs \ {d}, NEW x \in Slot PROVE Entry(e, x)' = Entry(e, x)
  <2>1. inode[e].directPointer[0] \in Block \ {b} /\ e \in Inode
    BY DirFacts
  <2>. QED
    BY <1>4, <1>7, <2>1 DEF Entry
<1>9. NumberOf(<<d, s>>)' = 0 /\ NameOf(<<d, s>>)' = NoName
  BY <1>7 DEF NumberOf, NameOf, NoEntry
<1>10. CleanEffect({<<d, s>>}, {<<d, s>>})
  <2>1. Effect({<<d, s>>}, {<<d, s>>})
    BY <1>5, <1>6, <1>7, <1>8 DEF Effect
  <2>. QED
    BY <1>9, <2>1 DEF CleanEffect
<1>11. SameRecords
  BY <1>4 DEF SameRecords
<1>12. IInv' /\ \A j \in Inode : Live(j)' <=> Live(j)
  <2>. PICK r : r = <<d, s>>
    OBVIOUS
  <2>. DEFINE In == {r}
  <2>1. r \in Refs(d) /\ CleanEffect({r}, In) /\ In = {r}
    BY <1>10
  <2>2. NumberOf(r)' = 0
    BY <1>9
  <2>. HIDE DEF In
  <2>. QED
    BY <1>1, <1>4, <1>11, <2>1, <2>2, OneLinkGoes
<1>. QED
  BY <1>4, <1>9, <1>10, <1>12 DEF SameNodes

\* Removing one of several names of a directory keeps the invariant.
LEMMA RemoveDirLinkKeeps ==
    ASSUME IInv, ~torn, NamePrefix = {}, NEW p \in Paths, fs_remove_dir_link(p)
    PROVE  /\ IInv' /\ SameNodes
           /\ \E i \in Inode \ {Root} : \E r \in Refs(i) :
                EntryOf(r, p) /\ DropsName(r) /\ Refs(i) # {r}
<1>1. PICK d \in Dirs, s \in Slot, i \in Inode \ {Root} :
        /\ d = searchPath(dirname(p)) /\ i = Resolve(p)
        /\ ExactSlot(d, basename(p)) = {s}
        /\ <<d, s>> \in EntriesInUse /\ <<d, s>> \in Refs(i)
        /\ NumberOf(<<d, s>>) = i /\ NameOf(<<d, s>>) = basename(p)
        /\ NameOf(<<d, s>>) # NoName
        /\ Live(i) /\ inode[i].fileType = "d"
  BY RemoveFinds DEF fs_remove_dir_link
<1>2. TypeOK'
  BY RemoveDirTypes DEF IInv
<1>3. /\ inode' = [inode EXCEPT ![d] = ClearBit(inode[d], {s}), ![i] = Unlinked(i)]
      /\ dblock' = WithoutEntries(d, {s})
      /\ UNCHANGED <<fbm, imap, fd, torn>>
      /\ inode[i].linkCount > 1
  BY <1>1 DEF fs_remove_dir_link
<1>4. Refs(i) # {<<d, s>>}
  BY <1>1, <1>3, OtherRef
<1>5. CASE i # d
  <2>1. i \in Inode \ {Root, d}
    BY <1>5
  <2>2. IInv' /\ SameNodes /\ CleanEffect({<<d, s>>}, {})
    BY <1>1, <1>2, <1>3, <2>1, OtherLinkKeeps
  <2>. QED
    BY <1>1, <1>4, <2>2 DEF DropsName, EntryOf
<1>6. CASE i = d
  <2>1. inode' = [inode EXCEPT ![d] = Unlinked(d)]
    <3>1. inode \in [Inode -> InodeRecord]
      BY DEF IInv, TypeOK
    <3>. QED
      BY <1>3, <1>6, <3>1
  <2>2. /\ IInv' /\ SameNodes /\ CleanEffect({<<d, s>>}, {<<d, s>>})
        /\ NumberOf(<<d, s>>)' = 0
    BY <1>1, <1>2, <1>3, <1>6, <2>1, SelfLinkKeeps
  <2>. QED
    BY <1>1, <1>4, <2>2 DEF DropsName, EntryOf
<1>. QED
  BY <1>5, <1>6

\* Removing one of several names of a regular file keeps the invariant.
LEMMA RemoveFileLinkKeeps ==
    ASSUME IInv, ~torn, NamePrefix = {}, NEW p \in Paths, fs_remove_file_link(p)
    PROVE  /\ IInv' /\ SameNodes
           /\ \E i \in Inode \ {Root} : \E r \in Refs(i) :
                EntryOf(r, p) /\ DropsName(r) /\ Refs(i) # {r}
<1>1. PICK d \in Dirs, s \in Slot, i \in Inode \ {Root} :
        /\ d = searchPath(dirname(p)) /\ i = Resolve(p)
        /\ ExactSlot(d, basename(p)) = {s}
        /\ <<d, s>> \in EntriesInUse /\ <<d, s>> \in Refs(i)
        /\ NumberOf(<<d, s>>) = i /\ NameOf(<<d, s>>) = basename(p)
        /\ NameOf(<<d, s>>) # NoName
        /\ Live(i) /\ inode[i].fileType = "r"
  BY RemoveFinds DEF fs_remove_file_link
<1>2. TypeOK'
  BY RemoveFileTypes DEF IInv
<1>3. /\ inode' = [inode EXCEPT ![i] = Unlinked(i), ![d] = ClearBit(inode[d], {s})]
      /\ dblock' = WithoutInodes(d, {s})
      /\ UNCHANGED <<fbm, imap, fd, torn>>
      /\ inode[i].linkCount > 1
  BY <1>1 DEF fs_remove_file_link
<1>4. Refs(i) # {<<d, s>>}
  BY <1>1, <1>3, OtherRef
<1>5. i \in Inode \ {Root, d}
  BY <1>1 DEF Dirs
<1>6. inode' = [inode EXCEPT ![d] = ClearBit(inode[d], {s}), ![i] = Unlinked(i)]
  <2>1. inode \in [Inode -> InodeRecord]
    BY DEF IInv, TypeOK
  <2>. QED
    BY <1>3, <1>5, <2>1
<1>7. IInv' /\ SameNodes /\ CleanEffect({<<d, s>>}, {})
  BY <1>1, <1>2, <1>3, <1>5, <1>6, OtherLinkKeeps
<1>. QED
  BY <1>1, <1>4, <1>7 DEF DropsName, EntryOf

-----------------------------------------------------------------------------
(* Linking and moving *)

\* The entry r becomes one of the directory d with the name n, new to it.
MovesName(r, d, n) ==
    /\ r \in EntriesInUse /\ NameOf(r) # NoName
    /\ d \in Dirs /\ n \in Names
    /\ \A e \in EntriesInUse : e[1] = d => NameOf(e) # n
    /\ \E q : /\ CleanEffect({r}, {q})
              /\ q[1] = d
              /\ NumberOf(q)' = NumberOf(r)
              /\ NameOf(q)' = n

\* Adding a name of an inode keeps the invariant.
LEMMA LinkKeeps ==
    ASSUME IInv, ~torn, NamePrefix = {}, NEW src \in Paths, NEW dst \in Paths,
           fs_link(src, dst)
    PROVE  /\ IInv' /\ SameNodes
           /\ \E d \in Dirs, i \in Inode \ {Root} :
                Live(i) /\ AddsName(d, basename(dst), i)
<1>. PICK d, i, s : d = searchPath(dirname(dst)) /\ i = Resolve(src) /\ s = FreeSlot(d)
  OBVIOUS
<1>. DEFINE n == basename(dst)
            rec == IF i = d THEN Linked(inode[d]) ELSE inode[d]
<1>1. /\ d \in Dirs /\ n \in Names
      /\ \A e \in EntriesInUse : e[1] = d => NameOf(e) # n
  BY UnboundIsFresh DEF fs_link
<1>2. i \in Inode \ {Root} /\ Live(i)
  BY ResolveFinds DEF fs_link
<1>3. s \in Slot \ inode[d].vacantFile
  BY AllocatorTypes DEF fs_link
<1>4. /\ inode' = [inode EXCEPT ![i] = Linked(inode[i]), ![d] = SetBit(rec, s)]
      /\ dblock' = AddEntry(dblock, d, s, n, i)
      /\ UNCHANGED <<fbm, imap, fd, torn>>
  BY DEF fs_link
<1>. HIDE DEF n
<1>5. TypeOK /\ TypeOK'
  BY LinkTypes DEF IInv
<1>6. /\ inode \in [Inode -> InodeRecord] /\ dblock \in [Block -> [Slot -> Dentry]]
      /\ d \in Inode /\ i \in Inode
  BY <1>1, <1>2, <1>5 DEF TypeOK, Dirs
<1>7. \A r \in InodeRecord : /\ Linked(r) \in InodeRecord
                             /\ Linked(r).linkCount = r.linkCount + 1
                             /\ Linked(r).vacantFile = r.vacantFile
                             /\ Linked(r).fileType = r.fileType
                             /\ Linked(r).directPointer = r.directPointer
  BY DEF Linked, InodeRecord
<1>8. /\ rec \in InodeRecord
      /\ rec.vacantFile = inode[d].vacantFile
      /\ rec.fileType = inode[d].fileType
      /\ rec.directPointer = inode[d].directPointer
      /\ rec.linkCount = IF i = d THEN inode[d].linkCount + 1 ELSE inode[d].linkCount
  BY <1>6, <1>7
<1>. HIDE DEF rec
<1>9. /\ inode'[d] = SetBit(rec, s)
      /\ i # d => inode'[i] = Linked(inode[i])
      /\ \A j \in Inode \ {d, i} : inode'[j] = inode[j]
  BY <1>4, <1>6
<1>10. /\ inode'[d].vacantFile = inode[d].vacantFile \cup {s}
       /\ inode'[d].fileType = inode[d].fileType
       /\ inode'[d].directPointer = inode[d].directPointer
       /\ inode'[d].linkCount = rec.linkCount
  BY <1>8, <1>9, SlotBits
<1>11. i # d => /\ inode'[i].linkCount = inode[i].linkCount + 1
                /\ inode'[i].vacantFile = inode[i].vacantFile
                /\ inode'[i].fileType = inode[i].fileType
                /\ inode'[i].directPointer = inode[i].directPointer
  BY <1>6, <1>7, <1>9
<1>12. /\ \A j \in Inode \ {d} : inode'[j].vacantFile = inode[j].vacantFile
       /\ \A j \in Inode : /\ inode'[j].fileType = inode[j].fileType
                           /\ inode'[j].directPointer = inode[j].directPointer
       /\ inode'[i].linkCount = inode[i].linkCount + 1
       /\ \A j \in Inode \ {i} : inode'[j].linkCount = inode[j].linkCount
  BY <1>6, <1>8, <1>9, <1>10, <1>11
<1>13. /\ CleanEffect({}, {<<d, s>>})
       /\ <<d, s>> \notin EntriesInUse
       /\ NumberOf(<<d, s>>)' = i
       /\ NameOf(<<d, s>>)' = n
  <2>1. DirSlots(d, inode[d].vacantFile \cup {s})
    <3>1. \A e \in Dirs :
             /\ inode'[e].fileType = "d"
             /\ inode'[e].directPointer = inode[e].directPointer
             /\ inode'[e].vacantFile = IF e = d THEN inode[d].vacantFile \cup {s}
                                       ELSE inode[e].vacantFile
      BY <1>10, <1>12, DirFacts
    <3>2. \A j \in Inode \ Dirs : inode'[j].fileType = "d" => inode'[j].vacantFile = {}
      BY <1>1, <1>12, NoOtherSlots
    <3>. QED
      BY <3>1, <3>2 DEF DirSlots
  <2>. QED
    BY <1>1, <1>2, <1>3, <1>4, <1>6, <2>1, AddEffect
<1>14. AddsName(d, n, i)
  BY <1>1, <1>2, <1>3, <1>13 DEF AddsName
<1>. PICK r : r = <<d, s>>
  OBVIOUS
<1>15. \A j : Refs(j)' = Refs(j) \cup {q \in {r} : NumberOf(q)' = j}
  <2>1. \A j : Refs(j)' = (Refs(j) \ {}) \cup {q \in {r} : NumberOf(q)' = j}
    BY <1>13, EffectOnRefs DEF CleanEffect
  <2>. QED
    BY <2>1
<1>16. NumberOf(r)' = i
  BY <1>13
<1>17. \A j : j # i => Refs(j)' = Refs(j)
  BY <1>15, <1>16
<1>18. Refs(i)' = Refs(i) \cup {r}
  BY <1>15, <1>16
<1>19. \A j \in Inode : Live(j)' <=> Live(j)
  <2>1. Live(i)'
    BY <1>18 DEF Live
  <2>. QED
    BY <1>2, <1>17, <2>1 DEF Live
<1>20. CountsExact'
  <2>1. Cardinality(Refs(i)') = Cardinality(Refs(i)) + 1
    <3>1. IsFiniteSet(Refs(i)) /\ r \notin Refs(i)
      BY <1>13, RefsFinite DEF Refs
    <3>2. Cardinality(Refs(i) \cup {r}) = Cardinality(Refs(i)) + 1
      BY <3>1, FS_AddElement
    <3>. QED
      BY <1>18, <3>2
  <2>2. inode[i].linkCount = Cardinality(Refs(i))
    BY <1>2 DEF IInv, LinkCountExact, Live
  <2>3. inode'[i].linkCount = Cardinality(Refs(i)')
    BY <1>12, <2>1, <2>2
  <2>4. \A j \in Inode \ {i, Root} : Refs(j)' # {} =>
          inode'[j].linkCount = Cardinality(Refs(j)')
    BY <1>12, <1>17 DEF IInv, LinkCountExact
  <2>. QED
    BY <2>3, <2>4 DEF CountsExact
<1>21. SameRecords
  BY <1>4, <1>12 DEF SameRecords
<1>22. \A j \in Inode : ~Live(j) => inode'[j].vacantFile = inode[j].vacantFile
  BY <1>1, <1>12 DEF Dirs
<1>23. IInv'
  BY <1>5, <1>13, <1>19, <1>20, <1>21, <1>22, RelinkKeeps
<1>. QED
  BY <1>1, <1>2, <1>12, <1>14, <1>19, <1>23 DEF SameNodes, n

\* A step that puts one entry of an inode in the place of another keeps the
\* invariant.
LEMMA MoveKeeps ==
    ASSUME IInv, ~torn, TypeOK', NEW i \in Inode \ {Root}, NEW r \in Refs(i), NEW q,
           CleanEffect({r}, {q}), NumberOf(q)' = i, SameRecords,
           \A j \in Inode : inode'[j].linkCount = inode[j].linkCount,
           \A j \in Inode : ~Live(j) => inode'[j].vacantFile = inode[j].vacantFile
    PROVE  /\ IInv'
           /\ \A j \in Inode : Live(j)' <=> Live(j)
<1>1. \A j : Refs(j)' = (Refs(j) \ {r}) \cup {x \in {q} : NumberOf(x)' = j}
  BY EffectOnRefs DEF CleanEffect
<1>2. \A j : j # i => Refs(j)' = Refs(j)
  <2>1. \A j : j # i => r \notin Refs(j)
    BY DEF Refs
  <2>. QED
    BY <1>1, <2>1
<1>3. Refs(i)' = (Refs(i) \ {r}) \cup {q}
  BY <1>1
<1>4. Cardinality(Refs(i)') = Cardinality(Refs(i))
  <2>1. IsFiniteSet(Refs(i)) /\ Cardinality(Refs(i)) \in Nat
    BY RefsFinite
  <2>2. /\ IsFiniteSet(Refs(i) \ {r})
        /\ Cardinality(Refs(i) \ {r}) = Cardinality(Refs(i)) - 1
    BY <2>1, FS_RemoveElement
  <2>3. q \notin Refs(i) \ {r}
    BY DEF CleanEffect, Refs
  <2>4. Cardinality((Refs(i) \ {r}) \cup {q}) = Cardinality(Refs(i) \ {r}) + 1
    BY <2>2, <2>3, FS_AddElement
  <2>. QED
    BY <1>3, <2>1, <2>2, <2>4
<1>5. \A j \in Inode : Live(j)' <=> Live(j)
  <2>1. Live(i) /\ Live(i)'
    BY <1>3 DEF Live
  <2>. QED
    BY <1>2, <2>1 DEF Live
<1>6. CountsExact'
  <2>1. inode'[i].linkCount = Cardinality(Refs(i)')
    BY <1>4 DEF IInv, LinkCountExact
  <2>2. \A j \in Inode \ {i, Root} : Refs(j)' # {} =>
          inode'[j].linkCount = Cardinality(Refs(j)')
    BY <1>2 DEF IInv, LinkCountExact
  <2>. QED
    BY <2>1, <2>2 DEF CountsExact
<1>7. IInv'
  BY <1>5, <1>6, RelinkKeeps
<1>. QED
  BY <1>5, <1>7

\* The inode of an entry of a directory, of any slot, is 0 or that of an entry in
\* use, with a name.
LEMMA SlotWithInode ==
    ASSUME IInv, ~torn, NEW d \in Dirs, NEW s \in Slot, NEW i \in Inode \ {Root},
           Entry(d, s).inodeNumber = i
    PROVE  /\ <<d, s>> \in EntriesInUse
           /\ <<d, s>> \in Refs(i)
           /\ NumberOf(<<d, s>>) = i
           /\ NameOf(<<d, s>>) # NoName
<1>1. NumberOf(<<d, s>>) = i /\ i # 0
  BY DEF NumberOf, Root
<1>2. s \in inode[d].vacantFile
  BY <1>1 DEF IInv, Consistent, UnusedSlotsBlank
<1>3. <<d, s>> \in EntriesInUse
  BY <1>2, SlotIsEntry
<1>4. <<d, s>> \in Refs(i)
  BY <1>3 DEF Refs
<1>5. NameOf(<<d, s>>) # NoName
  BY <1>1, <1>3 DEF IInv, Consistent, UsedSlotsNumbered
<1>. QED
  BY <1>1, <1>3, <1>4, <1>5

\* Moving within a directory keeps the invariant.
LEMMA MoveRenameKeeps ==
    ASSUME IInv, ~torn, NamePrefix = {}, NEW src \in Paths, NEW dst \in Paths,
           fs_move_rename(src, dst)
    PROVE  /\ IInv' /\ SameNodes
           /\ \E r \in EntriesInUse, d \in Dirs : MovesName(r, d, basename(dst))
<1>. PICK d, i, s :
       /\ d = searchPath(dirname(src)) /\ i = Resolve(src)
       /\ s = Min({x \in Slot : Entry(d, x) = [filename |-> basename(src), inodeNumber |-> i]})
  OBVIOUS
<1>. DEFINE n == basename(dst)
            S == {x \in Slot : Entry(d, x) = [filename |-> basename(src), inodeNumber |-> i]}
<1>1. MoveChecked(src, dst) /\ searchPath(dirname(dst)) = d /\ S # {}
  BY DEF fs_move_rename
<1>2. /\ d \in Dirs /\ n \in Names /\ n # NoName
      /\ \A e \in EntriesInUse : e[1] = d => NameOf(e) # n
  BY <1>1, UnboundIsFresh DEF MoveChecked
<1>3. i \in Inode \ {Root} /\ Live(i)
  BY <1>1, ResolveFinds DEF MoveChecked
<1>4. s \in Slot /\ Entry(d, s).inodeNumber = i
  <2>1. S \subseteq Nat
    BY DEF Slot
  <2>2. s \in S
    BY <1>1, <2>1, MinProperties
  <2>. QED
    BY <2>2
<1>. PICK b : b = inode[d].directPointer[0]
  OBVIOUS
<1>5. /\ dblock' = [dblock EXCEPT ![b][s].filename = n]
      /\ UNCHANGED <<fbm, imap, inode, fd, torn>>
  BY DEF fs_move_rename
<1>. HIDE DEF n, S
<1>6. /\ <<d, s>> \in EntriesInUse /\ <<d, s>> \in Refs(i)
      /\ NumberOf(<<d, s>>) = i /\ NameOf(<<d, s>>) # NoName
  BY <1>2, <1>3, <1>4, SlotWithInode
<1>7. b \in Block /\ dblock \in [Block -> [Slot -> Dentry]] /\ dblock[b] \in [Slot -> Dentry]
  BY <1>2, DirFacts DEF IInv, TypeOK
<1>8. dblock' = [dblock EXCEPT ![b] = [dblock[b] EXCEPT ![s] =
                                         [dblock[b][s] EXCEPT !.filename = n]]]
  BY <1>5
<1>9. dblock'[b] = [dblock[b] EXCEPT ![s] = [dblock[b][s] EXCEPT !.filename = n]]
  BY <1>7, <1>8
<1>10. Entry(d, s)' = [dblock[b][s] EXCEPT !.filename = n]
  BY <1>4, <1>5, <1>7, <1>9 DEF Entry
<1>11. NumberOf(<<d, s>>)' = i /\ NameOf(<<d, s>>)' = n
  <2>1. dblock[b][s] \in Dentry /\ dblock[b][s].inodeNumber = i
    BY <1>4, <1>7 DEF Entry
  <2>2. /\ [dblock[b][s] EXCEPT !.filename = n].inodeNumber = dblock[b][s].inodeNumber
        /\ [dblock[b][s] EXCEPT !.filename = n].filename = n
    BY <2>1 DEF Dentry
  <2>. QED
    BY <1>10, <2>1, <2>2 DEF NumberOf, NameOf
<1>12. \A x \in Slot \ {s} : Entry(d, x)' = Entry(d, x)
  BY <1>5, <1>7, <1>9 DEF Entry
<1>13. ASSUME NEW e \in Dirs \ {d}, NEW x \in Slot PROVE Entry(e, x)' = Entry(e, x)
  <2>1. inode[e].directPointer[0] \in Block \ {b}
    BY <1>2, DirFacts
  <2>. QED
    BY <1>5, <1>7, <1>8, <2>1 DEF Entry
<1>14. EntriesInUse' = EntriesInUse
  BY <1>5 DEF EntriesInUse
<1>. PICK r : r = <<d, s>>
  OBVIOUS
<1>15. CleanEffect({r}, {r})
  <2>1. Effect({r}, {r})
    BY <1>6, <1>12, <1>13, <1>14 DEF Effect
  <2>2. NumberOf(r)' # 0 /\ NameOf(r)' = n /\ r[1] = d
    BY <1>3, <1>11 DEF Root
  <2>. QED
    BY <1>2, <2>1, <2>2 DEF CleanEffect
<1>16. NumberOf(r)' = i /\ r \in Refs(i) /\ SameRecords
  BY <1>5, <1>6, <1>11 DEF SameRecords
<1>17. IInv' /\ \A j \in Inode : Live(j)' <=> Live(j)
  <2>1. TypeOK'
    BY MoveRenameTypes DEF IInv
  <2>2. \A j \in Inode : inode'[j] = inode[j]
    BY <1>5
  <2>. DEFINE q == r
  <2>3. CleanEffect({r}, {q}) /\ NumberOf(q)' = i
    BY <1>15, <1>16
  <2>. HIDE DEF q
  <2>. QED
    BY <1>3, <1>16, <2>1, <2>2, <2>3, MoveKeeps
<1>18. MovesName(r, d, n)
  BY <1>2, <1>6, <1>11, <1>15 DEF MovesName
<1>. QED
  BY <1>2, <1>5, <1>6, <1>17, <1>18 DEF SameNodes, n

\* Moving from one directory to another keeps the invariant.
LEMMA MoveAcrossKeeps ==
    ASSUME IInv, ~torn, NamePrefix = {}, NEW src \in Paths, NEW dst \in Paths,
           fs_move_across(src, dst)
    PROVE  /\ IInv' /\ SameNodes
           /\ \E r \in EntriesInUse, d \in Dirs : MovesName(r, d, basename(dst))
<1>. PICK d, e, i, t, s :
       /\ d = searchPath(dirname(src)) /\ e = searchPath(dirname(dst)) /\ i = Resolve(src)
       /\ t = FreeSlot(e)
       /\ s = Min({x \in Slot : Entry(d, x).inodeNumber = i})
  OBVIOUS
<1>. DEFINE n == basename(dst)
            S == {x \in Slot : Entry(d, x).inodeNumber = i}
<1>1. MoveChecked(src, dst) /\ d # e
  BY DEF fs_move_across
<1>2. /\ e \in Dirs /\ n \in Names /\ n # NoName
      /\ \A h \in EntriesInUse : h[1] = e => NameOf(h) # n
  BY <1>1, UnboundIsFresh DEF MoveChecked
<1>3. /\ d \in Dirs /\ i \in Inode \ {Root} /\ Live(i)
      /\ \E x \in Slot : NumberOf(<<d, x>>) = i
  BY <1>1, ResolveFinds DEF MoveChecked
<1>4. s \in Slot /\ Entry(d, s).inodeNumber = i
  <2>1. S \subseteq Nat /\ S # {}
    BY <1>3 DEF Slot, NumberOf
  <2>2. s \in S
    BY <2>1, MinProperties
  <2>. QED
    BY <2>2
<1>5. t \in Slot \ inode[e].vacantFile
  BY AllocatorTypes DEF fs_move_across
<1>. PICK b, c : b = inode[d].directPointer[0] /\ c = inode[e].directPointer[0]
  OBVIOUS
<1>. DEFINE new == [filename |-> n, inodeNumber |-> i]
<1>6. /\ dblock' = [[dblock EXCEPT ![c] = [dblock[c] EXCEPT ![t] = new]]
                      EXCEPT ![b] = [dblock[b] EXCEPT ![s] = NoEntry]]
      /\ inode' = [inode EXCEPT ![e] = SetBit(inode[e], t),
                                ![d] = ClearBit(inode[d], {s})]
      /\ UNCHANGED <<fbm, imap, fd, torn>>
  BY DEF fs_move_across, AddEntry
<1>7. new.filename = n /\ new.inodeNumber = i
  OBVIOUS
<1>. HIDE DEF n, S, new
<1>. PICK r, q : r = <<d, s>> /\ q = <<e, t>>
  OBVIOUS
<1>8. r \in EntriesInUse /\ r \in Refs(i) /\ NumberOf(r) = i /\ NameOf(r) # NoName
  BY <1>3, <1>4, SlotWithInode
<1>9. /\ b \in Block /\ c \in Block /\ b # c
      /\ dblock \in [Block -> [Slot -> Dentry]]
      /\ dblock[b] \in [Slot -> Dentry] /\ dblock[c] \in [Slot -> Dentry]
  BY <1>1, <1>2, <1>3, DirFacts DEF IInv, TypeOK
<1>10. /\ dblock'[b] = [dblock[b] EXCEPT ![s] = NoEntry]
       /\ dblock'[c] = [dblock[c] EXCEPT ![t] = new]
       /\ \A a \in Block \ {b, c} : dblock'[a] = dblock[a]
  BY <1>6, <1>9
<1>11. inode \in [Inode -> InodeRecord] /\ d \in Inode /\ e \in Inode
  BY <1>2, <1>3 DEF IInv, TypeOK, Dirs
<1>12. /\ inode'[e] = SetBit(inode[e], t)
       /\ inode'[d] = ClearBit(inode[d], {s})
       /\ \A j \in Inode \ {d, e} : inode'[j] = inode[j]
  BY <1>1, <1>6, <1>11
<1>13. /\ inode'[e].vacantFile = inode[e].vacantFile \cup {t}
       /\ inode'[e].fileType = inode[e].fileType
       /\ inode'[e].directPointer = inode[e].directPointer
       /\ inode'[e].linkCount = inode[e].linkCount
  BY <1>11, <1>12, SlotBits
<1>14. /\ inode'[d].vacantFile = inode[d].vacantFile \ {s}
       /\ inode'[d].fileType = inode[d].fileType
       /\ inode'[d].directPointer = inode[d].directPointer
       /\ inode'[d].linkCount = inode[d].linkCount
  BY <1>11, <1>12, SlotBits
<1>15. /\ \A j \in Inode \ {d, e} : inode'[j].vacantFile = inode[j].vacantFile
       /\ \A j \in Inode : /\ inode'[j].fileType = inode[j].fileType
                           /\ inode'[j].directPointer = inode[j].directPointer
                           /\ inode'[j].linkCount = inode[j].linkCount
  BY <1>12, <1>13, <1>14
<1>16. EntriesInUse' = (EntriesInUse \ {r}) \cup {q}
  <2>. DEFINE Out == {r}
              In  == {q}
  <2>1. In \in SUBSET (Dirs \X Slot)
    BY <1>2, <1>5
  <2>2. ASSUME NEW h \in Dirs
        PROVE  /\ inode'[h].fileType = "d"
               /\ \A x \in Slot : x \in inode'[h].vacantFile <=>
                    (x \in inode[h].vacantFile /\ <<h, x>> \notin Out) \/ <<h, x>> \in In
    <3>1. h \in Inode /\ inode'[h].fileType = "d"
      BY <1>15, DirFacts
    <3>2. \A x : <<h, x>> \in Out <=> h = d /\ x = s
      OBVIOUS
    <3>3. \A x : <<h, x>> \in In <=> h = e /\ x = t
      OBVIOUS
    <3>. HIDE DEF Out, In
    <3>. QED
      BY <1>1, <1>13, <1>14, <1>15, <3>1, <3>2, <3>3
  <2>3. \A j \in Inode \ Dirs : inode'[j].fileType = "d" => inode'[j].vacantFile = {}
    BY <1>2, <1>3, <1>15, NoOtherSlots
  <2>. HIDE DEF Out, In
  <2>4. EntriesInUse' = (EntriesInUse \ Out) \cup In
    BY <2>1, <2>2, <2>3, EntriesBySlots
  <2>. QED
    BY <2>4 DEF Out, In
<1>17. /\ Entry(d, s)' = NoEntry
       /\ \A x \in Slot \ {s} : Entry(d, x)' = Entry(d, x)
  <2>1. inode'[d].directPointer[0] = b /\ s \in Slot
    BY <1>4, <1>14
  <2>2. \A x : Entry(d, x)' = dblock'[b][x] /\ Entry(d, x) = dblock[b][x]
    BY <2>1 DEF Entry
  <2>3. \A x \in Slot : dblock'[b][x] = IF x = s THEN NoEntry ELSE dblock[b][x]
    BY <1>9, <1>10
  <2>. QED
    BY <2>1, <2>2, <2>3
<1>18. /\ Entry(e, t)' = new
       /\ \A x \in Slot \ {t} : Entry(e, x)' = Entry(e, x)
  <2>1. inode'[e].directPointer[0] = c /\ t \in Slot
    BY <1>5, <1>13
  <2>2. \A x : Entry(e, x)' = dblock'[c][x] /\ Entry(e, x) = dblock[c][x]
    BY <2>1 DEF Entry
  <2>3. \A x \in Slot : dblock'[c][x] = IF x = t THEN new ELSE dblock[c][x]
    BY <1>9, <1>10
  <2>. QED
    BY <2>1, <2>2, <2>3
<1>19. ASSUME NEW h \in Dirs \ {d, e}, NEW x \in Slot PROVE Entry(h, x)' = Entry(h, x)
  <2>1. PICK z : z = inode[h].directPointer[0]
    OBVIOUS
  <2>2. h \in Inode /\ z \in Block \ {b, c}
    BY <1>2, <1>3, <2>1, DirFacts
  <2>3. inode'[h].directPointer[0] = z
    BY <1>15, <2>1, <2>2
  <2>4. dblock'[z] = dblock[z]
    BY <1>10, <2>2
  <2>. QED
    BY <2>1, <2>3, <2>4 DEF Entry
<1>20. NumberOf(r)' = 0 /\ NumberOf(q)' = i /\ NameOf(q)' = n
  BY <1>7, <1>17, <1>18 DEF NumberOf, NameOf, NoEntry
<1>21. CleanEffect({r}, {q})
  <2>1. Effect({r}, {q})
    BY <1>16, <1>17, <1>18, <1>19 DEF Effect
  <2>2. q \notin EntriesInUse
    BY <1>2, <1>5, SlotIsEntry
  <2>3. NumberOf(q)' # 0 /\ NameOf(q)' = n /\ q[1] = e
    BY <1>3, <1>20 DEF Root
  <2>. QED
    BY <1>2, <1>20, <2>1, <2>2, <2>3 DEF CleanEffect
<1>22. SameRecords
  BY <1>6, <1>15 DEF SameRecords
<1>23. \A j \in Inode : ~Live(j) => inode'[j].vacantFile = inode[j].vacantFile
  BY <1>2, <1>3, <1>15 DEF Dirs
<1>24. IInv' /\ \A j \in Inode : Live(j)' <=> Live(j)
  <2>1. TypeOK'
    BY MoveAcrossTypes DEF IInv
  <2>. QED
    BY <1>3, <1>8, <1>15, <1>20, <1>21, <1>22, <1>23, <2>1, MoveKeeps
<1>25. MovesName(r, e, n)
  BY <1>2, <1>8, <1>20, <1>21 DEF MovesName
<1>. QED
  BY <1>2, <1>8, <1>15, <1>24, <1>25 DEF SameNodes, n

-----------------------------------------------------------------------------
(* The invariant *)

\* The volume of a fresh format satisfies the invariant.
LEMMA InitInvariant == Init => IInv
<1>. SUFFICES ASSUME Init PROVE IInv
  OBVIOUS
<1>1. TypeOK
  BY RecordTypes, ConstantTypes DEF Init, TypeOK
<1>2. /\ inode[Root].fileType = "d" /\ inode[Root].vacantFile = {}
      /\ inode[Root].directPointer[0] = RootBlock
      /\ \A i \in Inode \ {Root} : inode[i].fileType = "none"
  BY ConstantTypes DEF Init, FreshTable, DirRecord, NoPointers, ZeroInode
<1>3. EntriesInUse = {}
  BY <1>2 DEF EntriesInUse
<1>4. \A i : Refs(i) = {} /\ (Live(i) <=> i = Root)
  BY <1>3 DEF Refs, Live
<1>5. Dirs = {Root}
  BY <1>2, <1>4, ConstantTypes DEF Dirs
<1>6. \A s \in Slot : Entry(Root, s) = NoEntry
  BY <1>2, ConstantTypes DEF Init, Entry, ZeroBlock
<1>7. Consistent
  <2>1. RootIsDir /\ LiveHasType /\ UnnamedDirsEmpty
    BY <1>2, <1>4 DEF RootIsDir, LiveHasType, UnnamedDirsEmpty
  <2>2. UnusedSlotsBlank
    BY <1>5, <1>6 DEF UnusedSlotsBlank, NumberOf, NoEntry
  <2>3. UsedSlotsNumbered
    BY <1>3 DEF UsedSlotsNumbered
  <2>. QED
    BY <2>1, <2>2, <2>3 DEF Consistent
<1>8. NoDanglingEntry
  BY <1>4 DEF Init, NoDanglingEntry
<1>9. LinkCountExact
  BY <1>4 DEF LinkCountExact
<1>10. BlocksExact
  <2>1. Claims(Root) = {RootBlock}
    BY <1>2 DEF Claims
  <2>2. {j \in Inode : Live(j)} = {Root}
    BY <1>4, ConstantTypes
  <2>3. UNION {Claims(i) : i \in {j \in Inode : Live(j)}} = {RootBlock}
    BY <2>1, <2>2
  <2>4. fbm = Meta \cup {RootBlock} /\ RootBlock \notin Meta
    BY SizeAssumption DEF Init, Meta, RootBlock
  <2>. QED
    BY <1>2, <1>4, <2>1, <2>3, <2>4 DEF BlocksExact
<1>11. FdLive
  BY DEF FdLive, OpenFds, Init, NoFds
<1>12. UniqueNames
  BY <1>2, <1>4 DEF UniqueNames
<1>. QED
  BY <1>1, <1>7, <1>8, <1>9, <1>10, <1>11, <1>12 DEF IInv

\* Formatting gives a fresh volume, whatever was there.
LEMMA FormatKeeps == fs_format => IInv'
<1>1. fs_format => Init'
  BY DEF fs_format, Init
<1>. QED
  BY <1>1, InitInvariant, PTL

\* Mounting and unmounting close the descriptors.
LEMMA MountKeeps ==
    ASSUME IInv, ~torn, fs_mount \/ fs_unmount
    PROVE  IInv' /\ SameNodes /\ UNCHANGED Bindings
<1>1. TypeOK'
  BY MountTypes DEF IInv
<1>2. fd' = NoFds /\ UNCHANGED <<fbm, imap, inode, dblock, torn>>
  BY DEF fs_mount, fs_unmount
<1>3. FdLive'
  BY <1>2 DEF FdLive, OpenFds, NoFds
<1>. QED
  BY <1>1, <1>2, <1>3, QuietKeeps

\* Every step from a state where no remove was torn to another keeps the invariant.
LEMMA WholeStepKeeps ==
    ASSUME IInv, NamePrefix = {}, Next, ~torn, ~torn'
    PROVE  IInv'
<1>1. CASE fs_format \/ fs_mount \/ fs_unmount
  BY <1>1, FormatKeeps, MountKeeps
<1>2. ASSUME NEW p \in Paths,
             fs_create_file(p) \/ fs_create_dir(p) \/ fs_create_no_block(p)
      PROVE  IInv'
  BY <1>2, CreateFileKeeps, CreateDirKeeps, CreateNoBlockKeeps
<1>3. ASSUME NEW p \in Paths, fs_open(p)
      PROVE  IInv'
  BY <1>3, OpenKeeps
<1>4. ASSUME NEW p \in Paths,
             \/ fs_remove_dir(p) \/ fs_remove_dir_link(p)
             \/ fs_remove_file(p) \/ fs_remove_file_link(p)
      PROVE  IInv'
  BY <1>4, RemoveDirKeeps, RemoveDirLinkKeeps, RemoveFileKeeps, RemoveFileLinkKeeps
<1>5. ASSUME NEW p \in Paths, fs_remove_busy(p)
      PROVE  IInv'
  BY <1>5, RemoveBusyKeeps
<1>6. ASSUME NEW p \in Paths, NEW q \in Paths,
             fs_move_rename(p, q) \/ fs_move_across(p, q) \/ fs_link(p, q)
      PROVE  IInv'
  BY <1>6, MoveRenameKeeps, MoveAcrossKeeps, LinkKeeps
<1>7. ASSUME NEW f \in Fd, fs_close(f)
      PROVE  IInv'
  <2>1. TypeOK'
    BY <1>7, CloseTypes DEF IInv
  <2>2. fd' = [fd EXCEPT ![f] = Closed] /\ UNCHANGED <<fbm, imap, inode, dblock, torn>>
    BY <1>7 DEF fs_close
  <2>. QED
    BY <2>1, <2>2, CloseKeeps
<1>8. ASSUME NEW f \in Fd, NEW k \in Order,
             fs_write_block(f, k) \/ fs_write_new_block(f, k)
      PROVE  IInv'
  BY <1>8, WriteBlockKeeps, WriteNewBlockKeeps
<1>. QED
  BY <1>1, <1>2, <1>3, <1>4, <1>5, <1>6, <1>7, <1>8 DEF Next, Bound, NotBound

\* After a torn remove only a format makes the volume whole again.
LEMMA TornUntilFormat ==
    ASSUME TypeOK, Next, torn, ~torn'
    PROVE  fs_format
BY ZenonT(30) DEF Next, TypeOK, fs_mount, fs_unmount, fs_create_file, fs_create_dir,
       fs_create_no_block, fs_open, fs_close, fs_write_block, fs_write_new_block,
       fs_remove_dir, fs_remove_dir_link, fs_remove_file_link, fs_remove_file,
       fs_remove_busy, fs_move_rename, fs_move_across, fs_link

\* Every step keeps the invariant.
LEMMA StepInvariant ==
    ASSUME IInv, NamePrefix = {}, [Next]_vars
    PROVE  IInv'
<1>1. TypeOK' /\ torn \in BOOLEAN /\ torn' \in BOOLEAN
  BY TypeStep DEF IInv, TypeOK
<1>2. CASE torn'
  BY <1>1, <1>2 DEF IInv, Consistent, NoDanglingEntry, LinkCountExact, BlocksExact,
                    FdLive, UniqueNames
<1>3. CASE Next /\ torn /\ ~torn'
  BY <1>3, TornUntilFormat, FormatKeeps DEF IInv
<1>4. CASE Next /\ ~torn /\ ~torn'
  BY <1>4, WholeStepKeeps
<1>5. CASE UNCHANGED vars /\ ~torn'
  <2>1. /\ UNCHANGED <<fbm, imap, inode, dblock, fd, torn>> /\ ~torn
    BY <1>5 DEF vars
  <2>2. \A i : Refs(i)' = Refs(i)
    BY <2>1 DEF Refs, EntriesInUse, Entry
  <2>3. FdLive'
    BY <2>1, <2>2 DEF IInv, FdLive, OpenFds
  <2>. QED
    BY <1>1, <2>1, <2>3, QuietKeeps
<1>. QED
  BY <1>1, <1>2, <1>3, <1>4, <1>5

\* When no name a caller gives is a proper prefix of another, the inductive
\* invariant holds in every state: the lookups by prefix, by number and by exact
\* name agree on the entry (searchPath, getFileInodeID and the loops of remove
\* and move, F17FS.c:828-1060).
THEOREM Invariant ==
    ASSUME NamePrefix = {}
    PROVE  Spec => []IInv
<1>1. IInv /\ [Next]_vars => IInv'
  BY StepInvariant
<1>. QED
  BY <1>1, InitInvariant, PTL DEF Spec

\* What the calls rely on and never check: the root is a directory, unused slots
\* are blank, used ones have a name when they have a number.
THEOREM VolumeConsistent ==
    ASSUME NamePrefix = {}
    PROVE  Spec => []Consistent
<1>1. IInv => Consistent
  BY DEF IInv
<1>. QED
  BY <1>1, Invariant, PTL

\* No sequence of create, link, move and remove frees an inode that a directory
\* still names.
THEOREM EntriesNameInodes ==
    ASSUME NamePrefix = {}
    PROVE  Spec => []NoDanglingEntry
<1>1. IInv => NoDanglingEntry
  BY DEF IInv
<1>. QED
  BY <1>1, Invariant, PTL

\* The link count of an inode is the number of entries that hold it.
THEOREM LinksCounted ==
    ASSUME NamePrefix = {}
    PROVE  Spec => []LinkCountExact
<1>1. IInv => LinkCountExact
  BY DEF IInv
<1>. QED
  BY <1>1, Invariant, PTL

\* The blocks in use are those of the metadata and of the named inodes, and no
\* block belongs to two.
THEOREM BlocksAccounted ==
    ASSUME NamePrefix = {}
    PROVE  Spec => []BlocksExact
<1>1. IInv => BlocksExact
  BY DEF IInv
<1>. QED
  BY <1>1, Invariant, PTL

\* A descriptor is open on a regular file that has a name.
THEOREM DescriptorsLive ==
    ASSUME NamePrefix = {}
    PROVE  Spec => []FdLive
<1>1. IInv => FdLive
  BY DEF IInv
<1>. QED
  BY <1>1, Invariant, PTL

\* No two entries in use of a directory have the same name.
THEOREM NamesApart ==
    ASSUME NamePrefix = {}
    PROVE  Spec => []UniqueNames
<1>1. IInv => UniqueNames
  BY DEF IInv
<1>. QED
  BY <1>1, Invariant, PTL

-----------------------------------------------------------------------------
(* What a step may never do *)

\* A step that marks no inode and unnames none leaves none marked and unnamed
\* that was not.
LEMMA NoneUnnamed ==
    ASSUME \A j \in imap' : Live(j) => Live(j)',
           \A j \in imap' \ imap : Live(j)'
    PROVE  Unnamed' \ Unnamed = {}
BY DEF Unnamed

\* A step that unnames an inode frees it, but for a create that finds no block.
LEMMA StepUnnames ==
    ASSUME IInv, NamePrefix = {}, Next, ~torn, FreeBlock # SIZE_MAX
    PROVE  Unnamed' \ Unnamed = {}
<1>1. CASE imap' = imap /\ UNCHANGED <<inode, dblock>>
  <2>1. \A i : Refs(i)' = Refs(i)
    BY <1>1 DEF Refs, EntriesInUse, Entry
  <2>. QED
    BY <1>1, <2>1, NoneUnnamed DEF Live
<1>2. CASE imap' = imap /\ SameNodes
  <2>1. imap' \subseteq Inode
    BY <1>2 DEF IInv, TypeOK
  <2>. QED
    BY <1>2, <2>1, NoneUnnamed DEF SameNodes
<1>3. CASE fs_format
  BY <1>3 DEF fs_format, Unnamed, Live
<1>4. CASE fs_mount \/ fs_unmount
  BY <1>1, <1>4 DEF fs_mount, fs_unmount
<1>5. ASSUME NEW p \in Paths, fs_create_file(p) \/ fs_create_dir(p)
      PROVE  Unnamed' \ Unnamed = {}
  <2>1. PICK i \in Inode : /\ i = FreeInode
                           /\ \A j \in Inode : Live(j)' <=> Live(j) \/ j = i
    BY <1>5, CreateFileKeeps, CreateDirKeeps
  <2>2. imap' = imap \cup {i} /\ imap' \subseteq Inode
    BY <1>5, <2>1 DEF fs_create_file, fs_create_dir, bitmap_set, IInv, TypeOK
  <2>. QED
    BY <2>1, <2>2, NoneUnnamed
<1>6. ASSUME NEW p \in Paths PROVE ~fs_create_no_block(p)
  BY DEF fs_create_no_block
<1>7. ASSUME NEW p \in Paths, fs_open(p) \/ fs_remove_busy(p)
      PROVE  Unnamed' \ Unnamed = {}
  BY <1>1, <1>7 DEF fs_open, fs_remove_busy
<1>8. ASSUME NEW p \in Paths, fs_remove_dir(p) \/ fs_remove_file(p)
      PROVE  Unnamed' \ Unnamed = {}
  <2>1. PICK i \in Inode : /\ imap' = imap \ {i}
                           /\ \A j \in Inode : Live(j)' <=> Live(j) /\ j # i
    BY <1>8, RemoveDirKeeps, RemoveFileKeeps
  <2>2. imap' \subseteq Inode
    BY <2>1 DEF IInv, TypeOK
  <2>. QED
    BY <2>1, <2>2, NoneUnnamed
<1>9. ASSUME NEW p \in Paths, fs_remove_dir_link(p) \/ fs_remove_file_link(p)
      PROVE  Unnamed' \ Unnamed = {}
  <2>1. SameNodes
    BY <1>9, RemoveDirLinkKeeps, RemoveFileLinkKeeps
  <2>. QED
    BY <1>2, <1>9, <2>1 DEF fs_remove_dir_link, fs_remove_file_link
<1>10. ASSUME NEW p \in Paths, NEW q \in Paths,
              fs_move_rename(p, q) \/ fs_move_across(p, q) \/ fs_link(p, q)
       PROVE  Unnamed' \ Unnamed = {}
  <2>1. SameNodes
    BY <1>10, MoveRenameKeeps, MoveAcrossKeeps, LinkKeeps
  <2>. QED
    BY <1>2, <1>10, <2>1 DEF fs_move_rename, fs_move_across, fs_link
<1>11. ASSUME NEW f \in Fd, fs_close(f)
       PROVE  Unnamed' \ Unnamed = {}
  BY <1>1, <1>11 DEF fs_close
<1>12. ASSUME NEW f \in Fd, NEW k \in Order,
              fs_write_block(f, k) \/ fs_write_new_block(f, k)
       PROVE  Unnamed' \ Unnamed = {}
  <2>1. SameNodes
    BY <1>12, WriteBlockKeeps, WriteNewBlockKeeps
  <2>. QED
    BY <1>2, <1>12, <2>1 DEF fs_write_block, fs_write_new_block
<1>. QED
  BY <1>3, <1>4, <1>5, <1>6, <1>7, <1>8, <1>9, <1>10, <1>11, <1>12
     DEF Next, Bound, NotBound

\* An inode is left marked and unnamed by one step only, the create that marks
\* it and then finds no block (the return -12 of fs_create).
THEOREM LeaksOnlyWhenFull ==
    ASSUME NamePrefix = {}
    PROVE  Spec => LeakOnlyWhenFull
<1>1. IInv /\ [Next]_vars => [~torn /\ Unnamed' \ Unnamed # {} => FreeBlock = SIZE_MAX]_vars
  BY StepUnnames
<1>. QED
  BY <1>1, Invariant, PTL DEF Spec, LeakOnlyWhenFull
=============================================================================
