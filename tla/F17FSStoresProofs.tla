------------------------- MODULE F17FSStoresProofs --------------------------
(***************************************************************************)
(* What the stores of F17FSStores do to a volume, for every value of the   *)
(* constants: a volume that is safe is safe after each store of a call, so *)
(* that it may be cut off there, and the stores of a call, all made, are   *)
(* the change that its action of F17FS makes.                              *)
(*                                                                         *)
(* There is one lemma for each kind of store, which says when it keeps a   *)
(* volume safe, and one for each call, which goes through its stores.      *)
(*                                                                         *)
(* The theorems, at the end, are for names of which none is a proper       *)
(* prefix of another: what the calls leave when the process dies between   *)
(* two of their stores, what they do afterwards, up to the first one that  *)
(* stores to the remains of a file they were cut off in, and that until    *)
(* then they implement F17FS.                                              *)
(***************************************************************************)
EXTENDS F17FSStoresInvariant, F17FSProofs

USE NameAssumption, SizeAssumption

-----------------------------------------------------------------------------
(* What a store does to a volume *)

\* The stores there are.
StoreSet ==
    [to : {"fbm"}, at : Block \cup {None}, bit : BOOLEAN]
    \cup [to : {"imap"}, at : Inode, bit : BOOLEAN]
    \cup [to : {"inode"}, at : Inode, value : InodeRecord]
    \cup [to : {"dblock"}, at : Block, value : [Slot -> Dentry]]

\* A volume of given parts.
Vol(F, M, I, B) == [fbm |-> F, imap |-> M, inode |-> I, dblock |-> B]

\* The volume w has the parts given.
Parts(w, F, M, I, B) ==
    w.fbm = F /\ w.imap = M /\ w.inode = I /\ w.dblock = B

\* Each store is of its type and changes one part of the volume.
LEMMA StoreOfBlockBit ==
    ASSUME NEW v \in VolumeType, NEW b \in Block
    PROVE  /\ Mark("fbm", b) \in StoreSet
           /\ Stored(v, Mark("fbm", b)) \in VolumeType
           /\ Parts(Stored(v, Mark("fbm", b)), v.fbm \cup {b}, v.imap, v.inode, v.dblock)
<1> DEFINE s == Mark("fbm", b)
<1>1. s.to = "fbm" /\ s.at = b /\ s.bit = TRUE /\ s \in StoreSet
  BY DEF Mark, StoreSet
<1>2. Stored(v, s) = [v EXCEPT !["fbm"] = @ \cup {b}]
  BY <1>1 DEF Stored, bitmap_set
<1>. QED
  BY <1>1, <1>2 DEF VolumeType, Parts

\* A bit of the free-block map is cleared, or none.
LEMMA StoreOfBlockClear ==
    ASSUME NEW v \in VolumeType, NEW b \in Block \cup {None}
    PROVE  /\ Clear("fbm", b) \in StoreSet
           /\ Stored(v, Clear("fbm", b)) \in VolumeType
           /\ Parts(Stored(v, Clear("fbm", b)), v.fbm \ {b}, v.imap, v.inode, v.dblock)
<1> DEFINE s == Clear("fbm", b)
<1>1. s.to = "fbm" /\ s.at = b /\ s.bit = FALSE /\ s \in StoreSet
  BY DEF Clear, StoreSet
<1>2. Stored(v, s) = [v EXCEPT !["fbm"] = @ \ {b}]
  BY <1>1 DEF Stored, bitmap_reset
<1>. QED
  BY <1>1, <1>2 DEF VolumeType, Parts

\* A bit of the inode bitmap is set or cleared.
LEMMA StoreOfInodeBit ==
    ASSUME NEW v \in VolumeType, NEW i \in Inode
    PROVE  /\ Mark("imap", i) \in StoreSet
           /\ Stored(v, Mark("imap", i)) \in VolumeType
           /\ Parts(Stored(v, Mark("imap", i)), v.fbm, v.imap \cup {i}, v.inode, v.dblock)
           /\ Clear("imap", i) \in StoreSet
           /\ Stored(v, Clear("imap", i)) \in VolumeType
           /\ Parts(Stored(v, Clear("imap", i)), v.fbm, v.imap \ {i}, v.inode, v.dblock)
<1> DEFINE s == Mark("imap", i)
           c == Clear("imap", i)
<1>1. s.to = "imap" /\ s.at = i /\ s.bit = TRUE /\ s \in StoreSet
  BY DEF Mark, StoreSet
<1>2. c.to = "imap" /\ c.at = i /\ c.bit = FALSE /\ c \in StoreSet
  BY DEF Clear, StoreSet
<1>3. Stored(v, s) = [v EXCEPT !["imap"] = @ \cup {i}]
  BY <1>1 DEF Stored, bitmap_set
<1>4. Stored(v, c) = [v EXCEPT !["imap"] = @ \ {i}]
  BY <1>2 DEF Stored, bitmap_reset
<1>. QED
  BY <1>1, <1>2, <1>3, <1>4 DEF VolumeType, Parts

\* A record of the inode table is stored.
LEMMA StoreOfInode ==
    ASSUME NEW v \in VolumeType, NEW i \in Inode, NEW r \in InodeRecord
    PROVE  /\ PutInode(i, r) \in StoreSet
           /\ Stored(v, PutInode(i, r)) \in VolumeType
           /\ Parts(Stored(v, PutInode(i, r)),
                    v.fbm, v.imap, [v.inode EXCEPT ![i] = r], v.dblock)
<1> DEFINE s == PutInode(i, r)
<1>1. s.to = "inode" /\ s.at = i /\ s.value = r /\ s \in StoreSet
  BY DEF PutInode, StoreSet
<1>2. Stored(v, s) = [v EXCEPT !["inode"][i] = r]
  BY <1>1 DEF Stored
<1>. QED
  BY <1>1, <1>2 DEF VolumeType, Parts

\* A block is stored.
LEMMA StoreOfBlock ==
    ASSUME NEW v \in VolumeType, NEW b \in Block, NEW c \in [Slot -> Dentry]
    PROVE  /\ PutBlock(b, c) \in StoreSet
           /\ Stored(v, PutBlock(b, c)) \in VolumeType
           /\ Parts(Stored(v, PutBlock(b, c)),
                    v.fbm, v.imap, v.inode, [v.dblock EXCEPT ![b] = c])
<1> DEFINE s == PutBlock(b, c)
<1>1. s.to = "dblock" /\ s.at = b /\ s.value = c /\ s \in StoreSet
  BY DEF PutBlock, StoreSet
<1>2. Stored(v, s) = [v EXCEPT !["dblock"][b] = c]
  BY <1>1 DEF Stored
<1>3. [v.dblock EXCEPT ![b] = c] \in [Block -> [Slot -> Dentry]]
  BY DEF VolumeType
<1>4. [v EXCEPT !["dblock"][b] = c].dblock = [v.dblock EXCEPT ![b] = c]
  BY DEF VolumeType
<1>5. /\ Stored(v, s).fbm = v.fbm /\ Stored(v, s).imap = v.imap
      /\ Stored(v, s).inode = v.inode
      /\ Stored(v, s).dblock = [v.dblock EXCEPT ![b] = c]
  BY <1>2, <1>4 DEF VolumeType
<1>6. Stored(v, s) = Vol(Stored(v, s).fbm, Stored(v, s).imap, Stored(v, s).inode, Stored(v, s).dblock)
  BY <1>2 DEF VolumeType, Vol
<1>7. Stored(v, s) \in VolumeType
  BY <1>3, <1>5, <1>6 DEF VolumeType, Vol
<1>. QED
  BY <1>1, <1>5, <1>7 DEF Parts

-----------------------------------------------------------------------------
(* What keeps a volume safe *)

\* The slots that hold an inode are finitely many.
LEMMA HoldingFinite ==
    ASSUME NEW v, NEW i
    PROVE  /\ IsFiniteSet(Holding(v, i))
           /\ Cardinality(Holding(v, i)) \in Nat
<1>1. IsFiniteSet(Block) /\ IsFiniteSet(Slot)
  BY FS_Interval DEF Block, Slot
<1>2. IsFiniteSet(Block \X Slot)
  BY <1>1, FS_Product
<1>3. Holding(v, i) \in SUBSET (Block \X Slot)
  BY DEF Holding
<1>. QED
  BY <1>2, <1>3, FS_Subset, FS_CardinalityType

\* Fewer slots that hold an inode: no more of them.
LEMMA HoldingFewer ==
    ASSUME NEW v, NEW w, NEW i, Holding(w, i) \subseteq Holding(v, i)
    PROVE  /\ Cardinality(Holding(w, i)) <= Cardinality(Holding(v, i))
           /\ Cardinality(Holding(w, i)) \in Nat
           /\ Cardinality(Holding(v, i)) \in Nat
<1>1. Holding(w, i) \in SUBSET Holding(v, i)
  OBVIOUS
<1>. QED
  BY <1>1, HoldingFinite, FS_Subset

\* A volume is safe when it holds no more than a safe one, and still marks what
\* it holds.
LEMMA SafeKept ==
    ASSUME NEW A, NEW D, NEW v, Safe(v, A, D), NEW w \in VolumeType,
           RootSafe(w), CountsCover(w, A), OpenSafe(w, A, D),
           \A i \in Inode : Held(w, i) =>
              /\ Held(v, i)
              /\ ClaimsOf(w.inode[i]) = ClaimsOf(v.inode[i])
              /\ i \notin A /\ i \in v.imap => i \in w.imap
              /\ i \notin A => \A b \in ClaimsOf(v.inode[i]) : b \in v.fbm => b \in w.fbm
    PROVE  Safe(w, A, D)
<1>1. HeldMarked(w, A)
  BY DEF Safe, HeldMarked
<1>2. ClaimsMarked(w, A)
  BY DEF Safe, ClaimsMarked
<1>3. ClaimsApart(w)
  BY DEF Safe, ClaimsApart
<1>. QED
  BY <1>1, <1>2, <1>3 DEF Safe

\* Blocks and inodes that are marked harm nothing.
LEMMA MarkSafe ==
    ASSUME NEW A, NEW D, NEW v, Safe(v, A, D)
    PROVE  /\ \A b \in Block : Safe(Stored(v, Mark("fbm", b)), A, D)
           /\ \A i \in Inode : Safe(Stored(v, Mark("imap", i)), A, D)
<1>1. ASSUME NEW w \in VolumeType, v.fbm \subseteq w.fbm, v.imap \subseteq w.imap,
             w.inode = v.inode, w.dblock = v.dblock
      PROVE  Safe(w, A, D)
  <2>1. \A i : Holding(w, i) = Holding(v, i) /\ (Held(w, i) <=> Held(v, i))
    BY <1>1 DEF Holding, Held
  <2>2. RootSafe(w) /\ OpenSafe(w, A, D)
    BY <1>1 DEF Safe, RootSafe, OpenSafe
  <2>3. CountsCover(w, A)
    BY <1>1, <2>1 DEF Safe, CountsCover
  <2>. QED
    BY <1>1, <2>1, <2>2, <2>3, SafeKept
<1>2. v \in VolumeType
  BY DEF Safe
<1>. QED
  BY <1>1, <1>2, StoreOfBlockBit, StoreOfInodeBit DEF Parts

\* A block is stored in which each slot holds what it did, or nothing.
LEMMA BlankSafe ==
    ASSUME NEW A, NEW D, NEW v, Safe(v, A, D), NEW b \in Block, NEW c \in [Slot -> Dentry],
           \A s \in Slot : \/ c[s].inodeNumber = v.dblock[b][s].inodeNumber
                           \/ c[s].inodeNumber = Root
    PROVE  /\ Safe(Stored(v, PutBlock(b, c)), A, D)
           /\ \A i \in Inode \ {Root} :
                 Holding(Stored(v, PutBlock(b, c)), i) \subseteq Holding(v, i)
<1> DEFINE w == Stored(v, PutBlock(b, c))
<1>1. v \in VolumeType
  BY DEF Safe
<1>2. w \in VolumeType /\ Parts(w, v.fbm, v.imap, v.inode, [v.dblock EXCEPT ![b] = c])
  BY <1>1, StoreOfBlock
<1> HIDE DEF w
<1>3. v.dblock \in [Block -> [Slot -> Dentry]]
  BY <1>1 DEF VolumeType
<1>4. ASSUME NEW i \in Inode \ {Root}
      PROVE  Holding(w, i) \subseteq Holding(v, i)
  BY <1>2, <1>3 DEF Holding, Parts
<1>5. \A i \in Inode : Held(w, i) => Held(v, i)
  BY <1>2, <1>4 DEF Held, Parts
<1>6. RootSafe(w) /\ OpenSafe(w, A, D)
  BY <1>2 DEF Safe, RootSafe, OpenSafe, Parts
<1>7. CountsCover(w, A)
  <2> SUFFICES ASSUME NEW i \in Inode \ ({Root} \cup A)
               PROVE  Cardinality(Holding(w, i)) <= w.inode[i].linkCount
    BY DEF CountsCover
  <2>1. Cardinality(Holding(w, i)) <= Cardinality(Holding(v, i))
    BY <1>4, HoldingFewer
  <2>2. Cardinality(Holding(v, i)) <= v.inode[i].linkCount /\ w.inode = v.inode
    BY <1>2 DEF Safe, CountsCover, Parts
  <2>3. v.inode[i].linkCount \in Nat
    BY <1>1 DEF VolumeType, InodeRecord
  <2>. QED
    BY <1>4, <2>1, <2>2, <2>3, HoldingFewer
<1>8. Safe(w, A, D)
  <2>1. w.inode = v.inode /\ w.fbm = v.fbm /\ w.imap = v.imap
    BY <1>2 DEF Parts
  <2>. QED
    BY <1>2, <1>5, <1>6, <1>7, <2>1, SafeKept
<1>. QED
  BY <1>4, <1>8 DEF w

\* A record of the same type and pointers claims the same blocks.
LEMMA SameClaimsOf ==
    \A q, r : q.fileType = r.fileType /\ q.directPointer = r.directPointer =>
                  ClaimsOf(q) = ClaimsOf(r)
  BY Zenon DEF ClaimsOf

\* An entry for the inode i may be stored, or in it.
Ready(v, A, i) ==
    /\ i \notin A => i \in v.imap /\ ClaimsOf(v.inode[i]) \subseteq v.fbm \ Meta
    /\ \A j \in Inode \ {i} : Held(v, j) =>
          ClaimsOf(v.inode[j]) \cap ClaimsOf(v.inode[i]) = {}

\* That is so when the inode has an entry already.
LEMMA HeldReady ==
    ASSUME NEW A, NEW D, NEW v, Safe(v, A, D), NEW i \in Inode, Held(v, i)
    PROVE  Ready(v, A, i)
  BY DEF Safe, HeldMarked, ClaimsMarked, ClaimsApart, Ready

\* A record is stored with other bits or another count, the type and the
\* pointers being the same.
LEMMA RecordSafe ==
    ASSUME NEW A, NEW D, NEW v, Safe(v, A, D), NEW i \in Inode, NEW r \in InodeRecord,
           r.fileType = v.inode[i].fileType, r.directPointer = v.inode[i].directPointer,
           Ready(v, A, i),
           i \in ({Root} \cup A) \/ Cardinality(Holding(v, i)) <= r.linkCount
    PROVE  /\ Safe(Stored(v, PutInode(i, r)), A, D)
           /\ \A j \in Inode : Holding(Stored(v, PutInode(i, r)), j) = Holding(v, j)
           /\ \A j \in Inode \ {i} : Held(Stored(v, PutInode(i, r)), j) => Held(v, j)
           /\ \A j \in Inode :
                 ClaimsOf(Stored(v, PutInode(i, r)).inode[j]) = ClaimsOf(v.inode[j])
<1> DEFINE w == Stored(v, PutInode(i, r))
<1>1. v \in VolumeType
  BY DEF Safe
<1>2. w \in VolumeType /\ Parts(w, v.fbm, v.imap, [v.inode EXCEPT ![i] = r], v.dblock)
  BY <1>1, StoreOfInode
<1> HIDE DEF w
<1>3. v.inode \in [Inode -> InodeRecord]
  BY <1>1 DEF VolumeType
<1>4. \A j : Holding(w, j) = Holding(v, j)
  BY <1>2 DEF Holding, Parts
<1>5. \A j \in Inode : w.inode[j].fileType = v.inode[j].fileType
                       /\ w.inode[j].directPointer = v.inode[j].directPointer
  BY <1>2, <1>3 DEF Parts
<1>6. \A j \in Inode \ {i} : Held(w, j) => Held(v, j)
  BY <1>2, <1>3, <1>4 DEF Held, Parts
<1>7. RootSafe(w)
  BY <1>2, <1>5, ConstantTypes DEF Safe, RootSafe, Parts
<1>8. OpenSafe(w, A, D)
  BY <1>1, <1>2, <1>5 DEF Safe, OpenSafe, Parts, VolumeType
<1>9. CountsCover(w, A)
  BY <1>2, <1>3, <1>4 DEF Safe, CountsCover, Parts
<1>10. \A j \in Inode : ClaimsOf(w.inode[j]) = ClaimsOf(v.inode[j])
  BY <1>5, SameClaimsOf
<1>11. w.fbm = v.fbm /\ w.imap = v.imap
  BY <1>2 DEF Parts
<1>12. HeldMarked(w, A)
  BY <1>6, <1>11 DEF Safe, HeldMarked, Ready
<1>13. ClaimsMarked(w, A)
  BY <1>6, <1>10, <1>11 DEF Safe, ClaimsMarked, Ready
<1>14. ClaimsApart(w)
  <2> SUFFICES ASSUME NEW j \in Inode, NEW l \in Inode, j # l, Held(w, j), Held(w, l)
               PROVE  ClaimsOf(v.inode[j]) \cap ClaimsOf(v.inode[l]) = {}
    BY <1>10 DEF ClaimsApart
  <2>1. CASE j = i
    BY <1>6, <2>1 DEF Ready
  <2>2. CASE l = i
    BY <1>6, <2>2 DEF Ready
  <2>3. CASE j # i /\ l # i
    BY <1>6, <2>3 DEF Safe, ClaimsApart
  <2>. QED
    BY <2>1, <2>2, <2>3
<1>15. Safe(w, A, D)
  BY <1>2, <1>7, <1>8, <1>9, <1>12, <1>13, <1>14 DEF Safe
<1>. QED
  BY <1>4, <1>6, <1>10, <1>15 DEF w

\* A record that nothing holds is made anew.
LEMMA NewRecordSafe ==
    ASSUME NEW A, NEW D, NEW v, Safe(v, A, D), NEW i \in Inode, NEW r \in InodeRecord,
           ~Held(v, i), i \notin D, r.vacantFile = {}
    PROVE  /\ Safe(Stored(v, PutInode(i, r)), A, D)
           /\ \A j \in Inode :
                 /\ Holding(Stored(v, PutInode(i, r)), j) = Holding(v, j)
                 /\ Held(Stored(v, PutInode(i, r)), j) => Held(v, j)
<1> DEFINE w == Stored(v, PutInode(i, r))
<1>1. v \in VolumeType
  BY DEF Safe
<1>2. w \in VolumeType /\ Parts(w, v.fbm, v.imap, [v.inode EXCEPT ![i] = r], v.dblock)
  BY <1>1, StoreOfInode
<1> HIDE DEF w
<1>3. v.inode \in [Inode -> InodeRecord]
  BY <1>1 DEF VolumeType
<1>4. \A j : Holding(w, j) = Holding(v, j)
  BY <1>2 DEF Holding, Parts
<1>5. i # Root /\ Holding(v, i) = {}
  BY DEF Held
<1>6. \A j \in Inode : Held(w, j) => j # i /\ Held(v, j)
  BY <1>2, <1>3, <1>4, <1>5 DEF Held, Parts
<1>7. RootSafe(w)
  BY <1>2, <1>5, <1>3, ConstantTypes DEF Safe, RootSafe, Parts
<1>8. OpenSafe(w, A, D)
  BY <1>1, <1>2, <1>3 DEF Safe, OpenSafe, Parts, VolumeType
<1>9. CountsCover(w, A)
  <2> SUFFICES ASSUME NEW j \in Inode \ ({Root} \cup A)
               PROVE  Cardinality(Holding(w, j)) <= w.inode[j].linkCount
    BY DEF CountsCover
  <2>1. CASE j = i
    <3>1. Cardinality(Holding(w, j)) = 0
      BY <1>4, <1>5, <2>1, FS_EmptySet
    <3>2. w.inode[j].linkCount \in Nat
      BY <1>2 DEF VolumeType, InodeRecord
    <3>. QED
      BY <3>1, <3>2
  <2>2. CASE j # i
    BY <1>2, <1>3, <1>4, <2>2 DEF Safe, CountsCover, Parts
  <2>. QED
    BY <2>1, <2>2
<1>10. \A j \in Inode : Held(w, j) => ClaimsOf(w.inode[j]) = ClaimsOf(v.inode[j])
  BY <1>2, <1>3, <1>6 DEF Parts
<1>11. Safe(w, A, D)
  BY <1>2, <1>6, <1>7, <1>8, <1>9, <1>10, SafeKept DEF Parts
<1>. QED
  BY <1>4, <1>6, <1>11 DEF w

\* A file's record takes a block that is marked and that nothing claims.
LEMMA NewBlockSafe ==
    ASSUME NEW A, NEW D, NEW v, Safe(v, A, D), NEW i \in Inode, NEW k \in Order,
           NEW b \in v.fbm \ Meta, v.inode[i].fileType # "d",
           \A j \in Inode : Held(v, j) => b \notin ClaimsOf(v.inode[j])
    PROVE  Safe(Stored(v, PutInode(i, [v.inode[i] EXCEPT !.directPointer[k] = b])), A, D)
<1> DEFINE r == [v.inode[i] EXCEPT !.directPointer[k] = b]
           w == Stored(v, PutInode(i, r))
<1>1. v \in VolumeType /\ b \in Block
  BY DEF Safe, VolumeType
<1>2. v.inode \in [Inode -> InodeRecord]
  BY <1>1 DEF VolumeType
<1>3. v.inode[i] \in InodeRecord /\ r \in InodeRecord
  BY <1>1, <1>2, RecordUpdates
<1>4. /\ r.fileType = v.inode[i].fileType
      /\ r.vacantFile = v.inode[i].vacantFile
      /\ r.linkCount = v.inode[i].linkCount
      /\ r.directPointer = [v.inode[i].directPointer EXCEPT ![k] = b]
  BY <1>3 DEF InodeRecord
<1>5. v.inode[i].directPointer \in [Order -> Block]
  BY <1>3 DEF InodeRecord
<1> HIDE DEF r
<1>6. w \in VolumeType /\ Parts(w, v.fbm, v.imap, [v.inode EXCEPT ![i] = r], v.dblock)
  BY <1>1, <1>3, StoreOfInode
<1> HIDE DEF w
<1>7. \A j : Holding(w, j) = Holding(v, j)
  BY <1>6 DEF Holding, Parts
<1>8. \A j \in Inode : /\ w.inode[j].fileType = v.inode[j].fileType
                       /\ w.inode[j].vacantFile = v.inode[j].vacantFile
                       /\ w.inode[j].linkCount = v.inode[j].linkCount
                       /\ j # i => w.inode[j] = v.inode[j]
  BY <1>2, <1>4, <1>6 DEF Parts
<1>9. \A j \in Inode : Held(w, j) => Held(v, j)
  BY <1>7, <1>8 DEF Held
<1>10. ClaimsOf(w.inode[i]) \subseteq ClaimsOf(v.inode[i]) \cup {b}
  <2>1. w.inode[i] = r
    BY <1>2, <1>6 DEF Parts
  <2>. QED
    BY <1>4, <1>5, <2>1 DEF ClaimsOf
<1>11. \A j \in Inode : j # i => ClaimsOf(w.inode[j]) = ClaimsOf(v.inode[j])
  BY <1>8
<1>12. w.fbm = v.fbm /\ w.imap = v.imap
  BY <1>6 DEF Parts
<1>13. RootSafe(w)
  BY <1>8, <1>12, ConstantTypes DEF Safe, RootSafe
<1>14. OpenSafe(w, A, D)
  BY <1>1, <1>8, <1>12 DEF Safe, OpenSafe, VolumeType
<1>15. CountsCover(w, A)
  BY <1>7, <1>8 DEF Safe, CountsCover
<1>16. HeldMarked(w, A)
  BY <1>9, <1>12 DEF Safe, HeldMarked
<1>17. ClaimsMarked(w, A)
  BY <1>9, <1>10, <1>11, <1>12 DEF Safe, ClaimsMarked
<1>18. ClaimsApart(w)
  <2> SUFFICES ASSUME NEW j \in Inode, NEW l \in Inode, j # l, Held(w, j), Held(w, l),
                      l # i
               PROVE  ClaimsOf(w.inode[j]) \cap ClaimsOf(w.inode[l]) = {}
    BY DEF ClaimsApart
  <2>1. Held(v, j) /\ Held(v, l)
    BY <1>9
  <2>2. ClaimsOf(v.inode[j]) \cap ClaimsOf(v.inode[l]) = {}
    BY <2>1 DEF Safe, ClaimsApart
  <2>3. ClaimsOf(w.inode[l]) = ClaimsOf(v.inode[l]) /\ b \notin ClaimsOf(v.inode[l])
    BY <1>11, <2>1
  <2>. QED
    BY <1>10, <1>11, <2>2, <2>3
<1>19. Safe(w, A, D)
  BY <1>6, <1>13, <1>14, <1>15, <1>16, <1>17, <1>18 DEF Safe
<1>. QED
  BY <1>19 DEF w, r

\* Blocks are given back that nothing but the file at risk claims.
LEMMA ReleasedSafe ==
    ASSUME NEW A, NEW D, NEW v, Safe(v, A, D), NEW X, X \cap Meta = {},
           \A b \in X : \A j \in Inode \ A : Held(v, j) => b \notin ClaimsOf(v.inode[j]),
           NEW w \in VolumeType, Parts(w, v.fbm \ X, v.imap, v.inode, v.dblock)
    PROVE  Safe(w, A, D)
<1>1. \A i : Holding(w, i) = Holding(v, i) /\ (Held(w, i) <=> Held(v, i))
  BY DEF Holding, Held, Parts
<1>2. RootSafe(w) /\ OpenSafe(w, A, D)
  BY DEF Safe, RootSafe, OpenSafe, Parts
<1>3. CountsCover(w, A)
  BY <1>1 DEF Safe, CountsCover, Parts
<1>4. w.inode = v.inode /\ w.imap = v.imap /\ w.fbm = v.fbm \ X
  BY DEF Parts
<1>. QED
  BY <1>1, <1>2, <1>3, <1>4, SafeKept

\* A block is given back, or none.
LEMMA ClearBlockSafe ==
    ASSUME NEW A, NEW D, NEW v, Safe(v, A, D), NEW b \in (Block \ Meta) \cup {None},
           \A j \in Inode \ A : Held(v, j) => b \notin ClaimsOf(v.inode[j])
    PROVE  Safe(Stored(v, Clear("fbm", b)), A, D)
<1> DEFINE w == Stored(v, Clear("fbm", b))
           X == {b}
<1>1. w \in VolumeType /\ Parts(w, v.fbm \ X, v.imap, v.inode, v.dblock)
  BY StoreOfBlockClear DEF Safe
<1>2. X \cap Meta = {}
  BY DEF None, Meta
<1>3. \A x \in X : \A j \in Inode \ A : Held(v, j) => x \notin ClaimsOf(v.inode[j])
  OBVIOUS
<1> HIDE DEF w, X
<1>4. Safe(w, A, D)
  BY <1>1, <1>2, <1>3, ReleasedSafe
<1>. QED
  BY <1>4 DEF w

\* An inode is given back that nothing holds, or that of the file at risk.
LEMMA ClearInodeSafe ==
    ASSUME NEW A, NEW D, NEW v, Safe(v, A, D), NEW i \in Inode \ {Root}, i \notin D,
           i \in A \/ ~Held(v, i)
    PROVE  Safe(Stored(v, Clear("imap", i)), A, D)
<1> DEFINE w == Stored(v, Clear("imap", i))
<1>1. v \in VolumeType
  BY DEF Safe
<1>2. w \in VolumeType /\ Parts(w, v.fbm, v.imap \ {i}, v.inode, v.dblock)
  BY <1>1, StoreOfInodeBit
<1> HIDE DEF w
<1>3. \A j : Holding(w, j) = Holding(v, j) /\ (Held(w, j) <=> Held(v, j))
  BY <1>2 DEF Holding, Held, Parts
<1>4. RootSafe(w) /\ OpenSafe(w, A, D)
  BY <1>2 DEF Safe, RootSafe, OpenSafe, Parts
<1>5. CountsCover(w, A)
  BY <1>2, <1>3 DEF Safe, CountsCover, Parts
<1>6. w.inode = v.inode /\ w.imap = v.imap \ {i} /\ w.fbm = v.fbm
  BY <1>2 DEF Parts
<1>7. Safe(w, A, D)
  BY <1>2, <1>3, <1>4, <1>5, <1>6, SafeKept
<1>. QED
  BY <1>7 DEF w

\* A volume is safe with more inodes exempt, and with fewer descriptors open; and
\* with one inode less exempt, when that is as safe as the others.
LEMMA SafeRisk ==
    ASSUME NEW D, NEW v
    PROVE  /\ \A A, C : A \subseteq C /\ Safe(v, A, D) => Safe(v, C, D)
           /\ \A A : \A S \in SUBSET D : Safe(v, A, D) => Safe(v, A, S)
           /\ \A A : \A i \in Inode \ {Root} :
                 /\ Safe(v, A \cup {i}, D)
                 /\ Cardinality(Holding(v, i)) <= v.inode[i].linkCount
                 /\ Held(v, i) => /\ i \in v.imap
                                  /\ ClaimsOf(v.inode[i]) \subseteq v.fbm \ Meta
                 /\ i \in D => i \in v.imap /\ v.inode[i].fileType # "d"
                 => Safe(v, A, D)
<1>1. ASSUME NEW A, NEW C, A \subseteq C, Safe(v, A, D)
      PROVE  Safe(v, C, D)
  BY <1>1 DEF Safe, HeldMarked, CountsCover, ClaimsMarked, OpenSafe
<1>2. ASSUME NEW A, NEW S \in SUBSET D, Safe(v, A, D)
      PROVE  Safe(v, A, S)
  BY <1>2 DEF Safe, OpenSafe
<1>3. ASSUME NEW A, NEW i \in Inode \ {Root}, Safe(v, A \cup {i}, D),
             Cardinality(Holding(v, i)) <= v.inode[i].linkCount,
             Held(v, i) => /\ i \in v.imap
                           /\ ClaimsOf(v.inode[i]) \subseteq v.fbm \ Meta,
             i \in D => i \in v.imap /\ v.inode[i].fileType # "d"
      PROVE  Safe(v, A, D)
  BY <1>3 DEF Safe, HeldMarked, CountsCover, ClaimsMarked, OpenSafe
<1>. QED
  BY <1>1, <1>2, <1>3

\* The block c is the block x with an entry in the slot s.
WithEntry(c, x, s, n, i) == c = [x EXCEPT ![s] = [filename |-> n, inodeNumber |-> i]]

\* What holds of the volume w once the block c, with an entry for the inode i in
\* the slot s, is stored in v.
EntryMade(v, A, D, b, s, i, c, w) ==
    /\ c \in [Slot -> Dentry]
    /\ Safe(w, A, D)
    /\ Holding(w, i) = Holding(v, i) \cup {<<b, s>>}
    /\ \A j \in Inode \ {i} : Holding(w, j) \subseteq Holding(v, j)

\* An entry is stored that the link count of its inode allows for.
LEMMA EntrySafe ==
    ASSUME NEW A, NEW D, NEW v, Safe(v, A, D), NEW b \in Block, NEW s \in Slot,
           NEW n \in Names, NEW i \in Inode \ {Root}, Ready(v, A, i),
           i \in A \/ Cardinality(Holding(v, i)) < v.inode[i].linkCount,
           NEW c, WithEntry(c, v.dblock[b], s, n, i),
           NEW w, w = Stored(v, PutBlock(b, c))
    PROVE  EntryMade(v, A, D, b, s, i, c, w)
<1> DEFINE e == [filename |-> n, inodeNumber |-> i]
<1>1. v \in VolumeType
  BY DEF Safe
<1>2. e \in Dentry /\ e.inodeNumber = i
  BY DEF Dentry
<1>3. v.dblock \in [Block -> [Slot -> Dentry]]
  BY <1>1 DEF VolumeType
<1> HIDE DEF e
<1>4. c \in [Slot -> Dentry] /\ c = [v.dblock[b] EXCEPT ![s] = e]
  BY <1>2, <1>3 DEF e, WithEntry
<1>5. w \in VolumeType /\ Parts(w, v.fbm, v.imap, v.inode, [v.dblock EXCEPT ![b] = c])
  BY <1>1, <1>4, StoreOfBlock
<1>6. \A r \in Block \X Slot :
         w.dblock[r[1]][r[2]].inodeNumber =
            IF r = <<b, s>> THEN i ELSE v.dblock[r[1]][r[2]].inodeNumber
  BY <1>2, <1>3, <1>4, <1>5 DEF Parts
<1>7. Holding(w, i) = Holding(v, i) \cup {<<b, s>>}
  <2>1. Holding(w, i) \subseteq Block \X Slot /\ Holding(v, i) \subseteq Block \X Slot
    BY DEF Holding
  <2>2. <<b, s>> \in Block \X Slot
    OBVIOUS
  <2>3. ASSUME NEW r \in Block \X Slot
        PROVE  r \in Holding(w, i) <=> r \in Holding(v, i) \cup {<<b, s>>}
    BY <1>6 DEF Holding
  <2>. QED
    BY <2>1, <2>2, <2>3
<1>8. ASSUME NEW j \in Inode \ {i}
      PROVE  Holding(w, j) \subseteq Holding(v, j)
  BY <1>6 DEF Holding
<1>9. w.fbm = v.fbm /\ w.imap = v.imap /\ w.inode = v.inode
  BY <1>5 DEF Parts
<1>10. \A j \in Inode \ {i} : Held(w, j) => Held(v, j)
  BY <1>8, <1>9 DEF Held
<1>11. RootSafe(w) /\ OpenSafe(w, A, D)
  BY <1>9 DEF Safe, RootSafe, OpenSafe
<1>12. CountsCover(w, A)
  <2> SUFFICES ASSUME NEW j \in Inode \ ({Root} \cup A)
               PROVE  Cardinality(Holding(w, j)) <= v.inode[j].linkCount
    BY <1>9 DEF CountsCover
  <2>1. v.inode[j].linkCount \in Nat
    BY <1>1 DEF VolumeType, InodeRecord
  <2>2. Cardinality(Holding(v, j)) <= v.inode[j].linkCount
    BY DEF Safe, CountsCover
  <2>3. CASE j = i
    <3>1. /\ IsFiniteSet(Holding(v, i))
          /\ Cardinality(Holding(v, i)) \in Nat
      BY HoldingFinite
    <3>2. Cardinality(Holding(v, i) \cup {<<b, s>>}) =
             IF <<b, s>> \in Holding(v, i) THEN Cardinality(Holding(v, i))
             ELSE Cardinality(Holding(v, i)) + 1
      BY <3>1, FS_AddElement, Zenon
    <3>3. Cardinality(Holding(v, i)) < v.inode[i].linkCount /\ v.inode[i].linkCount \in Nat
      BY <2>1, <2>3
    <3>4. Cardinality(Holding(w, i)) <= v.inode[i].linkCount
      BY <1>7, <3>1, <3>2, <3>3
    <3>. QED
      BY <2>3, <3>4
  <2>4. CASE j # i
    BY <1>8, <2>1, <2>2, <2>4, HoldingFewer
  <2>. QED
    BY <2>3, <2>4
<1>13. HeldMarked(w, A)
  BY <1>9, <1>10 DEF Safe, HeldMarked, Ready
<1>14. ClaimsMarked(w, A)
  BY <1>9, <1>10 DEF Safe, ClaimsMarked, Ready
<1>15. ClaimsApart(w)
  <2> SUFFICES ASSUME NEW j \in Inode, NEW l \in Inode, j # l, Held(w, j), Held(w, l)
               PROVE  ClaimsOf(v.inode[j]) \cap ClaimsOf(v.inode[l]) = {}
    BY <1>9 DEF ClaimsApart
  <2>1. CASE j = i
    BY <1>10, <2>1 DEF Ready
  <2>2. CASE l = i
    BY <1>10, <2>2 DEF Ready
  <2>3. CASE j # i /\ l # i
    BY <1>10, <2>3 DEF Safe, ClaimsApart
  <2>. QED
    BY <2>1, <2>2, <2>3
<1>16. Safe(w, A, D)
  BY <1>5, <1>11, <1>12, <1>13, <1>14, <1>15 DEF Safe
<1>. QED
  BY <1>4, <1>7, <1>8, <1>16 DEF EntryMade

-----------------------------------------------------------------------------
(* The volumes that a list of stores goes through *)

\* The volume h[k] is what the first k stores of q make of v.
IsTrace(h, v, q) ==
    h = [k \in 0 .. Len(q) |-> IF k = 0 THEN v ELSE Stored(h[k - 1], q[k])]

\* The stores q make w of v, through volumes that are safe with the inodes A
\* exempt, and w is safe with C exempt.
SafeRun(v, A, C, D, q, w) ==
    /\ Safe(w, C, D)
    /\ \E h : /\ IsTrace(h, v, q)
              /\ h[Len(q)] = w
              /\ \A k \in 0 .. Len(q) : k < Len(q) => Safe(h[k], A, D)

\* There is one trace.
LEMMA TraceUnique ==
    ASSUME NEW q, Len(q) \in Nat, NEW v, NEW h, NEW g, IsTrace(h, v, q), IsTrace(g, v, q)
    PROVE  \A k \in 0 .. Len(q) : h[k] = g[k]
<1> DEFINE Differ == {k \in 0 .. Len(q) : h[k] # g[k]}
<1>1. SUFFICES ASSUME Differ # {}
               PROVE  FALSE
  OBVIOUS
<1>2. Differ \in SUBSET Nat
  OBVIOUS
<1>3. PICK m \in Differ : \A k \in Differ : m <= k
  BY <1>1, <1>2, MinProperties
<1>4. /\ \A k \in 0 .. Len(q) : h[k] = IF k = 0 THEN v ELSE Stored(h[k - 1], q[k])
      /\ \A k \in 0 .. Len(q) : g[k] = IF k = 0 THEN v ELSE Stored(g[k - 1], q[k])
  BY Zenon DEF IsTrace
<1>5. m \in 0 .. Len(q) /\ h[m] # g[m]
  BY <1>3
<1>6. CASE m = 0
  BY <1>4, <1>5, <1>6
<1>7. CASE m # 0
  <2>1. m - 1 \in 0 .. Len(q) /\ ~(m <= m - 1)
    BY <1>5, <1>7
  <2>2. h[m - 1] = g[m - 1]
    BY <1>3, <2>1
  <2>. QED
    BY <1>4, <1>5, <1>7, <2>2
<1>. QED
  BY <1>6, <1>7

\* The volume when a call returns is the last one of its trace.
LEMMA AllStoredIs ==
    ASSUME Len(todo) \in Nat, NEW h, IsTrace(h, Volume, todo)
    PROVE  AllStored = h[Len(todo)]
<1> DEFINE after == CHOOSE g : IsTrace(g, Volume, todo)
<1>1. IsTrace(after, Volume, todo)
  OBVIOUS
<1>2. AllStored = after[Len(todo)]
  BY DEF AllStored, IsTrace
<1> HIDE DEF after
<1>3. after[Len(todo)] = h[Len(todo)]
  BY <1>1, TraceUnique
<1>. QED
  BY <1>2, <1>3

\* No store at all.
LEMMA RunEmpty ==
    ASSUME NEW A, NEW C, NEW D, NEW v, Safe(v, C, D)
    PROVE  SafeRun(v, A, C, D, <<>>, v)
<1> DEFINE h == [k \in 0 .. 0 |-> v]
<1>1. Len(<<>>) = 0
  OBVIOUS
<1>2. h = [k \in 0 .. 0 |-> IF k = 0 THEN v ELSE Stored(h[k - 1], <<>>[k])]
  OBVIOUS
<1>3. h[0] = v
  OBVIOUS
<1> HIDE DEF h
<1>4. IsTrace(h, v, <<>>)
  BY <1>1, <1>2 DEF IsTrace
<1>5. \A k \in 0 .. 0 : ~(k < 0)
  OBVIOUS
<1>. QED
  BY <1>1, <1>3, <1>4, <1>5 DEF SafeRun

\* One store more, at the front.
LEMMA RunStore ==
    ASSUME NEW A, NEW C, NEW D, NEW v, NEW w, NEW s \in StoreSet, NEW q \in Seq(StoreSet),
           Safe(v, A, D), SafeRun(Stored(v, s), A, C, D, q, w),
           NEW r \in Seq(StoreSet), Len(r) = Len(q) + 1, r[1] = s,
           \A k \in 1 .. Len(q) : r[k + 1] = q[k]
    PROVE  SafeRun(v, A, C, D, r, w)
<1>1. PICK g : /\ IsTrace(g, Stored(v, s), q)
               /\ g[Len(q)] = w
               /\ \A k \in 0 .. Len(q) : k < Len(q) => Safe(g[k], A, D)
  BY Zenon DEF SafeRun
<1> DEFINE h == [k \in 0 .. Len(r) |-> IF k = 0 THEN v ELSE g[k - 1]]
<1>2. /\ Len(q) \in Nat /\ Len(r) = Len(q) + 1
      /\ r[1] = s
      /\ \A k \in 1 .. Len(q) : r[k + 1] = q[k]
  OBVIOUS
<1>3. \A k \in 0 .. Len(q) : g[k] = IF k = 0 THEN Stored(v, s) ELSE Stored(g[k - 1], q[k])
  BY <1>1, Zenon DEF IsTrace
<1>4. \A k \in 0 .. Len(r) : h[k] = IF k = 0 THEN v ELSE Stored(h[k - 1], r[k])
  <2> SUFFICES ASSUME NEW k \in 0 .. Len(r), k # 0
               PROVE  h[k] = Stored(h[k - 1], r[k])
    OBVIOUS
  <2>1. h[k] = g[k - 1] /\ k - 1 \in 0 .. Len(q)
    BY <1>2
  <2>2. CASE k = 1
    <3>1. h[0] = v /\ r[1] = s /\ g[0] = Stored(v, s)
      BY <1>2, <1>3
    <3>. QED
      BY <2>1, <2>2, <3>1
  <2>3. CASE k # 1
    <3>1. h[k - 1] = g[k - 2]
      BY <1>2, <2>3
    <3>2. r[k] = q[k - 1]
      <4>1. k - 1 \in 1 .. Len(q) /\ (k - 1) + 1 = k
        BY <1>2, <2>3
      <4>. QED
        BY <1>2, <4>1
    <3>3. g[k - 1] = Stored(g[(k - 1) - 1], q[k - 1])
      BY <1>3, <2>1, <2>3
    <3>4. (k - 1) - 1 = k - 2
      BY <1>2
    <3>. QED
      BY <2>1, <3>1, <3>2, <3>3, <3>4
  <2>. QED
    BY <2>2, <2>3
<1>5. IsTrace(h, v, r)
  BY <1>4 DEF IsTrace
<1>6. h[Len(r)] = w
  BY <1>1, <1>2
<1>7. \A k \in 0 .. Len(r) : k < Len(r) => Safe(h[k], A, D)
  <2> SUFFICES ASSUME NEW k \in 0 .. Len(r), k < Len(r)
               PROVE  Safe(h[k], A, D)
    OBVIOUS
  <2>1. CASE k = 0
    BY <2>1
  <2>2. CASE k # 0
    <3>1. k - 1 \in 0 .. Len(q) /\ k - 1 < Len(q) /\ h[k] = g[k - 1]
      BY <1>2, <2>2
    <3>. QED
      BY <1>1, <3>1
  <2>. QED
    BY <2>1, <2>2
<1> HIDE DEF h
<1>8. SafeRun(v, A, C, D, r, w)
  BY <1>5, <1>6, <1>7, Zenon DEF SafeRun
<1>. QED
  BY <1>8

\* One store less: the first was made.
LEMMA RunTail ==
    ASSUME NEW A, NEW C, NEW D, NEW v, NEW w, NEW q \in Seq(StoreSet), q # <<>>,
           SafeRun(v, A, C, D, q, w)
    PROVE  /\ Safe(v, A, D)
           /\ SafeRun(Stored(v, Head(q)), A, C, D, Tail(q), w)
<1>1. PICK g : /\ IsTrace(g, v, q)
               /\ g[Len(q)] = w
               /\ \A k \in 0 .. Len(q) : k < Len(q) => Safe(g[k], A, D)
  BY Zenon DEF SafeRun
<1> DEFINE r == Tail(q)
           u == Stored(v, Head(q))
           h == [k \in 0 .. Len(r) |-> g[k + 1]]
<1>2. /\ Len(r) \in Nat /\ Len(q) = Len(r) + 1
      /\ Head(q) = q[1]
      /\ \A k \in 1 .. Len(r) : r[k] = q[k + 1]
  OBVIOUS
<1> HIDE DEF r
<1>3. \A k \in 0 .. Len(q) : g[k] = IF k = 0 THEN v ELSE Stored(g[k - 1], q[k])
  BY <1>1, Zenon DEF IsTrace
<1>4. g[0] = v /\ g[1] = u
  BY <1>2, <1>3
<1>5. Safe(v, A, D)
  BY <1>1, <1>2, <1>4
<1> HIDE DEF u
<1>6. \A k \in 0 .. Len(r) : h[k] = IF k = 0 THEN u ELSE Stored(h[k - 1], r[k])
  <2> SUFFICES ASSUME NEW k \in 0 .. Len(r)
               PROVE  h[k] = IF k = 0 THEN u ELSE Stored(h[k - 1], r[k])
    OBVIOUS
  <2>1. CASE k = 0
    BY <1>2, <1>4, <2>1
  <2>2. CASE k # 0
    <3>1. h[k] = g[k + 1] /\ k + 1 \in 0 .. Len(q) /\ (k + 1) - 1 = k
      BY <1>2
    <3>2. k - 1 \in 0 .. Len(r) /\ (k - 1) + 1 = k
      BY <1>2, <2>2
    <3>3. h[k - 1] = g[k]
      BY <3>2
    <3>4. r[k] = q[k + 1]
      BY <1>2, <2>2
    <3>5. g[k + 1] = Stored(g[(k + 1) - 1], q[k + 1])
      BY <1>2, <1>3, <3>1
    <3>. QED
      BY <2>2, <3>1, <3>3, <3>4, <3>5
  <2>. QED
    BY <2>1, <2>2
<1>7. IsTrace(h, u, r)
  BY <1>6 DEF IsTrace
<1>8. h[Len(r)] = w
  BY <1>1, <1>2
<1>9. \A k \in 0 .. Len(r) : k < Len(r) => Safe(h[k], A, D)
  BY <1>1, <1>2
<1>10. Safe(w, C, D)
  BY DEF SafeRun
<1> HIDE DEF h
<1>11. SafeRun(u, A, C, D, r, w)
  BY <1>7, <1>8, <1>9, <1>10, Zenon DEF SafeRun
<1>. QED
  BY <1>5, <1>11 DEF u, r

\* The blocks x[1] to x[m], and the stores that give them back.
Given(x, m) == {x[k] : k \in 1 .. m}

Clears(x, m) == [k \in 1 .. m |-> Clear("fbm", x[k])]

\* Blocks of the file at risk are given back, one after the other.
LEMMA RunRelease ==
    ASSUME NEW A, NEW C, NEW D, NEW v, Safe(v, A, D), NEW m \in Nat, NEW x,
           Given(x, m) \subseteq (Block \ Meta) \cup {None},
           \A b \in Given(x, m) : \A j \in Inode \ A :
              Held(v, j) => b \notin ClaimsOf(v.inode[j]),
           NEW u \in VolumeType, Parts(u, v.fbm \ Given(x, m), v.imap, v.inode, v.dblock),
           NEW w, NEW q \in Seq(StoreSet), SafeRun(u, A, C, D, q, w)
    PROVE  /\ Clears(x, m) \in Seq(StoreSet)
           /\ SafeRun(v, A, C, D, Clears(x, m) \o q, w)
<1>a. PICK z : z = Clears(x, m)
  OBVIOUS
<1>b. z = [k \in 1 .. m |-> Clear("fbm", x[k])]
  BY <1>a DEF Clears
<1>c. \A k \in 1 .. m : x[k] \in (Block \ Meta) \cup {None}
  BY DEF Given
<1>d. \A k \in 1 .. m : \A j \in Inode \ A : Held(v, j) => x[k] \notin ClaimsOf(v.inode[j])
  BY DEF Given
<1>e. Parts(u, v.fbm \ {x[k] : k \in 1 .. m}, v.imap, v.inode, v.dblock)
  BY DEF Given
<1>0. v \in VolumeType
  BY DEF Safe
<1> DEFINE V(k) == Vol(v.fbm \ {x[j] : j \in 1 .. k}, v.imap, v.inode, v.dblock)
<1>1. \A k \in 0 .. m : /\ V(k) \in VolumeType
                        /\ Parts(V(k), v.fbm \ {x[j] : j \in 1 .. k}, v.imap, v.inode, v.dblock)
  BY <1>0 DEF Vol, VolumeType, Parts
<1>2. V(0) = v
  <2>1. v.fbm \ {x[j] : j \in 1 .. 0} = v.fbm
    OBVIOUS
  <2>. QED
    BY <1>0, <2>1 DEF Vol, VolumeType
<1>3. V(m) = u
  BY <1>e DEF Vol, VolumeType, Parts
<1>4. ASSUME NEW k \in 0 .. m, k # 0
      PROVE  V(k) = Stored(V(k - 1), Clear("fbm", x[k]))
  <2>1. k \in 1 .. m /\ k - 1 \in 0 .. m
    BY <1>4
  <2>2. x[k] \in Block \cup {None}
    BY <1>c, <2>1
  <2>3. {x[j] : j \in 1 .. k} = {x[j] : j \in 1 .. (k - 1)} \cup {x[k]}
    BY <2>1
  <2> DEFINE y == Stored(V(k - 1), Clear("fbm", x[k]))
  <2>4. /\ y \in VolumeType
        /\ Parts(y, V(k - 1).fbm \ {x[k]}, V(k - 1).imap, V(k - 1).inode, V(k - 1).dblock)
    BY <1>1, <2>1, <2>2, StoreOfBlockClear
  <2> HIDE DEF y
  <2>5. y.fbm = v.fbm \ {x[j] : j \in 1 .. k}
    BY <2>3, <2>4 DEF Parts, Vol
  <2>6. y.imap = v.imap /\ y.inode = v.inode /\ y.dblock = v.dblock
    BY <2>4 DEF Parts, Vol
  <2>7. y = V(k)
    BY <2>4, <2>5, <2>6 DEF Vol, VolumeType
  <2>. QED
    BY <2>7 DEF y
<1>5. ASSUME NEW k \in 0 .. m
      PROVE  Safe(V(k), A, D)
  <2> DEFINE X == {x[j] : j \in 1 .. k}
  <2>1. V(k) \in VolumeType /\ Parts(V(k), v.fbm \ X, v.imap, v.inode, v.dblock)
    BY <1>1
  <2>2. \A j \in 1 .. k : j \in 1 .. m
    OBVIOUS
  <2>3. X \cap Meta = {}
    BY <1>c, <2>2 DEF None, Meta
  <2>4. \A b \in X : \A j \in Inode \ A : Held(v, j) => b \notin ClaimsOf(v.inode[j])
    BY <1>d, <2>2
  <2> HIDE DEF V, X
  <2>. QED
    BY <2>1, <2>3, <2>4, ReleasedSafe
<1>6. z \in Seq(StoreSet)
  <2>1. \A k \in 1 .. m : Clear("fbm", x[k]) \in StoreSet
    BY <1>0, <1>c, StoreOfBlockClear
  <2>. QED
    BY <1>b, <2>1
<1>7. PICK g : /\ IsTrace(g, u, q)
               /\ g[Len(q)] = w
               /\ \A k \in 0 .. Len(q) : k < Len(q) => Safe(g[k], A, D)
  BY Zenon DEF SafeRun
<1>8. \A k \in 0 .. Len(q) : g[k] = IF k = 0 THEN u ELSE Stored(g[k - 1], q[k])
  BY <1>7, Zenon DEF IsTrace
<1> DEFINE r == z \o q
           h == [k \in 0 .. Len(r) |-> IF k < m THEN V(k) ELSE g[k - m]]
<1>9. /\ Len(q) \in Nat /\ Len(z) = m /\ Len(r) = m + Len(q)
      /\ \A k \in 1 .. m : r[k] = Clear("fbm", x[k])
      /\ \A k \in 1 .. Len(r) : k > m => r[k] = q[k - m]
  BY <1>6, <1>b
<1> HIDE DEF r, V
<1>10. g[0] = V(m)
  BY <1>3, <1>8, <1>9
<1>11. \A k \in 0 .. m : h[k] = V(k)
  BY <1>9, <1>10
<1>12. ASSUME NEW k \in 0 .. Len(r)
       PROVE  h[k] = IF k = 0 THEN v ELSE Stored(h[k - 1], r[k])
  <2>1. CASE k = 0
    <3>1. 0 \in 0 .. m
      OBVIOUS
    <3>2. h[0] = V(0)
      BY <1>11, <3>1
    <3>. QED
      BY <1>2, <2>1, <3>2
  <2>2. CASE k # 0 /\ k <= m
    <3>1. k \in 0 .. m /\ k - 1 \in 0 .. m /\ k \in 1 .. m
      BY <2>2
    <3>2. h[k] = V(k) /\ h[k - 1] = V(k - 1) /\ r[k] = Clear("fbm", x[k])
      BY <1>9, <1>11, <3>1
    <3>3. V(k) = Stored(V(k - 1), Clear("fbm", x[k]))
      BY <1>4, <2>2, <3>1
    <3>. QED
      BY <2>2, <3>2, <3>3
  <2>3. CASE k > m
    <3>1. h[k] = g[k - m] /\ k - m \in 0 .. Len(q) /\ k - m # 0 /\ r[k] = q[k - m]
      BY <1>9, <2>3
    <3>2. h[k - 1] = g[(k - m) - 1]
      <4>1. k - 1 \in 0 .. Len(r) /\ ~(k - 1 < m) /\ (k - 1) - m = (k - m) - 1
        BY <1>9, <2>3
      <4>. QED
        BY <4>1
    <3>3. g[k - m] = Stored(g[(k - m) - 1], q[k - m])
      BY <1>8, <3>1
    <3>. QED
      BY <2>3, <3>1, <3>2, <3>3
  <2>. QED
    BY <1>9, <2>1, <2>2, <2>3
<1>13. IsTrace(h, v, r)
  BY <1>12 DEF IsTrace
<1>14. h[Len(r)] = w
  BY <1>7, <1>9
<1>15. \A k \in 0 .. Len(r) : k < Len(r) => Safe(h[k], A, D)
  <2> SUFFICES ASSUME NEW k \in 0 .. Len(r), k < Len(r)
               PROVE  Safe(h[k], A, D)
    OBVIOUS
  <2>1. CASE k < m
    BY <1>5, <1>11, <2>1
  <2>2. CASE ~(k < m)
    <3>1. h[k] = g[k - m] /\ k - m \in 0 .. Len(q) /\ k - m < Len(q)
      BY <1>9, <2>2
    <3>. QED
      BY <1>7, <3>1
  <2>. QED
    BY <2>1, <2>2
<1>16. Safe(w, C, D)
  BY DEF SafeRun
<1> HIDE DEF h
<1>17. SafeRun(v, A, C, D, r, w)
  BY <1>13, <1>14, <1>15, <1>16, Zenon DEF SafeRun
<1>. QED
  BY <1>a, <1>6, <1>17 DEF r

-----------------------------------------------------------------------------
(* What the lookups find on a safe volume *)

\* A volume on which calls are made: only what crashes have harmed is exempt.
SafeNow == TypeOK /\ Safe(Volume, harmed, OpenInodes)

\* The parts of the volume are the variables.
LEMMA VolumeParts ==
    /\ Parts(Volume, fbm, imap, inode, dblock)
    /\ TypeOK => Volume \in VolumeType
  BY DEF Volume, Parts, VolumeType, TypeOK

\* A slot of a directory, in use or not, is one that holds its inode.
LEMMA SlotHolds ==
    ASSUME TypeOK, NEW d \in Inode, NEW s \in Slot
    PROVE  /\ inode[d].directPointer[0] \in Block
           /\ Entry(d, s) \in Dentry
           /\ <<inode[d].directPointer[0], s>> \in Holding(Volume, Entry(d, s).inodeNumber)
           /\ Held(Volume, Entry(d, s).inodeNumber)
<1>1. inode[d].directPointer[0] \in Block
  BY ConstantTypes DEF TypeOK, InodeRecord
<1>2. Entry(d, s) \in Dentry
  BY EntryType
<1>3. <<inode[d].directPointer[0], s>> \in Holding(Volume, Entry(d, s).inodeNumber)
  BY <1>1 DEF Holding, Volume, Entry
<1>. QED
  BY <1>1, <1>2, <1>3 DEF Held

\* A path leads to a directory, which a later call may come to as well.
LEMMA SearchHeld ==
    ASSUME SafeNow, NEW p, searchPath(p) # SIZE_MAX
    PROVE  /\ searchPath(p) \in Inode
           /\ Held(Volume, searchPath(p))
           /\ inode[searchPath(p)].fileType = "d"
<1>1. inode[Root].fileType = "d" /\ Root \in Inode /\ Held(Volume, Root)
  BY ConstantTypes DEF SafeNow, Safe, RootSafe, Volume, Held
<1>2. ASSUME NEW d, NEW n, SearchStep(d, n) # SIZE_MAX
      PROVE  /\ SearchStep(d, n) \in Inode
             /\ Held(Volume, SearchStep(d, n))
             /\ inode[SearchStep(d, n)].fileType = "d"
  <2>1. d \in Inode /\ inode[d].fileType = "d" /\ SubDirs(d, n) # {}
    BY <1>2 DEF SearchStep
  <2>2. SubDirs(d, n) \subseteq 0 .. (Dentries - 1) /\ Dentries - 1 \in Nat
    <3>1. inode[d].vacantFile \subseteq Slot
      BY <2>1 DEF SafeNow, TypeOK, InodeRecord
    <3>. QED
      BY <3>1 DEF SubDirs, Slot
  <2> DEFINE s == Max(SubDirs(d, n))
  <2>3. s \in SubDirs(d, n) /\ s \in Slot
    BY <2>1, <2>2, MaxProperties DEF Slot
  <2>4. inode[Entry(d, s).inodeNumber].fileType = "d"
    BY <2>3 DEF SubDirs
  <2>5. Entry(d, s).inodeNumber \in Inode /\ Held(Volume, Entry(d, s).inodeNumber)
    BY <2>1, <2>3, SlotHolds DEF SafeNow, Dentry
  <2>6. SearchStep(d, n) = Entry(d, s).inodeNumber
    BY <2>1 DEF SearchStep
  <2>. QED
    BY <2>4, <2>5, <2>6
<1>. QED
  BY <1>1, <1>2 DEF searchPath

\* A path that names something names it by the slot in use that remove finds by
\* the exact name.
LEMMA ResolveHeld ==
    ASSUME SafeNow, NamePrefix = {}, NEW p \in Paths, Resolve(p) # 0
    PROVE  /\ searchPath(dirname(p)) \in Inode
           /\ Held(Volume, searchPath(dirname(p)))
           /\ inode[searchPath(dirname(p))].fileType = "d"
           /\ basename(p) \in Names
           /\ Resolve(p) \in Inode \ {Root}
           /\ Held(Volume, Resolve(p))
           /\ \E s \in Slot :
                /\ s \in inode[searchPath(dirname(p))].vacantFile
                /\ Entry(searchPath(dirname(p)), s).inodeNumber = Resolve(p)
                /\ Entry(searchPath(dirname(p)), s).filename = basename(p)
                /\ ExactSlot(searchPath(dirname(p)), basename(p)) = {s}
<1> DEFINE d == searchPath(dirname(p))
           n == basename(p)
<1>1. d # SIZE_MAX /\ Resolve(p) = getFileInodeID(d, n)
  BY DEF Resolve
<1>2. d \in Inode /\ Held(Volume, d) /\ inode[d].fileType = "d"
  BY <1>1, SearchHeld
<1>3. n \in Names
  BY NameTypes
<1> HIDE DEF d, n
<1>4. Hits(d, n) # {} /\ Resolve(p) = Entry(d, Min(Hits(d, n))).inodeNumber
  BY <1>1 DEF getFileInodeID
<1>5. Hits(d, n) = {s \in inode[d].vacantFile : Entry(d, s).filename = n}
  BY DEF Hits, Matches
<1> DEFINE s == Min(Hits(d, n))
<1>6. s \in Hits(d, n) /\ s \in Slot
  BY <1>2, <1>4, HitType DEF SafeNow
<1>7. ExactSlot(d, n) = {s}
  BY <1>4, <1>5 DEF ExactSlot
<1>8. s \in inode[d].vacantFile /\ Entry(d, s).inodeNumber = Resolve(p) /\ Entry(d, s).filename = n
  BY <1>4, <1>5, <1>6
<1> HIDE DEF s
<1>9. Resolve(p) \in Inode /\ Held(Volume, Resolve(p))
  BY <1>2, <1>6, <1>8, SlotHolds DEF SafeNow, Dentry
<1>. QED
  BY <1>2, <1>3, <1>6, <1>7, <1>8, <1>9 DEF Root, d, n

-----------------------------------------------------------------------------
(* Lists of a few stores *)

\* One store before a list of others.
LEMMA RunMore ==
    ASSUME NEW A, NEW C, NEW D, NEW v, NEW w, NEW s \in StoreSet, NEW q \in Seq(StoreSet),
           NEW u, u = Stored(v, s), Safe(v, A, D), SafeRun(u, A, C, D, q, w),
           NEW r, r = <<s>> \o q
    PROVE  r \in Seq(StoreSet) /\ SafeRun(v, A, C, D, r, w)
<1>1. r \in Seq(StoreSet) /\ Len(r) = Len(q) + 1 /\ r[1] = s
  OBVIOUS
<1>2. \A k \in 1 .. Len(q) : r[k + 1] = q[k]
  OBVIOUS
<1>. QED
  BY <1>1, <1>2, RunStore

\* One store, the volume being safe between them.
LEMMA Run1 ==
    ASSUME NEW A, NEW C, NEW D, NEW v0, NEW v1,
           NEW s1 \in StoreSet,
           v1 = Stored(v0, s1),
           Safe(v0, A, D), Safe(v1, C, D)
    PROVE  /\ <<s1>> \in Seq(StoreSet)
           /\ SafeRun(v0, A, C, D, <<s1>>, v1)
<1>1. <<>> \in Seq(StoreSet) /\ Len(<<>>) = 0
  OBVIOUS
<1>2. SafeRun(v1, A, C, D, <<>>, v1)
  BY RunEmpty
<1>3. <<s1>> = <<s1>> \o <<>>
  OBVIOUS
<1>. QED
  BY <1>1, <1>2, <1>3, RunMore, Zenon

\* Two stores, the volume being safe between them.
LEMMA Run2 ==
    ASSUME NEW A, NEW C, NEW D, NEW v0, NEW v1, NEW v2,
           NEW s1 \in StoreSet, NEW s2 \in StoreSet,
           v1 = Stored(v0, s1), v2 = Stored(v1, s2),
           Safe(v0, A, D), Safe(v1, A, D), Safe(v2, C, D)
    PROVE  /\ <<s1, s2>> \in Seq(StoreSet)
           /\ SafeRun(v0, A, C, D, <<s1, s2>>, v2)
<1>1. <<s2>> \in Seq(StoreSet) /\ SafeRun(v1, A, C, D, <<s2>>, v2)
  BY Run1
<1>2. <<s1, s2>> = <<s1>> \o <<s2>>
  <2> DEFINE r == <<s1>> \o <<s2>>
  <2>1. r \in Seq(StoreSet) /\ Len(r) = 2 /\ r[1] = s1 /\ r[2] = s2
    OBVIOUS
  <2> HIDE DEF r
  <2>2. r = <<s1, s2>>
    BY <2>1
  <2>. QED
    BY <2>2 DEF r
<1>. QED
  BY <1>1, <1>2, RunMore

\* Three stores, the volume being safe between them.
LEMMA Run3 ==
    ASSUME NEW A, NEW C, NEW D, NEW v0, NEW v1, NEW v2, NEW v3,
           NEW s1 \in StoreSet, NEW s2 \in StoreSet, NEW s3 \in StoreSet,
           v1 = Stored(v0, s1), v2 = Stored(v1, s2), v3 = Stored(v2, s3),
           Safe(v0, A, D), Safe(v1, A, D), Safe(v2, A, D), Safe(v3, C, D)
    PROVE  /\ <<s1, s2, s3>> \in Seq(StoreSet)
           /\ SafeRun(v0, A, C, D, <<s1, s2, s3>>, v3)
<1>1. <<s2, s3>> \in Seq(StoreSet) /\ SafeRun(v1, A, C, D, <<s2, s3>>, v3)
  BY Run2
<1>2. <<s1, s2, s3>> = <<s1>> \o <<s2, s3>>
  OBVIOUS
<1>. QED
  BY <1>1, <1>2, RunMore

\* Four stores, the volume being safe between them.
LEMMA Run4 ==
    ASSUME NEW A, NEW C, NEW D, NEW v0, NEW v1, NEW v2, NEW v3, NEW v4,
           NEW s1 \in StoreSet, NEW s2 \in StoreSet, NEW s3 \in StoreSet, NEW s4 \in StoreSet,
           v1 = Stored(v0, s1), v2 = Stored(v1, s2), v3 = Stored(v2, s3), v4 = Stored(v3, s4),
           Safe(v0, A, D), Safe(v1, A, D), Safe(v2, A, D), Safe(v3, A, D), Safe(v4, C, D)
    PROVE  /\ <<s1, s2, s3, s4>> \in Seq(StoreSet)
           /\ SafeRun(v0, A, C, D, <<s1, s2, s3, s4>>, v4)
<1>1. <<s2, s3, s4>> \in Seq(StoreSet) /\ SafeRun(v1, A, C, D, <<s2, s3, s4>>, v4)
  BY Run3
<1>2. <<s1, s2, s3, s4>> = <<s1>> \o <<s2, s3, s4>>
  OBVIOUS
<1>. QED
  BY <1>1, <1>2, RunMore

-----------------------------------------------------------------------------
(* What each call stores *)

\* Two stores and two more.
LEMMA TwoAndTwo ==
    ASSUME NEW s1 \in StoreSet, NEW s2 \in StoreSet, NEW s3 \in StoreSet, NEW s4 \in StoreSet
    PROVE  << s1, s2 >> \o << s3, s4 >> = << s1, s2, s3, s4 >>
<1> DEFINE r == << s1, s2 >> \o << s3, s4 >>
<1>1. r \in Seq(StoreSet) /\ Len(r) = 4 /\ r[1] = s1 /\ r[2] = s2 /\ r[3] = s3 /\ r[4] = s4
  OBVIOUS
<1> HIDE DEF r
<1>2. r = << s1, s2, s3, s4 >>
  BY <1>1
<1>. QED
  BY <1>2 DEF r

\* A call that begins with the stores q makes of the volume one of the parts
\* given, the inodes A being exempt meanwhile and C afterwards.
Begins(A, C, D, q, F, M, I, B) ==
    /\ q \in Seq(StoreSet)
    /\ q # <<>>
    /\ \E w : SafeRun(Volume, A, C, D, q, w) /\ Parts(w, F, M, I, B)

\* Fewer slots that hold an inode: the one cleared.
LEMMA HoldingLess ==
    ASSUME NEW v, NEW w, NEW i, NEW r \in Holding(v, i),
           Holding(w, i) \subseteq Holding(v, i) \ {r}
    PROVE  /\ Cardinality(Holding(w, i)) \in Nat
           /\ Cardinality(Holding(w, i)) <= Cardinality(Holding(v, i)) - 1
           /\ Cardinality(Holding(v, i)) \in Nat
<1>1. IsFiniteSet(Holding(v, i)) /\ Cardinality(Holding(v, i)) \in Nat
  BY HoldingFinite
<1>2. /\ IsFiniteSet(Holding(v, i) \ {r})
      /\ Cardinality(Holding(v, i) \ {r}) =
            IF r \in Holding(v, i) THEN Cardinality(Holding(v, i)) - 1
            ELSE Cardinality(Holding(v, i))
  BY <1>1, FS_RemoveElement, Zenon
<1>3. Holding(w, i) \in SUBSET (Holding(v, i) \ {r})
  OBVIOUS
<1>4. Cardinality(Holding(w, i)) <= Cardinality(Holding(v, i) \ {r})
  BY <1>2, <1>3, FS_Subset
<1>. QED
  BY <1>1, <1>2, <1>4, HoldingFinite

\* One slot at most holds the inode of a single link.
LEMMA HoldingOne ==
    ASSUME NEW v, NEW i, NEW r \in Holding(v, i), Cardinality(Holding(v, i)) <= 1
    PROVE  Holding(v, i) = {r}
<1>1. IsFiniteSet(Holding(v, i)) /\ Cardinality(Holding(v, i)) \in Nat
  BY HoldingFinite
<1>2. /\ IsFiniteSet(Holding(v, i) \ {r})
      /\ Cardinality(Holding(v, i) \ {r}) =
            IF r \in Holding(v, i) THEN Cardinality(Holding(v, i)) - 1
            ELSE Cardinality(Holding(v, i))
  BY <1>1, FS_RemoveElement, Zenon
<1>3. Cardinality(Holding(v, i) \ {r}) \in Nat
  BY <1>2, FS_CardinalityType
<1>4. Cardinality(Holding(v, i) \ {r}) = 0
  BY <1>1, <1>2, <1>3
<1>5. Holding(v, i) \ {r} = {}
  BY <1>2, <1>4, FS_EmptySet
<1>. QED
  BY <1>5

\* The bit of an entry for the inode i is stored, and the entry may follow.
LEMMA EntryBit ==
    ASSUME NEW A, NEW D, NEW v, Safe(v, A, D), NEW d \in Inode, Ready(v, A, d),
           NEW i \in Inode \ {Root}, Ready(v, A, i),
           i # d => ClaimsOf(v.inode[d]) \cap ClaimsOf(v.inode[i]) = {},
           i \in A \/ Cardinality(Holding(v, i)) < v.inode[i].linkCount,
           d \in ({Root} \cup A) \/ Cardinality(Holding(v, d)) <= v.inode[d].linkCount,
           NEW s \in Slot, NEW r, r = SetBit(v.inode[d], s),
           NEW u, u = Stored(v, PutInode(d, r))
    PROVE  /\ PutInode(d, r) \in StoreSet
           /\ Safe(u, A, D)
           /\ Ready(u, A, i)
           /\ i \in A \/ Cardinality(Holding(u, i)) < u.inode[i].linkCount
           /\ Parts(u, v.fbm, v.imap, [v.inode EXCEPT ![d] = r], v.dblock)
<1>1. v \in VolumeType
  BY DEF Safe
<1>2. v.inode \in [Inode -> InodeRecord] /\ v.inode[d] \in InodeRecord
  BY <1>1 DEF VolumeType
<1>3. r \in InodeRecord
  BY <1>2, RecordUpdates
<1>4. /\ r.fileType = v.inode[d].fileType
      /\ r.directPointer = v.inode[d].directPointer
      /\ r.linkCount = v.inode[d].linkCount
  BY <1>2 DEF SetBit, InodeRecord
<1>5. /\ PutInode(d, r) \in StoreSet
      /\ u \in VolumeType
      /\ Parts(u, v.fbm, v.imap, [v.inode EXCEPT ![d] = r], v.dblock)
  BY <1>1, <1>3, StoreOfInode
<1>6. /\ Safe(u, A, D)
      /\ \A j \in Inode : Holding(u, j) = Holding(v, j)
      /\ \A j \in Inode \ {d} : Held(u, j) => Held(v, j)
      /\ \A j \in Inode : ClaimsOf(u.inode[j]) = ClaimsOf(v.inode[j])
  <2>1. d \in ({Root} \cup A) \/ Cardinality(Holding(v, d)) <= r.linkCount
    BY <1>4
  <2>. QED
    BY <1>3, <1>4, <2>1, RecordSafe
<1>7. Ready(u, A, i)
  <2>1. u.fbm = v.fbm /\ u.imap = v.imap
    BY <1>5 DEF Parts
  <2>2. i \notin A => i \in u.imap /\ ClaimsOf(u.inode[i]) \subseteq u.fbm \ Meta
    BY <1>6, <2>1 DEF Ready
  <2>3. ASSUME NEW j \in Inode \ {i}, Held(u, j)
        PROVE  ClaimsOf(u.inode[j]) \cap ClaimsOf(u.inode[i]) = {}
    BY <1>6, <2>3 DEF Ready
  <2>. QED
    BY <2>2, <2>3 DEF Ready
<1>8. i \in A \/ Cardinality(Holding(u, i)) < u.inode[i].linkCount
  BY <1>2, <1>4, <1>5, <1>6 DEF Parts
<1>. QED
  BY <1>5, <1>6, <1>7, <1>8

\* The volume a call begins with, and what is true of the inodes in it.
LEMMA BeginsWith ==
    ASSUME SafeNow
    PROVE  /\ TypeOK
           /\ Volume \in VolumeType
           /\ Safe(Volume, harmed, OpenInodes)
           /\ \A i \in Inode \ harmed : Held(Volume, i) =>
                 /\ i \in imap
                 /\ ClaimsOf(inode[i]) \subseteq fbm \ Meta
                 /\ i = Root \/ Cardinality(Holding(Volume, i)) <= inode[i].linkCount
           /\ \A i \in Inode : Held(Volume, i) => Ready(Volume, harmed, i)
           /\ \A i, j \in Inode : i # j /\ Held(Volume, i) /\ Held(Volume, j) =>
                 ClaimsOf(inode[i]) \cap ClaimsOf(inode[j]) = {}
           /\ Root \in imap /\ Meta \subseteq fbm
           /\ \A i \in OpenInodes \ harmed : i \in imap /\ inode[i].fileType # "d"
<1>1. Parts(Volume, fbm, imap, inode, dblock) /\ Volume \in VolumeType
  BY VolumeParts DEF SafeNow
<1>2. \A i \in Inode : Held(Volume, i) => Ready(Volume, harmed, i)
  BY HeldReady DEF SafeNow
<1>3. \A i \in Inode \ harmed : Held(Volume, i) =>
         /\ i \in imap
         /\ ClaimsOf(inode[i]) \subseteq fbm \ Meta
         /\ i = Root \/ Cardinality(Holding(Volume, i)) <= inode[i].linkCount
  BY <1>1 DEF SafeNow, Safe, HeldMarked, ClaimsMarked, CountsCover, Parts
<1>4. \A i, j \in Inode : i # j /\ Held(Volume, i) /\ Held(Volume, j) =>
         ClaimsOf(inode[i]) \cap ClaimsOf(inode[j]) = {}
  BY <1>1 DEF SafeNow, Safe, ClaimsApart, Parts
<1>5. /\ Root \in imap /\ Meta \subseteq fbm
      /\ \A i \in OpenInodes \ harmed : i \in imap /\ inode[i].fileType # "d"
  BY <1>1 DEF SafeNow, Safe, RootSafe, OpenSafe, Parts
<1>. QED
  BY <1>1, <1>2, <1>3, <1>4, <1>5 DEF SafeNow

\* fs_create makes a file.
LEMMA CreateFileBegins ==
    ASSUME SafeNow, NEW p \in Paths, CreateChecked(p),
           NEW d, d = searchPath(dirname(p)), NEW n, n = basename(p),
           d \notin harmed, FreeInode \notin harmed
    PROVE  Begins(harmed, harmed, OpenInodes, CreateFileStores(d, n),
                  fbm, imap \cup {FreeInode},
                  [inode EXCEPT
                      ![FreeInode] = [ZeroInode EXCEPT !.fileType = "r", !.linkCount = 1],
                      ![d] = SetBit(inode[d], FreeSlot(d))],
                  AddEntry(dblock, d, FreeSlot(d), n, FreeInode))
<1> DEFINE D == OpenInodes
<1>0. /\ d \in Inode /\ Held(Volume, d) /\ inode[d].fileType = "d"
      /\ n \in Names
      /\ FreeInode \in Inode \ imap
      /\ FreeSlot(d) \in Slot
  <2>1. d # SIZE_MAX
    BY DEF CreateChecked
  <2>2. d \in Inode /\ Held(Volume, d) /\ inode[d].fileType = "d"
    BY <2>1, SearchHeld
  <2>. QED
    BY <2>2, NameTypes, AllocatorTypes DEF CreateChecked
<1>1. PICK i : i = FreeInode
  OBVIOUS
<1>2. PICK s : s = FreeSlot(d)
  OBVIOUS
<1>3. PICK r : r = [ZeroInode EXCEPT !.fileType = "r", !.linkCount = 1]
  OBVIOUS
<1>4. PICK r2 : r2 = SetBit(inode[d], s)
  OBVIOUS
<1>5. PICK b : b = inode[d].directPointer[0]
  OBVIOUS
<1>6. PICK k : k = [dblock[b] EXCEPT ![s] = [filename |-> n, inodeNumber |-> i]]
  OBVIOUS
<1>7. PICK v1 : v1 = Stored(Volume, Mark("imap", i))
  OBVIOUS
<1>8. PICK v2 : v2 = Stored(v1, PutInode(i, r))
  OBVIOUS
<1>9. PICK v3 : v3 = Stored(v2, PutInode(d, r2))
  OBVIOUS
<1>10. PICK v4 : v4 = Stored(v3, PutBlock(b, k))
  OBVIOUS
<1>11. PICK v : v = Volume
  OBVIOUS
<1>12. /\ Safe(v, harmed, D) /\ v \in VolumeType
       /\ Parts(v, fbm, imap, inode, dblock)
       /\ i \in Inode \ {Root} /\ i \notin imap /\ ~Held(v, i) /\ i # d /\ i \notin D
       /\ Ready(v, harmed, d)
       /\ d = Root \/ Cardinality(Holding(v, d)) <= inode[d].linkCount
       /\ s \in Slot
  <2>1. Held(Volume, Root) /\ Root \in Inode
    BY ConstantTypes DEF Held
  <2>. QED
    BY <1>0, <1>1, <1>2, <1>11, <2>1, BeginsWith, VolumeParts
<1>13. /\ Mark("imap", i) \in StoreSet
       /\ Safe(v1, harmed, D)
       /\ Parts(v1, fbm, imap \cup {i}, inode, dblock)
  BY <1>7, <1>11, <1>12, MarkSafe, StoreOfInodeBit DEF Parts
<1>14. \A j : Holding(v1, j) = Holding(v, j) /\ (Held(v1, j) <=> Held(v, j))
  BY <1>12, <1>13 DEF Parts, Holding, Held
<1>15. /\ r \in InodeRecord /\ r.vacantFile = {} /\ r.fileType = "r" /\ r.linkCount = 1
       /\ r.directPointer = NoPointers
  BY <1>3, RecordTypes DEF ZeroInode, InodeRecord, FileType
<1>16. /\ PutInode(i, r) \in StoreSet
       /\ Safe(v2, harmed, D) /\ v2 \in VolumeType
       /\ \A j \in Inode : Holding(v2, j) = Holding(v1, j) /\ (Held(v2, j) => Held(v1, j))
  <2>1. ~Held(v1, i)
    BY <1>12, <1>14
  <2>2. v1 \in VolumeType
    BY <1>13 DEF Safe
  <2>. QED
    <3>1. PutInode(i, r) \in StoreSet /\ v2 \in VolumeType
      BY <1>8, <1>12, <1>15, <2>2, StoreOfInode
    <3>2. /\ Safe(v2, harmed, D)
          /\ \A j \in Inode : Holding(v2, j) = Holding(v1, j) /\ (Held(v2, j) => Held(v1, j))
      BY <1>8, <1>12, <1>13, <1>15, <2>1, NewRecordSafe
    <3>. QED
      BY <3>1, <3>2
<1>17. Parts(v2, fbm, imap \cup {i}, [inode EXCEPT ![i] = r], dblock)
  BY <1>8, <1>12, <1>13, <1>15, StoreOfInode DEF Parts, Safe
<1>18. v2.inode[d] = inode[d] /\ v2.inode[i] = r
  BY <1>12, <1>17, BeginsWith DEF Parts, TypeOK
<1>19. ClaimsOf(r) = {}
  BY <1>15 DEF ClaimsOf, NoPointers
<1>20. Ready(v2, harmed, i)
  BY <1>12, <1>17, <1>18, <1>19 DEF Ready, Parts
<1>21. Ready(v2, harmed, d)
  <2>1. d \in v2.imap /\ ClaimsOf(v2.inode[d]) \subseteq v2.fbm \ Meta
    BY <1>0, <1>17, <1>18, BeginsWith DEF Parts
  <2>2. ASSUME NEW j \in Inode \ {d}, Held(v2, j)
        PROVE  ClaimsOf(v2.inode[j]) \cap ClaimsOf(v2.inode[d]) = {}
    <3>1. Held(v, j) /\ j # i
      BY <1>12, <1>14, <1>16, <2>2
    <3>2. v2.inode[j] = inode[j]
      BY <1>17, <3>1, BeginsWith DEF Parts, TypeOK
    <3>. QED
      BY <1>0, <1>11, <1>18, <3>1, <3>2, BeginsWith
  <2>. QED
    BY <2>1, <2>2 DEF Ready
<1>22. /\ Cardinality(Holding(v2, i)) < v2.inode[i].linkCount
       /\ d \in ({Root} \cup harmed) \/ Cardinality(Holding(v2, d)) <= v2.inode[d].linkCount
  <2>1. Holding(v2, i) = {}
    BY <1>12, <1>14, <1>16 DEF Held
  <2>2. Cardinality(Holding(v2, i)) = 0
    BY <2>1, FS_EmptySet
  <2>. QED
    BY <1>0, <1>12, <1>14, <1>15, <1>16, <1>18, <2>2
<1>23. /\ PutInode(d, r2) \in StoreSet
       /\ Safe(v3, harmed, D)
       /\ Ready(v3, harmed, i)
       /\ i \in harmed \/ Cardinality(Holding(v3, i)) < v3.inode[i].linkCount
       /\ Parts(v3, v2.fbm, v2.imap, [v2.inode EXCEPT ![d] = r2], v2.dblock)
  <2>1. r2 = SetBit(v2.inode[d], s)
    BY <1>4, <1>18
  <2>2. i # d => ClaimsOf(v2.inode[d]) \cap ClaimsOf(v2.inode[i]) = {}
    BY <1>18, <1>19
  <2>. QED
    BY <1>0, <1>9, <1>12, <1>16, <1>20, <1>21, <1>22, <2>1, <2>2, EntryBit
<1>24. b \in Block /\ WithEntry(k, v3.dblock[b], s, n, i)
  <2>1. v3.dblock = dblock
    BY <1>17, <1>23 DEF Parts
  <2>. QED
    BY <1>0, <1>2, <1>5, <1>6, <2>1, SlotHolds, BeginsWith DEF WithEntry
<1>25. k \in [Slot -> Dentry] /\ Safe(v4, harmed, D)
  BY <1>0, <1>10, <1>12, <1>23, <1>24, EntrySafe DEF EntryMade
<1>26. /\ PutBlock(b, k) \in StoreSet
       /\ Parts(v4, v3.fbm, v3.imap, v3.inode, [v3.dblock EXCEPT ![b] = k])
  <2>1. v3 \in VolumeType
    BY <1>23 DEF Safe
  <2>2. k \in [Slot -> Dentry] /\ b \in Block
    BY <1>24, <1>25
  <2>3. /\ PutBlock(b, k) \in StoreSet
        /\ Parts(Stored(v3, PutBlock(b, k)),
                 v3.fbm, v3.imap, v3.inode, [v3.dblock EXCEPT ![b] = k])
    BY <2>1, <2>2, StoreOfBlock, ZenonT(30)
  <2>. QED
    BY <1>10, <2>3, Zenon
<1>27. /\ << Mark("imap", i), PutInode(i, r), PutInode(d, r2), PutBlock(b, k) >> \in Seq(StoreSet)
       /\ SafeRun(v, harmed, harmed, D,
                  << Mark("imap", i), PutInode(i, r), PutInode(d, r2), PutBlock(b, k) >>, v4)
  <2>1. PICK t1 : t1 = Mark("imap", i)
    OBVIOUS
  <2>2. PICK t2 : t2 = PutInode(i, r)
    OBVIOUS
  <2>3. PICK t3 : t3 = PutInode(d, r2)
    OBVIOUS
  <2>4. PICK t4 : t4 = PutBlock(b, k)
    OBVIOUS
  <2>5. /\ t1 \in StoreSet /\ t2 \in StoreSet /\ t3 \in StoreSet /\ t4 \in StoreSet
        /\ Safe(v, harmed, D) /\ Safe(v1, harmed, D) /\ Safe(v2, harmed, D)
        /\ Safe(v3, harmed, D) /\ Safe(v4, harmed, D)
    BY <1>12, <1>13, <1>16, <1>23, <1>25, <1>26, <2>1, <2>2, <2>3, <2>4
  <2>6. /\ v1 = Stored(v, t1) /\ v2 = Stored(v1, t2)
        /\ v3 = Stored(v2, t3) /\ v4 = Stored(v3, t4)
    BY <1>7, <1>8, <1>9, <1>10, <1>11, <2>1, <2>2, <2>3, <2>4
  <2>7. /\ << t1, t2, t3, t4 >> \in Seq(StoreSet)
        /\ SafeRun(v, harmed, harmed, D, << t1, t2, t3, t4 >>, v4)
    BY <2>5, <2>6, Run4, ZenonT(60)
  <2>. QED
    BY <2>1, <2>2, <2>3, <2>4, <2>7
<1>28. CreateFileStores(d, n) =
         << Mark("imap", i), PutInode(i, r), PutInode(d, r2), PutBlock(b, k) >>
  <2>1. CreateFileStores(d, n) =
           << Mark("imap", i), PutInode(i, r) >> \o << PutInode(d, r2), PutBlock(b, k) >>
    BY <1>1, <1>2, <1>3, <1>4, <1>5, <1>6 DEF CreateFileStores, EntryStores, BlockWithEntry
  <2>. QED
    BY <1>13, <1>16, <1>23, <1>26, <2>1, TwoAndTwo
<1>29. Parts(v4, fbm, imap \cup {i}, [inode EXCEPT ![i] = r, ![d] = r2],
             [dblock EXCEPT ![b] = k])
  BY <1>17, <1>23, <1>26 DEF Parts
<1>30. AddEntry(dblock, d, s, n, i) = [dblock EXCEPT ![b] = k]
  BY <1>5, <1>6 DEF AddEntry
<1>. QED
  BY <1>1, <1>2, <1>3, <1>4, <1>11, <1>27, <1>28, <1>29, <1>30 DEF Begins

\* The list r is the store s, and then the list q.
OneMore(r, s, q) ==
    /\ q \in Seq(StoreSet) /\ r \in Seq(StoreSet)
    /\ Len(r) = Len(q) + 1
    /\ r[1] = s
    /\ \A k \in 1 .. Len(q) : r[k + 1] = q[k]

\* Six stores: the first and the five after it, and so on.
LEMMA SixStores ==
    ASSUME NEW s1 \in StoreSet, NEW s2 \in StoreSet, NEW s3 \in StoreSet, NEW s4 \in StoreSet,
           NEW s5 \in StoreSet, NEW s6 \in StoreSet
    PROVE  /\ OneMore(<< s1, s2, s3, s4 >> \o << s5, s6 >>, s1, << s2, s3, s4, s5, s6 >>)
           /\ OneMore(<< s2, s3, s4, s5, s6 >>, s2, << s3, s4, s5, s6 >>)
<1>1. PICK t : t = << s1, s2, s3, s4 >> \o << s5, s6 >>
  OBVIOUS
<1>2. PICK q : q = << s2, s3, s4, s5, s6 >>
  OBVIOUS
<1>3. /\ t \in Seq(StoreSet) /\ Len(t) = 6
      /\ t[1] = s1 /\ t[2] = s2 /\ t[3] = s3 /\ t[4] = s4 /\ t[5] = s5 /\ t[6] = s6
  BY <1>1
<1>4. /\ q \in Seq(StoreSet) /\ Len(q) = 5
      /\ q[1] = s2 /\ q[2] = s3 /\ q[3] = s4 /\ q[4] = s5 /\ q[5] = s6
  BY <1>2
<1>5. \A k \in 1 .. 5 : k = 1 \/ k = 2 \/ k = 3 \/ k = 4 \/ k = 5
  OBVIOUS
<1>6. \A k \in 1 .. 5 : t[k + 1] = q[k]
  BY <1>3, <1>4, <1>5
<1>7. PICK x : x = << s3, s4, s5, s6 >>
  OBVIOUS
<1>8. /\ x \in Seq(StoreSet) /\ Len(x) = 4
      /\ x[1] = s3 /\ x[2] = s4 /\ x[3] = s5 /\ x[4] = s6
  BY <1>7
<1>9. \A k \in 1 .. 4 : q[k + 1] = x[k]
  BY <1>4, <1>5, <1>8
<1>10. OneMore(t, s1, q) /\ OneMore(q, s2, x)
  BY <1>3, <1>4, <1>6, <1>8, <1>9 DEF OneMore
<1>. QED
  BY <1>1, <1>2, <1>7, <1>10

\* Such a list is a list, and not empty.
LEMMA OneMoreType ==
    ASSUME NEW r, NEW s, NEW q, OneMore(r, s, q)
    PROVE  r \in Seq(StoreSet) /\ r # <<>>
<1>1. r \in Seq(StoreSet) /\ Len(q) \in Nat /\ Len(r) = Len(q) + 1
  BY DEF OneMore
<1>. QED
  BY <1>1

\* One store before a list of others.
LEMMA RunOneMore ==
    ASSUME NEW A, NEW C, NEW D, NEW v, NEW w, NEW s \in StoreSet, NEW q, NEW r, OneMore(r, s, q),
           NEW u, u = Stored(v, s), Safe(v, A, D), SafeRun(u, A, C, D, q, w)
    PROVE  SafeRun(v, A, C, D, r, w)
  BY RunStore DEF OneMore

\* fs_create takes an inode, and then finds no block.
LEMMA NoBlockBegins ==
    ASSUME SafeNow, FreeInode # SIZE_MAX
    PROVE  Begins(harmed, harmed, OpenInodes, << Mark("imap", FreeInode) >>,
                  fbm, imap \cup {FreeInode}, inode, dblock)
<1>1. PICK s : s = Mark("imap", FreeInode)
  OBVIOUS
<1>2. PICK w : w = Stored(Volume, s)
  OBVIOUS
<1>3. FreeInode \in Inode
  BY AllocatorTypes
<1>4. /\ s \in StoreSet
      /\ Safe(w, harmed, OpenInodes)
      /\ Parts(w, fbm, imap \cup {FreeInode}, inode, dblock)
  BY <1>1, <1>2, <1>3, BeginsWith, VolumeParts, MarkSafe, StoreOfInodeBit DEF Parts
<1>5. << s >> \in Seq(StoreSet) /\ SafeRun(Volume, harmed, harmed, OpenInodes, << s >>, w)
  BY <1>2, <1>4, BeginsWith, Run1
<1>. QED
  BY <1>1, <1>4, <1>5 DEF Begins

\* fs_write of a block that is there.
LEMMA WriteBegins ==
    ASSUME SafeNow, NEW b \in Block
    PROVE  Begins(harmed, harmed, OpenInodes, << PutBlock(b, ZeroBlock) >>,
                  fbm, imap, inode, [dblock EXCEPT ![b] = ZeroBlock])
<1>1. PICK s : s = PutBlock(b, ZeroBlock)
  OBVIOUS
<1>2. PICK w : w = Stored(Volume, s)
  OBVIOUS
<1>3. ZeroBlock \in [Slot -> Dentry] /\ \A t \in Slot : ZeroBlock[t].inodeNumber = Root
  BY RecordTypes DEF ZeroBlock, NoEntry, Root
<1>4. /\ s \in StoreSet
      /\ Parts(w, fbm, imap, inode, [dblock EXCEPT ![b] = ZeroBlock])
  BY <1>1, <1>2, <1>3, BeginsWith, VolumeParts, StoreOfBlock DEF Parts
<1>5. Safe(w, harmed, OpenInodes)
  BY <1>1, <1>2, <1>3, BeginsWith, BlankSafe
<1>6. << s >> \in Seq(StoreSet) /\ SafeRun(Volume, harmed, harmed, OpenInodes, << s >>, w)
  BY <1>2, <1>4, <1>5, BeginsWith, Run1
<1>. QED
  BY <1>1, <1>4, <1>6 DEF Begins

\* The free block that is found belongs to no inode that a crash has harmed.
FreeBlockApart == \A j \in Inode \cap harmed : FreeBlock \notin ClaimsOf(inode[j])

\* Then nothing claims it.
LEMMA FreeBlockUnclaimed ==
    ASSUME SafeNow, FreeBlock # SIZE_MAX, FreeBlockApart
    PROVE  /\ FreeBlock \in Block \ fbm /\ FreeBlock \notin Meta
           /\ \A j \in Inode : Held(Volume, j) => FreeBlock \notin ClaimsOf(inode[j])
<1>1. FreeBlock \in Block \ fbm /\ FreeBlock \notin Meta
  BY BeginsWith, AllocatorTypes
<1>. QED
  BY <1>1, BeginsWith DEF FreeBlockApart

\* fs_write of a block that is allocated first.
LEMMA NewBlockBegins ==
    ASSUME SafeNow, NEW i \in OpenInodes \ harmed, NEW k \in Order, FreeBlock # SIZE_MAX,
           FreeBlockApart
    PROVE  Begins(harmed, harmed, OpenInodes, NewBlockStores(i, k),
                  fbm \cup {FreeBlock}, imap,
                  [inode EXCEPT ![i].directPointer[k] = FreeBlock],
                  [dblock EXCEPT ![FreeBlock] = ZeroBlock])
<1> DEFINE D == OpenInodes
<1>1. PICK b : b = FreeBlock
  OBVIOUS
<1>2. PICK r : r = [inode[i] EXCEPT !.directPointer[k] = b]
  OBVIOUS
<1>3. PICK v : v = Volume
  OBVIOUS
<1>4. PICK v1 : v1 = Stored(v, Mark("fbm", b))
  OBVIOUS
<1>5. PICK v2 : v2 = Stored(v1, PutInode(i, r))
  OBVIOUS
<1>6. PICK v3 : v3 = Stored(v2, PutBlock(b, ZeroBlock))
  OBVIOUS
<1>7. /\ Safe(v, harmed, D) /\ v \in VolumeType
      /\ Parts(v, fbm, imap, inode, dblock)
      /\ b \in Block \ fbm /\ b \notin Meta
      /\ i \in Inode /\ inode[i].fileType # "d"
      /\ inode[i] \in InodeRecord
  <2>1. i \in Inode
    BY BeginsWith DEF OpenInodes, OpenFds, TypeOK
  <2>. QED
    BY <1>1, <1>3, <2>1, BeginsWith, VolumeParts, FreeBlockUnclaimed DEF TypeOK
<1>8. r \in InodeRecord
  BY <1>2, <1>7, RecordUpdates
<1>9. /\ Mark("fbm", b) \in StoreSet
      /\ Safe(v1, harmed, D) /\ v1 \in VolumeType
      /\ Parts(v1, fbm \cup {b}, imap, inode, dblock)
  BY <1>4, <1>7, MarkSafe, StoreOfBlockBit DEF Parts
<1>10. /\ PutInode(i, r) \in StoreSet /\ v2 \in VolumeType
       /\ Parts(v2, fbm \cup {b}, imap, [inode EXCEPT ![i] = r], dblock)
  BY <1>5, <1>7, <1>8, <1>9, StoreOfInode DEF Parts
<1>11. Safe(v2, harmed, D)
  <2>1. ASSUME NEW j \in Inode, Held(v1, j)
        PROVE  b \notin ClaimsOf(v1.inode[j])
    <3>1. Held(v, j) /\ v1.inode[j] = inode[j]
      BY <1>7, <1>9, <2>1 DEF Held, Holding, Parts
    <3>. QED
      BY <1>1, <1>3, <3>1, FreeBlockUnclaimed
  <2>2. b \in v1.fbm \ Meta /\ v1.inode[i].fileType # "d" /\ r = [v1.inode[i] EXCEPT !.directPointer[k] = b]
    BY <1>2, <1>7, <1>9 DEF Parts
  <2>. QED
    BY <1>5, <1>7, <1>9, <2>1, <2>2, NewBlockSafe
<1>12. ZeroBlock \in [Slot -> Dentry] /\ \A t \in Slot : ZeroBlock[t].inodeNumber = Root
  BY RecordTypes DEF ZeroBlock, NoEntry, Root
<1>13. /\ PutBlock(b, ZeroBlock) \in StoreSet
       /\ Parts(v3, fbm \cup {b}, imap, [inode EXCEPT ![i] = r], [dblock EXCEPT ![b] = ZeroBlock])
  BY <1>6, <1>7, <1>10, <1>12, StoreOfBlock DEF Parts
<1>14. Safe(v3, harmed, D)
  BY <1>6, <1>7, <1>11, <1>12, BlankSafe
<1>15. /\ << Mark("fbm", b), PutInode(i, r), PutBlock(b, ZeroBlock) >> \in Seq(StoreSet)
       /\ SafeRun(v, harmed, harmed, D, << Mark("fbm", b), PutInode(i, r), PutBlock(b, ZeroBlock) >>, v3)
  BY <1>4, <1>5, <1>6, <1>7, <1>9, <1>10, <1>11, <1>13, <1>14, Run3, Zenon
<1>16. NewBlockStores(i, k) = << Mark("fbm", b), PutInode(i, r), PutBlock(b, ZeroBlock) >>
  BY <1>1, <1>2 DEF NewBlockStores
<1>17. [inode EXCEPT ![i].directPointer[k] = b] = [inode EXCEPT ![i] = r]
  BY <1>2
<1>. QED
  BY <1>1, <1>3, <1>13, <1>15, <1>16, <1>17 DEF Begins

\* fs_create makes a directory.
LEMMA CreateDirBegins ==
    ASSUME SafeNow, NEW p \in Paths, CreateChecked(p), FreeBlock # SIZE_MAX,
           NEW d, d = searchPath(dirname(p)), NEW n, n = basename(p),
           d \notin harmed, FreeInode \notin harmed, FreeBlockApart
    PROVE  Begins(harmed, harmed, OpenInodes, CreateDirStores(d, n),
                  fbm \cup {FreeBlock}, imap \cup {FreeInode},
                  [inode EXCEPT ![FreeInode] = DirRecord(FreeBlock),
                                ![d] = SetBit(inode[d], FreeSlot(d))],
                  AddEntry([dblock EXCEPT ![FreeBlock] = ZeroBlock],
                           d, FreeSlot(d), n, FreeInode))
<1> DEFINE D == OpenInodes
<1>1. /\ d \in Inode /\ Held(Volume, d) /\ inode[d].fileType = "d"
      /\ n \in Names
      /\ FreeInode \in Inode \ imap
      /\ FreeBlock \in Block \ fbm
      /\ FreeSlot(d) \in Slot
  <2>1. d # SIZE_MAX
    BY DEF CreateChecked
  <2>2. d \in Inode /\ Held(Volume, d) /\ inode[d].fileType = "d"
    BY <2>1, SearchHeld
  <2>. QED
    BY <2>2, NameTypes, AllocatorTypes DEF CreateChecked
<1>2. PICK i : i = FreeInode
  OBVIOUS
<1>3. PICK s : s = FreeSlot(d)
  OBVIOUS
<1>4. PICK c : c = FreeBlock
  OBVIOUS
<1>5. PICK r : r = DirRecord(c)
  OBVIOUS
<1>6. PICK r2 : r2 = SetBit(inode[d], s)
  OBVIOUS
<1>7. PICK b : b = inode[d].directPointer[0]
  OBVIOUS
<1>8. PICK k : k = [dblock[b] EXCEPT ![s] = [filename |-> n, inodeNumber |-> i]]
  OBVIOUS
<1>9. PICK v : v = Volume
  OBVIOUS
<1>10. PICK v1 : v1 = Stored(v, Mark("imap", i))
  OBVIOUS
<1>11. PICK v2 : v2 = Stored(v1, Mark("fbm", c))
  OBVIOUS
<1>12. PICK v3 : v3 = Stored(v2, PutBlock(c, ZeroBlock))
  OBVIOUS
<1>13. PICK v4 : v4 = Stored(v3, PutInode(i, r))
  OBVIOUS
<1>14. PICK v5 : v5 = Stored(v4, PutInode(d, r2))
  OBVIOUS
<1>15. PICK v6 : v6 = Stored(v5, PutBlock(b, k))
  OBVIOUS
<1>16. /\ Safe(v, harmed, D) /\ v \in VolumeType
       /\ Parts(v, fbm, imap, inode, dblock)
       /\ i \in Inode \ {Root} /\ i \notin imap /\ ~Held(v, i) /\ i # d /\ i \notin D
       /\ d = Root \/ Cardinality(Holding(v, d)) <= inode[d].linkCount
       /\ s \in Slot
       /\ c \in Block \ fbm /\ c \notin Meta
  <2>1. Held(Volume, Root) /\ Root \in Inode
    BY ConstantTypes DEF Held
  <2>. QED
    BY <1>1, <1>2, <1>3, <1>4, <1>9, <2>1, BeginsWith, VolumeParts, FreeBlockUnclaimed
<1>17. b \in fbm /\ b # c /\ ClaimsOf(inode[d]) = {b}
  <2>1. ClaimsOf(inode[d]) = {b}
    BY <1>1, <1>7 DEF ClaimsOf
  <2>2. ClaimsOf(inode[d]) \subseteq fbm
    BY <1>1, BeginsWith
  <2>. QED
    BY <1>16, <2>1, <2>2
<1>18. /\ Mark("imap", i) \in StoreSet
       /\ Safe(v1, harmed, D) /\ v1 \in VolumeType
       /\ Parts(v1, fbm, imap \cup {i}, inode, dblock)
  BY <1>10, <1>16, MarkSafe, StoreOfInodeBit DEF Parts
<1>19. /\ Mark("fbm", c) \in StoreSet
       /\ Safe(v2, harmed, D) /\ v2 \in VolumeType
       /\ Parts(v2, fbm \cup {c}, imap \cup {i}, inode, dblock)
  BY <1>11, <1>16, <1>18, MarkSafe, StoreOfBlockBit DEF Parts
<1>20. \A j : Holding(v2, j) = Holding(v, j) /\ (Held(v2, j) <=> Held(v, j))
  BY <1>16, <1>19 DEF Parts, Holding, Held
<1>21. ZeroBlock \in [Slot -> Dentry] /\ \A t \in Slot : ZeroBlock[t].inodeNumber = Root
  BY RecordTypes DEF ZeroBlock, NoEntry, Root
<1>22. /\ PutBlock(c, ZeroBlock) \in StoreSet /\ v3 \in VolumeType
       /\ Parts(v3, fbm \cup {c}, imap \cup {i}, inode, [dblock EXCEPT ![c] = ZeroBlock])
  BY <1>12, <1>16, <1>19, <1>21, StoreOfBlock DEF Parts
<1>23. /\ Safe(v3, harmed, D)
       /\ \A j \in Inode \ {Root} : Holding(v3, j) \subseteq Holding(v, j)
  BY <1>12, <1>16, <1>19, <1>20, <1>21, BlankSafe
<1>24. \A j \in Inode : Held(v3, j) => Held(v, j)
  BY <1>16, <1>22, <1>23 DEF Held, Parts
<1>25. /\ r \in InodeRecord /\ r.vacantFile = {} /\ r.fileType = "d" /\ r.linkCount = 1
       /\ r.directPointer[0] = c
  BY <1>5, <1>16, RecordTypes, ConstantTypes DEF DirRecord, NoPointers
<1>26. /\ PutInode(i, r) \in StoreSet /\ v4 \in VolumeType
       /\ Parts(v4, fbm \cup {c}, imap \cup {i}, [inode EXCEPT ![i] = r],
                [dblock EXCEPT ![c] = ZeroBlock])
  BY <1>13, <1>16, <1>22, <1>25, StoreOfInode DEF Parts
<1>27. /\ Safe(v4, harmed, D)
       /\ \A j \in Inode : Holding(v4, j) = Holding(v3, j) /\ (Held(v4, j) => Held(v3, j))
  <2>1. ~Held(v3, i)
    BY <1>16, <1>24
  <2>. QED
    BY <1>13, <1>16, <1>23, <1>25, <2>1, NewRecordSafe
<1>28. v4.inode[d] = inode[d] /\ v4.inode[i] = r
  BY <1>16, <1>26, BeginsWith DEF Parts, TypeOK
<1>29. ClaimsOf(r) = {c}
  BY <1>25 DEF ClaimsOf
<1>30. ASSUME NEW j \in Inode, Held(v4, j)
       PROVE  /\ j # i /\ Held(v, j) /\ v4.inode[j] = inode[j]
              /\ c \notin ClaimsOf(inode[j])
  <2>1. Held(v, j) /\ j # i
    BY <1>16, <1>24, <1>27, <1>30
  <2>2. v4.inode[j] = inode[j]
    BY <1>26, <2>1, BeginsWith DEF Parts, TypeOK
  <2>. QED
    BY <1>4, <1>9, <2>1, <2>2, FreeBlockUnclaimed
<1>31. Ready(v4, harmed, i)
  <2>1. i \in v4.imap /\ ClaimsOf(v4.inode[i]) \subseteq v4.fbm \ Meta
    BY <1>16, <1>26, <1>28, <1>29 DEF Parts
  <2>. QED
    BY <1>16, <1>28, <1>29, <1>30, <2>1 DEF Ready
<1>32. Ready(v4, harmed, d)
  <2>1. d \in v4.imap /\ ClaimsOf(v4.inode[d]) \subseteq v4.fbm \ Meta
    BY <1>1, <1>26, <1>28, BeginsWith DEF Parts
  <2>2. ASSUME NEW j \in Inode \ {d}, Held(v4, j)
        PROVE  ClaimsOf(v4.inode[j]) \cap ClaimsOf(v4.inode[d]) = {}
    BY <1>1, <1>9, <1>28, <1>30, <2>2, BeginsWith
  <2>. QED
    BY <2>1, <2>2 DEF Ready
<1>33. /\ Cardinality(Holding(v4, i)) < v4.inode[i].linkCount
       /\ d \in ({Root} \cup harmed) \/ Cardinality(Holding(v4, d)) <= v4.inode[d].linkCount
  <2>1. Holding(v4, i) = {}
    BY <1>16, <1>23, <1>27 DEF Held
  <2>2. Cardinality(Holding(v4, i)) = 0
    BY <2>1, FS_EmptySet
  <2>3. d = Root \/ Cardinality(Holding(v4, d)) <= v4.inode[d].linkCount
    BY <1>1, <1>27 DEF Safe, CountsCover
  <2>. QED
    BY <1>25, <1>28, <2>2, <2>3
<1>34. /\ PutInode(d, r2) \in StoreSet
       /\ Safe(v5, harmed, D)
       /\ Ready(v5, harmed, i)
       /\ i \in harmed \/ Cardinality(Holding(v5, i)) < v5.inode[i].linkCount
       /\ Parts(v5, v4.fbm, v4.imap, [v4.inode EXCEPT ![d] = r2], v4.dblock)
  <2>1. r2 = SetBit(v4.inode[d], s)
    BY <1>6, <1>28
  <2>2. i # d => ClaimsOf(v4.inode[d]) \cap ClaimsOf(v4.inode[i]) = {}
    BY <1>17, <1>28, <1>29
  <2>. QED
    BY <1>1, <1>14, <1>16, <1>27, <1>31, <1>32, <1>33, <2>1, <2>2, EntryBit
<1>35. b \in Block /\ WithEntry(k, v5.dblock[b], s, n, i)
  <2>1. b \in Block
    BY <1>17, BeginsWith DEF TypeOK
  <2>2. v5.dblock[b] = dblock[b]
    BY <1>17, <1>26, <1>34 DEF Parts
  <2>. QED
    BY <1>8, <2>1, <2>2 DEF WithEntry
<1>36. k \in [Slot -> Dentry] /\ Safe(v6, harmed, D)
  BY <1>1, <1>15, <1>16, <1>34, <1>35, EntrySafe DEF EntryMade
<1>37. /\ PutBlock(b, k) \in StoreSet
       /\ Parts(v6, v5.fbm, v5.imap, v5.inode, [v5.dblock EXCEPT ![b] = k])
  BY <1>15, <1>34, <1>35, <1>36, StoreOfBlock DEF Safe
<1>38. PICK t1 : t1 = Mark("imap", i)
  OBVIOUS
<1>39. PICK t2 : t2 = Mark("fbm", c)
  OBVIOUS
<1>40. PICK t3 : t3 = PutBlock(c, ZeroBlock)
  OBVIOUS
<1>41. PICK t4 : t4 = PutInode(i, r)
  OBVIOUS
<1>42. PICK t5 : t5 = PutInode(d, r2)
  OBVIOUS
<1>43. PICK t6 : t6 = PutBlock(b, k)
  OBVIOUS
<1>44. PICK q : q = CreateDirStores(d, n)
  OBVIOUS
<1>45. /\ t1 \in StoreSet /\ t2 \in StoreSet /\ t3 \in StoreSet
       /\ t4 \in StoreSet /\ t5 \in StoreSet /\ t6 \in StoreSet
  BY <1>18, <1>19, <1>22, <1>26, <1>34, <1>37, <1>38, <1>39, <1>40, <1>41, <1>42, <1>43
<1>46. q = << t1, t2, t3, t4 >> \o << t5, t6 >>
  BY <1>2, <1>3, <1>4, <1>5, <1>6, <1>7, <1>8, <1>38, <1>39, <1>40, <1>41, <1>42, <1>43, <1>44
     DEF CreateDirStores, EntryStores, BlockWithEntry
<1>47. /\ OneMore(q, t1, << t2, t3, t4, t5, t6 >>)
       /\ OneMore(<< t2, t3, t4, t5, t6 >>, t2, << t3, t4, t5, t6 >>)
  BY <1>45, <1>46, SixStores
<1>48. /\ v1 = Stored(v, t1) /\ v2 = Stored(v1, t2) /\ v3 = Stored(v2, t3)
       /\ v4 = Stored(v3, t4) /\ v5 = Stored(v4, t5) /\ v6 = Stored(v5, t6)
  BY <1>10, <1>11, <1>12, <1>13, <1>14, <1>15, <1>38, <1>39, <1>40, <1>41, <1>42, <1>43
<1>49. SafeRun(v2, harmed, harmed, D, << t3, t4, t5, t6 >>, v6)
  BY <1>19, <1>23, <1>27, <1>34, <1>36, <1>45, <1>48, Run4, Zenon
<1>50. SafeRun(v1, harmed, harmed, D, << t2, t3, t4, t5, t6 >>, v6)
  BY <1>18, <1>45, <1>49, <1>47, <1>48, RunOneMore, Zenon
<1>51. SafeRun(v, harmed, harmed, D, q, v6)
  BY <1>16, <1>45, <1>47, <1>48, <1>50, RunOneMore, Zenon
<1>52. q \in Seq(StoreSet) /\ q # <<>>
  BY <1>47, OneMoreType, Zenon
<1>53. Parts(v6, fbm \cup {c}, imap \cup {i}, [inode EXCEPT ![i] = r, ![d] = r2],
             [[dblock EXCEPT ![c] = ZeroBlock] EXCEPT ![b] = k])
  BY <1>26, <1>34, <1>37 DEF Parts
<1>54. AddEntry([dblock EXCEPT ![c] = ZeroBlock], d, s, n, i) =
          [[dblock EXCEPT ![c] = ZeroBlock] EXCEPT ![b] = k]
  BY <1>7, <1>8 DEF AddEntry
<1>. QED
  BY <1>2, <1>3, <1>4, <1>5, <1>6, <1>9, <1>44, <1>53, <1>54, <1>51, <1>52 DEF Begins

\* The block c is the block x, but that its slot s holds nothing.
SlotBlank(c, s, x) ==
    /\ c \in [Slot -> Dentry]
    /\ c[s].inodeNumber = Root
    /\ \A t \in Slot \ {s} : c[t].inodeNumber = x[t].inodeNumber

\* The blocks W are those of the volume, but for the slot s of the block b.
AllButSlot(W, b, s) ==
    /\ b \in Block
    /\ SlotBlank(W[b], s, dblock[b])
    /\ W = [dblock EXCEPT ![b] = W[b]]

\* A directory's block without one of its entries, or without the number in it.
LEMMA ClearedBlock ==
    ASSUME TypeOK, NEW d \in Inode, NEW s \in Slot
    PROVE  /\ AllButSlot(WithoutEntries(d, {s}), inode[d].directPointer[0], s)
           /\ AllButSlot(WithoutInodes(d, {s}), inode[d].directPointer[0], s)
<1> SUFFICES ASSUME NEW b, b = inode[d].directPointer[0],
                    NEW W, W = WithoutEntries(d, {s}) \/ W = WithoutInodes(d, {s})
             PROVE  AllButSlot(W, b, s)
  OBVIOUS
<1>1. b \in Block /\ dblock[b] \in [Slot -> Dentry] /\ dblock \in [Block -> [Slot -> Dentry]]
  BY ConstantTypes DEF TypeOK, InodeRecord
<1>2. W \in [Block -> [Slot -> Dentry]]
  BY WithoutEntriesType
<1>3. CASE W = WithoutEntries(d, {s})
  <2>1. W = [dblock EXCEPT ![b] = [t \in Slot |-> IF t \in {s} THEN NoEntry ELSE dblock[b][t]]]
    BY <1>3 DEF WithoutEntries
  <2>. QED
    BY <1>1, <1>2, <2>1 DEF NoEntry, Root, SlotBlank, AllButSlot
<1>4. CASE W = WithoutInodes(d, {s})
  <2>1. W = [dblock EXCEPT ![b] = [t \in Slot |->
                IF t \in {s} THEN [dblock[b][t] EXCEPT !.inodeNumber = 0] ELSE dblock[b][t]]]
    BY <1>4 DEF WithoutInodes
  <2>2. \A x \in Dentry : [x EXCEPT !.inodeNumber = 0].inodeNumber = 0
    BY DEF Dentry
  <2>. QED
    BY <1>1, <1>2, <2>1, <2>2 DEF Root, SlotBlank, AllButSlot
<1>. QED
  BY <1>3, <1>4

\* A block is stored in which a slot is cleared: that slot holds its inode no
\* more.
LEMMA SlotCleared ==
    ASSUME NEW A, NEW D, NEW v, Safe(v, A, D), NEW b \in Block, NEW s \in Slot,
           NEW k, SlotBlank(k, s, v.dblock[b]),
           NEW w, w = Stored(v, PutBlock(b, k))
    PROVE  /\ PutBlock(b, k) \in StoreSet
           /\ Safe(w, A, D) /\ w \in VolumeType
           /\ Parts(w, v.fbm, v.imap, v.inode, [v.dblock EXCEPT ![b] = k])
           /\ \A i \in Inode \ {Root} : Holding(w, i) \subseteq Holding(v, i) \ {<<b, s>>}
<1>1. v \in VolumeType /\ v.dblock \in [Block -> [Slot -> Dentry]]
  BY DEF Safe, VolumeType
<1>2. k \in [Slot -> Dentry] /\ k[s].inodeNumber = Root
  BY DEF SlotBlank
<1>3. /\ PutBlock(b, k) \in StoreSet /\ w \in VolumeType
      /\ Parts(w, v.fbm, v.imap, v.inode, [v.dblock EXCEPT ![b] = k])
  BY <1>2, <1>1, StoreOfBlock
<1>4. \A t \in Slot : \/ k[t].inodeNumber = v.dblock[b][t].inodeNumber
                      \/ k[t].inodeNumber = Root
  BY DEF SlotBlank
<1>5. Safe(w, A, D) /\ \A i \in Inode \ {Root} : Holding(w, i) \subseteq Holding(v, i)
  BY <1>2, <1>4, BlankSafe
<1>6. ASSUME NEW i \in Inode \ {Root}
      PROVE  <<b, s>> \notin Holding(w, i)
  BY <1>2, <1>1, <1>3 DEF Holding, Parts
<1>. QED
  BY <1>3, <1>5, <1>6

\* What holds of the volume u once the record r of i is stored in v, its type
\* and pointers being the same.
Rewritten(v, A, D, i, r, u) ==
    /\ PutInode(i, r) \in StoreSet
    /\ Safe(u, A, D) /\ u \in VolumeType
    /\ Parts(u, v.fbm, v.imap, [v.inode EXCEPT ![i] = r], v.dblock)
    /\ \A j \in Inode : Holding(u, j) = Holding(v, j)
    /\ \A j \in Inode \ {i} : Held(u, j) => Held(v, j)
    /\ \A j \in Inode : ClaimsOf(u.inode[j]) = ClaimsOf(v.inode[j])

\* Such a record is stored.
LEMMA RecordStored ==
    ASSUME NEW A, NEW D, NEW v, Safe(v, A, D), NEW i \in Inode, Ready(v, A, i),
           NEW r \in InodeRecord,
           r.fileType = v.inode[i].fileType, r.directPointer = v.inode[i].directPointer,
           i \in ({Root} \cup A) \/ Cardinality(Holding(v, i)) <= r.linkCount,
           NEW u, u = Stored(v, PutInode(i, r))
    PROVE  Rewritten(v, A, D, i, r, u)
<1>1. /\ PutInode(i, r) \in StoreSet
      /\ u \in VolumeType
      /\ Parts(u, v.fbm, v.imap, [v.inode EXCEPT ![i] = r], v.dblock)
  BY StoreOfInode DEF Safe
<1>2. /\ Safe(u, A, D)
      /\ \A j \in Inode : Holding(u, j) = Holding(v, j)
      /\ \A j \in Inode \ {i} : Held(u, j) => Held(v, j)
      /\ \A j \in Inode : ClaimsOf(u.inode[j]) = ClaimsOf(v.inode[j])
  BY RecordSafe
<1>. QED
  BY <1>1, <1>2 DEF Rewritten

\* A bit of a directory's record is cleared.
LEMMA BitCleared ==
    ASSUME NEW A, NEW D, NEW v, Safe(v, A, D), NEW d \in Inode, Ready(v, A, d),
           d \in ({Root} \cup A) \/ Cardinality(Holding(v, d)) <= v.inode[d].linkCount,
           NEW S, NEW r, r = ClearBit(v.inode[d], S),
           NEW u, u = Stored(v, PutInode(d, r))
    PROVE  Rewritten(v, A, D, d, r, u)
<1>1. v.inode[d] \in InodeRecord
  BY DEF Safe, VolumeType
<1>2. r \in InodeRecord
  BY <1>1, RecordUpdates
<1>3. /\ r.fileType = v.inode[d].fileType
      /\ r.directPointer = v.inode[d].directPointer
      /\ r.linkCount = v.inode[d].linkCount
  BY <1>1 DEF ClearBit, InodeRecord
<1>4. d \in ({Root} \cup A) \/ Cardinality(Holding(v, d)) <= r.linkCount
  BY <1>3
<1>. QED
  BY <1>2, <1>3, <1>4, RecordStored, Zenon

\* A link is taken from the count, or added to it.
LEMMA CountStored ==
    ASSUME NEW A, NEW D, NEW v, Safe(v, A, D), NEW i \in Inode, Ready(v, A, i),
           NEW n \in Nat, i \in A \/ Cardinality(Holding(v, i)) <= n,
           NEW q \in InodeRecord, q.fileType = v.inode[i].fileType,
           q.directPointer = v.inode[i].directPointer,
           NEW r, r = [q EXCEPT !.linkCount = n],
           NEW u, u = Stored(v, PutInode(i, r))
    PROVE  Rewritten(v, A, D, i, r, u)
<1>1. r \in InodeRecord
  BY DEF InodeRecord
<1>2. /\ r.fileType = v.inode[i].fileType
      /\ r.directPointer = v.inode[i].directPointer
      /\ r.linkCount = n
  BY DEF InodeRecord
<1>3. i \in ({Root} \cup A) \/ Cardinality(Holding(v, i)) <= r.linkCount
  BY <1>2
<1>. QED
  BY <1>1, <1>2, <1>3, RecordStored, Zenon

\* The slot s of the directory d holds the inode i, and both may be come to.
Named(d, s, i) ==
    /\ d \in Inode /\ Held(Volume, d) /\ inode[d].fileType = "d"
    /\ i \in Inode \ {Root} /\ Held(Volume, i)
    /\ s \in Slot
    /\ <<inode[d].directPointer[0], s>> \in Holding(Volume, i)

\* What the calls rely on then.
LEMMA NamedFacts ==
    ASSUME SafeNow, NEW d, NEW s, NEW i, Named(d, s, i), NEW v, v = Volume
    PROVE  /\ Safe(v, harmed, OpenInodes) /\ v \in VolumeType
           /\ Parts(v, fbm, imap, inode, dblock)
           /\ d \in Inode /\ i \in Inode \ {Root} /\ s \in Slot
           /\ Held(v, d) /\ Held(v, i)
           /\ inode[d].fileType = "d"
           /\ inode[d].directPointer[0] \in Block
           /\ <<inode[d].directPointer[0], s>> \in Holding(v, i)
           /\ Ready(v, harmed, d) /\ Ready(v, harmed, i)
           /\ inode[d] \in InodeRecord /\ inode[i] \in InodeRecord
           /\ d \notin harmed =>
                 d = Root \/ Cardinality(Holding(v, d)) <= inode[d].linkCount
           /\ i \notin harmed =>
                 /\ Cardinality(Holding(v, i)) <= inode[i].linkCount
                 /\ i \in imap /\ ClaimsOf(inode[i]) \subseteq fbm \ Meta
           /\ Root \in Inode
<1>1. d \in Inode /\ i \in Inode \ {Root}
  BY DEF Named
<1>2. inode[d] \in InodeRecord /\ inode[i] \in InodeRecord
  BY <1>1, BeginsWith DEF TypeOK
<1>3. inode[d].directPointer[0] \in Block
  BY <1>2, ConstantTypes DEF InodeRecord
<1>. QED
  BY <1>1, <1>2, <1>3, BeginsWith, VolumeParts, ConstantTypes DEF Named

\* What holds of the volumes once the bit of the slot s of d is cleared, and
\* then the slot.
NameGone(v, D, d, s, i, b, r, k, v1, v2) ==
    /\ PutInode(d, r) \in StoreSet /\ PutBlock(b, k) \in StoreSet
    /\ Safe(v1, harmed, D) /\ Safe(v2, harmed, D) /\ v2 \in VolumeType
    /\ Parts(v2, v.fbm, v.imap, [v.inode EXCEPT ![d] = r], [v.dblock EXCEPT ![b] = k])
    /\ \A j \in Inode \ {Root} : Holding(v2, j) \subseteq Holding(v, j)
    /\ Holding(v2, i) \subseteq Holding(v, i) \ {<<b, s>>}
    /\ \A j \in Inode : Held(v2, j) => Held(v, j)
    /\ \A j \in Inode : ClaimsOf(v2.inode[j]) = ClaimsOf(v.inode[j])

\* These are the first stores of a remove of a directory.
LEMMA NameCleared ==
    ASSUME NEW D, NEW v, Safe(v, harmed, D), NEW d \in Inode, Held(v, d), Ready(v, harmed, d),
           d \in ({Root} \cup harmed) \/ Cardinality(Holding(v, d)) <= v.inode[d].linkCount,
           NEW i \in Inode \ {Root}, NEW s \in Slot, NEW b \in Block,
           NEW r, r = ClearBit(v.inode[d], {s}),
           NEW k, SlotBlank(k, s, v.dblock[b]),
           NEW v1, v1 = Stored(v, PutInode(d, r)), NEW v2, v2 = Stored(v1, PutBlock(b, k))
    PROVE  NameGone(v, D, d, s, i, b, r, k, v1, v2)
<1>1. Rewritten(v, harmed, D, d, r, v1)
  BY BitCleared, Zenon
<1>2. /\ PutInode(d, r) \in StoreSet
      /\ Safe(v1, harmed, D)
      /\ Parts(v1, v.fbm, v.imap, [v.inode EXCEPT ![d] = r], v.dblock)
      /\ \A j \in Inode : Holding(v1, j) = Holding(v, j)
      /\ \A j \in Inode \ {d} : Held(v1, j) => Held(v, j)
      /\ \A j \in Inode : ClaimsOf(v1.inode[j]) = ClaimsOf(v.inode[j])
  BY <1>1, Zenon DEF Rewritten
<1>3. /\ PutBlock(b, k) \in StoreSet
      /\ Safe(v2, harmed, D) /\ v2 \in VolumeType
      /\ Parts(v2, v1.fbm, v1.imap, v1.inode, [v1.dblock EXCEPT ![b] = k])
      /\ \A j \in Inode \ {Root} : Holding(v2, j) \subseteq Holding(v1, j) \ {<<b, s>>}
  <2>1. SlotBlank(k, s, v1.dblock[b])
    <3>1. v1.dblock = v.dblock
      BY <1>2 DEF Parts
    <3>. QED
      BY <3>1
  <2>2. Safe(v1, harmed, D)
    BY <1>2
  <2>. QED
    BY <2>1, <2>2, SlotCleared, ZenonT(60)
<1>4. \A j \in Inode : Held(v2, j) => Held(v1, j)
  BY <1>3 DEF Held, Parts
<1>5. \A j \in Inode : Held(v2, j) => Held(v, j)
  BY <1>2, <1>4
<1>6. Parts(v2, v.fbm, v.imap, [v.inode EXCEPT ![d] = r], [v.dblock EXCEPT ![b] = k])
  BY <1>2, <1>3 DEF Parts
<1>7. \A j \in Inode : ClaimsOf(v2.inode[j]) = ClaimsOf(v.inode[j])
  <2>1. v2.inode = v1.inode
    BY <1>3 DEF Parts
  <2>. QED
    BY <1>2, <2>1
<1>8. \A j \in Inode \ {Root} : Holding(v2, j) \subseteq Holding(v, j)
  BY <1>2, <1>3
<1>9. Holding(v2, i) \subseteq Holding(v, i) \ {<<b, s>>}
  BY <1>2, <1>3
<1>. QED
  BY <1>2, <1>3, <1>5, <1>6, <1>7, <1>8, <1>9 DEF NameGone

\* fs_remove takes the last link to a directory.
LEMMA RemoveDirBegins ==
    ASSUME SafeNow, NEW d, NEW s, NEW i, Named(d, s, i), d \notin harmed, i \notin harmed,
           s \in inode[d].vacantFile, inode[i].fileType = "d", inode[i].vacantFile = {}, inode[i].linkCount <= 1
    PROVE  Begins(harmed, harmed, OpenInodes, RemoveDirStores(d, i, {s}),
                  fbm \ {inode[i].directPointer[0]}, imap \ {i},
                  [inode EXCEPT ![d] = ClearBit(inode[d], {s})],
                  WithoutEntries(d, {s}))
<1>1. PICK D : D = OpenInodes
  OBVIOUS
<1>2. PICK v : v = Volume
  OBVIOUS
<1>3. PICK b : b = inode[d].directPointer[0]
  OBVIOUS
<1>4. PICK r : r = ClearBit(inode[d], {s})
  OBVIOUS
<1>5. PICK k : k = WithoutEntries(d, {s})[b]
  OBVIOUS
<1>6. PICK c : c = inode[i].directPointer[0]
  OBVIOUS
<1>7. PICK t1 : t1 = PutInode(d, r)
  OBVIOUS
<1>8. PICK t2 : t2 = PutBlock(b, k)
  OBVIOUS
<1>9. PICK t3 : t3 = Clear("fbm", c)
  OBVIOUS
<1>10. PICK t4 : t4 = Clear("imap", i)
  OBVIOUS
<1>11. PICK v1 : v1 = Stored(v, t1)
  OBVIOUS
<1>12. PICK v2 : v2 = Stored(v1, t2)
  OBVIOUS
<1>13. PICK v3 : v3 = Stored(v2, t3)
  OBVIOUS
<1>14. PICK v4 : v4 = Stored(v3, t4)
  OBVIOUS
<1>15. /\ Safe(v, harmed, D) /\ v \in VolumeType /\ Parts(v, fbm, imap, inode, dblock)
       /\ d \in Inode /\ i \in Inode \ {Root}
       /\ Held(v, i) /\ <<b, s>> \in Holding(v, i)
       /\ Cardinality(Holding(v, i)) <= inode[i].linkCount
       /\ inode[i] \in InodeRecord
       /\ i \in imap /\ ClaimsOf(inode[i]) \subseteq fbm \ Meta
  BY <1>1, <1>2, <1>3, NamedFacts
<1>16. i # d
  OBVIOUS
<1>17. /\ b \in Block /\ SlotBlank(k, s, v.dblock[b])
       /\ WithoutEntries(d, {s}) = [dblock EXCEPT ![b] = k]
  <2>1. d \in Inode /\ s \in Slot /\ v.dblock = dblock /\ TypeOK
    BY <1>15 DEF Named, Parts, SafeNow
  <2>2. AllButSlot(WithoutEntries(d, {s}), b, s)
    BY <1>3, <2>1, ClearedBlock
  <2>. QED
    BY <1>5, <2>1, <2>2 DEF AllButSlot
<1>18. NameGone(v, D, d, s, i, b, r, k, v1, v2)
  <2>1. v1 = Stored(v, PutInode(d, r)) /\ v2 = Stored(v1, PutBlock(b, k))
    BY <1>7, <1>8, <1>11, <1>12
  <2>2. r = ClearBit(v.inode[d], {s}) /\ v.inode[d] = inode[d]
    BY <1>4, <1>15 DEF Parts
  <2>3. /\ Held(v, d) /\ Ready(v, harmed, d) /\ s \in Slot
        /\ d \in ({Root} \cup harmed) \/ Cardinality(Holding(v, d)) <= v.inode[d].linkCount
    BY <1>2, <2>2, NamedFacts
  <2>. QED
    BY <1>15, <1>17, <2>1, <2>2, <2>3, NameCleared
<1>19. /\ t1 \in StoreSet /\ t2 \in StoreSet
       /\ Safe(v1, harmed, D) /\ Safe(v2, harmed, D) /\ v2 \in VolumeType
       /\ Parts(v2, v.fbm, v.imap, [v.inode EXCEPT ![d] = r], [v.dblock EXCEPT ![b] = k])
       /\ Holding(v2, i) \subseteq Holding(v, i) \ {<<b, s>>}
       /\ \A j \in Inode : Held(v2, j) => Held(v, j)
       /\ \A j \in Inode : ClaimsOf(v2.inode[j]) = ClaimsOf(v.inode[j])
  BY <1>7, <1>8, <1>18 DEF NameGone
<1>20. Parts(v2, fbm, imap, [inode EXCEPT ![d] = r], [dblock EXCEPT ![b] = k])
  BY <1>15, <1>19 DEF Parts
<1>21. ~Held(v2, i)
  <2>1. Cardinality(Holding(v, i)) <= 1
    <3>1. Cardinality(Holding(v, i)) \in Nat /\ inode[i].linkCount \in Nat
      BY <1>15, HoldingFinite DEF InodeRecord
    <3>. QED
      BY <1>15, <3>1
  <2>2. Holding(v, i) = {<<b, s>>}
    BY <1>15, <2>1, HoldingOne
  <2>3. v2.inode[i] = inode[i]
    BY <1>15, <1>16, <1>20 DEF Parts
  <2>. QED
    BY <1>15, <1>19, <2>2, <2>3 DEF Held
<1>22. c \in Block \ Meta /\ ClaimsOf(inode[i]) = {c}
  <2>1. ClaimsOf(inode[i]) = {c}
    BY <1>6 DEF ClaimsOf
  <2>. QED
    BY <1>15, <2>1, BeginsWith DEF TypeOK
<1>23. \A j \in Inode \ harmed : Held(v2, j) => c \notin ClaimsOf(v2.inode[j])
  <2> SUFFICES ASSUME NEW j \in Inode, Held(v2, j)
               PROVE  c \notin ClaimsOf(v2.inode[j])
    OBVIOUS
  <2>1. j # i /\ Held(v, j)
    BY <1>19, <1>21
  <2>2. ClaimsOf(v2.inode[j]) = ClaimsOf(inode[j])
    BY <1>15, <1>19 DEF Parts
  <2>3. ClaimsOf(inode[j]) \cap ClaimsOf(inode[i]) = {}
    BY <1>2, <1>15, <2>1, BeginsWith
  <2>. QED
    BY <1>22, <2>2, <2>3
<1>24. /\ t3 \in StoreSet /\ v3 \in VolumeType
       /\ Parts(v3, fbm \ {c}, imap, [inode EXCEPT ![d] = r], [dblock EXCEPT ![b] = k])
  BY <1>9, <1>13, <1>19, <1>20, <1>22, StoreOfBlockClear DEF Parts
<1>25. Safe(v3, harmed, D)
  BY <1>9, <1>13, <1>19, <1>22, <1>23, ClearBlockSafe
<1>26. ~Held(v3, i)
  BY <1>20, <1>21, <1>24 DEF Held, Holding, Parts
<1>27. i \notin D
  BY <1>1, BeginsWith
<1>28. /\ t4 \in StoreSet /\ v4 \in VolumeType
       /\ Parts(v4, fbm \ {c}, imap \ {i}, [inode EXCEPT ![d] = r], [dblock EXCEPT ![b] = k])
  <2>1. /\ t4 \in StoreSet /\ v4 \in VolumeType
        /\ Parts(v4, v3.fbm, v3.imap \ {i}, v3.inode, v3.dblock)
    BY <1>10, <1>14, <1>15, <1>24, StoreOfInodeBit
  <2>. QED
    BY <1>24, <2>1 DEF Parts
<1>29. Safe(v4, harmed, D)
  BY <1>10, <1>14, <1>15, <1>25, <1>26, <1>27, ClearInodeSafe
<1>30. /\ << t1, t2, t3, t4 >> \in Seq(StoreSet)
       /\ SafeRun(v, harmed, harmed, D, << t1, t2, t3, t4 >>, v4)
  <2>1. /\ t1 \in StoreSet /\ t2 \in StoreSet /\ t3 \in StoreSet /\ t4 \in StoreSet
        /\ Safe(v, harmed, D) /\ Safe(v1, harmed, D) /\ Safe(v2, harmed, D)
        /\ Safe(v3, harmed, D) /\ Safe(v4, harmed, D)
    BY <1>15, <1>19, <1>24, <1>25, <1>28, <1>29
  <2>. QED
    BY <1>11, <1>12, <1>13, <1>14, <2>1, Run4, ZenonT(60)
<1>31. RemoveDirStores(d, i, {s}) = << t1, t2, t3, t4 >>
  BY <1>3, <1>4, <1>5, <1>6, <1>7, <1>8, <1>9, <1>10 DEF RemoveDirStores, WithoutEntriesStore
<1>32. Begins(harmed, harmed, D, << t1, t2, t3, t4 >>, fbm \ {c}, imap \ {i},
              [inode EXCEPT ![d] = r], [dblock EXCEPT ![b] = k])
  BY <1>2, <1>28, <1>30 DEF Begins
<1>. QED
  BY <1>1, <1>4, <1>6, <1>17, <1>31, <1>32

\* fs_remove takes one of several links to a directory, which may be its own
\* parent: the record stored last is then the one read first.
LEMMA RemoveDirLinkBegins ==
    ASSUME SafeNow, NEW d, NEW s, NEW i, Named(d, s, i), d \notin harmed, i \notin harmed,
           inode[i].linkCount > 1
    PROVE  Begins(harmed, harmed, OpenInodes, RemoveDirLinkStores(d, i, {s}), fbm, imap,
                  [inode EXCEPT ![d] = ClearBit(inode[d], {s}), ![i] = Unlinked(i)],
                  WithoutEntries(d, {s}))
<1>1. PICK D : D = OpenInodes
  OBVIOUS
<1>2. PICK v : v = Volume
  OBVIOUS
<1>3. PICK b : b = inode[d].directPointer[0]
  OBVIOUS
<1>4. PICK r : r = ClearBit(inode[d], {s})
  OBVIOUS
<1>5. PICK k : k = WithoutEntries(d, {s})[b]
  OBVIOUS
<1>6. PICK r2 : r2 = Unlinked(i)
  OBVIOUS
<1>7. PICK t1 : t1 = PutInode(d, r)
  OBVIOUS
<1>8. PICK t2 : t2 = PutBlock(b, k)
  OBVIOUS
<1>9. PICK t3 : t3 = PutInode(i, r2)
  OBVIOUS
<1>10. PICK v1 : v1 = Stored(v, t1)
  OBVIOUS
<1>11. PICK v2 : v2 = Stored(v1, t2)
  OBVIOUS
<1>12. PICK v3 : v3 = Stored(v2, t3)
  OBVIOUS
<1>13. /\ Safe(v, harmed, D) /\ v \in VolumeType /\ Parts(v, fbm, imap, inode, dblock)
       /\ d \in Inode /\ i \in Inode \ {Root}
       /\ Held(v, i) /\ <<b, s>> \in Holding(v, i) /\ Ready(v, harmed, i)
       /\ Cardinality(Holding(v, i)) <= inode[i].linkCount
       /\ inode[i] \in InodeRecord
  BY <1>1, <1>2, <1>3, NamedFacts
<1>14. /\ b \in Block /\ SlotBlank(k, s, v.dblock[b])
       /\ WithoutEntries(d, {s}) = [dblock EXCEPT ![b] = k]
  <2>1. d \in Inode /\ s \in Slot /\ v.dblock = dblock /\ TypeOK
    BY <1>13 DEF Named, Parts, SafeNow
  <2>2. AllButSlot(WithoutEntries(d, {s}), b, s)
    BY <1>3, <2>1, ClearedBlock
  <2>. QED
    BY <1>5, <2>1, <2>2 DEF AllButSlot
<1>15. NameGone(v, D, d, s, i, b, r, k, v1, v2)
  <2>1. v1 = Stored(v, PutInode(d, r)) /\ v2 = Stored(v1, PutBlock(b, k))
    BY <1>7, <1>8, <1>10, <1>11
  <2>2. r = ClearBit(v.inode[d], {s}) /\ v.inode[d] = inode[d]
    BY <1>4, <1>13 DEF Parts
  <2>3. /\ Held(v, d) /\ Ready(v, harmed, d) /\ s \in Slot
        /\ d \in ({Root} \cup harmed) \/ Cardinality(Holding(v, d)) <= v.inode[d].linkCount
    BY <1>2, <2>2, NamedFacts
  <2>. QED
    BY <1>13, <1>14, <2>1, <2>2, <2>3, NameCleared
<1>16. /\ t1 \in StoreSet /\ t2 \in StoreSet
       /\ Safe(v1, harmed, D) /\ Safe(v2, harmed, D) /\ v2 \in VolumeType
       /\ Parts(v2, v.fbm, v.imap, [v.inode EXCEPT ![d] = r], [v.dblock EXCEPT ![b] = k])
       /\ Holding(v2, i) \subseteq Holding(v, i) \ {<<b, s>>}
       /\ \A j \in Inode : Held(v2, j) => Held(v, j)
       /\ \A j \in Inode : ClaimsOf(v2.inode[j]) = ClaimsOf(v.inode[j])
  BY <1>7, <1>8, <1>15 DEF NameGone
<1>17. Parts(v2, fbm, imap, [inode EXCEPT ![d] = r], [dblock EXCEPT ![b] = k])
  BY <1>13, <1>16 DEF Parts
<1>18. Ready(v2, harmed, i)
  <2>1. v2.fbm = v.fbm /\ v2.imap = v.imap
    BY <1>16 DEF Parts
  <2>. QED
    BY <1>13, <1>16, <2>1 DEF Ready
<1>19. PICK n : n = inode[i].linkCount - 1
  OBVIOUS
<1>20. n \in Nat /\ Cardinality(Holding(v2, i)) <= n
  <2>1. inode[i].linkCount \in Nat
    BY <1>13 DEF InodeRecord
  <2>2. /\ Cardinality(Holding(v2, i)) \in Nat
        /\ Cardinality(Holding(v2, i)) <= Cardinality(Holding(v, i)) - 1
        /\ Cardinality(Holding(v, i)) \in Nat
    BY <1>13, <1>16, HoldingLess
  <2>. QED
    BY <1>13, <1>19, <2>1, <2>2
<1>21. v2.inode[i].fileType = inode[i].fileType
       /\ v2.inode[i].directPointer = inode[i].directPointer
  <2>1. r.fileType = inode[d].fileType /\ r.directPointer = inode[d].directPointer
    BY <1>2, <1>4, NamedFacts DEF ClearBit, InodeRecord
  <2>. QED
    BY <1>13, <1>17, <2>1, BeginsWith DEF Parts, TypeOK
<1>22. Rewritten(v2, harmed, D, i, r2, v3)
  <2>1. r2 = [inode[i] EXCEPT !.linkCount = n]
    BY <1>6, <1>19 DEF Unlinked
  <2>2. v3 = Stored(v2, PutInode(i, r2))
    BY <1>9, <1>12
  <2>. QED
    BY <1>13, <1>16, <1>18, <1>20, <1>21, <2>1, <2>2, CountStored
<1>23. /\ t3 \in StoreSet /\ Safe(v3, harmed, D)
       /\ Parts(v3, fbm, imap, [inode EXCEPT ![d] = r, ![i] = r2], [dblock EXCEPT ![b] = k])
  <2>1. /\ PutInode(i, r2) \in StoreSet /\ Safe(v3, harmed, D)
        /\ Parts(v3, v2.fbm, v2.imap, [v2.inode EXCEPT ![i] = r2], v2.dblock)
    BY <1>22 DEF Rewritten
  <2>. QED
    BY <1>9, <1>17, <2>1 DEF Parts
<1>24. /\ << t1, t2, t3 >> \in Seq(StoreSet)
       /\ SafeRun(v, harmed, harmed, D, << t1, t2, t3 >>, v3)
  <2>1. /\ t1 \in StoreSet /\ t2 \in StoreSet /\ t3 \in StoreSet
        /\ Safe(v, harmed, D) /\ Safe(v1, harmed, D) /\ Safe(v2, harmed, D) /\ Safe(v3, harmed, D)
    BY <1>13, <1>16, <1>23
  <2>. QED
    BY <1>10, <1>11, <1>12, <2>1, Run3, Zenon
<1>25. RemoveDirLinkStores(d, i, {s}) = << t1, t2, t3 >>
  BY <1>3, <1>4, <1>5, <1>6, <1>7, <1>8, <1>9 DEF RemoveDirLinkStores, WithoutEntriesStore
<1>26. Begins(harmed, harmed, D, << t1, t2, t3 >>, fbm, imap,
              [inode EXCEPT ![d] = r, ![i] = r2], [dblock EXCEPT ![b] = k])
  BY <1>2, <1>23, <1>24 DEF Begins
<1>. QED
  BY <1>1, <1>4, <1>6, <1>14, <1>25, <1>26

\* What holds of the volumes once the slot s of d lost the file i, and then its
\* bit.
FileNameGone(v, D, d, s, i, b, r, k, v1, v2) ==
    /\ PutBlock(b, k) \in StoreSet /\ PutInode(d, r) \in StoreSet
    /\ Safe(v1, harmed \cup {i}, D) /\ Safe(v2, harmed \cup {i}, D) /\ v2 \in VolumeType
    /\ Parts(v2, v.fbm, v.imap, [v.inode EXCEPT ![d] = r], [v.dblock EXCEPT ![b] = k])
    /\ Holding(v2, i) \subseteq Holding(v, i) \ {<<b, s>>}

\* These are the last stores of a remove of a file, which is at risk.
LEMMA FileNameCleared ==
    ASSUME NEW i \in Inode \ {Root}, NEW D, NEW v, Safe(v, harmed \cup {i}, D),
           NEW d \in Inode, Held(v, d),
           d \in {Root, i} \/ Cardinality(Holding(v, d)) <= v.inode[d].linkCount,
           NEW s \in Slot, NEW b \in Block, NEW k, SlotBlank(k, s, v.dblock[b]),
           NEW r, r = ClearBit(v.inode[d], {s}),
           NEW v1, v1 = Stored(v, PutBlock(b, k)), NEW v2, v2 = Stored(v1, PutInode(d, r))
    PROVE  FileNameGone(v, D, d, s, i, b, r, k, v1, v2)
<1>1. /\ PutBlock(b, k) \in StoreSet
      /\ Safe(v1, harmed \cup {i}, D)
      /\ Parts(v1, v.fbm, v.imap, v.inode, [v.dblock EXCEPT ![b] = k])
      /\ \A j \in Inode \ {Root} : Holding(v1, j) \subseteq Holding(v, j) \ {<<b, s>>}
  BY SlotCleared, Zenon
<1>2. Ready(v1, harmed \cup {i}, d)
  <2>1. Ready(v, harmed \cup {i}, d)
    BY HeldReady
  <2>2. v1.fbm = v.fbm /\ v1.imap = v.imap /\ v1.inode = v.inode
    BY <1>1 DEF Parts
  <2>3. \A j \in Inode : Held(v1, j) => Held(v, j)
    BY <1>1, <2>2 DEF Held
  <2>. QED
    BY <2>1, <2>2, <2>3 DEF Ready
<1>3. d \in {Root, i} \/ Cardinality(Holding(v1, d)) <= v1.inode[d].linkCount
  <2>1. CASE d \in {Root, i}
    BY <2>1
  <2>2. CASE d \notin {Root, i}
    <3>1. v1.inode[d].linkCount = v.inode[d].linkCount
      BY <1>1 DEF Parts
    <3>2. v.inode[d].linkCount \in Nat
      BY DEF Safe, VolumeType, InodeRecord
    <3>3. Holding(v1, d) \subseteq Holding(v, d)
      BY <1>1, <2>2
    <3>4. /\ Cardinality(Holding(v1, d)) <= Cardinality(Holding(v, d))
          /\ Cardinality(Holding(v1, d)) \in Nat /\ Cardinality(Holding(v, d)) \in Nat
      BY <3>3, HoldingFewer
    <3>. QED
      BY <2>2, <3>1, <3>2, <3>4
  <2>. QED
    BY <2>1, <2>2
<1>4. Rewritten(v1, harmed \cup {i}, D, d, r, v2)
  <2>1. r = ClearBit(v1.inode[d], {s})
    BY <1>1 DEF Parts
  <2>. QED
    BY <1>1, <1>2, <1>3, <2>1, BitCleared
<1>5. /\ PutInode(d, r) \in StoreSet
      /\ Safe(v2, harmed \cup {i}, D) /\ v2 \in VolumeType
      /\ Parts(v2, v1.fbm, v1.imap, [v1.inode EXCEPT ![d] = r], v1.dblock)
      /\ Holding(v2, i) = Holding(v1, i)
  BY <1>4 DEF Rewritten
<1>6. Parts(v2, v.fbm, v.imap, [v.inode EXCEPT ![d] = r], [v.dblock EXCEPT ![b] = k])
  BY <1>1, <1>5 DEF Parts
<1>7. Holding(v2, i) \subseteq Holding(v, i) \ {<<b, s>>}
  BY <1>1, <1>5
<1>. QED
  BY <1>1, <1>5, <1>6, <1>7 DEF FileNameGone

\* fs_remove takes one of several links to a file, and counts that first.
LEMMA RemoveFileLinkBegins ==
    ASSUME SafeNow, NEW d, NEW s, NEW i, Named(d, s, i), d \notin harmed, i \notin harmed,
           inode[i].linkCount > 1, i # d
    PROVE  Begins(harmed \cup {i}, harmed, OpenInodes, RemoveFileLinkStores(d, i, {s}), fbm, imap,
                  [inode EXCEPT ![i] = Unlinked(i), ![d] = ClearBit(inode[d], {s})],
                  WithoutInodes(d, {s}))
<1>1. PICK D : D = OpenInodes
  OBVIOUS
<1>2. PICK v : v = Volume
  OBVIOUS
<1>3. PICK b : b = inode[d].directPointer[0]
  OBVIOUS
<1>4. PICK r : r = ClearBit(inode[d], {s})
  OBVIOUS
<1>5. PICK k : k = WithoutInodes(d, {s})[b]
  OBVIOUS
<1>6. PICK r2 : r2 = Unlinked(i)
  OBVIOUS
<1>7. PICK t1 : t1 = PutInode(i, r2)
  OBVIOUS
<1>8. PICK t2 : t2 = PutBlock(b, k)
  OBVIOUS
<1>9. PICK t3 : t3 = PutInode(d, r)
  OBVIOUS
<1>10. PICK v1 : v1 = Stored(v, t1)
  OBVIOUS
<1>11. PICK v2 : v2 = Stored(v1, t2)
  OBVIOUS
<1>12. PICK v3 : v3 = Stored(v2, t3)
  OBVIOUS
<1>13. /\ Safe(v, harmed, D) /\ v \in VolumeType /\ Parts(v, fbm, imap, inode, dblock)
       /\ d \in Inode /\ i \in Inode \ {Root} /\ s \in Slot
       /\ Held(v, d) /\ Held(v, i) /\ <<b, s>> \in Holding(v, i) /\ Ready(v, harmed, i)
       /\ d = Root \/ Cardinality(Holding(v, d)) <= inode[d].linkCount
       /\ Cardinality(Holding(v, i)) <= inode[i].linkCount
       /\ inode[i] \in InodeRecord
       /\ i \in imap /\ ClaimsOf(inode[i]) \subseteq fbm \ Meta
  BY <1>1, <1>2, <1>3, NamedFacts
<1>14. /\ b \in Block /\ SlotBlank(k, s, v.dblock[b])
       /\ WithoutInodes(d, {s}) = [dblock EXCEPT ![b] = k]
  <2>1. v.dblock = dblock /\ TypeOK
    BY <1>13 DEF Parts, SafeNow
  <2>2. AllButSlot(WithoutInodes(d, {s}), b, s)
    BY <1>3, <1>13, <2>1, ClearedBlock
  <2>. QED
    BY <1>5, <2>1, <2>2 DEF AllButSlot
<1>15. Safe(v, harmed \cup {i}, D) /\ Ready(v, harmed \cup {i}, i)
  <2>1. Safe(v, harmed \cup {i}, D)
    BY <1>13, SafeRisk
  <2>. QED
    BY <1>13, <2>1, HeldReady
<1>16. PICK n : n = inode[i].linkCount - 1
  OBVIOUS
<1>17. n \in Nat
  BY <1>13, <1>16 DEF InodeRecord
<1>18. Rewritten(v, harmed \cup {i}, D, i, r2, v1)
  <2>1. r2 = [inode[i] EXCEPT !.linkCount = n]
    BY <1>6, <1>16 DEF Unlinked
  <2>2. v1 = Stored(v, PutInode(i, r2))
    BY <1>7, <1>10
  <2>3. v.inode[i] = inode[i]
    BY <1>13 DEF Parts
  <2>. QED
    BY <1>13, <1>15, <1>17, <2>1, <2>2, <2>3, CountStored
<1>19. /\ t1 \in StoreSet /\ Safe(v1, harmed \cup {i}, D) /\ v1 \in VolumeType
       /\ Parts(v1, fbm, imap, [inode EXCEPT ![i] = r2], dblock)
       /\ \A j \in Inode : Holding(v1, j) = Holding(v, j)
       /\ \A j \in Inode : ClaimsOf(v1.inode[j]) = ClaimsOf(v.inode[j])
  <2>1. /\ PutInode(i, r2) \in StoreSet /\ Safe(v1, harmed \cup {i}, D) /\ v1 \in VolumeType
        /\ Parts(v1, v.fbm, v.imap, [v.inode EXCEPT ![i] = r2], v.dblock)
        /\ \A j \in Inode : Holding(v1, j) = Holding(v, j)
        /\ \A j \in Inode : ClaimsOf(v1.inode[j]) = ClaimsOf(v.inode[j])
    BY <1>18, Zenon DEF Rewritten
  <2>. QED
    BY <1>7, <1>13, <2>1 DEF Parts
<1>20. v1.inode[d] = inode[d] /\ v1.inode[i] = r2 /\ v1.dblock = v.dblock
  BY <1>13, <1>19, BeginsWith DEF Parts, TypeOK
<1>21. FileNameGone(v1, D, d, s, i, b, r, k, v2, v3)
  <2>1. Held(v1, d)
    BY <1>13, <1>19, <1>20 DEF Held, Parts
  <2>2. d \in {Root, i} \/ Cardinality(Holding(v1, d)) <= v1.inode[d].linkCount
    BY <1>13, <1>19, <1>20
  <2>3. SlotBlank(k, s, v1.dblock[b]) /\ r = ClearBit(v1.inode[d], {s})
    BY <1>4, <1>14, <1>20
  <2>4. v2 = Stored(v1, PutBlock(b, k)) /\ v3 = Stored(v2, PutInode(d, r))
    BY <1>8, <1>9, <1>11, <1>12
  <2>. QED
    BY <1>13, <1>14, <1>19, <2>1, <2>2, <2>3, <2>4, FileNameCleared
<1>22. /\ t2 \in StoreSet /\ t3 \in StoreSet
       /\ Safe(v2, harmed \cup {i}, D) /\ Safe(v3, harmed \cup {i}, D) /\ v3 \in VolumeType
       /\ Parts(v3, v1.fbm, v1.imap, [v1.inode EXCEPT ![d] = r], [v1.dblock EXCEPT ![b] = k])
       /\ Holding(v3, i) \subseteq Holding(v1, i) \ {<<b, s>>}
  BY <1>8, <1>9, <1>21 DEF FileNameGone
<1>23. Parts(v3, fbm, imap, [inode EXCEPT ![i] = r2, ![d] = r], [dblock EXCEPT ![b] = k])
  BY <1>19, <1>22 DEF Parts
<1>24. v3.inode[i] = r2
  BY <1>20, <1>22 DEF Parts
<1>25. Safe(v3, harmed, D)
  <2>1. r2.linkCount = n
    BY <1>6, <1>13, <1>16 DEF Unlinked, InodeRecord
  <2>2. Cardinality(Holding(v3, i)) <= v3.inode[i].linkCount
    <3>1. Holding(v3, i) \subseteq Holding(v, i) \ {<<b, s>>}
      BY <1>13, <1>19, <1>22
    <3>2. /\ Cardinality(Holding(v3, i)) \in Nat
          /\ Cardinality(Holding(v3, i)) <= Cardinality(Holding(v, i)) - 1
          /\ Cardinality(Holding(v, i)) \in Nat
      BY <1>13, <3>1, HoldingLess
    <3>3. inode[i].linkCount \in Nat
      BY <1>13 DEF InodeRecord
    <3>. QED
      BY <1>13, <1>16, <1>24, <2>1, <3>2, <3>3
  <2>3. i \in v3.imap /\ ClaimsOf(v3.inode[i]) \subseteq v3.fbm \ Meta
    <3>1. ClaimsOf(v3.inode[i]) = ClaimsOf(inode[i])
      <4>1. v1.inode[i] = v3.inode[i] /\ v.inode[i] = inode[i]
        BY <1>13, <1>20, <1>24 DEF Parts
      <4>. QED
        BY <1>13, <1>19, <4>1
    <3>2. v3.fbm = fbm /\ v3.imap = imap
      BY <1>23 DEF Parts
    <3>. QED
      BY <1>13, <3>1, <3>2
  <2>4. i \in D => i \in v3.imap /\ v3.inode[i].fileType # "d"
    <3>1. v.inode[i].fileType = v3.inode[i].fileType
      BY <1>6, <1>13, <1>24 DEF Parts, Unlinked, InodeRecord
    <3>. QED
      BY <1>13, <2>3, <3>1 DEF Safe, OpenSafe
  <2>. QED
    BY <1>13, <1>22, <2>2, <2>3, <2>4, SafeRisk
<1>26. /\ << t1, t2, t3 >> \in Seq(StoreSet)
       /\ SafeRun(v, harmed \cup {i}, harmed, D, << t1, t2, t3 >>, v3)
  <2>1. /\ t1 \in StoreSet /\ t2 \in StoreSet /\ t3 \in StoreSet
        /\ Safe(v, harmed \cup {i}, D) /\ Safe(v1, harmed \cup {i}, D) /\ Safe(v2, harmed \cup {i}, D) /\ Safe(v3, harmed, D)
    BY <1>15, <1>19, <1>22, <1>25
  <2>. QED
    BY <1>10, <1>11, <1>12, <2>1, Run3, Zenon
<1>27. RemoveFileLinkStores(d, i, {s}) = << t1, t2, t3 >>
  BY <1>3, <1>4, <1>5, <1>6, <1>7, <1>8, <1>9 DEF RemoveFileLinkStores, WithoutInodesStore
<1>28. Begins(harmed \cup {i}, harmed, D, << t1, t2, t3 >>, fbm, imap,
              [inode EXCEPT ![i] = r2, ![d] = r], [dblock EXCEPT ![b] = k])
  BY <1>2, <1>23, <1>26 DEF Begins
<1>. QED
  BY <1>1, <1>4, <1>6, <1>14, <1>27, <1>28

\* The blocks of the file i are released, one by one, and then the stores q are
\* made.  The file is at risk meanwhile, if it has any block.
LEMMA ReleaseBegins ==
    ASSUME SafeNow, NEW i \in Inode, i # Root, Held(Volume, i), inode[i].fileType = "r",
           NEW A, i \in A \/ HeldBlocks(i) = {}, i \notin harmed \/ HeldBlocks(i) = {},
           NEW C, NEW D, Safe(Volume, A, D),
           NEW q \in Seq(StoreSet), NEW u \in VolumeType, NEW w,
           Parts(u, fbm \ HeldBlocks(i), imap, inode, dblock),
           Safe(u, A, D) => SafeRun(u, A, C, D, q, w)
    PROVE  /\ ReleaseStores(i) \in Seq(StoreSet)
           /\ Len(ReleaseStores(i)) = DirectBlocks
           /\ Safe(u, A, D)
           /\ SafeRun(Volume, A, C, D, ReleaseStores(i) \o q, w)
<1>1. PICK v : v = Volume
  OBVIOUS
<1>2. /\ Safe(v, A, D) /\ v \in VolumeType /\ Parts(v, fbm, imap, inode, dblock)
      /\ i \notin harmed => ClaimsOf(inode[i]) \subseteq fbm \ Meta
      /\ inode[i] \in InodeRecord /\ fbm \subseteq Block
  BY <1>1, BeginsWith, VolumeParts DEF TypeOK
<1>3. PICK X : X = HeldBlocks(i)
  OBVIOUS
<1>4. X \subseteq ClaimsOf(inode[i]) /\ X \subseteq Block \ Meta
  <2>1. X \subseteq ClaimsOf(inode[i])
    BY <1>3 DEF HeldBlocks, ClaimsOf
  <2>. QED
    BY <1>2, <1>3, <2>1
<1>5. ASSUME NEW j \in Inode \ A, Held(v, j)
      PROVE  ClaimsOf(v.inode[j]) \cap X = {}
  <2>1. CASE X = {}
    BY <2>1
  <2>2. CASE X # {}
    <3>1. j # i
      BY <1>3, <1>5, <2>2
    <3>2. ClaimsOf(inode[j]) \cap ClaimsOf(inode[i]) = {}
      BY <1>1, <1>5, <3>1, BeginsWith
    <3>. QED
      BY <1>2, <1>4, <3>2 DEF Parts
  <2>. QED
    BY <2>1, <2>2
<1>6. PICK x : x = [m \in 1 .. DirectBlocks |->
                      IF inode[i].directPointer[m - 1] \in X
                      THEN inode[i].directPointer[m - 1] ELSE None]
  OBVIOUS
<1>7. Given(x, DirectBlocks) \subseteq (Block \ Meta) \cup {None}
  BY <1>2, <1>4, <1>6 DEF Given
<1>8. \A y \in Given(x, DirectBlocks) : \A j \in Inode \ A :
         Held(v, j) => y \notin ClaimsOf(v.inode[j])
  <2> SUFFICES ASSUME NEW y \in Given(x, DirectBlocks), NEW j \in Inode \ A, Held(v, j)
               PROVE  y \notin ClaimsOf(v.inode[j])
    OBVIOUS
  <2>1. CASE y \in X
    BY <1>5, <2>1
  <2>2. CASE y \notin X
    <3>1. y = None
      BY <1>6, <2>2 DEF Given
    <3>2. ClaimsOf(v.inode[j]) \subseteq Block
      <4>1. ClaimsOf(v.inode[j]) \subseteq fbm /\ fbm \subseteq Block
        BY <1>2 DEF Safe, ClaimsMarked, Parts
      <4>. QED
        BY <4>1
    <3>3. None \notin Block
      BY DEF None, Block
    <3>. QED
      BY <3>1, <3>2, <3>3
  <2>. QED
    BY <2>1, <2>2
<1>9. fbm \ X = fbm \ {x[m] : m \in 1 .. DirectBlocks}
  <2>1. ASSUME NEW y \in X
        PROVE  y \in {x[m] : m \in 1 .. DirectBlocks}
    <3>1. PICK o \in Order : y = inode[i].directPointer[o]
      BY <1>3, <2>1 DEF HeldBlocks
    <3>2. o + 1 \in 1 .. DirectBlocks /\ (o + 1) - 1 = o
      BY DEF Order
    <3>3. x[o + 1] = y
      BY <1>6, <2>1, <3>1, <3>2
    <3>. QED
      BY <3>2, <3>3
  <2>2. ASSUME NEW m \in 1 .. DirectBlocks
        PROVE  x[m] \in X \/ x[m] \notin fbm
    <3>1. None \notin fbm
      BY BeginsWith DEF TypeOK, None, Block
    <3>. QED
      BY <1>6, <3>1
  <2>. QED
    BY <2>1, <2>2
<1>10. Parts(u, v.fbm \ Given(x, DirectBlocks), v.imap, v.inode, v.dblock)
  BY <1>2, <1>3, <1>9 DEF Parts, Given
<1>11. ReleaseStores(i) = Clears(x, DirectBlocks)
  BY <1>3, <1>6 DEF ReleaseStores, Clears
<1>12. DirectBlocks \in Nat
  OBVIOUS
<1>13. Safe(u, A, D)
  <2>1. Parts(u, v.fbm \ X, v.imap, v.inode, v.dblock)
    BY <1>2, <1>3 DEF Parts
  <2>2. X \cap Meta = {}
    BY <1>4
  <2>3. \A y \in X : \A j \in Inode \ A : Held(v, j) => y \notin ClaimsOf(v.inode[j])
    BY <1>5
  <2>. QED
    BY <1>2, <2>1, <2>2, <2>3, ReleasedSafe
<1>14. /\ Clears(x, DirectBlocks) \in Seq(StoreSet)
       /\ SafeRun(v, A, C, D, Clears(x, DirectBlocks) \o q, w)
  <2>1. Safe(v, A, D) /\ SafeRun(u, A, C, D, q, w)
    BY <1>2, <1>13
  <2>. QED
    BY <1>7, <1>8, <1>10, <1>12, <2>1, RunRelease
<1>15. Len(Clears(x, DirectBlocks)) = DirectBlocks
  BY <1>12 DEF Clears
<1>. QED
  BY <1>1, <1>11, <1>13, <1>14, <1>15

\* The last stores of a remove of the file i, after which its volume is v3.
FileEnd(d, s, i, u, b, r, k, t1, t2, t3, v1, v2, v3) ==
    /\ b = inode[d].directPointer[0] /\ r = ClearBit(inode[d], {s})
    /\ k = WithoutInodes(d, {s})[b]
    /\ t1 = Clear("imap", i) /\ t2 = PutBlock(b, k) /\ t3 = PutInode(d, r)
    /\ v1 = Stored(u, t1) /\ v2 = Stored(v1, t2) /\ v3 = Stored(v2, t3)

\* What holds then.
FileGone(d, s, i, D, F, b, r, k, t1, t2, t3, v1, v2, v3) ==
    /\ t1 \in StoreSet /\ t2 \in StoreSet /\ t3 \in StoreSet
    /\ Safe(v1, harmed \cup {i}, D) /\ Safe(v2, harmed \cup {i}, D) /\ Safe(v3, harmed, D)
    /\ WithoutInodes(d, {s}) = [dblock EXCEPT ![b] = k]
    /\ Parts(v3, F, imap \ {i}, [inode EXCEPT ![d] = r], [dblock EXCEPT ![b] = k])

\* The last stores of a remove of a file, once its blocks are released: its
\* inode is cleared, and then its name.
LEMMA RemoveFileTail ==
    ASSUME SafeNow, NEW d, NEW s, NEW i, Named(d, s, i), i # d,
           d \notin harmed, i \notin harmed,
           inode[i].fileType = "r", inode[i].linkCount <= 1,
           NEW D, i \notin D, NEW u \in VolumeType, NEW F, Parts(u, F, imap, inode, dblock),
           Safe(u, harmed \cup {i}, D),
           NEW b, NEW r, NEW k, NEW t1, NEW t2, NEW t3, NEW v1, NEW v2, NEW v3,
           FileEnd(d, s, i, u, b, r, k, t1, t2, t3, v1, v2, v3)
    PROVE  FileGone(d, s, i, D, F, b, r, k, t1, t2, t3, v1, v2, v3)
<1>0. /\ b = inode[d].directPointer[0] /\ r = ClearBit(inode[d], {s})
      /\ k = WithoutInodes(d, {s})[b]
      /\ t1 = Clear("imap", i) /\ t2 = PutBlock(b, k) /\ t3 = PutInode(d, r)
      /\ v1 = Stored(u, t1) /\ v2 = Stored(v1, t2) /\ v3 = Stored(v2, t3)
  BY DEF FileEnd
<1>1. PICK v : v = Volume
  OBVIOUS
<1>2. /\ Safe(v, harmed, OpenInodes) /\ Parts(v, fbm, imap, inode, dblock)
      /\ d \in Inode /\ i \in Inode \ {Root} /\ s \in Slot
      /\ Held(v, d) /\ <<b, s>> \in Holding(v, i)
      /\ d = Root \/ Cardinality(Holding(v, d)) <= inode[d].linkCount
      /\ Cardinality(Holding(v, i)) <= inode[i].linkCount
      /\ inode[i] \in InodeRecord
  BY <1>0, <1>1, NamedFacts
<1>3. /\ b \in Block /\ SlotBlank(k, s, dblock[b])
      /\ WithoutInodes(d, {s}) = [dblock EXCEPT ![b] = k]
  <2>1. TypeOK
    BY DEF SafeNow
  <2>2. AllButSlot(WithoutInodes(d, {s}), b, s)
    BY <1>0, <1>2, <2>1, ClearedBlock
  <2>. QED
    BY <1>0, <2>2 DEF AllButSlot
<1>4. /\ t1 \in StoreSet /\ v1 \in VolumeType
      /\ Parts(v1, F, imap \ {i}, inode, dblock)
  BY <1>0, <1>2, StoreOfInodeBit DEF Parts
<1>5. Safe(v1, harmed \cup {i}, D)
  BY <1>0, <1>2, ClearInodeSafe
<1>6. \A j : Holding(v1, j) = Holding(v, j) /\ (Held(v1, j) <=> Held(v, j))
  <2>1. v1.dblock = v.dblock /\ v1.inode = v.inode
    BY <1>2, <1>4 DEF Parts
  <2>. QED
    BY <2>1 DEF Holding, Held
<1>7. FileNameGone(v1, D, d, s, i, b, r, k, v2, v3)
  <2>1. Held(v1, d)
    BY <1>2, <1>6
  <2>2. v1.inode[d] = inode[d] /\ v1.dblock[b] = dblock[b]
    BY <1>4 DEF Parts
  <2>3. d \in {Root, i} \/ Cardinality(Holding(v1, d)) <= v1.inode[d].linkCount
    BY <1>2, <1>6, <2>2
  <2>4. SlotBlank(k, s, v1.dblock[b]) /\ r = ClearBit(v1.inode[d], {s})
    BY <1>0, <1>3, <2>2
  <2>5. v2 = Stored(v1, PutBlock(b, k)) /\ v3 = Stored(v2, PutInode(d, r))
    BY <1>0
  <2>. QED
    BY <1>2, <1>3, <1>5, <2>1, <2>3, <2>4, <2>5, FileNameCleared
<1>8. /\ t2 \in StoreSet /\ t3 \in StoreSet
      /\ Safe(v2, harmed \cup {i}, D) /\ Safe(v3, harmed \cup {i}, D) /\ v3 \in VolumeType
      /\ Parts(v3, v1.fbm, v1.imap, [v1.inode EXCEPT ![d] = r], [v1.dblock EXCEPT ![b] = k])
      /\ Holding(v3, i) \subseteq Holding(v1, i) \ {<<b, s>>}
  BY <1>0, <1>7 DEF FileNameGone
<1>9. Parts(v3, F, imap \ {i}, [inode EXCEPT ![d] = r], [dblock EXCEPT ![b] = k])
  BY <1>4, <1>8 DEF Parts
<1>10. Holding(v3, i) = {} /\ Cardinality(Holding(v3, i)) = 0
  <2>1. Cardinality(Holding(v, i)) <= 1
    <3>1. Cardinality(Holding(v, i)) \in Nat /\ inode[i].linkCount \in Nat
      BY <1>2, HoldingFinite DEF InodeRecord
    <3>. QED
      BY <1>2, <3>1
  <2>2. Holding(v, i) = {<<b, s>>}
    BY <1>2, <2>1, HoldingOne
  <2>3. Holding(v3, i) = {}
    BY <1>6, <1>8, <2>2
  <2>. QED
    BY <2>3, FS_EmptySet
<1>11. v3.inode[i] = inode[i]
  BY <1>2, <1>9, BeginsWith DEF Parts, TypeOK
<1>12. ~Held(v3, i)
  BY <1>2, <1>10, <1>11 DEF Held
<1>13. Cardinality(Holding(v3, i)) <= v3.inode[i].linkCount
  <2>1. inode[i].linkCount \in Nat
    BY <1>2 DEF InodeRecord
  <2>. QED
    BY <1>10, <1>11, <2>1
<1>14. Safe(v3, harmed, D)
  BY <1>2, <1>8, <1>12, <1>13, SafeRisk
<1>. QED
  BY <1>3, <1>4, <1>5, <1>8, <1>9, <1>14 DEF FileGone

\* A list of stores that another one ends is a list of stores, and not empty.
LEMMA NotEmptied ==
    ASSUME NEW S, NEW z \in Seq(S), NEW q \in Seq(S), q # <<>>
    PROVE  z \o q \in Seq(S) /\ z \o q # <<>>
<1>1. Len(q) \in Nat /\ Len(q) # 0 /\ Len(z) \in Nat
  OBVIOUS
<1>2. z \o q \in Seq(S) /\ Len(z \o q) = Len(z) + Len(q)
  OBVIOUS
<1>3. Len(z \o q) # 0
  BY <1>1, <1>2
<1>. QED
  BY <1>2, <1>3

\* fs_remove takes the last link to a file, and no descriptor is open.
LEMMA RemoveFileBegins ==
    ASSUME SafeNow, NEW d, NEW s, NEW i, Named(d, s, i), i # d,
           d \notin harmed, i \notin harmed,
           inode[i].fileType = "r", inode[i].linkCount <= 1, NoFdOpen
    PROVE  Begins(harmed \cup {i}, harmed, OpenInodes, RemoveFileStores(d, i, {s}),
                  fbm \ HeldBlocks(i), imap \ {i},
                  [inode EXCEPT ![d] = ClearBit(inode[d], {s})],
                  WithoutInodes(d, {s}))
<1>1. PICK D : D = OpenInodes
  OBVIOUS
<1>2. PICK F : F = fbm \ HeldBlocks(i)
  OBVIOUS
<1>3. PICK u : u = Vol(F, imap, inode, dblock)
  OBVIOUS
<1>4. PICK b : b = inode[d].directPointer[0]
  OBVIOUS
<1>5. PICK r : r = ClearBit(inode[d], {s})
  OBVIOUS
<1>6. PICK k : k = WithoutInodes(d, {s})[b]
  OBVIOUS
<1>7. PICK t1 : t1 = Clear("imap", i)
  OBVIOUS
<1>8. PICK t2 : t2 = PutBlock(b, k)
  OBVIOUS
<1>9. PICK t3 : t3 = PutInode(d, r)
  OBVIOUS
<1>10. PICK v1 : v1 = Stored(u, t1)
  OBVIOUS
<1>11. PICK v2 : v2 = Stored(v1, t2)
  OBVIOUS
<1>12. PICK v3 : v3 = Stored(v2, t3)
  OBVIOUS
<1>13. PICK q : q = << t1, t2, t3 >>
  OBVIOUS
<1>14. i \in Inode \ {Root} /\ Held(Volume, i) /\ Safe(Volume, harmed \cup {i}, D)
  <2>1. Safe(Volume, harmed, D)
    BY <1>1, BeginsWith
  <2>. QED
    BY <2>1, SafeRisk DEF Named
<1>15. i \notin D
  BY <1>1 DEF NoFdOpen, OpenInodes
<1>16. u \in VolumeType /\ Parts(u, F, imap, inode, dblock)
  BY <1>2, <1>3, BeginsWith DEF Vol, VolumeType, Parts, TypeOK
<1>17. FileEnd(d, s, i, u, b, r, k, t1, t2, t3, v1, v2, v3)
  BY <1>4, <1>5, <1>6, <1>7, <1>8, <1>9, <1>10, <1>11, <1>12 DEF FileEnd
<1>18. ASSUME Safe(u, harmed \cup {i}, D)
       PROVE  FileGone(d, s, i, D, F, b, r, k, t1, t2, t3, v1, v2, v3)
  BY <1>15, <1>16, <1>17, <1>18, RemoveFileTail, Zenon
<1>19. ASSUME Safe(u, harmed \cup {i}, D)
       PROVE  /\ t1 \in StoreSet /\ t2 \in StoreSet /\ t3 \in StoreSet
              /\ Safe(v1, harmed \cup {i}, D) /\ Safe(v2, harmed \cup {i}, D) /\ Safe(v3, harmed, D)
              /\ WithoutInodes(d, {s}) = [dblock EXCEPT ![b] = k]
              /\ Parts(v3, F, imap \ {i}, [inode EXCEPT ![d] = r], [dblock EXCEPT ![b] = k])
  BY <1>19, <1>18 DEF FileGone
<1>20. ASSUME Safe(u, harmed \cup {i}, D)
       PROVE  /\ << t1, t2, t3 >> \in Seq(StoreSet)
              /\ SafeRun(u, harmed \cup {i}, harmed, D, << t1, t2, t3 >>, v3)
  BY <1>10, <1>11, <1>12, <1>19, <1>20, Run3, Zenon
<1>21. t1 \in StoreSet /\ t2 \in StoreSet /\ t3 \in StoreSet
  <2>1. <<>> \in Seq(StoreSet)
    OBVIOUS
  <2>2. Safe(u, harmed \cup {i}, D) => SafeRun(u, harmed \cup {i}, harmed \cup {i}, D, <<>>, u)
    BY RunEmpty
  <2>3. Parts(u, fbm \ HeldBlocks(i), imap, inode, dblock)
    BY <1>2, <1>16
  <2>4. Safe(u, harmed \cup {i}, D)
    BY <1>14, <1>16, <2>1, <2>2, <2>3, ReleaseBegins
  <2>. QED
    BY <1>19, <2>4
<1>22. /\ ReleaseStores(i) \in Seq(StoreSet)
       /\ Safe(u, harmed \cup {i}, D)
       /\ SafeRun(Volume, harmed \cup {i}, harmed, D, ReleaseStores(i) \o q, v3)
       /\ q \in Seq(StoreSet)
  <2>1. q \in Seq(StoreSet)
    BY <1>13, <1>21
  <2>2. Parts(u, fbm \ HeldBlocks(i), imap, inode, dblock)
    BY <1>2, <1>16
  <2>3. Safe(u, harmed \cup {i}, D) => SafeRun(u, harmed \cup {i}, harmed, D, q, v3)
    BY <1>13, <1>20
  <2>4. /\ ReleaseStores(i) \in Seq(StoreSet)
        /\ Safe(u, harmed \cup {i}, D)
        /\ SafeRun(Volume, harmed \cup {i}, harmed, D, ReleaseStores(i) \o q, v3)
    BY <1>14, <1>16, <2>1, <2>2, <2>3, ReleaseBegins
  <2>. QED
    BY <2>1, <2>4
<1>23. PICK z : z = ReleaseStores(i)
  OBVIOUS
<1>24. z \o q \in Seq(StoreSet) /\ z \o q # <<>>
  <2>1. q \in Seq(StoreSet) /\ z \in Seq(StoreSet)
    BY <1>22, <1>23
  <2>2. q # <<>>
    BY <1>13
  <2>. QED
    BY <2>1, <2>2, NotEmptied
<1>25. RemoveFileStores(d, i, {s}) = z \o q
  BY <1>4, <1>5, <1>6, <1>7, <1>8, <1>9, <1>13, <1>23 DEF RemoveFileStores, WithoutInodesStore
<1>26. /\ WithoutInodes(d, {s}) = [dblock EXCEPT ![b] = k]
       /\ Parts(v3, F, imap \ {i}, [inode EXCEPT ![d] = r], [dblock EXCEPT ![b] = k])
  BY <1>19, <1>22
<1>27. Begins(harmed \cup {i}, harmed, D, z \o q, F, imap \ {i},
              [inode EXCEPT ![d] = r], [dblock EXCEPT ![b] = k])
  BY <1>22, <1>23, <1>24, <1>26 DEF Begins
<1>. QED
  BY <1>1, <1>2, <1>5, <1>25, <1>26, <1>27

\* fs_remove releases the blocks of a file and then fails: the volume stays
\* safe when there are none, and otherwise the file is at risk.
LEMMA RemoveBusyBegins ==
    ASSUME SafeNow, NEW i \in Inode \ {Root}, Held(Volume, i), inode[i].fileType = "r",
           i \notin harmed \/ HeldBlocks(i) = {},
           NEW A, A = harmed \cup {i} \/ (A = harmed /\ HeldBlocks(i) = {}),
           NEW D \in SUBSET OpenInodes
    PROVE  Begins(A, A, D, ReleaseStores(i), fbm \ HeldBlocks(i), imap, inode, dblock)
<1>1. PICK F : F = fbm \ HeldBlocks(i)
  OBVIOUS
<1>2. PICK u : u = Vol(F, imap, inode, dblock)
  OBVIOUS
<1>3. u \in VolumeType /\ Parts(u, F, imap, inode, dblock)
  BY <1>1, <1>2, BeginsWith DEF Vol, VolumeType, Parts, TypeOK
<1>4. Safe(Volume, A, D)
  <2>1. Safe(Volume, harmed, D)
    BY BeginsWith, SafeRisk
  <2>. QED
    BY <2>1, SafeRisk
<1>5. <<>> \in Seq(StoreSet)
  OBVIOUS
<1>6. Safe(u, A, D) => SafeRun(u, A, A, D, <<>>, u)
  BY RunEmpty
<1>7. /\ ReleaseStores(i) \in Seq(StoreSet)
      /\ Len(ReleaseStores(i)) = DirectBlocks
      /\ SafeRun(Volume, A, A, D, ReleaseStores(i) \o <<>>, u)
  <2>1. Parts(u, fbm \ HeldBlocks(i), imap, inode, dblock)
    BY <1>1, <1>3
  <2>. QED
    BY <1>3, <1>4, <1>5, <1>6, <2>1, ReleaseBegins
<1>8. PICK z : z = ReleaseStores(i)
  OBVIOUS
<1>9. z \o <<>> = z /\ z # <<>>
  BY <1>7, <1>8
<1>. QED
  BY <1>1, <1>3, <1>7, <1>8, <1>9 DEF Begins

\* fs_move gives an entry another name.
LEMMA MoveRenameBegins ==
    ASSUME SafeNow, NEW d \in Inode, NEW m \in Slot, NEW n \in Names
    PROVE  Begins(harmed, harmed, OpenInodes,
                  << PutBlock(inode[d].directPointer[0],
                              [dblock[inode[d].directPointer[0]] EXCEPT ![m].filename = n]) >>,
                  fbm, imap, inode,
                  [dblock EXCEPT ![inode[d].directPointer[0]][m].filename = n])
<1>1. PICK b : b = inode[d].directPointer[0]
  OBVIOUS
<1>2. PICK k : k = [dblock[b] EXCEPT ![m].filename = n]
  OBVIOUS
<1>3. PICK s : s = PutBlock(b, k)
  OBVIOUS
<1>4. PICK w : w = Stored(Volume, s)
  OBVIOUS
<1>5. b \in Block /\ dblock[b] \in [Slot -> Dentry]
  BY <1>1, SlotHolds, BeginsWith DEF TypeOK
<1>6. /\ k \in [Slot -> Dentry]
      /\ \A t \in Slot : k[t].inodeNumber = dblock[b][t].inodeNumber
  <2>1. \A x \in Dentry : /\ [x EXCEPT !.filename = n] \in Dentry
                          /\ [x EXCEPT !.filename = n].inodeNumber = x.inodeNumber
    BY DEF Dentry
  <2>2. k = [dblock[b] EXCEPT ![m] = [dblock[b][m] EXCEPT !.filename = n]]
    BY <1>2
  <2>. QED
    BY <1>5, <2>1, <2>2
<1>7. /\ s \in StoreSet
      /\ Parts(w, fbm, imap, inode, [dblock EXCEPT ![b] = k])
  BY <1>3, <1>4, <1>5, <1>6, BeginsWith, VolumeParts, StoreOfBlock DEF Parts
<1>8. Safe(w, harmed, OpenInodes)
  <2>1. Volume.dblock = dblock
    BY VolumeParts DEF Parts
  <2>. QED
    BY <1>3, <1>4, <1>5, <1>6, <2>1, BeginsWith, BlankSafe
<1>9. << s >> \in Seq(StoreSet) /\ SafeRun(Volume, harmed, harmed, OpenInodes, << s >>, w)
  BY <1>4, <1>7, <1>8, BeginsWith, Run1
<1>10. [dblock EXCEPT ![b][m].filename = n] = [dblock EXCEPT ![b] = k]
  BY <1>2
<1>11. Begins(harmed, harmed, OpenInodes, << s >>, fbm, imap, inode, [dblock EXCEPT ![b] = k])
  BY <1>7, <1>9 DEF Begins
<1>. QED
  BY <1>1, <1>2, <1>3, <1>10, <1>11

\* An inode that may be come to stays ready for an entry.
LEMMA ReadyStill ==
    ASSUME SafeNow, NEW A, harmed \subseteq A, NEW j \in Inode, Held(Volume, j), NEW w,
           w.fbm = fbm, w.imap = imap,
           \A l \in Inode : ClaimsOf(w.inode[l]) = ClaimsOf(inode[l]),
           \A l \in Inode : Held(w, l) => Held(Volume, l)
    PROVE  Ready(w, A, j)
<1>1. j \notin A => j \in w.imap /\ ClaimsOf(w.inode[j]) \subseteq w.fbm \ Meta
  BY BeginsWith
<1>2. ASSUME NEW l \in Inode \ {j}, Held(w, l)
      PROVE  ClaimsOf(w.inode[l]) \cap ClaimsOf(w.inode[j]) = {}
  BY <1>2, BeginsWith
<1>. QED
  BY <1>1, <1>2 DEF Ready

\* fs_link counts the link, and then makes the entry.
LEMMA LinkBegins ==
    ASSUME SafeNow, NEW i \in Inode \ {Root}, Held(Volume, i), i \notin harmed,
           NEW d \in Inode, Held(Volume, d), inode[d].fileType = "d",
           NEW s \in Slot, NEW n \in Names
    PROVE  Begins(harmed, harmed, OpenInodes, LinkStores(d, s, n, i), fbm, imap,
                  [inode EXCEPT ![i] = Linked(inode[i]),
                                ![d] = SetBit(IF i = d THEN Linked(inode[d]) ELSE inode[d], s)],
                  AddEntry(dblock, d, s, n, i))
<1>1. PICK D : D = OpenInodes
  OBVIOUS
<1>2. PICK v : v = Volume
  OBVIOUS
<1>3. PICK b : b = inode[d].directPointer[0]
  OBVIOUS
<1>4. PICK r : r = Linked(inode[i])
  OBVIOUS
<1>5. PICK r2 : r2 = SetBit(IF i = d THEN Linked(inode[d]) ELSE inode[d], s)
  OBVIOUS
<1>6. PICK k : k = [dblock[b] EXCEPT ![s] = [filename |-> n, inodeNumber |-> i]]
  OBVIOUS
<1>7. PICK t1 : t1 = PutInode(i, r)
  OBVIOUS
<1>8. PICK t2 : t2 = PutInode(d, r2)
  OBVIOUS
<1>9. PICK t3 : t3 = PutBlock(b, k)
  OBVIOUS
<1>10. PICK v1 : v1 = Stored(v, t1)
  OBVIOUS
<1>11. PICK v2 : v2 = Stored(v1, t2)
  OBVIOUS
<1>12. PICK v3 : v3 = Stored(v2, t3)
  OBVIOUS
<1>13. /\ Safe(v, harmed, D) /\ v \in VolumeType /\ Parts(v, fbm, imap, inode, dblock)
       /\ Ready(v, harmed, i)
       /\ Cardinality(Holding(v, i)) <= inode[i].linkCount
       /\ inode[i] \in InodeRecord /\ inode[d] \in InodeRecord
       /\ b \in Block
  BY <1>1, <1>2, <1>3, BeginsWith, VolumeParts, SlotHolds DEF TypeOK
<1>14. PICK m : m = inode[i].linkCount + 1
  OBVIOUS
<1>15. m \in Nat /\ Cardinality(Holding(v, i)) < m
  <2>1. Cardinality(Holding(v, i)) \in Nat /\ inode[i].linkCount \in Nat
    BY <1>13, HoldingFinite DEF InodeRecord
  <2>. QED
    BY <1>13, <1>14, <2>1
<1>16. Rewritten(v, harmed, D, i, r, v1)
  <2>1. r = [inode[i] EXCEPT !.linkCount = m]
    BY <1>4, <1>14 DEF Linked
  <2>2. v1 = Stored(v, PutInode(i, r))
    BY <1>7, <1>10
  <2>3. v.inode[i] = inode[i]
    BY <1>13 DEF Parts
  <2>4. Cardinality(Holding(v, i)) <= m
    BY <1>15, HoldingFinite
  <2>. QED
    BY <1>13, <1>15, <2>1, <2>2, <2>3, <2>4, CountStored
<1>17. /\ t1 \in StoreSet /\ Safe(v1, harmed, D) /\ v1 \in VolumeType
       /\ Parts(v1, fbm, imap, [inode EXCEPT ![i] = r], dblock)
       /\ \A j \in Inode : Holding(v1, j) = Holding(v, j)
       /\ \A j \in Inode : Held(v1, j) => Held(v, j)
       /\ \A j \in Inode : ClaimsOf(v1.inode[j]) = ClaimsOf(inode[j])
  <2>1. /\ PutInode(i, r) \in StoreSet /\ Safe(v1, harmed, D) /\ v1 \in VolumeType
        /\ Parts(v1, v.fbm, v.imap, [v.inode EXCEPT ![i] = r], v.dblock)
        /\ \A j \in Inode : Holding(v1, j) = Holding(v, j)
        /\ \A j \in Inode \ {i} : Held(v1, j) => Held(v, j)
        /\ \A j \in Inode : ClaimsOf(v1.inode[j]) = ClaimsOf(v.inode[j])
    BY <1>16, Zenon DEF Rewritten
  <2>2. v.inode = inode
    BY <1>13 DEF Parts
  <2>3. \A j \in Inode : ClaimsOf(v1.inode[j]) = ClaimsOf(inode[j])
    BY <2>1, <2>2
  <2>4. \A j \in Inode : Held(v1, j) => Held(v, j)
    BY <1>2, <2>1
  <2>. QED
    BY <1>7, <1>13, <2>1, <2>3, <2>4 DEF Parts
<1>18. v1.inode[i] = r /\ r.linkCount = m /\ r2 = SetBit(v1.inode[d], s)
  <2>1. inode \in [Inode -> InodeRecord]
    BY BeginsWith DEF TypeOK
  <2>2. v1.inode[i] = r /\ (i # d => v1.inode[d] = inode[d])
    BY <1>17, <2>1 DEF Parts
  <2>3. r.linkCount = m
    BY <1>4, <1>13, <1>14 DEF Linked, InodeRecord
  <2>. QED
    BY <1>4, <1>5, <2>2, <2>3
<1>19. Ready(v1, harmed, i) /\ Ready(v1, harmed, d)
  <2>1. v1.fbm = fbm /\ v1.imap = imap
    BY <1>17 DEF Parts
  <2>2. \A l \in Inode : Held(v1, l) => Held(Volume, l)
    BY <1>2, <1>17
  <2>. QED
    BY <1>17, <2>1, <2>2, ReadyStill
<1>20. /\ PutInode(d, r2) \in StoreSet
       /\ Safe(v2, harmed, D)
       /\ Ready(v2, harmed, i)
       /\ i \in harmed \/ Cardinality(Holding(v2, i)) < v2.inode[i].linkCount
       /\ Parts(v2, v1.fbm, v1.imap, [v1.inode EXCEPT ![d] = r2], v1.dblock)
  <2>1. i # d => ClaimsOf(v1.inode[d]) \cap ClaimsOf(v1.inode[i]) = {}
    BY <1>17, BeginsWith
  <2>2. i \in harmed \/ Cardinality(Holding(v1, i)) < v1.inode[i].linkCount
    BY <1>15, <1>17, <1>18
  <2>3. d \in ({Root} \cup harmed) \/ Cardinality(Holding(v1, d)) <= v1.inode[d].linkCount
    BY <1>17 DEF Safe, CountsCover
  <2>4. v2 = Stored(v1, PutInode(d, r2))
    BY <1>8, <1>11
  <2>. QED
    BY <1>17, <1>18, <1>19, <2>1, <2>2, <2>3, <2>4, EntryBit
<1>21. WithEntry(k, v2.dblock[b], s, n, i)
  <2>1. v2.dblock = dblock
    BY <1>17, <1>20 DEF Parts
  <2>. QED
    BY <1>6, <2>1 DEF WithEntry
<1>22. k \in [Slot -> Dentry] /\ Safe(v3, harmed, D)
  <2>1. v3 = Stored(v2, PutBlock(b, k))
    BY <1>9, <1>12
  <2>. QED
    BY <1>13, <1>20, <1>21, <2>1, EntrySafe DEF EntryMade
<1>23. /\ t3 \in StoreSet
       /\ Parts(v3, v2.fbm, v2.imap, v2.inode, [v2.dblock EXCEPT ![b] = k])
  <2>1. v2 \in VolumeType
    BY <1>20 DEF Safe
  <2>. QED
    BY <1>9, <1>12, <1>13, <1>22, <2>1, StoreOfBlock
<1>24. /\ << t1, t2, t3 >> \in Seq(StoreSet)
       /\ SafeRun(v, harmed, harmed, D, << t1, t2, t3 >>, v3)
  <2>1. /\ t1 \in StoreSet /\ t2 \in StoreSet /\ t3 \in StoreSet
        /\ Safe(v, harmed, D) /\ Safe(v1, harmed, D) /\ Safe(v2, harmed, D) /\ Safe(v3, harmed, D)
    BY <1>8, <1>13, <1>17, <1>20, <1>22, <1>23
  <2>. QED
    BY <1>10, <1>11, <1>12, <2>1, Run3, Zenon
<1>25. Parts(v3, fbm, imap, [inode EXCEPT ![i] = r, ![d] = r2], [dblock EXCEPT ![b] = k])
  BY <1>17, <1>20, <1>23 DEF Parts
<1>26. LinkStores(d, s, n, i) = << t1, t2, t3 >>
  BY <1>3, <1>4, <1>5, <1>6, <1>7, <1>8, <1>9 DEF LinkStores, BlockWithEntry
<1>27. AddEntry(dblock, d, s, n, i) = [dblock EXCEPT ![b] = k]
  BY <1>3, <1>6 DEF AddEntry
<1>28. Begins(harmed, harmed, D, << t1, t2, t3 >>, fbm, imap,
              [inode EXCEPT ![i] = r, ![d] = r2], [dblock EXCEPT ![b] = k])
  BY <1>2, <1>24, <1>25 DEF Begins
<1>. QED
  BY <1>1, <1>4, <1>5, <1>26, <1>27, <1>28

\* One slot more that holds an inode, and one less: no more of them.
LEMMA HoldingMoved ==
    ASSUME NEW v, NEW w, NEW i, NEW y \in Holding(v, i), NEW x,
           Holding(w, i) \subseteq (Holding(v, i) \cup {x}) \ {y}
    PROVE  /\ Cardinality(Holding(w, i)) \in Nat
           /\ Cardinality(Holding(w, i)) <= Cardinality(Holding(v, i))
           /\ Cardinality(Holding(v, i)) \in Nat
<1>1. PICK H : H = Holding(v, i) \ {y}
  OBVIOUS
<1>2. IsFiniteSet(Holding(v, i)) /\ Cardinality(Holding(v, i)) \in Nat
  BY HoldingFinite
<1>3. /\ IsFiniteSet(Holding(v, i) \ {y})
      /\ Cardinality(Holding(v, i) \ {y}) =
            IF y \in Holding(v, i) THEN Cardinality(Holding(v, i)) - 1
            ELSE Cardinality(Holding(v, i))
  BY <1>2, FS_RemoveElement, Zenon
<1>4. /\ IsFiniteSet(H) /\ Cardinality(H) = Cardinality(Holding(v, i)) - 1
      /\ Cardinality(H) \in Nat
  BY <1>1, <1>3, FS_CardinalityType
<1>5. /\ IsFiniteSet(H \cup {x})
      /\ Cardinality(H \cup {x}) =
            IF x \in H THEN Cardinality(H) ELSE Cardinality(H) + 1
  BY <1>4, FS_AddElement, Zenon
<1>6. Holding(w, i) \in SUBSET (H \cup {x})
  BY <1>1
<1>7. Cardinality(Holding(w, i)) <= Cardinality(H \cup {x})
  BY <1>5, <1>6, FS_Subset
<1>8. Cardinality(Holding(w, i)) \in Nat
  BY HoldingFinite
<1>. QED
  BY <1>2, <1>4, <1>5, <1>7, <1>8

\* The stores of a move of the file or directory i from the slot s of d to the
\* slot t of e, and the volumes they make.
MoveStores(d, e, s, t, n, i, v, bd, be, kd, ke, rd, re, v1, v2, v3, v4) ==
    /\ bd = inode[d].directPointer[0] /\ be = inode[e].directPointer[0]
    /\ ke = [dblock[be] EXCEPT ![t] = [filename |-> n, inodeNumber |-> i]]
    /\ kd = [dblock[bd] EXCEPT ![s] = NoEntry]
    /\ re = SetBit(inode[e], t) /\ rd = ClearBit(inode[d], {s})
    /\ v1 = Stored(v, PutBlock(be, ke)) /\ v2 = Stored(v1, PutBlock(bd, kd))
    /\ v3 = Stored(v2, PutInode(e, re)) /\ v4 = Stored(v3, PutInode(d, rd))

\* What holds once the slots are stored.
SlotsMoved(s, i, t, bd, be, kd, ke, v1, v2) ==
    /\ be # bd
    /\ PutBlock(be, ke) \in StoreSet /\ PutBlock(bd, kd) \in StoreSet
    /\ Safe(Volume, harmed \cup {i}, OpenInodes)
    /\ Safe(v1, harmed \cup {i}, OpenInodes) /\ Safe(v2, harmed \cup {i}, OpenInodes) /\ v2 \in VolumeType
    /\ Parts(v2, fbm, imap, inode, [dblock EXCEPT ![be] = ke, ![bd] = kd])
    /\ \A j \in Inode : Held(v2, j) => Held(Volume, j)
    /\ Holding(v2, i) \subseteq (Holding(Volume, i) \cup {<<be, t>>}) \ {<<bd, s>>}

\* The first two stores: the slots.
LEMMA MoveSlots ==
    ASSUME SafeNow, NEW d, NEW s, NEW i, Named(d, s, i),
           NEW e \in Inode \ {d}, Held(Volume, e), inode[e].fileType = "d",
           NEW t \in Slot, NEW n \in Names,
           NEW bd, NEW be, NEW kd, NEW ke, NEW rd, NEW re, NEW v1, NEW v2, NEW v3, NEW v4,
           MoveStores(d, e, s, t, n, i, Volume, bd, be, kd, ke, rd, re, v1, v2, v3, v4)
    PROVE  SlotsMoved(s, i, t, bd, be, kd, ke, v1, v2)
<1>1. PICK D : D = OpenInodes
  OBVIOUS
<1>2. PICK v : v = Volume
  OBVIOUS
<1>3. /\ bd = inode[d].directPointer[0] /\ be = inode[e].directPointer[0]
      /\ ke = [dblock[be] EXCEPT ![t] = [filename |-> n, inodeNumber |-> i]]
      /\ kd = [dblock[bd] EXCEPT ![s] = NoEntry]
      /\ v1 = Stored(v, PutBlock(be, ke)) /\ v2 = Stored(v1, PutBlock(bd, kd))
  BY <1>2 DEF MoveStores
<1>4. /\ Safe(v, harmed, D) /\ v \in VolumeType
      /\ Parts(v, fbm, imap, inode, dblock)
      /\ d \in Inode /\ i \in Inode \ {Root} /\ s \in Slot
      /\ Held(v, d) /\ Held(v, i)
      /\ inode[d].fileType = "d"
      /\ bd \in Block
  <2>1. /\ Safe(v, harmed, OpenInodes) /\ v \in VolumeType
        /\ Parts(v, fbm, imap, inode, dblock)
        /\ d \in Inode /\ i \in Inode \ {Root} /\ s \in Slot
        /\ Held(v, d) /\ Held(v, i)
        /\ inode[d].fileType = "d"
        /\ inode[d].directPointer[0] \in Block
    BY <1>2, NamedFacts, Zenon
  <2>. QED
    BY <1>1, <1>3, <2>1
<1>5. be \in Block
  BY <1>3, SlotHolds, BeginsWith
<1>6. be # bd
  <2>1. ClaimsOf(inode[d]) = {bd} /\ ClaimsOf(inode[e]) = {be}
    BY <1>3, <1>4 DEF ClaimsOf
  <2>2. ClaimsOf(inode[d]) \cap ClaimsOf(inode[e]) = {}
    BY <1>2, <1>4, BeginsWith
  <2>. QED
    BY <2>1, <2>2
<1>7. Safe(v, harmed \cup {i}, D) /\ Ready(v, harmed \cup {i}, i)
  <2>1. Safe(v, harmed \cup {i}, D)
    BY <1>4, SafeRisk
  <2>. QED
    BY <1>4, <2>1, HeldReady
<1>8. /\ ke \in [Slot -> Dentry]
      /\ Safe(v1, harmed \cup {i}, D)
      /\ Holding(v1, i) = Holding(v, i) \cup {<<be, t>>}
      /\ \A j \in Inode \ {i} : Holding(v1, j) \subseteq Holding(v, j)
  <2>1. ke = [v.dblock[be] EXCEPT ![t] = [filename |-> n, inodeNumber |-> i]]
    BY <1>3, <1>4 DEF Parts
  <2>2. v1 = Stored(v, PutBlock(be, ke))
    BY <1>3
  <2>. QED
    <3>1. /\ Safe(v, harmed \cup {i}, D) /\ Ready(v, harmed \cup {i}, i) /\ i \in Inode \ {Root} /\ be \in Block
      BY <1>4, <1>5, <1>7
    <3>2. WithEntry(ke, v.dblock[be], t, n, i)
      BY <2>1 DEF WithEntry
    <3>3. EntryMade(v, harmed \cup {i}, D, be, t, i, ke, v1)
      BY <1>4, <2>2, <3>1, <3>2, EntrySafe
    <3>. QED
      BY <3>3 DEF EntryMade
<1>9. /\ PutBlock(be, ke) \in StoreSet
      /\ Parts(v1, fbm, imap, inode, [dblock EXCEPT ![be] = ke])
  <2>1. /\ PutBlock(be, ke) \in StoreSet
        /\ Parts(v1, v.fbm, v.imap, v.inode, [v.dblock EXCEPT ![be] = ke])
    <3>1. v1 = Stored(v, PutBlock(be, ke)) /\ v \in VolumeType /\ ke \in [Slot -> Dentry]
      BY <1>3, <1>4, <1>8
    <3>. QED
      BY <1>5, <3>1, StoreOfBlock
  <2>. QED
    BY <1>4, <2>1 DEF Parts
<1>10. SlotBlank(kd, s, v1.dblock[bd])
  <2>1. v1.dblock[bd] = dblock[bd]
    BY <1>6, <1>9 DEF Parts
  <2>2. dblock[bd] \in [Slot -> Dentry] /\ NoEntry \in Dentry /\ NoEntry.inodeNumber = Root
    BY <1>4, BeginsWith, RecordTypes, ConstantTypes DEF TypeOK, NoEntry, Root, Dentry
  <2>. QED
    BY <1>3, <1>4, <2>1, <2>2 DEF SlotBlank
<1>11. /\ PutBlock(bd, kd) \in StoreSet
       /\ Safe(v2, harmed \cup {i}, D) /\ v2 \in VolumeType
       /\ Parts(v2, v1.fbm, v1.imap, v1.inode, [v1.dblock EXCEPT ![bd] = kd])
       /\ \A j \in Inode \ {Root} : Holding(v2, j) \subseteq Holding(v1, j) \ {<<bd, s>>}
  <2>1. v2 = Stored(v1, PutBlock(bd, kd))
    BY <1>3
  <2>. QED
    BY <1>4, <1>8, <1>10, <2>1, SlotCleared
<1>12. Parts(v2, fbm, imap, inode, [dblock EXCEPT ![be] = ke, ![bd] = kd])
  BY <1>9, <1>11 DEF Parts
<1>13. \A j \in Inode : Held(v2, j) => Held(v, j)
  <2> SUFFICES ASSUME NEW j \in Inode \ {Root, i}, Held(v2, j)
               PROVE  Held(v, j)
    BY <1>4 DEF Held
  <2>1. Holding(v2, j) \subseteq Holding(v, j)
    BY <1>8, <1>11
  <2>2. v2.inode[j] = v.inode[j]
    BY <1>4, <1>12 DEF Parts
  <2>. QED
    BY <2>1, <2>2 DEF Held
<1>14. Holding(v2, i) \subseteq (Holding(v, i) \cup {<<be, t>>}) \ {<<bd, s>>}
  BY <1>4, <1>8, <1>11
<1>. QED
  BY <1>1, <1>2, <1>6, <1>7, <1>8, <1>9, <1>11, <1>12, <1>13, <1>14 DEF SlotsMoved

\* fs_move takes an entry to another directory: its inode is at risk meanwhile.
LEMMA MoveAcrossBegins ==
    ASSUME SafeNow, NEW d, NEW s, NEW i, Named(d, s, i),
           NEW e \in Inode \ {d}, Held(Volume, e), inode[e].fileType = "d",
           NEW t \in Slot, NEW n \in Names
    PROVE  Begins(harmed \cup {i}, harmed, OpenInodes, MoveAcrossStores(d, e, s, t, n, i), fbm, imap,
                  [inode EXCEPT ![e] = SetBit(inode[e], t), ![d] = ClearBit(inode[d], {s})],
                  [AddEntry(dblock, e, t, n, i) EXCEPT ![inode[d].directPointer[0]] =
                      [dblock[inode[d].directPointer[0]] EXCEPT ![s] = NoEntry]])
<1>1. PICK D : D = OpenInodes
  OBVIOUS
<1>2. PICK v : v = Volume
  OBVIOUS
<1>3. PICK bd : bd = inode[d].directPointer[0]
  OBVIOUS
<1>4. PICK be : be = inode[e].directPointer[0]
  OBVIOUS
<1>5. PICK kd : kd = [dblock[bd] EXCEPT ![s] = NoEntry]
  OBVIOUS
<1>6. PICK ke : ke = [dblock[be] EXCEPT ![t] = [filename |-> n, inodeNumber |-> i]]
  OBVIOUS
<1>7. PICK rd : rd = ClearBit(inode[d], {s})
  OBVIOUS
<1>8. PICK re : re = SetBit(inode[e], t)
  OBVIOUS
<1>9. PICK v1 : v1 = Stored(v, PutBlock(be, ke))
  OBVIOUS
<1>10. PICK v2 : v2 = Stored(v1, PutBlock(bd, kd))
  OBVIOUS
<1>11. PICK v3 : v3 = Stored(v2, PutInode(e, re))
  OBVIOUS
<1>12. PICK v4 : v4 = Stored(v3, PutInode(d, rd))
  OBVIOUS
<1>13. MoveStores(d, e, s, t, n, i, Volume, bd, be, kd, ke, rd, re, v1, v2, v3, v4)
  BY <1>2, <1>3, <1>4, <1>5, <1>6, <1>7, <1>8, <1>9, <1>10, <1>11, <1>12 DEF MoveStores
<1>14. /\ be # bd
       /\ PutBlock(be, ke) \in StoreSet /\ PutBlock(bd, kd) \in StoreSet
       /\ Safe(v, harmed \cup {i}, D)
       /\ Safe(v1, harmed \cup {i}, D) /\ Safe(v2, harmed \cup {i}, D) /\ v2 \in VolumeType
       /\ Parts(v2, fbm, imap, inode, [dblock EXCEPT ![be] = ke, ![bd] = kd])
       /\ \A j \in Inode : Held(v2, j) => Held(v, j)
       /\ Holding(v2, i) \subseteq (Holding(v, i) \cup {<<be, t>>}) \ {<<bd, s>>}
  <2>1. SlotsMoved(s, i, t, bd, be, kd, ke, v1, v2)
    BY <1>13, MoveSlots, Zenon
  <2>. QED
    BY <1>1, <1>2, <2>1 DEF SlotsMoved
<1>15. /\ d \in Inode /\ i \in Inode \ {Root}
       /\ Held(v, d) /\ Held(v, i) /\ <<bd, s>> \in Holding(v, i)
       /\ inode[d] \in InodeRecord /\ inode[e] \in InodeRecord /\ inode[i] \in InodeRecord
       /\ inode \in [Inode -> InodeRecord]
       /\ i \notin harmed =>
             /\ Cardinality(Holding(v, i)) <= inode[i].linkCount
             /\ i \in imap /\ ClaimsOf(inode[i]) \subseteq fbm \ Meta
  BY <1>2, <1>3, NamedFacts, BeginsWith DEF TypeOK
<1>16. v2.fbm = fbm /\ v2.imap = imap /\ v2.inode = inode
  BY <1>14 DEF Parts
<1>17. Rewritten(v2, harmed \cup {i}, D, e, re, v3)
  <2>1. Ready(v2, harmed \cup {i}, e)
    BY <1>2, <1>14, <1>16, ReadyStill
  <2>2. /\ re \in InodeRecord
        /\ re.fileType = v2.inode[e].fileType
        /\ re.directPointer = v2.inode[e].directPointer
        /\ re.linkCount = v2.inode[e].linkCount
    BY <1>8, <1>15, <1>16, RecordUpdates DEF SetBit, InodeRecord
  <2>3. e \in ({Root} \cup (harmed \cup {i})) \/ Cardinality(Holding(v2, e)) <= re.linkCount
    BY <1>14, <2>2 DEF Safe, CountsCover
  <2>. QED
    BY <1>11, <1>14, <2>1, <2>2, <2>3, RecordStored
<1>18. /\ PutInode(e, re) \in StoreSet
       /\ Safe(v3, harmed \cup {i}, D) /\ v3 \in VolumeType
       /\ Parts(v3, fbm, imap, [inode EXCEPT ![e] = re], [dblock EXCEPT ![be] = ke, ![bd] = kd])
       /\ \A j \in Inode : Holding(v3, j) = Holding(v2, j)
       /\ \A j \in Inode : Held(v3, j) => Held(v, j)
       /\ \A j \in Inode : ClaimsOf(v3.inode[j]) = ClaimsOf(inode[j])
  <2>1. /\ PutInode(e, re) \in StoreSet
        /\ Safe(v3, harmed \cup {i}, D) /\ v3 \in VolumeType
        /\ Parts(v3, v2.fbm, v2.imap, [v2.inode EXCEPT ![e] = re], v2.dblock)
        /\ \A j \in Inode : Holding(v3, j) = Holding(v2, j)
        /\ \A j \in Inode \ {e} : Held(v3, j) => Held(v2, j)
        /\ \A j \in Inode : ClaimsOf(v3.inode[j]) = ClaimsOf(v2.inode[j])
    BY <1>17, Zenon DEF Rewritten
  <2>2. \A j \in Inode : Held(v3, j) => Held(v, j)
    BY <1>2, <1>14, <2>1
  <2>3. \A j \in Inode : ClaimsOf(v3.inode[j]) = ClaimsOf(inode[j])
    BY <1>16, <2>1
  <2>. QED
    BY <1>14, <2>1, <2>2, <2>3 DEF Parts
<1>19. v3.fbm = fbm /\ v3.imap = imap /\ v3.inode[d] = inode[d]
  BY <1>15, <1>18 DEF Parts
<1>20. Rewritten(v3, harmed \cup {i}, D, d, rd, v4)
  <2>1. Ready(v3, harmed \cup {i}, d)
    BY <1>2, <1>15, <1>18, <1>19, ReadyStill
  <2>2. \/ d \in ({Root} \cup (harmed \cup {i}))
        \/ Cardinality(Holding(v3, d)) <= v3.inode[d].linkCount
    BY <1>15, <1>18 DEF Safe, CountsCover
  <2>3. rd = ClearBit(v3.inode[d], {s})
    BY <1>7, <1>19
  <2>. QED
    BY <1>12, <1>15, <1>18, <2>1, <2>2, <2>3, BitCleared
<1>21. /\ PutInode(d, rd) \in StoreSet
       /\ Safe(v4, harmed \cup {i}, D) /\ v4 \in VolumeType
       /\ Parts(v4, fbm, imap, [inode EXCEPT ![e] = re, ![d] = rd],
                [dblock EXCEPT ![be] = ke, ![bd] = kd])
       /\ Holding(v4, i) \subseteq (Holding(v, i) \cup {<<be, t>>}) \ {<<bd, s>>}
       /\ ClaimsOf(v4.inode[i]) = ClaimsOf(inode[i])
  <2>1. /\ PutInode(d, rd) \in StoreSet
        /\ Safe(v4, harmed \cup {i}, D) /\ v4 \in VolumeType
        /\ Parts(v4, v3.fbm, v3.imap, [v3.inode EXCEPT ![d] = rd], v3.dblock)
        /\ \A j \in Inode : Holding(v4, j) = Holding(v3, j)
        /\ \A j \in Inode : ClaimsOf(v4.inode[j]) = ClaimsOf(v3.inode[j])
    BY <1>20, Zenon DEF Rewritten
  <2>2. Holding(v4, i) \subseteq (Holding(v, i) \cup {<<be, t>>}) \ {<<bd, s>>}
    BY <1>14, <1>15, <1>18, <2>1
  <2>3. ClaimsOf(v4.inode[i]) = ClaimsOf(inode[i])
    BY <1>15, <1>18, <2>1
  <2>. QED
    BY <1>18, <2>1, <2>2, <2>3 DEF Parts
<1>22. Safe(v4, harmed, D)
  <2>1. CASE i \in harmed
    <3>1. harmed \cup {i} = harmed
      BY <2>1
    <3>. QED
      BY <1>21, <3>1
  <2>2. CASE i \notin harmed
    <3>1. v4.inode[i].linkCount = inode[i].linkCount /\ v4.inode[i].fileType = inode[i].fileType
      <4>1. /\ rd.linkCount = inode[d].linkCount /\ re.linkCount = inode[e].linkCount
            /\ rd.fileType = inode[d].fileType /\ re.fileType = inode[e].fileType
        BY <1>7, <1>8, <1>15 DEF SetBit, ClearBit, InodeRecord
      <4>2. v4.inode = [inode EXCEPT ![e] = re, ![d] = rd]
        BY <1>21 DEF Parts
      <4>. QED
        BY <1>15, <4>1, <4>2
    <3>2. Cardinality(Holding(v4, i)) <= v4.inode[i].linkCount
      <4>1. /\ Cardinality(Holding(v4, i)) \in Nat
            /\ Cardinality(Holding(v4, i)) <= Cardinality(Holding(v, i))
            /\ Cardinality(Holding(v, i)) \in Nat
        BY <1>15, <1>21, HoldingMoved
      <4>2. inode[i].linkCount \in Nat
        BY <1>15 DEF InodeRecord
      <4>. QED
        BY <1>15, <2>2, <3>1, <4>1, <4>2
    <3>3. i \in v4.imap /\ ClaimsOf(v4.inode[i]) \subseteq v4.fbm \ Meta
      BY <1>15, <1>21, <2>2 DEF Parts
    <3>4. i \in D => i \in v4.imap /\ v4.inode[i].fileType # "d"
      BY <1>1, <2>2, <3>1, <3>3, BeginsWith
    <3>. QED
      BY <1>15, <1>21, <3>2, <3>3, <3>4, SafeRisk
  <2>. QED
    BY <2>1, <2>2
<1>23. PICK t1 : t1 = PutBlock(be, ke)
  OBVIOUS
<1>24. PICK t2 : t2 = PutBlock(bd, kd)
  OBVIOUS
<1>25. PICK t3 : t3 = PutInode(e, re)
  OBVIOUS
<1>26. PICK t4 : t4 = PutInode(d, rd)
  OBVIOUS
<1>27. /\ << t1, t2, t3, t4 >> \in Seq(StoreSet)
       /\ SafeRun(v, harmed \cup {i}, harmed, D, << t1, t2, t3, t4 >>, v4)
  <2>1. /\ t1 \in StoreSet /\ t2 \in StoreSet /\ t3 \in StoreSet /\ t4 \in StoreSet
        /\ Safe(v, harmed \cup {i}, D) /\ Safe(v1, harmed \cup {i}, D) /\ Safe(v2, harmed \cup {i}, D) /\ Safe(v3, harmed \cup {i}, D) /\ Safe(v4, harmed, D)
    BY <1>14, <1>18, <1>21, <1>22, <1>23, <1>24, <1>25, <1>26
  <2>2. /\ v1 = Stored(v, t1) /\ v2 = Stored(v1, t2) /\ v3 = Stored(v2, t3) /\ v4 = Stored(v3, t4)
    BY <1>9, <1>10, <1>11, <1>12, <1>23, <1>24, <1>25, <1>26
  <2>. QED
    BY <2>1, <2>2, Run4, ZenonT(60)
<1>28. MoveAcrossStores(d, e, s, t, n, i) = << t1, t2, t3, t4 >>
  BY <1>3, <1>4, <1>5, <1>6, <1>7, <1>8, <1>23, <1>24, <1>25, <1>26
     DEF MoveAcrossStores, BlockWithEntry
<1>29. [AddEntry(dblock, e, t, n, i) EXCEPT ![bd] = kd] = [dblock EXCEPT ![be] = ke, ![bd] = kd]
  BY <1>4, <1>6 DEF AddEntry
<1>30. Begins(harmed \cup {i}, harmed, D, << t1, t2, t3, t4 >>, fbm, imap,
              [inode EXCEPT ![e] = re, ![d] = rd], [dblock EXCEPT ![be] = ke, ![bd] = kd])
  BY <1>2, <1>21, <1>27 DEF Begins
<1>. QED
  BY <1>1, <1>3, <1>5, <1>7, <1>8, <1>28, <1>29, <1>30


-----------------------------------------------------------------------------
(* The calls that leave alone what a crash has harmed *)

\* No store of a list is to the remains.
Untouched(q) == \A k \in DOMAIN q : ~Remains(q[k])

\* Seen when the call begins.
LEMMA UntouchedNow ==
    ASSUME RemainsUntouched', inode' = inode, harmed' = harmed
    PROVE  Untouched(todo')
<1>1. \A s : Remains(s)' <=> Remains(s)
  BY DEF Remains, Claims
<1>2. \A k \in DOMAIN todo' : ~Remains(todo'[k])
  BY <1>1 DEF RemainsUntouched
<1>. QED
  BY <1>2 DEF Untouched

\* A list made of two.
LEMMA UntouchedBoth ==
    ASSUME NEW S, NEW p \in Seq(S), NEW q \in Seq(S), Untouched(p \o q)
    PROVE  Untouched(p) /\ Untouched(q)
<1>1. ASSUME NEW k \in DOMAIN p
      PROVE  ~Remains(p[k])
  <2>1. k \in DOMAIN (p \o q) /\ (p \o q)[k] = p[k]
    OBVIOUS
  <2>. QED
    BY <2>1 DEF Untouched
<1>2. ASSUME NEW k \in DOMAIN q
      PROVE  ~Remains(q[k])
  <2>1. PICK m : m = Len(p) + k
    OBVIOUS
  <2>2. m \in DOMAIN (p \o q) /\ (p \o q)[m] = q[k]
    BY <2>1
  <2>. QED
    BY <2>2 DEF Untouched
<1>. QED
  BY <1>1, <1>2 DEF Untouched

\* A list given by its elements.
LEMMA UntouchedEach ==
    /\ \A a, b : Untouched(<< a, b >>) => ~Remains(a) /\ ~Remains(b)
    /\ \A a, b, c : Untouched(<< a, b, c >>) => ~Remains(a) /\ ~Remains(b) /\ ~Remains(c)
    /\ \A a, b, c, e : Untouched(<< a, b, c, e >>) =>
          ~Remains(a) /\ ~Remains(b) /\ ~Remains(c) /\ ~Remains(e)
<1>1. ASSUME NEW a, NEW b, Untouched(<< a, b >>)
      PROVE  ~Remains(a) /\ ~Remains(b)
  <2>1. PICK q : q = << a, b >>
    OBVIOUS
  <2>2. 1 \in DOMAIN q /\ 2 \in DOMAIN q /\ q[1] = a /\ q[2] = b
    BY <2>1
  <2>. QED
    BY <1>1, <2>1, <2>2, Zenon DEF Untouched
<1>2. ASSUME NEW a, NEW b, NEW c, Untouched(<< a, b, c >>)
      PROVE  ~Remains(a) /\ ~Remains(b) /\ ~Remains(c)
  <2>1. PICK q : q = << a, b, c >>
    OBVIOUS
  <2>2. /\ 1 \in DOMAIN q /\ 2 \in DOMAIN q /\ 3 \in DOMAIN q
        /\ q[1] = a /\ q[2] = b /\ q[3] = c
    BY <2>1
  <2>. QED
    BY <1>2, <2>1, <2>2, Zenon DEF Untouched
<1>3. ASSUME NEW a, NEW b, NEW c, NEW e, Untouched(<< a, b, c, e >>)
      PROVE  ~Remains(a) /\ ~Remains(b) /\ ~Remains(c) /\ ~Remains(e)
  <2>1. PICK q : q = << a, b, c, e >>
    OBVIOUS
  <2>2. /\ 1 \in DOMAIN q /\ 2 \in DOMAIN q /\ 3 \in DOMAIN q /\ 4 \in DOMAIN q
        /\ q[1] = a /\ q[2] = b /\ q[3] = c /\ q[4] = e
    BY <2>1
  <2>. QED
    BY <1>3, <2>1, <2>2, Zenon DEF Untouched
<1>. QED
  BY <1>1, <1>2, <1>3, Zenon

\* The stores that are to the remains.
LEMMA RemainsOf ==
    /\ \A i, r : ~Remains(PutInode(i, r)) => i \notin harmed
    /\ \A i : ~Remains(Mark("imap", i)) => i \notin harmed
    /\ \A i : ~Remains(Clear("imap", i)) => i \notin harmed
    /\ \A b : ~Remains(Mark("fbm", b)) => \A j \in harmed : b \notin Claims(j)
    /\ \A b : ~Remains(Clear("fbm", b)) => \A j \in harmed : b \notin Claims(j)
BY DEF Remains, PutInode, Mark, Clear

\* The block that is marked is then apart.
LEMMA MarkApart ==
    ASSUME ~Remains(Mark("fbm", FreeBlock))
    PROVE  FreeBlockApart
<1>1. \A j \in harmed : FreeBlock \notin Claims(j)
  BY RemainsOf, Zenon
<1>2. \A j : Claims(j) = ClaimsOf(inode[j])
  BY DEF Claims, ClaimsOf
<1>. QED
  BY <1>1, <1>2 DEF FreeBlockApart

\* The calls on a directory that a crash has not harmed.
LEMMA UntouchedCreateFile ==
    ASSUME NEW d, NEW n, Untouched(CreateFileStores(d, n))
    PROVE  d \notin harmed /\ FreeInode \notin harmed
<1>1. PICK a : a = Mark("imap", FreeInode)
  OBVIOUS
<1>2. PICK b : b = PutInode(FreeInode, [ZeroInode EXCEPT !.fileType = "r", !.linkCount = 1])
  OBVIOUS
<1>3. PICK c : c = PutInode(d, SetBit(inode[d], FreeSlot(d)))
  OBVIOUS
<1>4. PICK e : e = BlockWithEntry(d, FreeSlot(d), n, FreeInode)
  OBVIOUS
<1>5. CreateFileStores(d, n) = << a, b >> \o << c, e >>
  BY <1>1, <1>2, <1>3, <1>4, Zenon DEF CreateFileStores, EntryStores
<1>6. << a, b >> \in Seq({a, b, c, e}) /\ << c, e >> \in Seq({a, b, c, e})
  OBVIOUS
<1>7. Untouched(<< a, b >>) /\ Untouched(<< c, e >>)
  BY <1>5, <1>6, UntouchedBoth, Zenon
<1>8. ~Remains(a) /\ ~Remains(c)
  BY <1>7, UntouchedEach, Zenon
<1>. QED
  BY <1>1, <1>3, <1>8, RemainsOf, Zenon

LEMMA UntouchedCreateDir ==
    ASSUME NEW d, NEW n, Untouched(CreateDirStores(d, n))
    PROVE  d \notin harmed /\ FreeInode \notin harmed /\ FreeBlockApart
<1>1. PICK a : a = Mark("imap", FreeInode)
  OBVIOUS
<1>2. PICK b : b = Mark("fbm", FreeBlock)
  OBVIOUS
<1>3. PICK c : c = PutBlock(FreeBlock, ZeroBlock)
  OBVIOUS
<1>4. PICK e : e = PutInode(FreeInode, DirRecord(FreeBlock))
  OBVIOUS
<1>5. PICK g : g = PutInode(d, SetBit(inode[d], FreeSlot(d)))
  OBVIOUS
<1>6. PICK h : h = BlockWithEntry(d, FreeSlot(d), n, FreeInode)
  OBVIOUS
<1>7. CreateDirStores(d, n) = << a, b, c, e >> \o << g, h >>
  BY <1>1, <1>2, <1>3, <1>4, <1>5, <1>6, Zenon DEF CreateDirStores, EntryStores
<1>8. /\ << a, b, c, e >> \in Seq({a, b, c, e, g, h})
      /\ << g, h >> \in Seq({a, b, c, e, g, h})
  OBVIOUS
<1>9. Untouched(<< a, b, c, e >>) /\ Untouched(<< g, h >>)
  BY <1>7, <1>8, UntouchedBoth, Zenon
<1>10. ~Remains(a) /\ ~Remains(b) /\ ~Remains(g)
  BY <1>9, UntouchedEach, Zenon
<1>. QED
  BY <1>1, <1>2, <1>5, <1>10, RemainsOf, MarkApart, Zenon

LEMMA UntouchedNewBlock ==
    ASSUME NEW i, NEW k, Untouched(NewBlockStores(i, k))
    PROVE  i \notin harmed /\ FreeBlockApart
<1>1. /\ ~Remains(Mark("fbm", FreeBlock))
      /\ ~Remains(PutInode(i, [inode[i] EXCEPT !.directPointer[k] = FreeBlock]))
  BY UntouchedEach, Zenon DEF NewBlockStores
<1>. QED
  BY <1>1, RemainsOf, MarkApart, Zenon

LEMMA UntouchedLink ==
    ASSUME NEW d, NEW s, NEW n, NEW i, Untouched(LinkStores(d, s, n, i))
    PROVE  i \notin harmed
<1>1. ~Remains(PutInode(i, Linked(inode[i])))
  BY UntouchedEach, Zenon DEF LinkStores
<1>. QED
  BY <1>1, RemainsOf, Zenon

LEMMA UntouchedRemoveDir ==
    ASSUME NEW d, NEW i, NEW S,
           Untouched(RemoveDirStores(d, i, S)) \/ Untouched(RemoveDirLinkStores(d, i, S))
           \/ Untouched(RemoveFileLinkStores(d, i, S))
    PROVE  d \notin harmed /\ i \notin harmed
<1>1. CASE Untouched(RemoveDirStores(d, i, S))
  <2>1. ~Remains(PutInode(d, ClearBit(inode[d], S))) /\ ~Remains(Clear("imap", i))
    BY <1>1, UntouchedEach, Zenon DEF RemoveDirStores
  <2>. QED
    BY <2>1, RemainsOf, Zenon
<1>2. CASE Untouched(RemoveDirLinkStores(d, i, S))
  <2>1. ~Remains(PutInode(d, ClearBit(inode[d], S))) /\ ~Remains(PutInode(i, Unlinked(i)))
    BY <1>2, UntouchedEach, Zenon DEF RemoveDirLinkStores
  <2>. QED
    BY <2>1, RemainsOf, Zenon
<1>3. CASE Untouched(RemoveFileLinkStores(d, i, S))
  <2>1. ~Remains(PutInode(d, ClearBit(inode[d], S))) /\ ~Remains(PutInode(i, Unlinked(i)))
    BY <1>3, UntouchedEach, Zenon DEF RemoveFileLinkStores
  <2>. QED
    BY <2>1, RemainsOf, Zenon
<1>. QED
  BY <1>1, <1>2, <1>3, Zenon

LEMMA UntouchedRemoveFile ==
    ASSUME NEW d, NEW i, NEW S, Untouched(RemoveFileStores(d, i, S))
    PROVE  d \notin harmed /\ i \notin harmed
<1>1. PICK p : p = ReleaseStores(i)
  OBVIOUS
<1>2. PICK a : a = Clear("imap", i)
  OBVIOUS
<1>3. PICK b : b = WithoutInodesStore(d, S)
  OBVIOUS
<1>4. PICK c : c = PutInode(d, ClearBit(inode[d], S))
  OBVIOUS
<1>5. RemoveFileStores(d, i, S) = p \o << a, b, c >>
  BY <1>1, <1>2, <1>3, <1>4, Zenon DEF RemoveFileStores
<1> DEFINE V == {p[k] : k \in 1 .. DirectBlocks} \cup {a, b, c}
<1>6. << a, b, c >> \in Seq(V)
  OBVIOUS
<1>7. p \in Seq(V)
  <2>1. DirectBlocks \in Nat
    OBVIOUS
  <2>2. p \in [1 .. DirectBlocks -> V]
    BY <1>1 DEF ReleaseStores
  <2>. QED
    BY <2>1, <2>2
<1> HIDE DEF V
<1>8. Untouched(<< a, b, c >>)
  BY <1>5, <1>6, <1>7, UntouchedBoth, Zenon
<1>9. ~Remains(a) /\ ~Remains(c)
  BY <1>8, UntouchedEach, Zenon
<1>. QED
  BY <1>2, <1>4, <1>9, RemainsOf, Zenon

LEMMA UntouchedRelease ==
    ASSUME NEW i \in Inode, inode[i].fileType = "r", Untouched(ReleaseStores(i))
    PROVE  i \notin harmed \/ HeldBlocks(i) = {}
<1>1. SUFFICES ASSUME NEW b \in HeldBlocks(i)
               PROVE  i \notin harmed
  OBVIOUS
<1>2. b \in Claims(i)
  BY DEF Claims, HeldBlocks
<1>3. PICK k \in Order : b = inode[i].directPointer[k]
  BY DEF HeldBlocks
<1>4. DirectBlocks \in Nat /\ k + 1 \in 1 .. DirectBlocks /\ (k + 1) - 1 = k
  BY DEF Order
<1>5. k + 1 \in DOMAIN ReleaseStores(i) /\ ReleaseStores(i)[k + 1] = Clear("fbm", b)
  BY <1>3, <1>4 DEF ReleaseStores
<1>6. ~Remains(Clear("fbm", b))
  BY <1>5, Zenon DEF Untouched
<1>. QED
  BY <1>2, <1>6, RemainsOf, Zenon

-----------------------------------------------------------------------------
(* The calls begin *)

\* A call has begun with stores that make a volume of the parts given.
Began(F, M, I, B) ==
    /\ Begins(Exempt', harmed, OpenInodes, todo', F, M, I, B)
    /\ UNCHANGED <<vars, harmed, crashes>>

\* What may be harmed from then on.
LEMMA ExemptBegun ==
    /\ atRisk' = None /\ harmed' = harmed => Exempt' = harmed
    /\ \A i \in Inode : atRisk' = i /\ harmed' = harmed => Exempt' = harmed \cup {i}
    /\ harmed \subseteq Exempt
BY DEF Exempt, None, Inode

\* fs_create of a file.
LEMMA BeganCreateFile ==
    ASSUME SafeNow, NEW p \in Paths, begin_create_file(p), RemainsUntouched',
           NEW d, d = searchPath(dirname(p)), NEW n, n = basename(p)
    PROVE  Began(fbm, imap \cup {FreeInode},
                 [inode EXCEPT
                     ![FreeInode] = [ZeroInode EXCEPT !.fileType = "r", !.linkCount = 1],
                     ![d] = SetBit(inode[d], FreeSlot(d))],
                 AddEntry(dblock, d, FreeSlot(d), n, FreeInode))
<1>1. /\ CreateChecked(p)
      /\ todo' = CreateFileStores(d, n) /\ atRisk' = None
      /\ UNCHANGED <<vars, harmed, crashes>>
  BY Zenon DEF begin_create_file, Begin
<1>2. Untouched(CreateFileStores(d, n))
  BY <1>1, UntouchedNow, Zenon DEF vars
<1>3. d \notin harmed /\ FreeInode \notin harmed
  BY <1>2, UntouchedCreateFile, Zenon
<1>4. Exempt' = harmed
  BY <1>1, ExemptBegun, Zenon
<1>5. Begins(harmed, harmed, OpenInodes, CreateFileStores(d, n),
             fbm, imap \cup {FreeInode},
             [inode EXCEPT
                 ![FreeInode] = [ZeroInode EXCEPT !.fileType = "r", !.linkCount = 1],
                 ![d] = SetBit(inode[d], FreeSlot(d))],
             AddEntry(dblock, d, FreeSlot(d), n, FreeInode))
  BY <1>1, <1>3, CreateFileBegins
<1>. QED
  BY <1>1, <1>4, <1>5, Zenon DEF Began

\* fs_create of a directory, and one for which no block is left.
LEMMA BeganCreateDir ==
    ASSUME SafeNow, NEW p \in Paths, begin_create_dir(p), RemainsUntouched',
           NEW d, d = searchPath(dirname(p)), NEW n, n = basename(p)
    PROVE  /\ FreeBlock # SIZE_MAX =>
                Began(fbm \cup {FreeBlock}, imap \cup {FreeInode},
                      [inode EXCEPT ![FreeInode] = DirRecord(FreeBlock),
                                    ![d] = SetBit(inode[d], FreeSlot(d))],
                      AddEntry([dblock EXCEPT ![FreeBlock] = ZeroBlock],
                               d, FreeSlot(d), n, FreeInode))
           /\ FreeBlock = SIZE_MAX => Began(fbm, imap \cup {FreeInode}, inode, dblock)
<1>1. /\ CreateChecked(p)
      /\ atRisk' = None
      /\ UNCHANGED <<vars, harmed, crashes>>
      /\ todo' = IF FreeBlock = SIZE_MAX THEN << Mark("imap", FreeInode) >>
                 ELSE CreateDirStores(d, n)
  BY Zenon DEF begin_create_dir, Begin
<1>2. CASE FreeBlock # SIZE_MAX
  <2>1. todo' = CreateDirStores(d, n)
    BY <1>1, <1>2, Zenon
  <2>2. Untouched(CreateDirStores(d, n))
    BY <1>1, <2>1, UntouchedNow, Zenon DEF vars
  <2>3. d \notin harmed /\ FreeInode \notin harmed /\ FreeBlockApart
    BY <2>2, UntouchedCreateDir, Zenon
  <2>4. Exempt' = harmed
    BY <1>1, ExemptBegun, Zenon
  <2>5. Begins(harmed, harmed, OpenInodes, CreateDirStores(d, n),
               fbm \cup {FreeBlock}, imap \cup {FreeInode},
               [inode EXCEPT ![FreeInode] = DirRecord(FreeBlock),
                             ![d] = SetBit(inode[d], FreeSlot(d))],
               AddEntry([dblock EXCEPT ![FreeBlock] = ZeroBlock],
                        d, FreeSlot(d), n, FreeInode))
    BY <1>1, <1>2, <2>3, CreateDirBegins
  <2>. QED
    BY <1>1, <1>2, <2>1, <2>4, <2>5, Zenon DEF Began
<1>3. CASE FreeBlock = SIZE_MAX
  <2>1. todo' = << Mark("imap", FreeInode) >> /\ FreeInode # SIZE_MAX
    BY <1>1, <1>3, Zenon DEF CreateChecked
  <2>. QED
    BY <1>1, <1>3, <2>1, NoBlockBegins, ExemptBegun, Zenon DEF Began
<1>. QED
  BY <1>2, <1>3, Zenon

\* fs_write of a block that is there, and of one that has to be allocated.
LEMMA BeganWrite ==
    ASSUME SafeNow, NEW f \in Fd, NEW k \in Order, begin_write(f, k), RemainsUntouched',
           NEW i, i = fd[f], NEW b, b = inode[i].directPointer[k]
    PROVE  /\ f \in OpenFds /\ AtPosition(i, k)
           /\ \/ /\ b # 0 /\ bitmap_test(fbm, b)
                 /\ Began(fbm, imap, inode, [dblock EXCEPT ![b] = ZeroBlock])
              \/ /\ b = 0 /\ FreeBlock # SIZE_MAX
                 /\ Began(fbm \cup {FreeBlock}, imap,
                          [inode EXCEPT ![i].directPointer[k] = FreeBlock],
                          [dblock EXCEPT ![FreeBlock] = ZeroBlock])
<1>1. /\ f \in OpenFds /\ AtPosition(i, k)
      /\ \/ b # 0 /\ bitmap_test(fbm, b) /\ Begin(<< PutBlock(b, ZeroBlock) >>)
         \/ b = 0 /\ FreeBlock # SIZE_MAX /\ Begin(NewBlockStores(i, k))
  BY Zenon DEF begin_write
<1>2. i \in OpenInodes
  BY <1>1 DEF OpenInodes
<1>3. CASE b # 0 /\ bitmap_test(fbm, b) /\ Begin(<< PutBlock(b, ZeroBlock) >>)
  <2>1. b \in Block
    BY <1>3, BeginsWith DEF bitmap_test, TypeOK
  <2>2. Begins(harmed, harmed, OpenInodes, << PutBlock(b, ZeroBlock) >>,
               fbm, imap, inode, [dblock EXCEPT ![b] = ZeroBlock])
    BY <2>1, WriteBegins
  <2>3. Began(fbm, imap, inode, [dblock EXCEPT ![b] = ZeroBlock])
    BY <1>3, <2>2, ExemptBegun, Zenon DEF Began, Begin
  <2>. QED
    BY <1>1, <1>3, <2>3, Zenon
<1>4. CASE b = 0 /\ FreeBlock # SIZE_MAX /\ Begin(NewBlockStores(i, k))
  <2>1. Untouched(NewBlockStores(i, k))
    BY <1>4, UntouchedNow, Zenon DEF Begin, vars
  <2>2. i \in OpenInodes \ harmed /\ FreeBlockApart
    BY <1>2, <2>1, UntouchedNewBlock
  <2>3. Begins(harmed, harmed, OpenInodes, NewBlockStores(i, k), fbm \cup {FreeBlock}, imap,
               [inode EXCEPT ![i].directPointer[k] = FreeBlock],
               [dblock EXCEPT ![FreeBlock] = ZeroBlock])
    BY <1>4, <2>2, NewBlockBegins
  <2>4. Began(fbm \cup {FreeBlock}, imap,
              [inode EXCEPT ![i].directPointer[k] = FreeBlock],
              [dblock EXCEPT ![FreeBlock] = ZeroBlock])
    BY <1>4, <2>3, ExemptBegun, Zenon DEF Began, Begin
  <2>. QED
    BY <1>1, <1>4, <2>4, Zenon
<1>. QED
  BY <1>1, <1>3, <1>4, Zenon

\* What a path that names something stands for: a slot of its directory.
LEMMA PathNamed ==
    ASSUME SafeNow, NamePrefix = {}, NEW p \in Paths, Resolve(p) # 0,
           NEW d, d = searchPath(dirname(p)), NEW i, i = Resolve(p)
    PROVE  \E s : /\ Named(d, s, i)
                  /\ s \in inode[d].vacantFile
                  /\ ExactSlot(d, basename(p)) = {s}
<1>1. /\ d \in Inode /\ Held(Volume, d) /\ inode[d].fileType = "d"
      /\ i \in Inode \ {Root} /\ Held(Volume, i)
  BY ResolveHeld
<1>2. PICK s \in Slot : /\ s \in inode[d].vacantFile
                        /\ Entry(d, s).inodeNumber = i
                        /\ ExactSlot(d, basename(p)) = {s}
  BY ResolveHeld
<1>3. <<inode[d].directPointer[0], s>> \in Holding(Volume, i)
  BY <1>1, <1>2, SlotHolds, BeginsWith
<1>. QED
  BY <1>1, <1>2, <1>3, Zenon DEF Named

\* fs_remove of a directory, with one name or with several.
LEMMA BeganRemoveDir ==
    ASSUME SafeNow, NamePrefix = {}, NEW p \in Paths, begin_remove_dir(p), RemainsUntouched',
           NEW d, d = searchPath(dirname(p)), NEW i, i = Resolve(p),
           NEW S, S = ExactSlot(d, basename(p))
    PROVE  /\ RemoveChecked(p, "d")
           /\ \/ /\ inode[i].linkCount > 1
                 /\ Began(fbm, imap,
                          [inode EXCEPT ![d] = ClearBit(inode[d], S), ![i] = Unlinked(i)],
                          WithoutEntries(d, S))
              \/ /\ inode[i].vacantFile = {} /\ inode[i].linkCount <= 1
                 /\ Began(fbm \ {inode[i].directPointer[0]}, imap \ {i},
                          [inode EXCEPT ![d] = ClearBit(inode[d], S)],
                          WithoutEntries(d, S))
<1>1. /\ RemoveChecked(p, "d")
      /\ inode[i].vacantFile = {} \/ inode[i].linkCount > 1
      /\ atRisk' = None
      /\ UNCHANGED <<vars, harmed, crashes>>
      /\ todo' = IF inode[i].linkCount > 1 THEN RemoveDirLinkStores(d, i, S)
                 ELSE RemoveDirStores(d, i, S)
  BY Zenon DEF begin_remove_dir, Begin
<1>2. Resolve(p) # 0 /\ inode[i].fileType = "d"
  BY <1>1, Zenon DEF RemoveChecked
<1>3. PICK s : Named(d, s, i) /\ s \in inode[d].vacantFile /\ S = {s}
  BY <1>2, PathNamed, Zenon
<1>4. CASE inode[i].linkCount > 1
  <2>1. todo' = RemoveDirLinkStores(d, i, {s})
    BY <1>1, <1>3, <1>4, Zenon
  <2>2. Untouched(RemoveDirLinkStores(d, i, {s}))
    BY <1>1, <2>1, UntouchedNow, Zenon DEF vars
  <2>3. d \notin harmed /\ i \notin harmed
    BY <2>2, UntouchedRemoveDir, Zenon
  <2>4. Begins(harmed, harmed, OpenInodes, RemoveDirLinkStores(d, i, {s}), fbm, imap,
               [inode EXCEPT ![d] = ClearBit(inode[d], {s}), ![i] = Unlinked(i)],
               WithoutEntries(d, {s}))
    BY <1>3, <1>4, <2>3, RemoveDirLinkBegins, Zenon
  <2>. QED
    BY <1>1, <1>3, <1>4, <2>1, <2>4, ExemptBegun, Zenon DEF Began
<1>5. CASE ~(inode[i].linkCount > 1)
  <2>1. todo' = RemoveDirStores(d, i, {s}) /\ inode[i].vacantFile = {}
    BY <1>1, <1>3, <1>5, Zenon
  <2>2. Untouched(RemoveDirStores(d, i, {s}))
    BY <1>1, <2>1, UntouchedNow, Zenon DEF vars
  <2>3. d \notin harmed /\ i \notin harmed
    BY <2>2, UntouchedRemoveDir, Zenon
  <2>4. inode[i].linkCount <= 1
    <3>1. inode[i].linkCount \in Nat
      BY <1>3, NamedFacts DEF InodeRecord
    <3>. QED
      BY <1>5, <3>1
  <2>5. Begins(harmed, harmed, OpenInodes, RemoveDirStores(d, i, {s}),
               fbm \ {inode[i].directPointer[0]}, imap \ {i},
               [inode EXCEPT ![d] = ClearBit(inode[d], {s})],
               WithoutEntries(d, {s}))
    BY <1>2, <1>3, <2>1, <2>4, <2>3, RemoveDirBegins, Zenon
  <2>. QED
    BY <1>1, <1>3, <2>1, <2>4, <2>5, ExemptBegun, Zenon DEF Began
<1>. QED
  BY <1>4, <1>5, Zenon

\* fs_remove of a file, with one name or with several.
LEMMA BeganRemoveFile ==
    ASSUME SafeNow, NamePrefix = {}, NEW p \in Paths, begin_remove_file(p), RemainsUntouched',
           NEW d, d = searchPath(dirname(p)), NEW i, i = Resolve(p),
           NEW S, S = ExactSlot(d, basename(p))
    PROVE  /\ RemoveChecked(p, "r")
           /\ \/ /\ inode[i].linkCount > 1
                 /\ Began(fbm, imap,
                          [inode EXCEPT ![i] = Unlinked(i), ![d] = ClearBit(inode[d], S)],
                          WithoutInodes(d, S))
              \/ /\ inode[i].linkCount <= 1 /\ NoFdOpen
                 /\ Began(fbm \ HeldBlocks(i), imap \ {i},
                          [inode EXCEPT ![d] = ClearBit(inode[d], S)],
                          WithoutInodes(d, S))
<1>1. /\ RemoveChecked(p, "r")
      /\ inode[i].linkCount > 1 \/ NoFdOpen
      /\ atRisk' = i
      /\ UNCHANGED <<vars, harmed, crashes>>
      /\ todo' = IF inode[i].linkCount > 1 THEN RemoveFileLinkStores(d, i, S)
                 ELSE RemoveFileStores(d, i, S)
  BY Zenon DEF begin_remove_file, BeginAtRisk
<1>2. Resolve(p) # 0 /\ inode[i].fileType = "r"
  BY <1>1, Zenon DEF RemoveChecked
<1>3. PICK s : Named(d, s, i) /\ s \in inode[d].vacantFile /\ S = {s}
  BY <1>2, PathNamed, Zenon
<1>4. i # d /\ i \in Inode
  BY <1>2, <1>3 DEF Named
<1>5. Exempt' = harmed \cup {i}
  BY <1>1, <1>4, ExemptBegun, Zenon
<1>6. CASE inode[i].linkCount > 1
  <2>1. todo' = RemoveFileLinkStores(d, i, {s})
    BY <1>1, <1>3, <1>6, Zenon
  <2>2. Untouched(RemoveFileLinkStores(d, i, {s}))
    BY <1>1, <2>1, UntouchedNow, Zenon DEF vars
  <2>3. d \notin harmed /\ i \notin harmed
    BY <2>2, UntouchedRemoveDir, Zenon
  <2>4. Begins(harmed \cup {i}, harmed, OpenInodes, RemoveFileLinkStores(d, i, {s}), fbm, imap,
               [inode EXCEPT ![i] = Unlinked(i), ![d] = ClearBit(inode[d], {s})],
               WithoutInodes(d, {s}))
    BY <1>3, <1>6, <1>4, <2>3, RemoveFileLinkBegins, Zenon
  <2>. QED
    BY <1>1, <1>3, <1>6, <1>5, <2>1, <2>4, Zenon DEF Began
<1>7. CASE ~(inode[i].linkCount > 1)
  <2>1. todo' = RemoveFileStores(d, i, {s}) /\ NoFdOpen
    BY <1>1, <1>3, <1>7, Zenon
  <2>2. Untouched(RemoveFileStores(d, i, {s}))
    BY <1>1, <2>1, UntouchedNow, Zenon DEF vars
  <2>3. d \notin harmed /\ i \notin harmed
    BY <2>2, UntouchedRemoveFile, Zenon
  <2>4. inode[i].linkCount <= 1
    <3>1. inode[i].linkCount \in Nat
      BY <1>3, NamedFacts DEF InodeRecord
    <3>. QED
      BY <1>7, <3>1
  <2>5. Begins(harmed \cup {i}, harmed, OpenInodes, RemoveFileStores(d, i, {s}),
               fbm \ HeldBlocks(i), imap \ {i},
               [inode EXCEPT ![d] = ClearBit(inode[d], {s})],
               WithoutInodes(d, {s}))
    BY <1>2, <1>3, <1>4, <2>1, <2>4, <2>3, RemoveFileBegins, Zenon
  <2>. QED
    BY <1>1, <1>3, <1>5, <2>1, <2>4, <2>5, Zenon DEF Began
<1>. QED
  BY <1>6, <1>7, Zenon

\* The slots that hold an entry, and the first that holds an inode's number.
NamedSlots(d, n, i) == {s \in Slot : Entry(d, s) = [filename |-> n, inodeNumber |-> i]}

FirstSlot(d, i) == Min({x \in Slot : Entry(d, x).inodeNumber = i})

\* The slots that hold a number: the first of them is one.
LEMMA FirstNamed ==
    ASSUME SafeNow, NamePrefix = {}, NEW p \in Paths, Resolve(p) # 0,
           NEW d, d = searchPath(dirname(p)), NEW i, i = Resolve(p)
    PROVE  Named(d, FirstSlot(d, i), i)
<1>1. PICK s : Named(d, s, i)
  BY PathNamed, Zenon
<1> DEFINE X == {x \in Slot : Entry(d, x).inodeNumber = i}
<1>2. s \in X
  BY <1>1 DEF Named, Holding, Entry, Volume
<1>3. X \in SUBSET Nat
  BY DEF Slot
<1>4. Min(X) \in X
  BY <1>2, <1>3, MinProperties
<1> DEFINE m == Min(X)
<1>5. m \in Slot /\ Entry(d, m).inodeNumber = i
  BY <1>4
<1> HIDE DEF m, X
<1>6. d \in Inode /\ TypeOK
  BY <1>1, BeginsWith DEF Named
<1>7. <<inode[d].directPointer[0], m>> \in Holding(Volume, i)
  BY <1>5, <1>6, SlotHolds
<1>. QED
  BY <1>1, <1>5, <1>7, Zenon DEF Named, FirstSlot, m, X

\* fs_move within a directory, and from one to another.
LEMMA BeganMove ==
    ASSUME SafeNow, NamePrefix = {}, NEW p \in Paths, NEW q \in Paths, begin_move(p, q),
           NEW d, d = searchPath(dirname(p)), NEW e, e = searchPath(dirname(q)),
           NEW i, i = Resolve(p), NEW n, n = basename(q),
           NEW S, S = NamedSlots(d, basename(p), i),
           NEW m, m = FirstSlot(d, i),
           NEW t, t = FreeSlot(e)
    PROVE  /\ MoveChecked(p, q)
           /\ \/ /\ e = d /\ S # {}
                 /\ Began(fbm, imap, inode,
                          [dblock EXCEPT ![inode[d].directPointer[0]][Min(S)].filename = n])
              \/ /\ d # e /\ t # SIZE_MAX
                 /\ Began(fbm, imap,
                          [inode EXCEPT ![e] = SetBit(inode[e], t),
                                        ![d] = ClearBit(inode[d], {m})],
                          [AddEntry(dblock, e, t, n, i) EXCEPT ![inode[d].directPointer[0]] =
                              [dblock[inode[d].directPointer[0]] EXCEPT ![m] = NoEntry]])
<1>1. PICK b : b = inode[d].directPointer[0]
  OBVIOUS
<1>2. /\ MoveChecked(p, q)
      /\ \/ /\ d = e /\ S # {}
            /\ Begin(<< PutBlock(b, [dblock[b] EXCEPT ![Min(S)].filename = n]) >>)
         \/ /\ d # e /\ t # SIZE_MAX
            /\ BeginAtRisk(i, MoveAcrossStores(d, e, m, t, n, i))
  BY <1>1, Zenon DEF begin_move, NamedSlots, FirstSlot
<1>3. Resolve(p) # 0 /\ e # SIZE_MAX
  BY <1>2, Zenon DEF MoveChecked
<1>4. n \in Names
  BY NameTypes, Zenon
<1>5. CASE /\ d = e /\ S # {}
           /\ Begin(<< PutBlock(b, [dblock[b] EXCEPT ![Min(S)].filename = n]) >>)
  <2>1. S \in SUBSET Slot /\ S \in SUBSET Nat
    BY DEF Slot, NamedSlots
  <2>2. Min(S) \in Slot
    BY <1>5, <2>1, MinProperties
  <2>3. d \in Inode
    BY <1>3, ResolveHeld, Zenon
  <2>4. PICK k : k = Min(S)
    OBVIOUS
  <2>5. Begins(harmed, harmed, OpenInodes,
               << PutBlock(b, [dblock[b] EXCEPT ![k].filename = n]) >>,
               fbm, imap, inode, [dblock EXCEPT ![b][k].filename = n])
    BY <1>1, <1>4, <2>2, <2>3, <2>4, MoveRenameBegins
  <2>6. todo' = << PutBlock(b, [dblock[b] EXCEPT ![k].filename = n]) >> /\ atRisk' = None
        /\ UNCHANGED <<vars, harmed, crashes>>
    BY <1>5, <2>4, Zenon DEF Begin
  <2>7. Began(fbm, imap, inode, [dblock EXCEPT ![b][k].filename = n])
    BY <2>5, <2>6, ExemptBegun, Zenon DEF Began
  <2>. QED
    BY <1>1, <1>2, <1>5, <2>4, <2>7
<1>6. CASE /\ d # e /\ t # SIZE_MAX
           /\ BeginAtRisk(i, MoveAcrossStores(d, e, m, t, n, i))
  <2>1. e \in Inode /\ Held(Volume, e) /\ inode[e].fileType = "d"
    BY <1>3, SearchHeld, Zenon
  <2>2. t \in Slot
    BY <1>6, AllocatorTypes
  <2>3. Named(d, m, i)
    BY <1>3, FirstNamed, Zenon
  <2>4. e \in Inode \ {d}
    BY <1>6, <2>1
  <2>5. Begins(harmed \cup {i}, harmed, OpenInodes, MoveAcrossStores(d, e, m, t, n, i), fbm, imap,
               [inode EXCEPT ![e] = SetBit(inode[e], t), ![d] = ClearBit(inode[d], {m})],
               [AddEntry(dblock, e, t, n, i) EXCEPT ![inode[d].directPointer[0]] =
                   [dblock[inode[d].directPointer[0]] EXCEPT ![m] = NoEntry]])
    BY <1>4, <2>1, <2>2, <2>3, <2>4, MoveAcrossBegins, Zenon
  <2>6. todo' = MoveAcrossStores(d, e, m, t, n, i) /\ atRisk' = i
        /\ UNCHANGED <<vars, harmed, crashes>>
    BY <1>6, Zenon DEF BeginAtRisk
  <2>7. Exempt' = harmed \cup {i}
    BY <2>3, <2>6, ExemptBegun, Zenon DEF Named
  <2>. QED
    BY <1>2, <1>6, <2>5, <2>6, <2>7, Zenon DEF Began
<1>. QED
  BY <1>2, <1>5, <1>6, Zenon

\* fs_link.
LEMMA BeganLink ==
    ASSUME SafeNow, NamePrefix = {}, NEW p \in Paths, NEW q \in Paths, begin_link(p, q), RemainsUntouched',
           NEW d, d = searchPath(dirname(q)), NEW i, i = Resolve(p),
           NEW s, s = FreeSlot(d), NEW n, n = basename(q)
    PROVE  /\ i # 0 /\ inode[i].linkCount < MaxLink /\ d # SIZE_MAX /\ s # SIZE_MAX
           /\ Unbound(q)
           /\ Began(fbm, imap,
                    [inode EXCEPT
                        ![i] = Linked(inode[i]),
                        ![d] = SetBit(IF i = d THEN Linked(inode[d]) ELSE inode[d], s)],
                    AddEntry(dblock, d, s, n, i))
<1>1. /\ i # 0 /\ inode[i].linkCount < MaxLink /\ d # SIZE_MAX /\ s # SIZE_MAX
      /\ Unbound(q)
      /\ Begin(LinkStores(d, s, n, i))
  BY Zenon DEF begin_link
<1>2. i \in Inode \ {Root} /\ Held(Volume, i)
  BY <1>1, ResolveHeld, Zenon
<1>3. d \in Inode /\ Held(Volume, d) /\ inode[d].fileType = "d"
  BY <1>1, SearchHeld, Zenon
<1>4. s \in Slot /\ n \in Names
  BY <1>1, AllocatorTypes, NameTypes
<1>5. todo' = LinkStores(d, s, n, i) /\ atRisk' = None /\ UNCHANGED <<vars, harmed, crashes>>
  BY <1>1, Zenon DEF Begin
<1>6. Untouched(LinkStores(d, s, n, i))
  BY <1>5, UntouchedNow, Zenon DEF vars
<1>7. i \notin harmed
  BY <1>6, UntouchedLink, Zenon
<1>8. Begins(harmed, harmed, OpenInodes, LinkStores(d, s, n, i), fbm, imap,
             [inode EXCEPT ![i] = Linked(inode[i]),
                           ![d] = SetBit(IF i = d THEN Linked(inode[d]) ELSE inode[d], s)],
             AddEntry(dblock, d, s, n, i))
  BY <1>2, <1>3, <1>4, <1>7, LinkBegins, Zenon
<1>. QED
  BY <1>1, <1>8, <1>5, ExemptBegun, Zenon DEF Began

\* The open inodes are fewer after a remove that failed for an open descriptor.
LEMMA FewerOpen ==
    ASSUME fd \in [Fd -> Inode \cup {Closed}], NEW f, NEW i,
           fd' = IF fd[f] = i THEN [fd EXCEPT ![f] = Closed] ELSE fd
    PROVE  OpenInodes' \in SUBSET OpenInodes
BY DEF OpenInodes, OpenFds

\* fs_remove of a file with one name, a descriptor being open.
LEMMA BeganRemoveBusy ==
    ASSUME SafeNow, NamePrefix = {}, NEW p \in Paths, begin_remove_busy(p), RemainsUntouched',
           NEW i, i = Resolve(p)
    PROVE  /\ RemoveChecked(p, "r") /\ inode[i].linkCount <= 1 /\ ~NoFdOpen
           /\ fd' = (IF fd[Min(OpenFds)] = i THEN [fd EXCEPT ![Min(OpenFds)] = Closed] ELSE fd)
           /\ torn' = (torn \/ HeldBlocks(i) # {})
           /\ UNCHANGED <<fbm, imap, inode, dblock, mounted, atRisk, harmed, crashes>>
           /\ \E A : Begins(A, A, OpenInodes', todo', fbm \ HeldBlocks(i), imap, inode, dblock)
           /\ HeldBlocks(i) = {} =>
                 Begins(harmed, harmed, OpenInodes', todo', fbm \ HeldBlocks(i), imap, inode, dblock)
           /\ OpenInodes' \in SUBSET OpenInodes
<1>1. /\ RemoveChecked(p, "r") /\ inode[i].linkCount <= 1 /\ ~NoFdOpen
      /\ fd' = (IF fd[Min(OpenFds)] = i THEN [fd EXCEPT ![Min(OpenFds)] = Closed] ELSE fd)
      /\ torn' = (torn \/ HeldBlocks(i) # {})
      /\ todo' = ReleaseStores(i)
      /\ UNCHANGED <<fbm, imap, inode, dblock, mounted, atRisk, harmed, crashes>>
  BY Zenon DEF begin_remove_busy
<1>2. Resolve(p) # 0 /\ inode[i].fileType = "r"
  BY <1>1, Zenon DEF RemoveChecked
<1>3. i \in Inode \ {Root} /\ Held(Volume, i)
  BY <1>2, ResolveHeld, Zenon
<1>4. OpenInodes' \in SUBSET OpenInodes
  BY <1>1, FewerOpen, BeginsWith DEF TypeOK
<1>5. PICK D : D = OpenInodes'
  OBVIOUS
<1>6. D \in SUBSET OpenInodes
  BY <1>4, <1>5, Zenon
<1>7. Untouched(ReleaseStores(i))
  BY <1>1, UntouchedNow, Zenon
<1>8. i \notin harmed \/ HeldBlocks(i) = {}
  BY <1>2, <1>3, <1>7, UntouchedRelease, Zenon
<1>9. Begins(harmed \cup {i}, harmed \cup {i}, D, ReleaseStores(i),
             fbm \ HeldBlocks(i), imap, inode, dblock)
  BY <1>2, <1>3, <1>6, <1>8, RemoveBusyBegins, Zenon
<1>10. HeldBlocks(i) = {} =>
         Begins(harmed, harmed, D, ReleaseStores(i), fbm \ HeldBlocks(i), imap, inode, dblock)
  BY <1>2, <1>3, <1>6, <1>8, RemoveBusyBegins, Zenon
<1>. QED
  BY <1>1, <1>4, <1>5, <1>9, <1>10, Zenon

-----------------------------------------------------------------------------
(* The invariant *)

\* The volume is safe; inside a call that leaves alone what a crash has harmed,
\* what the stores still to come make of it is safe too, after each of them.
StoresInv ==
    /\ crashes \in Nat
    /\ torn \in BOOLEAN
    /\ mounted \in BOOLEAN
    /\ fd \in [Fd -> Inode \cup {Closed}]
    /\ ~torn =>
         /\ Safe(Volume, Exempt, OpenInodes)
         /\ todo = <<>> => atRisk = None
         /\ RemainsUntouched /\ todo # <<>> =>
               /\ todo \in Seq(StoreSet)
               /\ \E w : SafeRun(Volume, Exempt, harmed, OpenInodes, todo, w)

\* Before a call: what the lemmas about the calls ask for.
LEMMA BetweenCalls ==
    ASSUME StoresInv, Whole, todo = <<>>
    PROVE  SafeNow /\ atRisk = None /\ Exempt = harmed
<1>1. atRisk = None /\ Exempt = harmed
  BY DEF StoresInv, Whole, Exempt
<1>2. Safe(Volume, harmed, OpenInodes)
  BY <1>1 DEF StoresInv, Whole
<1>3. Volume \in VolumeType
  BY <1>2 DEF Safe
<1>4. TypeOK
  BY <1>3 DEF StoresInv, VolumeType, Volume, TypeOK
<1>. QED
  BY <1>1, <1>2, <1>4 DEF SafeNow

\* Other descriptors are open.
LEMMA SafeOpen ==
    ASSUME NEW v, NEW A, NEW D, Safe(v, A, D), NEW E, OpenSafe(v, A, E)
    PROVE  Safe(v, A, E)
BY DEF Safe

\* No descriptor is open.
LEMMA NoneOpen ==
    /\ fd = NoFds => OpenInodes = {}
    /\ NoFds \in [Fd -> Inode \cup {Closed}]
<1>1. fd = NoFds => OpenFds = {}
  BY DEF OpenFds, NoFds
<1>. QED
  BY <1>1, RecordTypes DEF OpenInodes

\* The volume that fs_format makes is safe.
LEMMA FreshSafe ==
    ASSUME NEW v, Parts(v, 0 .. RootBlock, {Root}, FreshTable, [b \in Block |-> ZeroBlock]),
           v = Vol(v.fbm, v.imap, v.inode, v.dblock)
    PROVE  Safe(v, {}, {})
<1>1. v \in VolumeType
  <2>1. v.fbm \in SUBSET Block /\ v.imap \in SUBSET Inode /\ v.inode \in [Inode -> InodeRecord]
    BY ConstantTypes, RecordTypes DEF Parts
  <2>2. v.dblock \in [Block -> [Slot -> Dentry]]
    BY RecordTypes DEF Parts
  <2>. QED
    BY <2>1, <2>2 DEF Vol, VolumeType
<1>2. \A i \in Inode : v.inode[i] = IF i = Root THEN DirRecord(RootBlock) ELSE ZeroInode
  BY DEF Parts, FreshTable
<1>3. \A i \in Inode \ {Root} : Holding(v, i) = {}
  BY DEF Parts, Holding, ZeroBlock, NoEntry, Root
<1>4. \A i \in Inode : Held(v, i) => i = Root
  BY <1>2, <1>3 DEF Held, DirRecord, ZeroInode
<1>5. /\ v.inode[Root].fileType = "d"
      /\ ClaimsOf(v.inode[Root]) = {RootBlock}
  <2>1. v.inode[Root] = DirRecord(RootBlock)
    BY <1>2, ConstantTypes
  <2>2. DirRecord(RootBlock).directPointer[0] = RootBlock
    BY ConstantTypes DEF DirRecord, NoPointers
  <2>. QED
    BY <2>1, <2>2 DEF DirRecord, ClaimsOf
<1>6. RootSafe(v)
  BY <1>5 DEF RootSafe, Parts, Meta, RootBlock
<1>7. HeldMarked(v, {})
  BY <1>4 DEF HeldMarked, Parts
<1>8. CountsCover(v, {})
  <2>1. \A i \in Inode \ {Root} : Cardinality(Holding(v, i)) <= v.inode[i].linkCount
    <3>1. TAKE i \in Inode \ {Root}
    <3>2. Holding(v, i) = {} /\ v.inode[i] = ZeroInode
      BY <1>2, <1>3
    <3>3. Cardinality({}) = 0
      BY FS_EmptySet
    <3>4. ZeroInode.linkCount = 0
      BY DEF ZeroInode
    <3>. QED
      BY <3>2, <3>3, <3>4
  <2>. QED
    BY <2>1 DEF CountsCover
<1>9. ClaimsMarked(v, {})
  <2>1. {RootBlock} \subseteq v.fbm \ Meta
    BY DEF Parts, Meta, RootBlock
  <2>. QED
    BY <1>4, <1>5, <2>1 DEF ClaimsMarked
<1>10. ClaimsApart(v)
  BY <1>4 DEF ClaimsApart
<1>. QED
  BY <1>1, <1>6, <1>7, <1>8, <1>9, <1>10 DEF Safe, OpenSafe

\* It is what a behavior begins with.
LEMMA StoresInvInit ==
    ASSUME StoresInit
    PROVE  StoresInv
<1>1. /\ fbm = 0 .. RootBlock /\ imap = {Root} /\ inode = FreshTable
      /\ dblock = [b \in Block |-> ZeroBlock]
      /\ fd = NoFds /\ mounted = TRUE /\ torn = FALSE
      /\ todo = <<>> /\ atRisk = None /\ harmed = {} /\ crashes = 0
  BY DEF StoresInit, Init
<1>2. PICK v : v = Volume
  OBVIOUS
<1>3. /\ Parts(v, 0 .. RootBlock, {Root}, FreshTable, [b \in Block |-> ZeroBlock])
      /\ v = Vol(v.fbm, v.imap, v.inode, v.dblock)
  BY <1>1, <1>2 DEF Volume, Parts, Vol
<1>4. Safe(v, {}, {})
  BY <1>3, FreshSafe, Zenon
<1>5. OpenInodes = {} /\ fd \in [Fd -> Inode \cup {Closed}]
  BY <1>1, NoneOpen
<1>6. Safe(Volume, Exempt, OpenInodes)
  BY <1>1, <1>2, <1>4, <1>5, Zenon DEF Exempt
<1>7. 0 \in Nat /\ TRUE \in BOOLEAN /\ FALSE \in BOOLEAN
  OBVIOUS
<1>. QED
  BY <1>1, <1>5, <1>6, <1>7, Zenon DEF StoresInv

\* What the last store leaves.
LEMMA RunOver ==
    ASSUME NEW A, NEW C, NEW D, NEW v, NEW w, SafeRun(v, A, C, D, <<>>, w)
    PROVE  w = v /\ Safe(v, C, D)
<1>1. PICK h : IsTrace(h, v, <<>>) /\ h[Len(<<>>)] = w
  BY Zenon DEF SafeRun
<1>2. Len(<<>>) = 0
  OBVIOUS
<1>3. h[0] = v
  BY <1>1, <1>2 DEF IsTrace
<1>4. Safe(w, C, D)
  BY Zenon DEF SafeRun
<1>. QED
  BY <1>1, <1>2, <1>3, <1>4

\* The last of a list is its one element.
LEMMA LastStore ==
    ASSUME NEW S, NEW q \in Seq(S), q # <<>>
    PROVE  /\ Tail(q) \in Seq(S)
           /\ Len(q) = 1 <=> Tail(q) = <<>>
<1>1. Tail(q) \in Seq(S) /\ Len(Tail(q)) = Len(q) - 1 /\ Len(q) \in Nat
  OBVIOUS
<1>2. \A r \in Seq(S) : r = <<>> <=> Len(r) = 0
  OBVIOUS
<1>. QED
  BY <1>1, <1>2

\* The next store: the volume it makes, and what is left of the call.
LEMMA StoreMade ==
    ASSUME StoresInv, Whole, todo # <<>>, NEW w,
           SafeRun(Volume, Exempt, harmed, OpenInodes, todo, w), Store
    PROVE  /\ Volume' = Stored(Volume, Head(todo))
           /\ Safe(Volume', IF Tail(todo) = <<>> THEN harmed ELSE Exempt, OpenInodes)
           /\ SafeRun(Volume', Exempt, harmed, OpenInodes, Tail(todo), w)
           /\ Tail(todo) \in Seq(StoreSet)
           /\ Len(todo) = 1 <=> Tail(todo) = <<>>
<1>1. todo \in Seq(StoreSet)
  BY DEF StoresInv, Whole
<1>2. PICK v : v = Stored(Volume, Head(todo))
  OBVIOUS
<1>3. PICK q : q = Tail(todo)
  OBVIOUS
<1>4. SafeRun(v, Exempt, harmed, OpenInodes, q, w)
  BY <1>1, <1>2, <1>3, RunTail, Zenon
<1>5. q \in Seq(StoreSet) /\ (Len(todo) = 1 <=> q = <<>>)
  BY <1>1, <1>3, LastStore
<1>6. Safe(v, IF q = <<>> THEN harmed ELSE Exempt, OpenInodes)
  <2>1. CASE q = <<>>
    <3>1. SafeRun(v, Exempt, harmed, OpenInodes, <<>>, w)
      BY <1>4, <2>1
    <3>2. Safe(v, harmed, OpenInodes)
      BY <3>1, RunOver, Zenon
    <3>. QED
      BY <2>1, <3>2, Zenon
  <2>2. CASE q # <<>>
    <3>1. Safe(v, Exempt, OpenInodes)
      BY <1>4, <1>5, <2>2, RunTail, Zenon
    <3>. QED
      BY <2>2, <3>1, Zenon
  <2>. QED
    BY <2>1, <2>2, Zenon
<1>7. v \in VolumeType
  BY <1>6 DEF Safe
<1>8. fbm' = v.fbm /\ imap' = v.imap /\ inode' = v.inode /\ dblock' = v.dblock
  BY <1>2 DEF Store
<1>9. Volume' = v
  BY <1>7, <1>8 DEF Volume, VolumeType
<1>. QED
  BY <1>2, <1>4, <1>3, <1>5, <1>6, <1>9, Zenon

\* The next store keeps the invariant.
LEMMA StoreKeeps ==
    ASSUME StoresInv, Whole, Store
    PROVE  StoresInv'
<1>1. todo # <<>>
  BY DEF Store
<1>2. PICK w : SafeRun(Volume, Exempt, harmed, OpenInodes, todo, w)
  BY <1>1, Zenon DEF StoresInv, Whole
<1>3. /\ todo' = Tail(todo)
      /\ atRisk' = IF Len(todo) = 1 THEN None ELSE atRisk
      /\ UNCHANGED <<fd, mounted, torn, harmed, crashes>>
  BY DEF Store
<1>4. /\ Safe(Volume', IF Tail(todo) = <<>> THEN harmed ELSE Exempt, OpenInodes)
      /\ SafeRun(Volume', Exempt, harmed, OpenInodes, Tail(todo), w)
      /\ Tail(todo) \in Seq(StoreSet)
      /\ Len(todo) = 1 <=> Tail(todo) = <<>>
  BY <1>1, <1>2, StoreMade, Zenon
<1>5. OpenInodes' = OpenInodes
  BY <1>3 DEF OpenInodes, OpenFds
<1>6. /\ todo' = <<>> => atRisk' = None
      /\ Exempt' = IF todo' = <<>> THEN harmed ELSE Exempt
  BY <1>3, <1>4 DEF Exempt
<1>7. Safe(Volume', Exempt', OpenInodes')
  BY <1>3, <1>4, <1>5, <1>6, Zenon
<1>8. todo' # <<>> => SafeRun(Volume', Exempt', harmed', OpenInodes', todo', w)
  BY <1>3, <1>4, <1>5, <1>6, Zenon
<1>9. /\ crashes' \in Nat /\ torn' \in BOOLEAN /\ mounted' \in BOOLEAN
      /\ fd' \in [Fd -> Inode \cup {Closed}]
      /\ todo' \in Seq(StoreSet)
  BY <1>3, <1>4 DEF StoresInv
<1>. QED
  BY <1>6, <1>7, <1>8, <1>9, Zenon DEF StoresInv

\* So does a crash: the volume was safe as it is, and no descriptor is left.
LEMMA CrashKeeps ==
    ASSUME StoresInv, Whole, Crash
    PROVE  StoresInv'
<1>1. /\ todo' = <<>> /\ fd' = NoFds /\ mounted' = FALSE
      /\ crashes' = crashes + 1 /\ atRisk' = None /\ harmed' = Exempt /\ torn' = torn
      /\ Volume' = Volume
  BY DEF Crash, Volume
<1>2. Safe(Volume, Exempt, OpenInodes)
  BY DEF StoresInv, Whole
<1>3. OpenInodes' = {}
  BY <1>1, NoneOpen DEF OpenInodes, OpenFds, NoFds
<1>4. {} \in SUBSET OpenInodes
  OBVIOUS
<1>5. Safe(Volume, Exempt, {})
  BY <1>2, <1>4, SafeRisk, Zenon
<1>6. Exempt' = Exempt
  BY <1>1 DEF Exempt
<1>7. Safe(Volume', Exempt', OpenInodes')
  BY <1>1, <1>3, <1>5, <1>6, Zenon
<1>8. crashes' \in Nat /\ torn' \in BOOLEAN /\ mounted' \in BOOLEAN
      /\ fd' \in [Fd -> Inode \cup {Closed}]
  <2>1. crashes \in Nat /\ torn \in BOOLEAN
    BY DEF StoresInv
  <2>2. crashes' \in Nat
    BY <1>1, <2>1
  <2>. QED
    BY <1>1, <2>1, <2>2, NoneOpen
<1>. QED
  BY <1>1, <1>7, <1>8, Zenon DEF StoresInv

\* So do the calls that store nothing, or all at once.
LEMMA OneStepKeeps ==
    ASSUME StoresInv, Whole, NamePrefix = {}, OneStep
    PROVE  StoresInv'
<1>1. todo = <<>> /\ todo' = <<>> /\ crashes' = crashes /\ atRisk' = atRisk
  BY DEF OneStep
<1>2. SafeNow /\ TypeOK /\ Safe(Volume, harmed, OpenInodes) /\ atRisk = None
  BY <1>1, BetweenCalls DEF SafeNow
<1>3. Exempt' = harmed' /\ crashes \in Nat
  BY <1>1, <1>2 DEF StoresInv, Exempt
<1>4. SUFFICES /\ torn' \in BOOLEAN /\ mounted' \in BOOLEAN
               /\ fd' \in [Fd -> Inode \cup {Closed}]
               /\ Safe(Volume', harmed', OpenInodes')
  BY <1>1, <1>2, <1>3, Zenon DEF StoresInv
<1>5. CASE fs_format /\ harmed' = {}
  <2>1. /\ fbm' = 0 .. RootBlock /\ imap' = {Root} /\ inode' = FreshTable
        /\ dblock' = [b \in Block |-> ZeroBlock]
        /\ fd' = NoFds /\ mounted' = TRUE /\ torn' = FALSE
    BY <1>5 DEF fs_format
  <2>2. Safe(Volume', {}, {})
    BY <2>1, FreshSafe DEF Volume, Parts, Vol
  <2>3. OpenInodes' = {}
    BY <2>1 DEF OpenInodes, OpenFds, NoFds
  <2>. QED
    BY <1>5, <2>1, <2>2, <2>3, NoneOpen
<1>6. CASE (fs_mount \/ fs_unmount) /\ UNCHANGED harmed
  <2>1. fd' = NoFds /\ mounted' \in BOOLEAN /\ torn' = torn /\ Volume' = Volume
    BY <1>6 DEF fs_mount, fs_unmount, Volume
  <2>2. OpenInodes' = {}
    BY <2>1 DEF OpenInodes, OpenFds, NoFds
  <2>3. {} \in SUBSET OpenInodes
    OBVIOUS
  <2>4. Safe(Volume, harmed, {})
    BY <1>2, <2>3, SafeRisk, Zenon
  <2>5. Safe(Volume', harmed', OpenInodes')
    BY <1>2, <1>6, <2>1, <2>2, <2>4, Zenon
  <2>. QED
    BY <2>1, <2>5, NoneOpen DEF StoresInv
<1>7. ASSUME NEW p \in Bound, fs_open(p), UNCHANGED harmed
      PROVE  /\ torn' \in BOOLEAN /\ mounted' \in BOOLEAN
             /\ fd' \in [Fd -> Inode \cup {Closed}]
             /\ Safe(Volume', harmed', OpenInodes')
  <2>1. PICK i : i = Resolve(p)
    OBVIOUS
  <2>2. PICK f : f = bitmap_ffz(OpenFds, NumFds)
    OBVIOUS
  <2>3. /\ i # 0 /\ inode[i].fileType # "d" /\ f \in Fd
        /\ fd' = [fd EXCEPT ![f] = i]
        /\ mounted' = mounted /\ torn' = torn /\ Volume' = Volume
    BY <1>7, <2>1, <2>2, AllocatorTypes DEF fs_open, Volume
  <2>4. p \in Paths
    BY DEF Bound
  <2>5. i \in Inode \ {Root} /\ Held(Volume, i)
    BY <1>2, <2>1, <2>3, <2>4, ResolveHeld, Zenon
  <2>6. i \in harmed \/ i \in imap
    BY <1>2, <2>5 DEF Safe, HeldMarked, Volume
  <2>7. fd' \in [Fd -> Inode \cup {Closed}]
    BY <1>2, <2>3, <2>5 DEF TypeOK
  <2>8. OpenInodes' \subseteq OpenInodes \cup {i}
    BY <1>2, <2>3 DEF OpenInodes, OpenFds, TypeOK
  <2>9. OpenSafe(Volume, harmed, OpenInodes) /\ Parts(Volume, fbm, imap, inode, dblock)
    BY <1>2, VolumeParts DEF Safe
  <2>10. OpenSafe(Volume, harmed, OpenInodes')
    BY <2>3, <2>6, <2>8, <2>9 DEF OpenSafe, Parts
  <2>11. PICK D : D = OpenInodes'
    OBVIOUS
  <2>12. Safe(Volume, harmed, D)
    BY <1>2, <2>10, <2>11, SafeOpen, Zenon
  <2>13. Safe(Volume', harmed', OpenInodes')
    BY <1>2, <1>7, <2>3, <2>11, <2>12, Zenon
  <2>. QED
    BY <2>3, <2>7, <2>13 DEF StoresInv
<1>8. ASSUME NEW f \in Fd, fs_close(f), UNCHANGED harmed
      PROVE  /\ torn' \in BOOLEAN /\ mounted' \in BOOLEAN
             /\ fd' \in [Fd -> Inode \cup {Closed}]
             /\ Safe(Volume', harmed', OpenInodes')
  <2>1. /\ fd' = [fd EXCEPT ![f] = Closed]
        /\ mounted' = mounted /\ torn' = torn /\ Volume' = Volume
    BY <1>8 DEF fs_close, Volume
  <2>2. OpenInodes' \in SUBSET OpenInodes
    BY <1>2, <2>1 DEF OpenInodes, OpenFds, TypeOK
  <2>3. fd' \in [Fd -> Inode \cup {Closed}]
    BY <1>2, <2>1 DEF TypeOK
  <2>4. PICK D : D = OpenInodes'
    OBVIOUS
  <2>5. Safe(Volume, harmed, D)
    BY <1>2, <2>2, <2>4, SafeRisk, Zenon
  <2>6. Safe(Volume', harmed', OpenInodes')
    BY <1>2, <1>8, <2>1, <2>4, <2>5, Zenon
  <2>. QED
    BY <2>1, <2>3, <2>6 DEF StoresInv
<1>. QED
  BY <1>5, <1>6, <1>7, <1>8, Zenon DEF OneStep

\* A call that has begun with a list of stores.
LEMMA BeganKeeps ==
    ASSUME StoresInv, NEW F, NEW M, NEW I, NEW B, Began(F, M, I, B)
    PROVE  StoresInv'
<1>1. /\ UNCHANGED <<vars, harmed, crashes>>
      /\ todo' \in Seq(StoreSet) /\ todo' # <<>>
  BY Zenon DEF Began, Begins
<1>2. PICK w : SafeRun(Volume, Exempt', harmed, OpenInodes, todo', w)
  BY Zenon DEF Began, Begins
<1>3. /\ Volume' = Volume /\ OpenInodes' = OpenInodes /\ harmed' = harmed
      /\ fd' = fd /\ mounted' = mounted /\ torn' = torn /\ crashes' = crashes
  BY <1>1 DEF vars, Volume, OpenInodes, OpenFds
<1>4. /\ crashes' \in Nat /\ torn' \in BOOLEAN /\ mounted' \in BOOLEAN
      /\ fd' \in [Fd -> Inode \cup {Closed}]
  BY <1>3 DEF StoresInv
<1>5. SafeRun(Volume', Exempt', harmed', OpenInodes', todo', w)
  BY <1>2, <1>3, Zenon
<1>6. Safe(Volume, Exempt', OpenInodes)
  BY <1>1, <1>2, RunTail, Zenon
<1>7. Safe(Volume', Exempt', OpenInodes')
  BY <1>3, <1>6, Zenon
<1>. QED
  BY <1>1, <1>4, <1>5, <1>7, Zenon DEF StoresInv

\* What no call changes when it begins.
LEMMA BeginFrame ==
    ASSUME TypeOK, BeginCall
    PROVE  /\ UNCHANGED <<fbm, imap, inode, dblock, mounted, harmed, crashes>>
           /\ torn' \in BOOLEAN
           /\ fd' \in [Fd -> Inode \cup {Closed}]
           /\ OpenInodes' \in SUBSET OpenInodes
<1>1. CASE /\ UNCHANGED <<vars, harmed, crashes>>
  <2>1. fd' = fd /\ torn' = torn
    BY <1>1 DEF vars
  <2>2. OpenInodes' = OpenInodes
    BY <2>1 DEF OpenInodes, OpenFds
  <2>. QED
    BY <1>1, <2>1, <2>2 DEF vars, TypeOK
<1>2. ASSUME NEW p \in Bound, begin_remove_busy(p)
      PROVE  /\ UNCHANGED <<fbm, imap, inode, dblock, mounted, harmed, crashes>>
             /\ torn' \in BOOLEAN
             /\ fd' \in [Fd -> Inode \cup {Closed}]
             /\ OpenInodes' \in SUBSET OpenInodes
  <2>1. PICK i : i = Resolve(p)
    OBVIOUS
  <2>2. PICK f : f = Min(OpenFds)
    OBVIOUS
  <2>3. /\ fd' = (IF fd[f] = i THEN [fd EXCEPT ![f] = Closed] ELSE fd)
        /\ torn' = (torn \/ HeldBlocks(i) # {})
        /\ UNCHANGED <<fbm, imap, inode, dblock, mounted, harmed, crashes>>
    BY <1>2, <2>1, <2>2, Zenon DEF begin_remove_busy
  <2>4. fd \in [Fd -> Inode \cup {Closed}]
    BY DEF TypeOK
  <2>5. OpenInodes' \in SUBSET OpenInodes
    BY <2>3, <2>4, FewerOpen, Zenon
  <2>6. fd' \in [Fd -> Inode \cup {Closed}]
    BY <2>3, <2>4
  <2>7. torn' \in BOOLEAN
    BY <2>3
  <2>. QED
    BY <2>3, <2>5, <2>6, <2>7, Zenon
<1>3. ASSUME NEW p, begin_create_file(p) \/ begin_create_dir(p) \/ begin_remove_dir(p)
                    \/ begin_remove_file(p)
      PROVE  UNCHANGED <<vars, harmed, crashes>>
  BY <1>3, Zenon DEF begin_create_file, begin_create_dir, begin_remove_dir,
                     begin_remove_file, Begin, BeginAtRisk
<1>4. ASSUME NEW p, NEW q, begin_move(p, q) \/ begin_link(p, q) \/ begin_write(p, q)
      PROVE  UNCHANGED <<vars, harmed, crashes>>
  BY <1>4, Zenon DEF begin_move, begin_link, begin_write, Begin, BeginAtRisk
<1>. QED
  BY <1>1, <1>2, <1>3, <1>4, Zenon DEF BeginCall

\* A call that will store to the remains is followed no further.
LEMMA TouchKeeps ==
    ASSUME StoresInv, Whole, BeginCall, ~RemainsUntouched'
    PROVE  StoresInv'
<1>1. SafeNow /\ TypeOK /\ Safe(Volume, harmed, OpenInodes)
  BY BetweenCalls DEF BeginCall, SafeNow
<1>2. /\ UNCHANGED <<fbm, imap, inode, dblock, mounted, harmed, crashes>>
      /\ torn' \in BOOLEAN
      /\ fd' \in [Fd -> Inode \cup {Closed}]
      /\ OpenInodes' \in SUBSET OpenInodes
  BY <1>1, BeginFrame, Zenon
<1>3. crashes' \in Nat /\ mounted' \in BOOLEAN
  BY <1>2 DEF StoresInv
<1>4. harmed \subseteq Exempt'
  BY <1>2 DEF Exempt
<1>5. PICK D : D = OpenInodes'
  OBVIOUS
<1>6. PICK A : A = Exempt'
  OBVIOUS
<1>7. Safe(Volume, harmed, D)
  BY <1>1, <1>2, <1>5, SafeRisk, Zenon
<1>8. Safe(Volume, A, D)
  BY <1>4, <1>6, <1>7, SafeRisk, Zenon
<1>9. Volume' = Volume
  BY <1>2 DEF Volume
<1>10. Safe(Volume', Exempt', OpenInodes')
  BY <1>5, <1>6, <1>8, <1>9, Zenon
<1>11. todo' # <<>>
  BY DEF RemainsUntouched
<1>. QED
  BY <1>2, <1>3, <1>10, <1>11, Zenon DEF StoresInv

\* So does the beginning of a call.
LEMMA BeginKeeps ==
    ASSUME StoresInv, Whole, NamePrefix = {}, BeginCall
    PROVE  StoresInv'
<1>1. SUFFICES ASSUME RemainsUntouched'
               PROVE  StoresInv'
  BY TouchKeeps, Zenon
<1>2. SafeNow /\ ~torn /\ atRisk = None /\ TypeOK
  BY BetweenCalls DEF BeginCall, Whole, SafeNow
<1>3. ASSUME NEW p \in Paths, begin_create_file(p)
      PROVE  StoresInv'
  BY <1>2, <1>3, <1>1, BeganCreateFile, BeganKeeps, Zenon
<1>4. ASSUME NEW p \in Paths, begin_create_dir(p)
      PROVE  StoresInv'
  BY <1>2, <1>4, <1>1, BeganCreateDir, BeganKeeps, Zenon
<1>5. ASSUME NEW p \in Paths, begin_remove_dir(p)
      PROVE  StoresInv'
  BY <1>2, <1>5, <1>1, BeganRemoveDir, BeganKeeps, Zenon
<1>6. ASSUME NEW p \in Paths, begin_remove_file(p)
      PROVE  StoresInv'
  BY <1>2, <1>6, <1>1, BeganRemoveFile, BeganKeeps, Zenon
<1>7. ASSUME NEW p \in Paths, begin_remove_busy(p)
      PROVE  StoresInv'
  <2>1. PICK i : i = Resolve(p)
    OBVIOUS
  <2>2. /\ fd' = (IF fd[Min(OpenFds)] = i THEN [fd EXCEPT ![Min(OpenFds)] = Closed] ELSE fd)
        /\ torn' = (torn \/ HeldBlocks(i) # {})
        /\ UNCHANGED <<fbm, imap, inode, dblock, mounted, atRisk, harmed, crashes>>
        /\ HeldBlocks(i) = {} =>
              Begins(harmed, harmed, OpenInodes', todo', fbm \ HeldBlocks(i), imap, inode, dblock)
    BY <1>2, <1>7, <2>1, <1>1, BeganRemoveBusy, Zenon
  <2>3. crashes' \in Nat /\ mounted' \in BOOLEAN /\ fd' \in [Fd -> Inode \cup {Closed}]
    <3>1. Closed \in Inode \cup {Closed}
      OBVIOUS
    <3>. QED
      BY <2>2, <3>1 DEF StoresInv
  <2>4. torn' \in BOOLEAN
    BY <2>2
  <2>5. Volume' = Volume
    BY <2>2 DEF Volume
  <2>6. CASE ~torn'
    <3>1. HeldBlocks(i) = {}
      BY <2>2, <2>6, Zenon
    <3>2. /\ todo' \in Seq(StoreSet) /\ todo' # <<>>
          /\ \E w : SafeRun(Volume, harmed, harmed, OpenInodes', todo', w)
      BY <2>2, <3>1, Zenon DEF Begins
    <3>3. Exempt' = harmed /\ harmed' = harmed
      BY <1>2, <2>2 DEF Exempt
    <3>4. PICK w : SafeRun(Volume', Exempt', harmed', OpenInodes', todo', w)
      BY <2>5, <3>2, <3>3, Zenon
    <3>5. Safe(Volume', Exempt', OpenInodes')
      BY <3>2, <3>4, RunTail, Zenon
    <3>. QED
      BY <2>3, <2>4, <3>2, <3>4, <3>5, Zenon DEF StoresInv
  <2>7. CASE torn'
    BY <2>3, <2>4, <2>7, Zenon DEF StoresInv
  <2>. QED
    BY <2>6, <2>7, Zenon
<1>8. ASSUME NEW p \in Paths, NEW q \in Paths, begin_move(p, q)
      PROVE  StoresInv'
  <2> DEFINE d == searchPath(dirname(p))
             e == searchPath(dirname(q))
             i == Resolve(p)
             n == basename(q)
             S == NamedSlots(d, basename(p), i)
             m == FirstSlot(d, i)
             t == FreeSlot(e)
  <2>1. \/ Began(fbm, imap, inode,
                 [dblock EXCEPT ![inode[d].directPointer[0]][Min(S)].filename = n])
        \/ Began(fbm, imap,
                 [inode EXCEPT ![e] = SetBit(inode[e], t), ![d] = ClearBit(inode[d], {m})],
                 [AddEntry(dblock, e, t, n, i) EXCEPT ![inode[d].directPointer[0]] =
                     [dblock[inode[d].directPointer[0]] EXCEPT ![m] = NoEntry]])
    BY <1>2, <1>8, BeganMove, Zenon
  <2>. QED
    BY <2>1, BeganKeeps, Zenon
<1>9. ASSUME NEW p \in Paths, NEW q \in Paths, begin_link(p, q)
      PROVE  StoresInv'
  <2>1. \E F, M, I, B : Began(F, M, I, B)
    BY <1>2, <1>9, <1>1, BeganLink
  <2>. QED
    BY <2>1, BeganKeeps, Zenon
<1>10. ASSUME NEW f \in Fd, NEW k \in Order, begin_write(f, k)
      PROVE  StoresInv'
  BY <1>2, <1>10, <1>1, BeganWrite, BeganKeeps, Zenon
<1>11. Bound \subseteq Paths /\ NotBound \subseteq Paths
  BY DEF Bound, NotBound
<1>. QED
  BY <1>3, <1>4, <1>5, <1>6, <1>7, <1>8, <1>9, <1>10, <1>11, Zenon DEF BeginCall

\* Every step keeps the invariant.
LEMMA StoresInvStep ==
    ASSUME StoresInv, NamePrefix = {}, [Whole /\ StoresNext]_storesVars
    PROVE  StoresInv'
<1>1. CASE UNCHANGED storesVars
  <2>1. /\ Volume' = Volume /\ OpenInodes' = OpenInodes /\ todo' = todo /\ atRisk' = atRisk
        /\ fd' = fd /\ mounted' = mounted /\ torn' = torn /\ crashes' = crashes
        /\ harmed' = harmed /\ Exempt' = Exempt
    BY <1>1 DEF storesVars, vars, Volume, OpenInodes, OpenFds, Exempt
  <2>2. RemainsUntouched' <=> RemainsUntouched
    BY <1>1 DEF storesVars, vars, RemainsUntouched, Remains, Claims
  <2>. QED
    BY <2>1, <2>2, Zenon DEF StoresInv
<1>2. ASSUME Whole, Store
      PROVE  StoresInv'
  BY <1>2, StoreKeeps, Zenon
<1>3. ASSUME Whole, Crash
      PROVE  StoresInv'
  BY <1>3, CrashKeeps, Zenon
<1>4. ASSUME Whole, OneStep
      PROVE  StoresInv'
  BY <1>4, OneStepKeeps, Zenon
<1>5. ASSUME Whole, BeginCall
      PROVE  StoresInv'
  BY <1>5, BeginKeeps, Zenon
<1>. QED
  BY <1>1, <1>2, <1>3, <1>4, <1>5, Zenon DEF StoresNext

\* It is what the runs check.
LEMMA StoresInvSafe ==
    ASSUME StoresInv
    PROVE  CrashSafe
BY Zenon DEF StoresInv, CrashSafe

\* The entries that hold an inode are in as many slots that hold it.
LEMMA RefsHeld ==
    ASSUME NEW A, Safe(Volume, A, OpenInodes), NEW i
    PROVE  /\ Cardinality(Refs(i)) <= Cardinality(Holding(Volume, i))
           /\ Cardinality(Refs(i)) \in Nat
           /\ Refs(i) # {} => Held(Volume, i)
<1> DEFINE x == [r \in Refs(i) |-> <<inode[r[1]].directPointer[0], r[2]>>]
<1>1. /\ inode \in [Inode -> InodeRecord]
      /\ dblock \in [Block -> [Slot -> Dentry]]
  BY DEF Safe, VolumeType, Volume
<1>2. \A r \in Refs(i) : /\ r \in Inode \X Slot
                         /\ inode[r[1]].fileType = "d"
                         /\ r[2] \in inode[r[1]].vacantFile
                         /\ Entry(r[1], r[2]).inodeNumber = i
  BY DEF Refs, EntriesInUse
<1>3. \A d \in Inode : inode[d].directPointer[0] \in Block
  BY <1>1, ConstantTypes DEF InodeRecord
<1>4. \A r \in Refs(i) : x[r] \in Holding(Volume, i)
  BY <1>2, <1>3 DEF Holding, Volume, Entry
<1>5. \A r, t \in Refs(i) : x[r] = x[t] => r = t
  <2>1. TAKE r \in Refs(i), t \in Refs(i)
  <2>2. HAVE x[r] = x[t]
  <2>3. inode[r[1]].directPointer[0] = inode[t[1]].directPointer[0] /\ r[2] = t[2]
    BY <2>2
  <2>4. /\ r[1] \in Inode /\ t[1] \in Inode
        /\ Held(Volume, r[1]) /\ Held(Volume, t[1])
        /\ ClaimsOf(inode[r[1]]) = {inode[r[1]].directPointer[0]}
        /\ ClaimsOf(inode[t[1]]) = {inode[t[1]].directPointer[0]}
    BY <1>2 DEF Held, ClaimsOf, Volume
  <2>5. ClaimsApart(Volume)
    BY DEF Safe
  <2>6. r[1] = t[1]
    BY <2>3, <2>4, <2>5 DEF ClaimsApart, Volume
  <2>7. r = <<r[1], r[2]>> /\ t = <<t[1], t[2]>>
    BY <1>2
  <2>. QED
    BY <2>3, <2>6, <2>7
<1>6. x \in Injection(Refs(i), Holding(Volume, i))
  <2>1. x \in [Refs(i) -> Holding(Volume, i)]
    BY <1>4
  <2>2. IsInjective(x)
    BY <1>5 DEF IsInjective
  <2>. QED
    BY <2>1, <2>2 DEF Injection
<1>7. IsFiniteSet(Holding(Volume, i))
  BY HoldingFinite
<1>8. IsFiniteSet(Refs(i)) /\ Cardinality(Refs(i)) <= Cardinality(Holding(Volume, i))
  BY <1>6, <1>7, FS_Injection
<1>9. Refs(i) # {} => Held(Volume, i)
  BY <1>4 DEF Held
<1>. QED
  BY <1>8, <1>9, FS_CardinalityType

\* What is safe keeps the entries.
LEMMA SafeEntries ==
    CrashSafe => CrashKeepsEntries
<1>1. SUFFICES ASSUME ~torn, Safe(Volume, Exempt, OpenInodes),
                      NEW i \in Inode \ Exempt, Live(i)
               PROVE  /\ i \in imap
                      /\ i # Root => Cardinality(Refs(i)) <= inode[i].linkCount
  BY Zenon DEF CrashSafe, CrashKeepsEntries
<1>2. Held(Volume, i)
  BY <1>1, RefsHeld DEF Live, Held
<1>3. i \in imap
  BY <1>1, <1>2 DEF Safe, HeldMarked, Volume
<1>4. ASSUME i # Root
      PROVE  Cardinality(Refs(i)) <= inode[i].linkCount
  <2>1. Cardinality(Holding(Volume, i)) <= inode[i].linkCount
    BY <1>1, <1>4 DEF Safe, CountsCover, Volume
  <2>2. inode[i].linkCount \in Nat
    BY <1>1 DEF Safe, VolumeType, Volume, InodeRecord
  <2>3. Cardinality(Holding(Volume, i)) \in Nat
    BY HoldingFinite
  <2>. QED
    BY <1>1, <2>1, <2>2, <2>3, RefsHeld
<1>. QED
  BY <1>3, <1>4

\* It keeps the blocks.
LEMMA SafeBlocks ==
    CrashSafe => CrashKeepsBlocks
<1>1. \A i \in Inode : Claims(i) = ClaimsOf(Volume.inode[i])
  BY DEF Claims, ClaimsOf, Volume
<1>2. ASSUME ~torn, Safe(Volume, Exempt, OpenInodes)
      PROVE  \A i \in Inode : Live(i) => Held(Volume, i)
  BY <1>2, RefsHeld DEF Live, Held
<1>3. ASSUME ~torn, Safe(Volume, Exempt, OpenInodes), NEW i \in Inode, Live(i), i \notin Exempt
      PROVE  Claims(i) \subseteq fbm \ Meta
  <2>1. ClaimsMarked(Volume, Exempt) /\ Held(Volume, i)
    BY <1>2, <1>3 DEF Safe
  <2>. QED
    BY <1>1, <1>3, <2>1 DEF ClaimsMarked, Volume
<1>4. ASSUME ~torn, Safe(Volume, Exempt, OpenInodes),
             NEW i \in Inode, NEW j \in Inode, Live(i), Live(j), i # j
      PROVE  Claims(i) \cap Claims(j) = {}
  <2>1. ClaimsApart(Volume) /\ Held(Volume, i) /\ Held(Volume, j)
    BY <1>2, <1>4 DEF Safe
  <2>. QED
    BY <1>1, <1>4, <2>1 DEF ClaimsApart
<1>. QED
  BY <1>3, <1>4 DEF CrashSafe, CrashKeepsBlocks

\* The invariant holds of every behavior that is followed.
LEMMA StoresInvariant ==
    ASSUME NamePrefix = {}
    PROVE  WholeSpec => []StoresInv
<1>1. StoresInit => StoresInv
  BY StoresInvInit
<1>2. StoresInv /\ [Whole /\ StoresNext]_storesVars => StoresInv'
  BY StoresInvStep
<1>. QED
  BY <1>1, <1>2, PTL DEF WholeSpec

\* Whatever the stores a crash cut off, the volume is one on which the calls go
\* on, and goes on being one, until one of them stores to the remains of the file
\* that a remove or a move was cut off in (F17FS.c:287-392, 776-939, 1098-1303).
THEOREM CrashesSafe ==
    ASSUME NamePrefix = {}
    PROVE  WholeSpec => []CrashSafe
<1>1. StoresInv => CrashSafe
  BY StoresInvSafe
<1>. QED
  BY <1>1, StoresInvariant, PTL

\* No crash leaves an entry that names a free inode, or an inode with more
\* entries than links, but for the file being removed or moved (F17FS.c:776, 1098);
\* nor do the calls after it make another such inode, up to the first one that
\* stores to the remains of that file: is given its inode or a block of it as a
\* free one, or writes it, links it or takes it apart.
THEOREM EntriesKept ==
    ASSUME NamePrefix = {}
    PROVE  WholeSpec => []CrashKeepsEntries
<1>1. StoresInv => CrashKeepsEntries
  BY StoresInvSafe, SafeEntries
<1>. QED
  BY <1>1, StoresInvariant, PTL

\* No crash, and no call after it up to that one, leaves a named inode with a
\* free block, save the file that was cut off, or with a block of another inode
\* (F17FS.c:287-392, 776-939).
THEOREM BlocksKept ==
    ASSUME NamePrefix = {}
    PROVE  WholeSpec => []CrashKeepsBlocks
<1>1. StoresInv => CrashKeepsBlocks
  BY StoresInvSafe, SafeBlocks
<1>. QED
  BY <1>1, StoresInvariant, PTL

-----------------------------------------------------------------------------
(* The calls are those of F17FS *)

\* A list of stores that runs to the volume w stores w.
StoredLaw ==
    \A A, C, D, w : todo \in Seq(StoreSet) /\ SafeRun(Volume, A, C, D, todo, w) => AllStored = w

\* There is one volume that a list of stores makes.
LEMMA StoredHolds == StoredLaw
<1>1. SUFFICES ASSUME NEW A, NEW C, NEW D, NEW w, todo \in Seq(StoreSet),
                      SafeRun(Volume, A, C, D, todo, w)
               PROVE  AllStored = w
  BY Zenon DEF StoredLaw
<1>2. PICK h : IsTrace(h, Volume, todo) /\ h[Len(todo)] = w
  BY <1>1, Zenon DEF SafeRun
<1>3. Len(todo) \in Nat
  BY <1>1
<1>. QED
  BY <1>2, <1>3, AllStoredIs, Zenon

\* Seen at its return the call makes a volume of the parts given.
Returns(F, M, I, B) ==
    /\ AtReturn("fbm", fbm)' = F
    /\ AtReturn("imap", imap)' = M
    /\ AtReturn("inode", inode)' = I
    /\ AtReturn("dblock", dblock)' = B

\* So it is of a call that begins.
LEMMA BeginsReturns ==
    ASSUME NEW A, NEW C, NEW D, NEW F, NEW M, NEW I, NEW B,
           Begins(A, C, D, todo', F, M, I, B), Volume' = Volume
    PROVE  Returns(F, M, I, B)
<1>1. StoredLaw'
  BY StoredHolds, PTL
<1>2. PICK w : SafeRun(Volume, A, C, D, todo', w) /\ Parts(w, F, M, I, B)
  BY Zenon DEF Begins
<1>3. todo' \in Seq(StoreSet) /\ todo' # <<>>
  BY Zenon DEF Begins
<1>4. SafeRun(Volume', A, C, D, todo', w)
  BY <1>2, Zenon
<1>5. AllStored' = w
  BY <1>1, <1>3, <1>4, Zenon DEF StoredLaw
<1>. QED
  BY <1>2, <1>3, <1>5 DEF Returns, AtReturn, Parts

\* Between two calls the volume at the return is the volume.
LEMMA NowReturned ==
    ASSUME todo = <<>>
    PROVE  /\ AtReturn("fbm", fbm) = fbm
           /\ AtReturn("imap", imap) = imap
           /\ AtReturn("inode", inode) = inode
           /\ AtReturn("dblock", dblock) = dblock
BY DEF AtReturn

\* A call that stores nothing, or all at once.
LEMMA NextReturned ==
    ASSUME todo' = <<>>
    PROVE  Returns(fbm', imap', inode', dblock')
BY DEF Returns, AtReturn

\* The sets and functions of the two are the same.
LEMMA SameConstants ==
    /\ Calls!SIZE_MAX = SIZE_MAX /\ Calls!Root = Root /\ Calls!Closed = Closed
    /\ Calls!Inode = Inode /\ Calls!Block = Block /\ Calls!Slot = Slot
    /\ Calls!Order = Order /\ Calls!Fd = Fd /\ Calls!Paths = Paths
    /\ \A p : Calls!dirname(p) = dirname(p)
    /\ \A p : Calls!basename(p) = basename(p)
    /\ \A S : Calls!Min(S) = Min(S)
    /\ \A S : Calls!Max(S) = Max(S)
    /\ \A S, n : Calls!bitmap_ffz(S, n) = bitmap_ffz(S, n)
    /\ \A S, n : Calls!bitmap_set(S, n) = bitmap_set(S, n)
    /\ \A S, n : Calls!bitmap_reset(S, n) = bitmap_reset(S, n)
    /\ \A S, n : Calls!bitmap_test(S, n) <=> bitmap_test(S, n)
    /\ \A m, n : Calls!Matches(m, n) <=> Matches(m, n)
<1>1. /\ Calls!SIZE_MAX = SIZE_MAX /\ Calls!Root = Root /\ Calls!Closed = Closed
      /\ Calls!Inode = Inode /\ Calls!Block = Block /\ Calls!Slot = Slot
      /\ Calls!Order = Order /\ Calls!Fd = Fd /\ Calls!Paths = Paths
  BY Zenon DEF Calls!SIZE_MAX, SIZE_MAX, Calls!Root, Root, Calls!Closed, Closed,
         Calls!Inode, Inode, Calls!Block, Block, Calls!Slot, Slot, Calls!Order, Order,
         Calls!Fd, Fd, Calls!Paths, Paths
<1>2. /\ \A p : Calls!dirname(p) = dirname(p)
      /\ \A p : Calls!basename(p) = basename(p)
  BY Zenon DEF Calls!dirname, dirname, Calls!basename, basename
<1>3. /\ \A S : Calls!Min(S) = Min(S)
      /\ \A S : Calls!Max(S) = Max(S)
  BY Zenon DEF Calls!Min, Min, Calls!Max, Max
<1>4. /\ \A S, n : Calls!bitmap_set(S, n) = bitmap_set(S, n)
      /\ \A S, n : Calls!bitmap_reset(S, n) = bitmap_reset(S, n)
      /\ \A S, n : Calls!bitmap_test(S, n) <=> bitmap_test(S, n)
  BY Zenon DEF Calls!bitmap_set, bitmap_set, Calls!bitmap_reset, bitmap_reset,
               Calls!bitmap_test, bitmap_test
<1>5. \A S, n : Calls!bitmap_ffz(S, n) = bitmap_ffz(S, n)
  BY Zenon DEF Calls!bitmap_ffz, bitmap_ffz, Calls!SIZE_MAX, SIZE_MAX, Calls!Min, Min,
         Calls!ClearBits, ClearBits, Calls!bitmap_test, bitmap_test
<1>6. \A m, n : Calls!Matches(m, n) <=> Matches(m, n)
  BY Zenon DEF Calls!Matches, Matches
<1>. QED
  BY <1>1, <1>2, <1>3, <1>4, <1>5, <1>6, Zenon

\* The walk of a path through the directories of a table I and its blocks B.
StepOf(I, B, d, n) ==
    LET Subs == {s \in I[d].vacantFile :
                    /\ Matches(B[I[d].directPointer[0]][s].filename, n)
                    /\ I[B[I[d].directPointer[0]][s].inodeNumber].fileType = "d"}
    IN  IF d \in Inode /\ I[d].fileType = "d" /\ Subs # {}
        THEN B[I[d].directPointer[0]][Max(Subs)].inodeNumber
        ELSE SIZE_MAX

WalkOf(I, B, p) ==
    IF Len(p) = 0 THEN Root
    ELSE LET walk[k \in 0 .. (Len(p) - 1)] ==
                 IF k = 0 THEN Root ELSE StepOf(I, B, walk[k - 1], p[k])
         IN  StepOf(I, B, walk[Len(p) - 1], p[Len(p)])

\* So is what the calls look up.
LEMMA SameLookups ==
    ASSUME todo = <<>>
    PROVE  /\ \A d, s : Calls!Entry(d, s) = Entry(d, s)
           /\ \A p : Calls!searchPath(p) = searchPath(p)
           /\ \A p : Calls!Resolve(p) = Resolve(p)
           /\ \A p : Calls!Unbound(p) <=> Unbound(p)
           /\ Calls!FreeInode = FreeInode /\ Calls!FreeBlock = FreeBlock
           /\ \A d : Calls!FreeSlot(d) = FreeSlot(d)
           /\ \A p : Calls!CreateChecked(p) <=> CreateChecked(p)
           /\ Calls!Bound = Bound /\ Calls!NotBound = NotBound
<1>0. /\ AtReturn("fbm", fbm) = fbm
      /\ AtReturn("imap", imap) = imap
      /\ AtReturn("inode", inode) = inode
      /\ AtReturn("dblock", dblock) = dblock
  BY NowReturned
<1>1. \A d, s : Calls!Entry(d, s) = Entry(d, s)
  BY <1>0, Zenon DEF Calls!Entry, Entry
<1>2. \A d, n : Calls!SubDirs(d, n) = SubDirs(d, n)
  BY <1>0, <1>1, SameConstants DEF Calls!SubDirs, SubDirs
<1>3. \A d, n : Calls!SearchStep(d, n) = SearchStep(d, n)
  BY <1>0, <1>1, <1>2, SameConstants, Zenon DEF Calls!SearchStep, SearchStep
<1>4. \A p : Calls!searchPath(p) = searchPath(p)
  <2>1. TAKE p
  <2>2. searchPath(p) = WalkOf(inode, dblock, p)
    BY Zenon DEF searchPath, SearchStep, SubDirs, Entry, WalkOf, StepOf
  <2>3. Calls!searchPath(p) = WalkOf(AtReturn("inode", inode), AtReturn("dblock", dblock), p)
    BY Zenon DEF Calls!searchPath, Calls!SearchStep, Calls!SubDirs, Calls!Entry, WalkOf, StepOf,
         Calls!Matches, Matches, Calls!Root, Root, Calls!Inode, Inode,
         Calls!SIZE_MAX, SIZE_MAX, Calls!Max, Max
  <2>. QED
    BY <1>0, <2>2, <2>3, Zenon
<1>5. \A d, n : Calls!Hits(d, n) = Hits(d, n)
  BY <1>0, <1>1, SameConstants DEF Calls!Hits, Hits
<1>6. \A d, n : Calls!getFileInodeID(d, n) = getFileInodeID(d, n)
  BY <1>1, <1>5, SameConstants, Zenon DEF Calls!getFileInodeID, getFileInodeID
<1>7. \A p : Calls!Resolve(p) = Resolve(p)
  BY <1>4, <1>6, SameConstants, Zenon DEF Calls!Resolve, Resolve
<1>8. \A p : Calls!Unbound(p) <=> Unbound(p)
  BY <1>7, Zenon DEF Calls!Unbound, Unbound
<1>9. /\ Calls!FreeInode = FreeInode /\ Calls!FreeBlock = FreeBlock
      /\ \A d : Calls!FreeSlot(d) = FreeSlot(d)
  BY <1>0, SameConstants, Zenon DEF Calls!FreeInode, FreeInode, Calls!FreeBlock, FreeBlock,
                            Calls!FreeSlot, FreeSlot
<1>10. \A p : Calls!CreateChecked(p) <=> CreateChecked(p)
  BY <1>4, <1>8, <1>9, SameConstants, Zenon DEF Calls!CreateChecked, CreateChecked
<1>11. Calls!Bound = Bound /\ Calls!NotBound = NotBound
  BY <1>7, <1>8, SameConstants DEF Calls!Bound, Bound, Calls!NotBound, NotBound
<1>. QED
  BY <1>1, <1>4, <1>7, <1>8, <1>9, <1>10, <1>11, Zenon

\* So are the changes of records and blocks that depend on nothing else.
LEMMA SameRecords ==
    /\ Calls!NoEntry = NoEntry /\ Calls!ZeroBlock = ZeroBlock /\ Calls!ZeroInode = ZeroInode
    /\ Calls!RootBlock = RootBlock /\ Calls!NoFds = NoFds /\ Calls!FreshTable = FreshTable
    /\ Calls!OpenFds = OpenFds /\ (Calls!NoFdOpen <=> NoFdOpen)
    /\ \A b : Calls!DirRecord(b) = DirRecord(b)
    /\ \A r, s : Calls!SetBit(r, s) = SetBit(r, s)
    /\ \A r, S : Calls!ClearBit(r, S) = ClearBit(r, S)
    /\ \A r : Calls!Linked(r) = Linked(r)
    /\ \A p, q : Calls!SpelledBelow(p, q) <=> SpelledBelow(p, q)
<1>1. /\ Calls!NoEntry = NoEntry /\ Calls!ZeroBlock = ZeroBlock /\ Calls!ZeroInode = ZeroInode
      /\ Calls!RootBlock = RootBlock /\ Calls!NoFds = NoFds
  BY Zenon DEF Calls!NoEntry, NoEntry, Calls!ZeroBlock, ZeroBlock, Calls!ZeroInode, ZeroInode,
         Calls!RootBlock, RootBlock, Calls!NoFds, NoFds, Calls!Fd, Fd, Calls!Closed, Closed,
         Calls!Slot, Slot, Calls!NoPointers, NoPointers, Calls!Order, Order
<1>2. \A b : Calls!DirRecord(b) = DirRecord(b)
  BY Zenon DEF Calls!DirRecord, DirRecord, Calls!NoPointers, NoPointers, Calls!Order, Order
<1>3. Calls!FreshTable = FreshTable
  BY Zenon DEF Calls!FreshTable, FreshTable, Calls!DirRecord, DirRecord,
         Calls!NoPointers, NoPointers, Calls!Order, Order, Calls!RootBlock, RootBlock,
         Calls!ZeroInode, ZeroInode, Calls!Inode, Inode, Calls!Root, Root
<1>4. Calls!OpenFds = OpenFds /\ (Calls!NoFdOpen <=> NoFdOpen)
  BY Zenon DEF Calls!OpenFds, OpenFds, Calls!NoFdOpen, NoFdOpen, Calls!Fd, Fd,
         Calls!Closed, Closed
<1>5. /\ \A r, s : Calls!SetBit(r, s) = SetBit(r, s)
      /\ \A r, S : Calls!ClearBit(r, S) = ClearBit(r, S)
      /\ \A r : Calls!Linked(r) = Linked(r)
  BY Zenon DEF Calls!SetBit, SetBit, Calls!ClearBit, ClearBit, Calls!Linked, Linked,
         Calls!bitmap_set, bitmap_set
<1>6. \A p, q : Calls!SpelledBelow(p, q) <=> SpelledBelow(p, q)
  BY Zenon DEF Calls!SpelledBelow, SpelledBelow, Calls!dirname, dirname,
         Calls!basename, basename
<1>. QED
  BY <1>1, <1>2, <1>3, <1>4, <1>5, <1>6, Zenon

\* So are those that depend on the volume.
LEMMA SameUpdates ==
    ASSUME todo = <<>>
    PROVE  /\ \A W, d, s, n, i : Calls!AddEntry(W, d, s, n, i) = AddEntry(W, d, s, n, i)
           /\ \A d, S : Calls!WithoutEntries(d, S) = WithoutEntries(d, S)
           /\ \A d, S : Calls!WithoutInodes(d, S) = WithoutInodes(d, S)
           /\ \A i : Calls!Unlinked(i) = Unlinked(i)
           /\ \A i : Calls!HeldBlocks(i) = HeldBlocks(i)
           /\ \A d, n : Calls!ExactSlot(d, n) = ExactSlot(d, n)
           /\ \A i, k : Calls!AtPosition(i, k) <=> AtPosition(i, k)
           /\ \A p, t : Calls!RemoveChecked(p, t) <=> RemoveChecked(p, t)
           /\ \A p, q : Calls!MoveChecked(p, q) <=> MoveChecked(p, q)
<1>1. /\ AtReturn("fbm", fbm) = fbm
      /\ AtReturn("imap", imap) = imap
      /\ AtReturn("inode", inode) = inode
      /\ AtReturn("dblock", dblock) = dblock
  BY NowReturned
<1>2. \A W, d, s, n, i : Calls!AddEntry(W, d, s, n, i) = AddEntry(W, d, s, n, i)
  BY <1>1, Zenon DEF Calls!AddEntry, AddEntry
<1>3. \A d, S : Calls!WithoutEntries(d, S) = WithoutEntries(d, S)
  BY <1>1 DEF Calls!WithoutEntries, WithoutEntries, Calls!NoEntry, NoEntry, Calls!Slot, Slot
<1>4. \A d, S : Calls!WithoutInodes(d, S) = WithoutInodes(d, S)
  BY <1>1 DEF Calls!WithoutInodes, WithoutInodes, Calls!Slot, Slot
<1>5. \A i : Calls!Unlinked(i) = Unlinked(i)
  BY <1>1, Zenon DEF Calls!Unlinked, Unlinked
<1>6. \A i : Calls!HeldBlocks(i) = HeldBlocks(i)
  BY <1>1 DEF Calls!HeldBlocks, HeldBlocks, Calls!Order, Order
<1>7. \A d, n : Calls!ExactSlot(d, n) = ExactSlot(d, n)
  <2>1. TAKE d, n
  <2>2. {s \in AtReturn("inode", inode)[d].vacantFile : Calls!Entry(d, s).filename = n}
            = {s \in inode[d].vacantFile : Entry(d, s).filename = n}
    BY <1>1, SameLookups
  <2>. QED
    BY <2>2, SameConstants, Zenon DEF Calls!ExactSlot, ExactSlot
<1>8. \A i, k : Calls!AtPosition(i, k) <=> AtPosition(i, k)
  BY <1>1, SameConstants DEF Calls!AtPosition, AtPosition
<1>9. \A p, t : Calls!RemoveChecked(p, t) <=> RemoveChecked(p, t)
  BY <1>1, SameLookups DEF Calls!RemoveChecked, RemoveChecked
<1>10. \A p, q : Calls!MoveChecked(p, q) <=> MoveChecked(p, q)
  BY SameLookups, SameConstants, SameRecords DEF Calls!MoveChecked, MoveChecked
<1>. QED
  BY <1>2, <1>3, <1>4, <1>5, <1>6, <1>7, <1>8, <1>9, <1>10, Zenon

\* A call that has begun returns with what it stores.
LEMMA BeganReturns ==
    ASSUME NEW F, NEW M, NEW I, NEW B, Began(F, M, I, B)
    PROVE  Returns(F, M, I, B) /\ UNCHANGED <<fd, mounted, torn>>
<1>1. /\ Begins(Exempt', harmed, OpenInodes, todo', F, M, I, B)
      /\ UNCHANGED vars
  BY Zenon DEF Began
<1>2. Volume' = Volume /\ UNCHANGED <<fd, mounted, torn>>
  BY <1>1 DEF vars, Volume
<1>. QED
  BY <1>1, <1>2, BeginsReturns, Zenon

\* fs_create of a file.
LEMMA CallsCreateFile ==
    ASSUME SafeNow, todo = <<>>, NEW p \in Paths, begin_create_file(p),
           RemainsUntouched'
    PROVE  Calls!fs_create_file(p)
<1> DEFINE d == searchPath(dirname(p))
           n == basename(p)
<1>1. CreateChecked(p)
  BY Zenon DEF begin_create_file
<1>2. /\ Returns(fbm, imap \cup {FreeInode},
                 [inode EXCEPT
                     ![FreeInode] = [ZeroInode EXCEPT !.fileType = "r", !.linkCount = 1],
                     ![d] = SetBit(inode[d], FreeSlot(d))],
                 AddEntry(dblock, d, FreeSlot(d), n, FreeInode))
      /\ UNCHANGED <<fd, mounted, torn>>
  BY BeganCreateFile, BeganReturns, Zenon
<1> HIDE DEF d, n
<1>3. /\ AtReturn("fbm", fbm) = fbm
      /\ AtReturn("imap", imap) = imap
      /\ AtReturn("inode", inode) = inode
      /\ AtReturn("dblock", dblock) = dblock
  BY NowReturned
<1>4. /\ Calls!searchPath(Calls!dirname(p)) = d /\ Calls!basename(p) = n
      /\ Calls!FreeSlot(d) = FreeSlot(d) /\ Calls!FreeInode = FreeInode
      /\ Calls!CreateChecked(p)
      /\ Calls!ZeroInode = ZeroInode
      /\ Calls!SetBit(inode[d], FreeSlot(d)) = SetBit(inode[d], FreeSlot(d))
      /\ Calls!bitmap_set(imap, FreeInode) = imap \cup {FreeInode}
      /\ Calls!AddEntry(dblock, d, FreeSlot(d), n, FreeInode)
            = AddEntry(dblock, d, FreeSlot(d), n, FreeInode)
  BY <1>1, SameConstants, SameLookups, SameRecords, SameUpdates, Zenon DEF bitmap_set, d, n
<1>. QED
  BY <1>2, <1>3, <1>4, Zenon DEF Calls!fs_create_file, Returns

\* fs_create of a directory, and one for which no block is left.
LEMMA CallsCreateDir ==
    ASSUME SafeNow, todo = <<>>, NEW p \in Paths, begin_create_dir(p),
           RemainsUntouched'
    PROVE  Calls!fs_create_dir(p) \/ Calls!fs_create_no_block(p)
<1> DEFINE d == searchPath(dirname(p))
           n == basename(p)
<1>1. CreateChecked(p)
  BY Zenon DEF begin_create_dir
<1>2. CASE FreeBlock # SIZE_MAX
  <2>1. /\ Returns(fbm \cup {FreeBlock}, imap \cup {FreeInode},
                   [inode EXCEPT ![FreeInode] = DirRecord(FreeBlock),
                                 ![d] = SetBit(inode[d], FreeSlot(d))],
                   AddEntry([dblock EXCEPT ![FreeBlock] = ZeroBlock],
                            d, FreeSlot(d), n, FreeInode))
        /\ UNCHANGED <<fd, mounted, torn>>
    BY <1>2, BeganCreateDir, BeganReturns, Zenon
  <2> HIDE DEF d, n
  <2>2. /\ AtReturn("fbm", fbm) = fbm
        /\ AtReturn("imap", imap) = imap
        /\ AtReturn("inode", inode) = inode
        /\ AtReturn("dblock", dblock) = dblock
    BY NowReturned
  <2>3. /\ Calls!searchPath(Calls!dirname(p)) = d /\ Calls!basename(p) = n
        /\ Calls!FreeSlot(d) = FreeSlot(d) /\ Calls!FreeInode = FreeInode
        /\ Calls!FreeBlock = FreeBlock /\ FreeBlock # Calls!SIZE_MAX
        /\ Calls!CreateChecked(p)
        /\ Calls!DirRecord(FreeBlock) = DirRecord(FreeBlock)
        /\ Calls!SetBit(inode[d], FreeSlot(d)) = SetBit(inode[d], FreeSlot(d))
        /\ Calls!bitmap_set(imap, FreeInode) = imap \cup {FreeInode}
        /\ Calls!bitmap_set(fbm, FreeBlock) = fbm \cup {FreeBlock}
        /\ Calls!ZeroBlock = ZeroBlock
        /\ Calls!AddEntry([dblock EXCEPT ![FreeBlock] = ZeroBlock], d, FreeSlot(d), n, FreeInode)
              = AddEntry([dblock EXCEPT ![FreeBlock] = ZeroBlock], d, FreeSlot(d), n, FreeInode)
    BY <1>1, <1>2, SameConstants, SameLookups, SameRecords, SameUpdates, Zenon
       DEF bitmap_set, d, n
  <2>. QED
    BY <2>1, <2>2, <2>3, Zenon DEF Calls!fs_create_dir, Returns
<1>3. CASE FreeBlock = SIZE_MAX
  <2>1. /\ Returns(fbm, imap \cup {FreeInode}, inode, dblock)
        /\ UNCHANGED <<fd, mounted, torn>>
    BY <1>3, BeganCreateDir, BeganReturns, Zenon
  <2>2. /\ AtReturn("fbm", fbm) = fbm
        /\ AtReturn("imap", imap) = imap
        /\ AtReturn("inode", inode) = inode
        /\ AtReturn("dblock", dblock) = dblock
    BY NowReturned
  <2>3. /\ Calls!FreeInode = FreeInode
        /\ Calls!FreeBlock = Calls!SIZE_MAX
        /\ Calls!CreateChecked(p)
        /\ Calls!bitmap_set(imap, FreeInode) = imap \cup {FreeInode}
    BY <1>1, <1>3, SameConstants, SameLookups, Zenon DEF bitmap_set
  <2>. QED
    BY <2>1, <2>2, <2>3, Zenon DEF Calls!fs_create_no_block, Returns
<1>. QED
  BY <1>2, <1>3, Zenon

\* fs_write.
LEMMA CallsWrite ==
    ASSUME SafeNow, todo = <<>>, mounted, NEW f \in Fd, NEW k \in Order, begin_write(f, k),
           RemainsUntouched'
    PROVE  Calls!fs_write_block(f, k) \/ Calls!fs_write_new_block(f, k)
<1>1. PICK i : i = fd[f]
  OBVIOUS
<1>2. PICK b : b = inode[i].directPointer[k]
  OBVIOUS
<1>3. /\ AtReturn("fbm", fbm) = fbm
      /\ AtReturn("imap", imap) = imap
      /\ AtReturn("inode", inode) = inode
      /\ AtReturn("dblock", dblock) = dblock
  BY NowReturned
<1>4. /\ f \in OpenFds /\ AtPosition(i, k)
      /\ \/ /\ b # 0 /\ bitmap_test(fbm, b)
            /\ Began(fbm, imap, inode, [dblock EXCEPT ![b] = ZeroBlock])
         \/ /\ b = 0 /\ FreeBlock # SIZE_MAX
            /\ Began(fbm \cup {FreeBlock}, imap,
                     [inode EXCEPT ![i].directPointer[k] = FreeBlock],
                     [dblock EXCEPT ![FreeBlock] = ZeroBlock])
  BY <1>1, <1>2, BeganWrite, Zenon
<1>5. /\ f \in Calls!OpenFds /\ Calls!AtPosition(i, k)
      /\ Calls!bitmap_test(fbm, b) <=> bitmap_test(fbm, b)
      /\ Calls!ZeroBlock = ZeroBlock /\ Calls!FreeBlock = FreeBlock
      /\ Calls!SIZE_MAX = SIZE_MAX
      /\ Calls!bitmap_set(fbm, FreeBlock) = fbm \cup {FreeBlock}
  BY <1>4, SameConstants, SameLookups, SameRecords, SameUpdates, Zenon DEF bitmap_set
<1>6. CASE /\ b # 0 /\ bitmap_test(fbm, b)
           /\ Began(fbm, imap, inode, [dblock EXCEPT ![b] = ZeroBlock])
  <2>1. /\ Returns(fbm, imap, inode, [dblock EXCEPT ![b] = ZeroBlock])
        /\ UNCHANGED <<fd, mounted, torn>>
    BY <1>6, BeganReturns, Zenon
  <2>. QED
    BY <1>1, <1>2, <1>3, <1>5, <1>6, <2>1, Zenon DEF Calls!fs_write_block, Returns
<1>7. CASE /\ b = 0 /\ FreeBlock # SIZE_MAX
           /\ Began(fbm \cup {FreeBlock}, imap,
                    [inode EXCEPT ![i].directPointer[k] = FreeBlock],
                    [dblock EXCEPT ![FreeBlock] = ZeroBlock])
  <2>1. /\ Returns(fbm \cup {FreeBlock}, imap,
                   [inode EXCEPT ![i].directPointer[k] = FreeBlock],
                   [dblock EXCEPT ![FreeBlock] = ZeroBlock])
        /\ UNCHANGED <<fd, mounted, torn>>
    BY <1>7, BeganReturns, Zenon
  <2>. QED
    BY <1>1, <1>2, <1>3, <1>5, <1>7, <2>1, Zenon DEF Calls!fs_write_new_block, Returns
<1>. QED
  BY <1>4, <1>6, <1>7, Zenon

\* fs_remove of a directory.
LEMMA CallsRemoveDir ==
    ASSUME SafeNow, todo = <<>>, NamePrefix = {}, NEW p \in Paths, begin_remove_dir(p),
           RemainsUntouched'
    PROVE  Calls!fs_remove_dir(p) \/ Calls!fs_remove_dir_link(p)
<1> DEFINE d == searchPath(dirname(p))
           i == Resolve(p)
           S == ExactSlot(d, basename(p))
<1>1. /\ RemoveChecked(p, "d")
      /\ \/ /\ inode[i].linkCount > 1
            /\ Began(fbm, imap,
                     [inode EXCEPT ![d] = ClearBit(inode[d], S), ![i] = Unlinked(i)],
                     WithoutEntries(d, S))
         \/ /\ inode[i].vacantFile = {} /\ inode[i].linkCount <= 1
            /\ Began(fbm \ {inode[i].directPointer[0]}, imap \ {i},
                     [inode EXCEPT ![d] = ClearBit(inode[d], S)],
                     WithoutEntries(d, S))
  BY BeganRemoveDir, Zenon
<1>2. /\ AtReturn("fbm", fbm) = fbm
      /\ AtReturn("imap", imap) = imap
      /\ AtReturn("inode", inode) = inode
      /\ AtReturn("dblock", dblock) = dblock
  BY NowReturned
<1>3. /\ Calls!searchPath(Calls!dirname(p)) = d /\ Calls!Resolve(p) = i
      /\ Calls!ExactSlot(d, Calls!basename(p)) = S
      /\ Calls!RemoveChecked(p, "d")
      /\ Calls!ClearBit(inode[d], S) = ClearBit(inode[d], S)
      /\ Calls!Unlinked(i) = Unlinked(i)
      /\ Calls!WithoutEntries(d, S) = WithoutEntries(d, S)
      /\ Calls!bitmap_reset(imap, i) = imap \ {i}
      /\ Calls!bitmap_reset(fbm, inode[i].directPointer[0]) = fbm \ {inode[i].directPointer[0]}
  BY <1>1, SameConstants, SameLookups, SameRecords, SameUpdates, Zenon DEF bitmap_reset
<1> HIDE DEF d, i, S
<1>4. CASE /\ inode[i].linkCount > 1
           /\ Began(fbm, imap,
                    [inode EXCEPT ![d] = ClearBit(inode[d], S), ![i] = Unlinked(i)],
                    WithoutEntries(d, S))
  <2>1. /\ Returns(fbm, imap,
                   [inode EXCEPT ![d] = ClearBit(inode[d], S), ![i] = Unlinked(i)],
                   WithoutEntries(d, S))
        /\ UNCHANGED <<fd, mounted, torn>>
    BY <1>4, BeganReturns, Zenon
  <2>. QED
    BY <1>2, <1>3, <1>4, <2>1, Zenon DEF Calls!fs_remove_dir_link, Returns
<1>5. CASE /\ inode[i].vacantFile = {} /\ inode[i].linkCount <= 1
           /\ Began(fbm \ {inode[i].directPointer[0]}, imap \ {i},
                    [inode EXCEPT ![d] = ClearBit(inode[d], S)],
                    WithoutEntries(d, S))
  <2>1. /\ Returns(fbm \ {inode[i].directPointer[0]}, imap \ {i},
                   [inode EXCEPT ![d] = ClearBit(inode[d], S)],
                   WithoutEntries(d, S))
        /\ UNCHANGED <<fd, mounted, torn>>
    BY <1>5, BeganReturns, Zenon
  <2>. QED
    BY <1>2, <1>3, <1>5, <2>1, Zenon DEF Calls!fs_remove_dir, Returns
<1>. QED
  BY <1>1, <1>4, <1>5, Zenon

\* fs_remove of a file.
LEMMA CallsRemoveFile ==
    ASSUME SafeNow, todo = <<>>, NamePrefix = {}, NEW p \in Paths, begin_remove_file(p),
           RemainsUntouched'
    PROVE  Calls!fs_remove_file(p) \/ Calls!fs_remove_file_link(p)
<1> DEFINE d == searchPath(dirname(p))
           i == Resolve(p)
           S == ExactSlot(d, basename(p))
<1>1. /\ RemoveChecked(p, "r")
      /\ \/ /\ inode[i].linkCount > 1
            /\ Began(fbm, imap,
                     [inode EXCEPT ![i] = Unlinked(i), ![d] = ClearBit(inode[d], S)],
                     WithoutInodes(d, S))
         \/ /\ inode[i].linkCount <= 1 /\ NoFdOpen
            /\ Began(fbm \ HeldBlocks(i), imap \ {i},
                     [inode EXCEPT ![d] = ClearBit(inode[d], S)],
                     WithoutInodes(d, S))
  BY BeganRemoveFile, Zenon
<1>2. /\ AtReturn("fbm", fbm) = fbm
      /\ AtReturn("imap", imap) = imap
      /\ AtReturn("inode", inode) = inode
      /\ AtReturn("dblock", dblock) = dblock
  BY NowReturned
<1>3. /\ Calls!searchPath(Calls!dirname(p)) = d /\ Calls!Resolve(p) = i
      /\ Calls!ExactSlot(d, Calls!basename(p)) = S
      /\ Calls!RemoveChecked(p, "r") /\ (Calls!NoFdOpen <=> NoFdOpen)
      /\ Calls!ClearBit(inode[d], S) = ClearBit(inode[d], S)
      /\ Calls!Unlinked(i) = Unlinked(i)
      /\ Calls!WithoutInodes(d, S) = WithoutInodes(d, S)
      /\ Calls!HeldBlocks(i) = HeldBlocks(i)
      /\ Calls!bitmap_reset(imap, i) = imap \ {i}
  BY <1>1, SameConstants, SameLookups, SameRecords, SameUpdates, Zenon DEF bitmap_reset
<1> HIDE DEF d, i, S
<1>4. CASE /\ inode[i].linkCount > 1
           /\ Began(fbm, imap,
                    [inode EXCEPT ![i] = Unlinked(i), ![d] = ClearBit(inode[d], S)],
                    WithoutInodes(d, S))
  <2>1. /\ Returns(fbm, imap,
                   [inode EXCEPT ![i] = Unlinked(i), ![d] = ClearBit(inode[d], S)],
                   WithoutInodes(d, S))
        /\ UNCHANGED <<fd, mounted, torn>>
    BY <1>4, BeganReturns, Zenon
  <2>. QED
    BY <1>2, <1>3, <1>4, <2>1, Zenon DEF Calls!fs_remove_file_link, Returns
<1>5. CASE /\ inode[i].linkCount <= 1 /\ NoFdOpen
           /\ Began(fbm \ HeldBlocks(i), imap \ {i},
                    [inode EXCEPT ![d] = ClearBit(inode[d], S)],
                    WithoutInodes(d, S))
  <2>1. /\ Returns(fbm \ HeldBlocks(i), imap \ {i},
                   [inode EXCEPT ![d] = ClearBit(inode[d], S)],
                   WithoutInodes(d, S))
        /\ UNCHANGED <<fd, mounted, torn>>
    BY <1>5, BeganReturns, Zenon
  <2>. QED
    BY <1>2, <1>3, <1>5, <2>1, Zenon DEF Calls!fs_remove_file, Returns
<1>. QED
  BY <1>1, <1>4, <1>5, Zenon

\* fs_remove of a file, a descriptor being open.
LEMMA CallsRemoveBusy ==
    ASSUME SafeNow, todo = <<>>, NamePrefix = {}, NEW p \in Paths, begin_remove_busy(p),
           RemainsUntouched'
    PROVE  Calls!fs_remove_busy(p)
<1> DEFINE i == Resolve(p)
<1>1. /\ RemoveChecked(p, "r") /\ inode[i].linkCount <= 1 /\ ~NoFdOpen
      /\ fd' = (IF fd[Min(OpenFds)] = i THEN [fd EXCEPT ![Min(OpenFds)] = Closed] ELSE fd)
      /\ torn' = (torn \/ HeldBlocks(i) # {})
      /\ UNCHANGED <<fbm, imap, inode, dblock, mounted, atRisk, harmed, crashes>>
      /\ \E A : Begins(A, A, OpenInodes', todo', fbm \ HeldBlocks(i), imap, inode, dblock)
  BY BeganRemoveBusy, Zenon
<1>2. /\ AtReturn("fbm", fbm) = fbm
      /\ AtReturn("imap", imap) = imap
      /\ AtReturn("inode", inode) = inode
      /\ AtReturn("dblock", dblock) = dblock
  BY NowReturned
<1>3. /\ Calls!Resolve(p) = i
      /\ Calls!RemoveChecked(p, "r") /\ (Calls!NoFdOpen <=> NoFdOpen)
      /\ Calls!HeldBlocks(i) = HeldBlocks(i)
      /\ Calls!OpenFds = OpenFds /\ Calls!Min(OpenFds) = Min(OpenFds)
      /\ Calls!Closed = Closed
  BY <1>1, SameConstants, SameLookups, SameRecords, SameUpdates, Zenon
<1> HIDE DEF i
<1>4. Volume' = Volume
  BY <1>1 DEF Volume
<1>5. Returns(fbm \ HeldBlocks(i), imap, inode, dblock)
  BY <1>1, <1>4, BeginsReturns, Zenon
<1>. QED
  BY <1>1, <1>2, <1>3, <1>5, Zenon DEF Calls!fs_remove_busy, Returns

\* fs_move.
LEMMA CallsMove ==
    ASSUME SafeNow, todo = <<>>, NamePrefix = {}, NEW p \in Paths, NEW q \in Paths,
           begin_move(p, q)
    PROVE  Calls!fs_move_rename(p, q) \/ Calls!fs_move_across(p, q)
<1> DEFINE d == searchPath(dirname(p))
           e == searchPath(dirname(q))
           i == Resolve(p)
           n == basename(q)
           S == NamedSlots(d, basename(p), i)
           m == FirstSlot(d, i)
           t == FreeSlot(e)
<1>1. /\ MoveChecked(p, q)
      /\ \/ /\ e = d /\ S # {}
            /\ Began(fbm, imap, inode,
                     [dblock EXCEPT ![inode[d].directPointer[0]][Min(S)].filename = n])
         \/ /\ d # e /\ t # SIZE_MAX
            /\ Began(fbm, imap,
                     [inode EXCEPT ![e] = SetBit(inode[e], t), ![d] = ClearBit(inode[d], {m})],
                     [AddEntry(dblock, e, t, n, i) EXCEPT ![inode[d].directPointer[0]] =
                         [dblock[inode[d].directPointer[0]] EXCEPT ![m] = NoEntry]])
  BY BeganMove, Zenon
<1>2. /\ AtReturn("fbm", fbm) = fbm
      /\ AtReturn("imap", imap) = imap
      /\ AtReturn("inode", inode) = inode
      /\ AtReturn("dblock", dblock) = dblock
  BY NowReturned
<1>3. /\ Calls!searchPath(Calls!dirname(p)) = d
      /\ Calls!searchPath(Calls!dirname(q)) = e
      /\ Calls!Resolve(p) = i /\ Calls!basename(q) = n
      /\ Calls!FreeSlot(e) = t /\ Calls!SIZE_MAX = SIZE_MAX
      /\ Calls!MoveChecked(p, q)
      /\ Calls!SetBit(inode[e], t) = SetBit(inode[e], t)
      /\ Calls!ClearBit(inode[d], {m}) = ClearBit(inode[d], {m})
      /\ Calls!AddEntry(dblock, e, t, n, i) = AddEntry(dblock, e, t, n, i)
      /\ Calls!NoEntry = NoEntry
      /\ Calls!Min(S) = Min(S)
  BY <1>1, SameConstants, SameLookups, SameRecords, SameUpdates, Zenon
<1> HIDE DEF d, e, n, t
<1>4. {s \in Calls!Slot : Calls!Entry(Calls!searchPath(Calls!dirname(p)), s) =
              [filename |-> Calls!basename(p), inodeNumber |-> Calls!Resolve(p)]} = S
  <2>1. Calls!basename(p) = basename(p) /\ Calls!Slot = Slot
        /\ \A s : Calls!Entry(d, s) = Entry(d, s)
    BY SameConstants, SameLookups, Zenon
  <2> HIDE DEF i
  <2>. QED
    BY <1>3, <2>1 DEF NamedSlots
<1>5. Calls!Min({x \in Calls!Slot :
                   Calls!Entry(Calls!searchPath(Calls!dirname(p)), x).inodeNumber
                      = Calls!Resolve(p)}) = m
  <2> HIDE DEF i
  <2>1. {x \in Calls!Slot : Calls!Entry(Calls!searchPath(Calls!dirname(p)), x).inodeNumber
                               = Calls!Resolve(p)}
            = {x \in Slot : Entry(d, x).inodeNumber = i}
    BY <1>3, SameConstants, SameLookups
  <2>. QED
    BY <2>1, SameConstants, Zenon DEF FirstSlot
<1> HIDE DEF i, S, m
<1>6. CASE /\ e = d /\ S # {}
           /\ Began(fbm, imap, inode,
                    [dblock EXCEPT ![inode[d].directPointer[0]][Min(S)].filename = n])
  <2>1. /\ Returns(fbm, imap, inode,
                   [dblock EXCEPT ![inode[d].directPointer[0]][Min(S)].filename = n])
        /\ UNCHANGED <<fd, mounted, torn>>
    BY <1>6, BeganReturns, Zenon
  <2>. QED
    BY <1>2, <1>3, <1>4, <1>6, <2>1, Zenon DEF Calls!fs_move_rename, Returns
<1>7. CASE /\ d # e /\ t # SIZE_MAX
           /\ Began(fbm, imap,
                    [inode EXCEPT ![e] = SetBit(inode[e], t), ![d] = ClearBit(inode[d], {m})],
                    [AddEntry(dblock, e, t, n, i) EXCEPT ![inode[d].directPointer[0]] =
                        [dblock[inode[d].directPointer[0]] EXCEPT ![m] = NoEntry]])
  <2>1. /\ Returns(fbm, imap,
                   [inode EXCEPT ![e] = SetBit(inode[e], t), ![d] = ClearBit(inode[d], {m})],
                   [AddEntry(dblock, e, t, n, i) EXCEPT ![inode[d].directPointer[0]] =
                       [dblock[inode[d].directPointer[0]] EXCEPT ![m] = NoEntry]])
        /\ UNCHANGED <<fd, mounted, torn>>
    BY <1>7, BeganReturns, Zenon
  <2>. QED
    BY <1>2, <1>3, <1>5, <1>7, <2>1, Zenon DEF Calls!fs_move_across, Returns
<1>. QED
  BY <1>1, <1>6, <1>7, Zenon

\* fs_link.
LEMMA CallsLink ==
    ASSUME SafeNow, todo = <<>>, mounted, NamePrefix = {}, NEW p \in Paths, NEW q \in Paths,
           begin_link(p, q), RemainsUntouched'
    PROVE  Calls!fs_link(p, q)
<1> DEFINE d == searchPath(dirname(q))
           i == Resolve(p)
           s == FreeSlot(d)
           n == basename(q)
<1>1. /\ i # 0 /\ inode[i].linkCount < MaxLink /\ d # SIZE_MAX /\ s # SIZE_MAX
      /\ Unbound(q)
      /\ Began(fbm, imap,
               [inode EXCEPT
                   ![i] = Linked(inode[i]),
                   ![d] = SetBit(IF i = d THEN Linked(inode[d]) ELSE inode[d], s)],
               AddEntry(dblock, d, s, n, i))
  BY BeganLink, Zenon
<1>2. /\ AtReturn("fbm", fbm) = fbm
      /\ AtReturn("imap", imap) = imap
      /\ AtReturn("inode", inode) = inode
      /\ AtReturn("dblock", dblock) = dblock
  BY NowReturned
<1>3. /\ Calls!searchPath(Calls!dirname(q)) = d
      /\ Calls!Resolve(p) = i /\ Calls!basename(q) = n
      /\ Calls!FreeSlot(d) = s /\ Calls!SIZE_MAX = SIZE_MAX
      /\ Calls!Unbound(q)
      /\ Calls!Linked(inode[i]) = Linked(inode[i])
      /\ Calls!Linked(inode[d]) = Linked(inode[d])
      /\ \A r : Calls!SetBit(r, s) = SetBit(r, s)
      /\ Calls!AddEntry(dblock, d, s, n, i) = AddEntry(dblock, d, s, n, i)
  BY <1>1, SameConstants, SameLookups, SameRecords, SameUpdates, Zenon
<1>4. /\ Returns(fbm, imap,
                 [inode EXCEPT
                     ![i] = Linked(inode[i]),
                     ![d] = SetBit(IF i = d THEN Linked(inode[d]) ELSE inode[d], s)],
                 AddEntry(dblock, d, s, n, i))
      /\ UNCHANGED <<fd, mounted, torn>>
  BY <1>1, BeganReturns, Zenon
<1> HIDE DEF d, i, s, n
<1>. QED
  BY <1>1, <1>2, <1>3, <1>4, Zenon DEF Calls!fs_link, Returns

\* The calls that store nothing, or all at once.
LEMMA CallsOneStep ==
    ASSUME OneStep
    PROVE  Calls!Next
<1>1. todo = <<>> /\ todo' = <<>>
  BY DEF OneStep
<1>2. /\ AtReturn("fbm", fbm) = fbm
      /\ AtReturn("imap", imap) = imap
      /\ AtReturn("inode", inode) = inode
      /\ AtReturn("dblock", dblock) = dblock
  BY <1>1, NowReturned
<1>3. /\ AtReturn("fbm", fbm)' = fbm'
      /\ AtReturn("imap", imap)' = imap'
      /\ AtReturn("inode", inode)' = inode'
      /\ AtReturn("dblock", dblock)' = dblock'
  BY <1>1 DEF AtReturn
<1>4. ASSUME fs_format
      PROVE  Calls!fs_format
  <2>1. /\ Calls!RootBlock = RootBlock /\ Calls!Root = Root /\ Calls!FreshTable = FreshTable
        /\ Calls!Block = Block /\ Calls!ZeroBlock = ZeroBlock /\ Calls!NoFds = NoFds
    BY SameConstants, SameRecords, Zenon
  <2>. QED
    BY <1>3, <1>4, <2>1 DEF fs_format, Calls!fs_format
<1>5. ASSUME fs_mount
      PROVE  Calls!fs_mount
  BY <1>2, <1>3, <1>5, SameRecords DEF fs_mount, Calls!fs_mount
<1>6. ASSUME fs_unmount
      PROVE  Calls!fs_unmount
  BY <1>2, <1>3, <1>6, SameRecords DEF fs_unmount, Calls!fs_unmount
<1>7. ASSUME NEW p \in Bound, fs_open(p)
      PROVE  p \in Calls!Bound /\ Calls!fs_open(p)
  <2>1. /\ Calls!Resolve(p) = Resolve(p) /\ Calls!Bound = Bound /\ Calls!SIZE_MAX = SIZE_MAX
        /\ Calls!OpenFds = OpenFds
        /\ Calls!bitmap_ffz(OpenFds, NumFds) = bitmap_ffz(OpenFds, NumFds)
    BY <1>1, SameConstants, SameLookups, SameRecords, Zenon
  <2>. QED
    BY <1>2, <1>3, <1>7, <2>1 DEF fs_open, Calls!fs_open
<1>8. ASSUME NEW f \in Fd, fs_close(f)
      PROVE  f \in Calls!Fd /\ Calls!fs_close(f)
  <2>1. /\ Calls!Fd = Fd /\ Calls!Closed = Closed
        /\ Calls!OpenFds = OpenFds
    BY SameConstants, SameRecords, Zenon
  <2>. QED
    BY <1>2, <1>3, <1>8, <2>1 DEF fs_close, Calls!fs_close
<1>. QED
  BY <1>4, <1>5, <1>6, <1>7, <1>8, Zenon DEF OneStep, Calls!Next

\* The calls that begin.
LEMMA CallsBegin ==
    ASSUME SafeNow, NamePrefix = {}, BeginCall, RemainsUntouched'
    PROVE  Calls!Next
<1>1. todo = <<>> /\ mounted
  BY DEF BeginCall
<1>2. Calls!Bound = Bound /\ Calls!NotBound = NotBound /\ Calls!Fd = Fd /\ Calls!Order = Order
  BY <1>1, SameConstants, SameLookups, Zenon
<1>3. Bound \subseteq Paths /\ NotBound \subseteq Paths
  BY DEF Bound, NotBound
<1>4. ASSUME NEW p \in NotBound, begin_create_file(p) \/ begin_create_dir(p)
      PROVE  Calls!Next
  <2>1. Calls!fs_create_file(p) \/ Calls!fs_create_dir(p) \/ Calls!fs_create_no_block(p)
    BY <1>1, <1>3, <1>4, CallsCreateFile, CallsCreateDir
  <2>. QED
    BY <1>2, <1>4, <2>1, Zenon DEF Calls!Next
<1>5. ASSUME NEW p \in Bound,
             begin_remove_dir(p) \/ begin_remove_file(p) \/ begin_remove_busy(p)
      PROVE  Calls!Next
  <2>1. \/ Calls!fs_remove_dir(p) \/ Calls!fs_remove_dir_link(p)
        \/ Calls!fs_remove_file(p) \/ Calls!fs_remove_file_link(p)
        \/ Calls!fs_remove_busy(p)
    BY <1>1, <1>3, <1>5, CallsRemoveDir, CallsRemoveFile, CallsRemoveBusy
  <2>. QED
    BY <1>2, <1>5, <2>1, Zenon DEF Calls!Next
<1>6. ASSUME NEW p \in Bound, NEW q \in NotBound, begin_move(p, q) \/ begin_link(p, q)
      PROVE  Calls!Next
  <2>1. Calls!fs_move_rename(p, q) \/ Calls!fs_move_across(p, q) \/ Calls!fs_link(p, q)
    BY <1>1, <1>3, <1>6, CallsMove, CallsLink
  <2>. QED
    BY <1>2, <1>6, <2>1, Zenon DEF Calls!Next
<1>7. ASSUME NEW f \in Fd, NEW k \in Order, begin_write(f, k)
      PROVE  Calls!Next
  <2>1. Calls!fs_write_block(f, k) \/ Calls!fs_write_new_block(f, k)
    BY <1>1, <1>7, CallsWrite
  <2>. QED
    BY <1>2, <1>7, <2>1, Zenon DEF Calls!Next
<1>. QED
  BY <1>4, <1>5, <1>6, <1>7, Zenon DEF BeginCall

\* A store inside a call changes nothing that is seen at its return.
LEMMA CallsStore ==
    ASSUME StoresInv, Whole, Store
    PROVE  UNCHANGED <<AllStored, fd, mounted, torn>>
<1>1. todo # <<>> /\ todo' = Tail(todo) /\ UNCHANGED <<fd, mounted, torn>>
  BY DEF Store
<1>2. PICK w : SafeRun(Volume, Exempt, harmed, OpenInodes, todo, w)
  BY <1>1, Zenon DEF StoresInv, Whole
<1>3. /\ SafeRun(Volume', Exempt, harmed, OpenInodes, Tail(todo), w)
      /\ Tail(todo) \in Seq(StoreSet)
  BY <1>1, <1>2, StoreMade, Zenon
<1>4. todo \in Seq(StoreSet)
  BY <1>1 DEF StoresInv, Whole
<1>5. AllStored = w
  BY <1>2, <1>4, StoredHolds, Zenon DEF StoredLaw
<1>6. StoredLaw'
  BY StoredHolds, PTL
<1>7. todo' \in Seq(StoreSet) /\ SafeRun(Volume', Exempt, harmed, OpenInodes, todo', w)
  BY <1>1, <1>3, Zenon
<1>8. AllStored' = w
  BY <1>6, <1>7, Zenon DEF StoredLaw
<1>9. AllStored' = AllStored
  BY <1>5, <1>8, Zenon
<1>. QED
  BY <1>1, <1>9

\* Each call that leaves alone what a crash has harmed does, store by store, what
\* its action of F17FS does at once: what it stores comes from no copy that an
\* earlier store has made stale (F17FS.c:287-392, 776-939, 1098-1303).
THEOREM CallsImplemented ==
    ASSUME NamePrefix = {}
    PROVE  WholeSpec => StoresImplementCalls
<1>1. ASSUME StoresInv, [Whole /\ StoresNext]_storesVars
      PROVE  [crashes' = crashes /\ RemainsUntouched' =>
                 UNCHANGED <<AllStored, fd, mounted, torn>> \/ Calls!Next]_storesVars
  <2>1. CASE UNCHANGED storesVars
    BY <2>1
  <2>2. CASE Whole /\ Store
    BY <1>1, <2>2, CallsStore
  <2>3. CASE Whole /\ Crash
    <3>1. crashes' = crashes + 1 /\ crashes \in Nat
      BY <1>1, <2>3 DEF Crash, StoresInv
    <3>2. crashes' # crashes
      BY <3>1
    <3>. QED
      BY <3>2
  <2>4. CASE Whole /\ OneStep
    BY <2>4, CallsOneStep
  <2>5. CASE Whole /\ BeginCall
    <3>1. SafeNow
      BY <1>1, <2>5, BetweenCalls DEF BeginCall
    <3>. QED
      BY <2>5, <3>1, CallsBegin
  <2>. QED
    BY <1>1, <2>1, <2>2, <2>3, <2>4, <2>5 DEF StoresNext
<1>. QED
  BY <1>1, StoresInvariant, PTL DEF WholeSpec, StoresImplementCalls
=============================================================================
