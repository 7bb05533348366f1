-------------------------- MODULE LsmTreeReadProofs --------------------------
(***************************************************************************)
(* Theorems of LsmTree about the trees in memory: what the published header *)
(* and the readers that hold a slot describe is not overwritten.            *)
(***************************************************************************)
EXTENDS LsmTreeProofs

(* Trees in memory.                                                         *)

Cel(mm, p) == mm[p[1]][p[2]]

CellRec ==
  [node : BOOLEAN, val : Nat, child : [Sub -> Ptr],
   iV2 : Nat, iV2Child : Sub \cup {None}, iV2Ptr : Ptr]

MemMap == [Chunks -> [1..Room -> CellRec]]

MemTypes ==
  /\ mem \in MemMap
  /\ \A p \in Cell : Cel(mem, p).iV2 # 0 => Cel(mem, p).iV2Child \in Sub

\* What a header of nChunk n that allocates behind w has written to the chunks
\* from id L on.
Region(ch, n, L, w) ==
  {p \in Cell : /\ p[1] < n
                /\ shm_sequence_ge(ch[p[1]].iShmid, L)
                /\ shm_sequence_ge(ch[w[1]].iShmid, ch[p[1]].iShmid)
                /\ p[1] = w[1] => p[2] <= w[2]}

\* Version t of the node rc has the contents cur, and its leaves are in S.
Shows(mm, rc, t, cur, S) ==
  /\ rc.node
  /\ \A k \in Sub :
       LET p == getChildPtr(rc, t, k)
       IN  IF p = Null THEN cur[k] = 0
           ELSE p \in S /\ ~Cel(mm, p).node /\ Cel(mm, p).val = cur[k]

Tree(mm, r, t, cur, S) ==
  IF r = Null THEN cur = Empty ELSE r \in S /\ Shows(mm, Cel(mm, r), t, cur, S)

\* Where the live tree of a header begins
LiveUsed(h) == IF HasOld(h) THEN h.iOldShmid ELSE h.iUsedShmid

Reg(H, L) == Region(chunk, H.nChunk, L, H.iWrite)

Offs(w1, w2) == w1[1] = w2[1] => w1[2] <= w2[2]

\* h2 is newer than h1.
Newer(h1, h2) ==
  h1.iOldLog < h2.iOldLog \/ (h1.iOldLog = h2.iOldLog /\ h1.trans < h2.trans)

EndPcs == {"end1", "endflag"}
AtEnd == writer # None /\ pc[writer] \in EndPcs
Alive == writer # None /\ pc[writer] \in AlivePcs

\* The nodes a writer may change the v2 pointer of
WorkRoots == {treehdr.root} \cup {marks[k].mark.root : k \in 1..Top}
             \cup {rollback[n] : n \in 1..Len(rollback)}

\* Version t of node r is older than the changes that can still come to it.
Clear(r, t) ==
  r # Null => /\ r = Good.root => t <= Good.trans
              /\ Alive /\ r \in WorkRoots => t < treehdr.trans
              /\ AtEnd /\ r = hdr2.root => t <= hdr2.trans

ClearEnd(r, t) == r # Null /\ r = hdr2.root => t <= hdr2.trans

\* A tree in the committed chunks from id L on
Kept(r, t, cur, L) == Tree(mem, r, t, cur, Reg(Good, L)) /\ Clear(r, t)

HeaderMem(H) ==
  /\ Tree(mem, H.root, H.trans, H.cur, Reg(H, LiveUsed(H)))
  /\ HasOld(H) /\ ~OldFlushed(H, snap) =>
       Tree(mem, H.oldroot, H.oldtrans, H.oldcur, Reg(H, H.iUsedShmid))

GoodMem ==
  /\ HeaderMem(Good)
  /\ HasOld(Good) /\ ~OldFlushed(Good, snap) => Clear(Good.oldroot, Good.oldtrans)
  /\ ~bWriter /\ Good.root # Null => Cel(mem, Good.root).iV2 <= Good.trans
  /\ writer = None => \A i, j \in 1..(Good.nChunk - 1) :
                        chunk[i].iShmid = chunk[j].iShmid => i = j

\* Snapshots hold no tree that was not made old; headers are replaced by
\* newer ones.
SnapInv ==
  /\ snap >= 1 /\ snap <= Good.iOldLog
  /\ \A c \in Conn : client[c] <= snap
  /\ hdr2 = Good \/ Newer(Good, hdr2)
  /\ \A c \in Conn : pc[c] = "loaded" => ~Newer(Good, hdr[c])

Tid(c) == slot[iReader[c]].iTreeId

\* A read transaction, also that of a writer, that has the lock on its slot
Holds(c) == /\ iReader[c] \in rlock[c] /\ c \notin stale
            /\ pc[c] \in {"reading"} \cup AlivePcs \cup EndPcs

SlotInv(c) ==
  /\ iReader[c] \in 1..NReader
  /\ slot[iReader[c]].iLsmId # 0
  /\ \E j \in 1..(Good.nChunk - 1) : chunk[j].iShmid = Tid(c)
  /\ Rel(Tid(c), Good.iNextShmid) < 0
  /\ shm_sequence_ge(hdr[c].iUsedShmid, Tid(c))

ReaderMem(c) ==
  LET h == hdr[c]
      old == HasOld(h) /\ ~OldFlushed(h, client[c])
  IN  /\ SlotInv(c)
      /\ pc[c] = "reading" => Kept(h.root, h.trans, h.cur, Tid(c))
      /\ pc[c] \notin EndPcs /\ old => Kept(h.oldroot, h.oldtrans, h.oldcur, Tid(c))
      /\ pc[c] \in EndPcs /\ old =>
           /\ Tree(mem, h.oldroot, h.oldtrans, h.oldcur, Reg(hdr2, Tid(c)))
           /\ ClearEnd(h.oldroot, h.oldtrans)

Unv2(x) == [x EXCEPT !.iV2 = 0, !.iV2Child = None, !.iV2Ptr = Null]

\* The nodes whose v2 pointer was set since mark k
Since(k) == {rollback[n] : n \in (marks[k].iRollback + 1)..Len(rollback)}

\* The root of mark k as a rollback to k makes it
MarkCell(k) == IF marks[k].mark.root \in Since(k) THEN Unv2(Cel(mem, marks[k].mark.root))
               ELSE Cel(mem, marks[k].mark.root)

WorkReg(w) == Region(chunk, treehdr.nChunk, LiveUsed(treehdr), w)

MarkMem(k) ==
  LET m == marks[k].mark
      S == WorkReg(m.iWrite)
  IN  /\ IF m.root = Null THEN m.cur = Empty
         ELSE /\ m.root \in S /\ Shows(mem, MarkCell(k), treehdr.trans, m.cur, S)
              /\ Cel(mem, m.root).iV2 <= treehdr.trans
      /\ \A n \in 1..marks[k].iRollback : rollback[n] \in S
      /\ Offs(Good.iWrite, m.iWrite)
      /\ pc[writer] # "rollback" => Offs(m.iWrite, treehdr.iWrite)
      /\ pc[writer] \in {"linkleaf", "linkcopy"} => m.iWrite[1] # pend.chunk
      /\ \A l \in k..Top : Offs(m.iWrite, marks[l].mark.iWrite)

RollbackInv ==
  /\ \A n \in 1..Len(rollback) : /\ Cel(mem, rollback[n]).iV2 = treehdr.trans
                                 /\ rollback[n] \in Cell
  /\ \A n, l \in 1..Len(rollback) : rollback[n] = rollback[l] => n = l
  /\ pc[writer] = "rollback" => marks[Top].iRollback = Len(rollback)

OldKept ==
  \/ /\ treehdr.iUsedShmid = Good.iUsedShmid /\ treehdr.iOldShmid = Good.iOldShmid
     /\ treehdr.oldroot = Good.oldroot /\ treehdr.oldtrans = Good.oldtrans
     /\ treehdr.oldcur = Good.oldcur
  \/ /\ HasOld(Good) /\ OldFlushed(Good, snap)
     /\ treehdr.iUsedShmid = Good.iOldShmid /\ treehdr.iOldShmid = 0

\* The tree of the open transaction
WorkMem ==
  /\ Tree(mem, treehdr.root, treehdr.trans, treehdr.cur, WorkReg(treehdr.iWrite))
  /\ treehdr.root # Null => Cel(mem, treehdr.root).iV2 <= treehdr.trans
  /\ \A n \in 1..Len(rollback) : rollback[n] \in WorkReg(treehdr.iWrite)
  /\ Offs(Good.iWrite, treehdr.iWrite)

\* The leaf that waits for the copy of its parent
LeafMem ==
  /\ pend.leaf \in WorkReg(treehdr.iWrite) /\ ~Cel(mem, pend.leaf).node
  /\ Cel(mem, pend.leaf).val = nWrite + 1 /\ pend.sub \in Sub
  /\ treehdr.root # Null => Cel(mem, treehdr.root).iV2 # 0

AliveMem ==
  /\ treehdr.trans = Good.trans + 1 /\ treehdr.iOldLog = Good.iOldLog
  /\ OldKept
  /\ RollbackInv
  /\ \A k \in 1..Top : MarkMem(k)
  /\ pc[writer] # "rollback" => WorkMem
  /\ pc[writer] \in {"copy", "linkcopy"} => LeafMem

EndMem ==
  /\ HeaderMem(hdr2)
  /\ hdr2.root # Null => Cel(mem, hdr2.root).iV2 <= hdr2.trans
  /\ HasOld(hdr2) /\ ~OldFlushed(hdr2, snap) => ClearEnd(hdr2.oldroot, hdr2.oldtrans)
  /\ Offs(Good.iWrite, hdr2.iWrite)
  /\ ClearEnd(Good.root, Good.trans)

MemMain ==
  /\ GoodMem /\ SnapInv
  /\ \A c \in Conn : Holds(c) => ReaderMem(c)
  /\ Alive => AliveMem
  /\ AtEnd => EndMem

MemInv == MemTypes /\ (IsLost \/ MemMain)

----------------------------------------------------------------------------
(* Cells, versions and trees.                                               *)

LEMMA CellType ==
  ASSUME NEW p \in Cell
  PROVE  p[1] \in Chunks /\ p[2] \in 1..Room /\ p[2] \in Nat /\ p # Null /\ p \in Ptr
         /\ p = <<p[1], p[2]>>
<1>1. p[1] \in Chunks /\ p[2] \in 1..Room /\ p = <<p[1], p[2]>>
  BY DEF Cell
<1> QED
  BY <1>1, Sizes DEF Null, Ptr, Chunks

LEMMA CelType ==
  ASSUME NEW mm \in MemMap, NEW p \in Cell
  PROVE  /\ Cel(mm, p) \in CellRec
         /\ Cel(mm, p).iV2 \in Nat /\ Cel(mm, p).child \in [Sub -> Ptr]
         /\ Cel(mm, p).iV2Ptr \in Ptr /\ Cel(mm, p).val \in Nat
<1>1. Cel(mm, p) \in CellRec
  BY CellType DEF Cel, MemMap
<1> QED
  BY <1>1 DEF CellRec

Put(mm, p, x) == [mm EXCEPT ![p[1]][p[2]] = x]

\* One cell is stored.
LEMMA StoreCell ==
  ASSUME NEW mm \in MemMap, NEW p \in Cell, NEW x \in CellRec
  PROVE  /\ Put(mm, p, x) \in MemMap
         /\ \A q \in Cell : Cel(Put(mm, p, x), q) = IF q = p THEN x ELSE Cel(mm, q)
<1> DEFINE m2 == [mm EXCEPT ![p[1]][p[2]] = x]
<1>1. p[1] \in Chunks /\ p[2] \in 1..Room
  BY CellType
<1>2. mm[p[1]] \in [1..Room -> CellRec]
  BY <1>1 DEF MemMap
<1>3. m2 = [mm EXCEPT ![p[1]] = [mm[p[1]] EXCEPT ![p[2]] = x]]
  OBVIOUS
<1>4. [mm[p[1]] EXCEPT ![p[2]] = x] \in [1..Room -> CellRec]
  BY <1>1, <1>2
<1>5. m2 \in MemMap
  BY <1>1, <1>3, <1>4 DEF MemMap
<1>6. ASSUME NEW q \in Cell
      PROVE  Cel(m2, q) = IF q = p THEN x ELSE Cel(mm, q)
  <2>1. q[1] \in Chunks /\ q[2] \in 1..Room /\ q = <<q[1], q[2]>> /\ p = <<p[1], p[2]>>
    BY CellType
  <2>2. CASE q[1] # p[1]
    BY <1>1, <2>1, <2>2 DEF MemMap, Cel
  <2>3. CASE q[1] = p[1]
    <3>1. m2[q[1]] = [mm[p[1]] EXCEPT ![p[2]] = x]
      BY <1>1, <2>3 DEF MemMap
    <3>2. Cel(m2, q) = IF q[2] = p[2] THEN x ELSE mm[p[1]][q[2]]
      <4> DEFINE f == [mm[p[1]] EXCEPT ![p[2]] = x]
      <4>1. f[q[2]] = IF q[2] = p[2] THEN x ELSE mm[p[1]][q[2]]
        BY <1>2, <2>1
      <4> HIDE DEF f, m2
      <4> QED
        BY <3>1, <4>1 DEF Cel, f
    <3>3. q = p <=> q[2] = p[2]
      BY <2>1, <2>3
    <3> QED
      BY <2>3, <3>2, <3>3 DEF Cel
  <2> QED
    BY <2>2, <2>3
<1> QED
  BY <1>5, <1>6 DEF Put

LEMMA StoreMem ==
  ASSUME mem \in MemMap, NEW p \in Cell, NEW x \in CellRec
  PROVE  /\ Store(p, x) \in MemMap
         /\ \A q \in Cell : Cel(Store(p, x), q) = IF q = p THEN x ELSE Cel(mem, q)
<1>1. Store(p, x) = Put(mem, p, x)
  BY DEF Store, Put
<1> QED
  BY <1>1, StoreCell

LEMMA LeafType ==
  ASSUME NEW v \in Nat
  PROVE  /\ Leaf(v) \in CellRec /\ Leaf(v).iV2 = 0
         /\ ~Leaf(v).node /\ Leaf(v).val = v
BY DEF Leaf, CellRec, Ptr

LEMMA Unv2Cell ==
  ASSUME NEW x \in CellRec
  PROVE  /\ Unv2(x) \in CellRec /\ Unv2(x).iV2 = 0 /\ Unv2(x).node = x.node
         /\ Unv2(x).val = x.val /\ Unv2(x).child = x.child
         /\ Unv2(Unv2(x)) = Unv2(x)
BY DEF CellRec, Unv2, Ptr

\* A version is not changed by v2 pointers newer than it.
LEMMA SameVersion ==
  ASSUME NEW x, NEW y, NEW t, y.child = x.child,
         x.iV2 = 0 \/ ~(x.iV2 <= t), y.iV2 = 0 \/ ~(y.iV2 <= t)
  PROVE  \A k \in Sub : getChildPtr(y, t, k) = getChildPtr(x, t, k)
BY DEF getChildPtr

LEMMA TreeKept ==
  ASSUME NEW mm, NEW m2, NEW r, NEW t, NEW cur, NEW S, NEW S2, S \subseteq S2,
         Tree(mm, r, t, cur, S),
         \A p \in S : Cel(m2, p).node = Cel(mm, p).node /\ Cel(m2, p).val = Cel(mm, p).val,
         r \in S => \A k \in Sub : getChildPtr(Cel(m2, r), t, k) = getChildPtr(Cel(mm, r), t, k)
  PROVE  Tree(m2, r, t, cur, S2)
<1>1. CASE r = Null
  BY <1>1 DEF Tree
<1>2. CASE r # Null
  <2>1. r \in S /\ Shows(mm, Cel(mm, r), t, cur, S)
    BY <1>2 DEF Tree
  <2>2. Shows(m2, Cel(m2, r), t, cur, S2)
    BY <2>1 DEF Shows
  <2> QED
    BY <1>2, <2>1, <2>2 DEF Tree
<1> QED
  BY <1>1, <1>2

\* In a larger set of cells it is the same tree.
LEMMA TreeGrows ==
  ASSUME NEW mm, NEW r, NEW t, NEW cur, NEW S, NEW S2, S \subseteq S2,
         Tree(mm, r, t, cur, S)
  PROVE  Tree(mm, r, t, cur, S2)
BY TreeKept

LEMMA ShowsGrows ==
  ASSUME NEW mm, NEW m2, NEW rc, NEW r2, NEW t, NEW cur, NEW S, NEW S2, S \subseteq S2,
         Shows(mm, rc, t, cur, S), r2.node = rc.node,
         \A k \in Sub : getChildPtr(r2, t, k) = getChildPtr(rc, t, k),
         \A p \in S : Cel(m2, p).node = Cel(mm, p).node /\ Cel(m2, p).val = Cel(mm, p).val
  PROVE  Shows(m2, r2, t, cur, S2)
BY DEF Shows

\* The contents that the model's readers see
LEMMA TreeView ==
  ASSUME NEW r, NEW t, NEW cur \in [Sub -> Nat], NEW S, Tree(mem, r, t, cur, S)
  PROVE  View(r, t) = cur
<1>1. CASE r = Null
  BY <1>1 DEF Tree, View, Empty
<1>2. CASE r # Null
  <2>1. Shows(mem, Cel(mem, r), t, cur, S)
    BY <1>2 DEF Tree
  <2>2. ASSUME NEW k \in Sub
        PROVE  View(r, t)[k] = cur[k]
    BY <1>2, <2>1, <2>2 DEF View, Shows, At, Cel
  <2>3. View(r, t) = [k \in Sub |-> View(r, t)[k]]
    BY DEF View
  <2> QED
    BY <2>2, <2>3
<1> QED
  BY <1>1, <1>2

----------------------------------------------------------------------------
(* Regions.                                                                 *)

\* The chunks 1..n-1 are near b.
Near(ch, n, b) == \A i \in 1..(n - 1) : Pos(ch, i, b) \in (-MaxChunk)..(MaxChunk - 1)

\* The region of ch, n, L, w can be compared by distances from b.
Placed(ch, n, L, w, b) ==
  /\ ch \in ChunkMap /\ n \in 2..(MaxChunk + 1) /\ b \in Ids /\ L \in Ids
  /\ w[1] \in 1..(n - 1)
  /\ Near(ch, n, b)
  /\ Rel(L, b) \in (-MaxChunk)..(MaxChunk - 1)

InRegion(ch, n, L, w, b, i) ==
  i \in 1..(n - 1) /\ Rel(L, b) <= Pos(ch, i, b) /\ Pos(ch, i, b) <= Pos(ch, w[1], b)

LEMMA RegionPos ==
  ASSUME NEW ch, NEW n, NEW L, NEW w, NEW b, Placed(ch, n, L, w, b), NEW p
  PROVE  p \in Region(ch, n, L, w) <=>
           p \in Cell /\ InRegion(ch, n, L, w, b, p[1]) /\ (p[1] = w[1] => p[2] <= w[2])
<1>1. ASSUME p \in Cell, p[1] < n
      PROVE  /\ p[1] \in 1..(n - 1)
             /\ shm_sequence_ge(ch[p[1]].iShmid, L) <=> Pos(ch, p[1], b) >= Rel(L, b)
             /\ shm_sequence_ge(ch[w[1]].iShmid, ch[p[1]].iShmid)
                  <=> Pos(ch, w[1], b) >= Pos(ch, p[1], b)
  <2>1. p[1] \in Chunks /\ w[1] \in Chunks /\ p[1] \in 1..(n - 1) /\ w[1] \in 1..(n - 1)
    BY <1>1, CellType, Sizes DEF Placed, Chunks
  <2>2. ch[p[1]].iShmid \in Ids /\ ch[w[1]].iShmid \in Ids /\ L \in Ids /\ b \in Ids
    BY <2>1 DEF Placed, ChunkMap
  <2>3. /\ Pos(ch, p[1], b) \in (-MaxChunk)..(MaxChunk - 1)
        /\ Pos(ch, w[1], b) \in (-MaxChunk)..(MaxChunk - 1)
        /\ Rel(L, b) \in (-MaxChunk)..(MaxChunk - 1)
    BY <2>1 DEF Placed, Near
  <2>4. Pos(ch, p[1], b) - Rel(L, b) \in (-MaxShm)..(MaxShm - 1)
        /\ Pos(ch, w[1], b) - Pos(ch, p[1], b) \in (-MaxShm)..(MaxShm - 1)
    BY <2>3, Sizes
  <2> QED
    BY <2>1, <2>2, <2>4, RelSequence DEF Pos
<1>2. ASSUME p \in Cell, p[1] \in 1..(n - 1)
      PROVE  p[1] < n
  BY <1>2 DEF Placed
<1>3. ASSUME p \in Cell, p[1] < n
      PROVE  (Pos(ch, p[1], b) >= Rel(L, b) <=> Rel(L, b) <= Pos(ch, p[1], b))
             /\ (Pos(ch, w[1], b) >= Pos(ch, p[1], b) <=> Pos(ch, p[1], b) <= Pos(ch, w[1], b))
  <2>1. /\ Pos(ch, p[1], b) \in Int /\ Pos(ch, w[1], b) \in Int /\ Rel(L, b) \in Int
    BY <1>1, <1>3, PosType, RelType, Sizes DEF Placed, Near
  <2> QED
    BY <2>1
<1> QED
  BY <1>1, <1>2, <1>3 DEF Region, InRegion

LEMMA RegionGrows ==
  ASSUME NEW ch, NEW n, NEW L, NEW w, NEW ch2, NEW n2, NEW L2, NEW w2, NEW b,
         Placed(ch, n, L, w, b), Placed(ch2, n2, L2, w2, b),
         Rel(L2, b) <= Rel(L, b), Pos(ch, w[1], b) <= Pos(ch2, w2[1], b),
         w[1] = w2[1] => w[2] <= w2[2], w[2] \in Nat, w2[2] \in Nat,
         \A i \in 1..(n - 1) : InRegion(ch, n, L, w, b, i) =>
           i < n2 /\ ch2[i].iShmid = ch[i].iShmid /\ (i = w2[1] => i = w[1])
  PROVE  Region(ch, n, L, w) \subseteq Region(ch2, n2, L2, w2)
<1> SUFFICES ASSUME NEW p \in Region(ch, n, L, w)
             PROVE  p \in Region(ch2, n2, L2, w2)
  OBVIOUS
<1>1. p \in Cell /\ InRegion(ch, n, L, w, b, p[1]) /\ (p[1] = w[1] => p[2] <= w[2])
  BY RegionPos
<1>2. /\ p[1] < n2 /\ ch2[p[1]].iShmid = ch[p[1]].iShmid /\ (p[1] = w2[1] => p[1] = w[1])
      /\ p[1] \in 1..(n - 1)
  BY <1>1 DEF InRegion
<1>3. p[1] \in 1..(n2 - 1) /\ Pos(ch2, p[1], b) = Pos(ch, p[1], b)
  BY <1>2 DEF Placed, Pos
<1>4. /\ Pos(ch, p[1], b) \in Int /\ Pos(ch, w[1], b) \in Int /\ Rel(L, b) \in Int
      /\ Rel(L2, b) \in Int /\ Pos(ch2, w2[1], b) \in Int
  BY <1>2, PosType, RelType, Sizes DEF Placed, Near
<1>5. InRegion(ch2, n2, L2, w2, b, p[1])
  BY <1>1, <1>3, <1>4 DEF InRegion
<1>6. p[1] = w2[1] => p[2] <= w2[2]
  BY <1>1, <1>2, CellType
<1> QED
  BY <1>1, <1>5, <1>6, RegionPos

----------------------------------------------------------------------------
(* Where the chunks of an open transaction are.                             *)

\* The lowest and the highest distances of a header's trees and chunks
HeaderPlaced(H, b) ==
  /\ H \in Header /\ H.iWrite[2] \in Nat
  /\ Near(chunk, H.nChunk, b)
  /\ Rel(H.iUsedShmid, b) \in (-MaxChunk)..(-1)
  /\ HasOld(H) => Rel(H.iOldShmid, b) \in Rel(H.iUsedShmid, b)..(-1)

GoodPlaced ==
  /\ HeaderPlaced(Good, Good.iNextShmid)
  /\ Good # Torn /\ Good.iNextShmid \in Ids /\ chunk \in ChunkMap
  /\ Good.iWrite[1] \in 1..(Good.nChunk - 1)
  /\ Pos(chunk, Good.iWrite[1], Good.iNextShmid) = -1

AlivePlaced ==
  LET b == Good.iNextShmid
      h == treehdr
      N == Rel(h.iNextShmid, b)
      list == 1..(h.nChunk - 1)
  IN  /\ writer \in Conn /\ Good = hdr1 /\ hdr1 = hdr2 /\ bWriter
      /\ HeaderPlaced(h, b)
      /\ Good.nChunk <= h.nChunk
      /\ \A i, j \in list : Pos(chunk, i, b) = Pos(chunk, j, b) => i = j
      /\ h.iFirst \in list /\ (pc[writer] # "rollback" => h.iWrite[1] \in list)
      /\ \A i \in list : Pos(chunk, h.iFirst, b) <= Pos(chunk, i, b)
      /\ Pos(chunk, h.iFirst, b) <= Rel(h.iUsedShmid, b)
      /\ N \in 0..MaxChunk /\ \A i \in list : Pos(chunk, i, b) < N
      /\ Len(rollback) \in Nat /\ Top \in 1..Len(marks)
      /\ \A k \in 1..Top :
           LET m == marks[k].mark
               X == Rel(m.iNextShmid, b)
           IN  /\ m \in MarkRec /\ marks[k].iRollback \in 0..Len(rollback)
               /\ m.nChunk \in Good.nChunk..h.nChunk /\ X \in 0..N
               /\ m.iWrite[1] \in 1..(m.nChunk - 1) /\ Pos(chunk, m.iWrite[1], b) = X - 1
               /\ m.iWrite[2] \in Nat
               /\ \A i \in list : Pos(chunk, i, b) < X => i < m.nChunk
      /\ \A k, l \in 1..Top : k <= l =>
           /\ Rel(marks[k].mark.iNextShmid, b) <= Rel(marks[l].mark.iNextShmid, b)
           /\ marks[k].iRollback <= marks[l].iRollback

LEMMA MarkPlaced ==
  ASSUME AlivePlaced, NEW k \in 1..Top
  PROVE  LET b == Good.iNextShmid
             m == marks[k].mark
         IN  /\ m \in MarkRec
             /\ Rel(treehdr.iNextShmid, b) \in 0..MaxChunk
             /\ Rel(m.iNextShmid, b) \in 0..Rel(treehdr.iNextShmid, b)
             /\ m.iWrite[1] \in 1..(m.nChunk - 1) /\ m.iWrite[2] \in Nat
             /\ Pos(chunk, m.iWrite[1], b) = Rel(m.iNextShmid, b) - 1
             /\ \A l \in 1..Top :
                  k <= l => Rel(m.iNextShmid, b) <= Rel(marks[l].mark.iNextShmid, b)
BY Zenon DEF AlivePlaced

LEMMA GoodIsPlaced ==
  ASSUME Types, Main
  PROVE  GoodPlaced
<1>1. /\ Good \in Header /\ Good # Torn /\ chunk \in ChunkMap /\ Committed(chunk, Good)
  BY GoodType, InitHeaders DEF Types, HeaderTypes, Main
<1>2. /\ Good.nChunk \in 2..(MaxChunk + 1) /\ Good.iNextShmid \in Ids
      /\ Good.iWrite \in Chunks \X (0..Room)
  BY <1>1, HeaderType
<1>3. Near(chunk, Good.nChunk, Good.iNextShmid)
  BY <1>1 DEF Committed, Near
<1>4. Rel(Good.iUsedShmid, Good.iNextShmid) \in (-MaxChunk)..(-1)
  BY <1>1, <1>2, Sizes DEF Committed, Trees
<1> QED
  BY <1>1, <1>2, <1>3, <1>4, Sizes DEF Committed, Trees, GoodPlaced, HeaderPlaced

LEMMA AliveIsPlaced ==
  ASSUME Types, Main, Alive
  PROVE  AlivePlaced /\ AliveInv
<1> DEFINE b == Good.iNextShmid
           h == treehdr
           n == h.nChunk
           N == Rel(h.iNextShmid, b)
           list == 1..(n - 1)
           P(i) == Pos(chunk, i, b)
<1>1. /\ GoodPlaced /\ writer \in Conn /\ AliveInv /\ h \in Header
      /\ Good = hdr1 /\ hdr1 = hdr2 /\ bWriter
  <2>1. writer \in Conn /\ AliveInv
    BY DEF Alive, Main, Types, WriteTypes, EndPcs, AlivePcs
  <2> QED
    BY <2>1, GoodIsPlaced DEF Types, HeaderTypes, treehdr, AliveInv, Good
<1>2. /\ n \in 2..(MaxChunk + 1) /\ h.iNextShmid \in Ids /\ b \in Ids /\ chunk \in ChunkMap
      /\ h.iUsedShmid \in Ids /\ h.iOldShmid \in Ids
      /\ h.iWrite \in Chunks \X (0..Room) /\ list \subseteq Chunks
      /\ Good.nChunk \in 2..(MaxChunk + 1)
  BY <1>1, HeaderType DEF GoodPlaced, HeaderPlaced
<1>3. /\ N \in Int /\ Rel(h.iUsedShmid, b) \in Int /\ Rel(h.iOldShmid, b) \in Int
      /\ \A i \in list : P(i) \in Int
  BY <1>2, RelType, PosType, Sizes
<1>4. N >= 0 /\ Good.nChunk <= n
      /\ (HasOld(h) => Rel(h.iOldShmid, b) \in Rel(h.iUsedShmid, b)..(-1))
  BY <1>1 DEF AliveInv, Above
<1>5. /\ \A i \in list : P(i) \in (-MaxChunk)..(MaxChunk - 1) /\ P(i) < N /\ P(h.iFirst) <= P(i)
      /\ \A i, j \in list : P(i) = P(j) => i = j
      /\ h.iFirst \in list /\ P(h.iFirst) <= Rel(h.iUsedShmid, b)
      /\ N <= MaxChunk /\ Rel(h.iUsedShmid, b) \in (-MaxChunk)..(-1)
      /\ (pc[writer] # "rollback" => h.iWrite[1] \in list)
  <2>1. ASSUME NEW s, Writable(chunk, h, Good, s)
        PROVE  <1>5
    <3> DEFINE F == N - (n - 1)
    <3>1. /\ F >= 1 - Good.nChunk /\ Rel(h.iUsedShmid, b) \in F..(-1)
          /\ Places1(chunk, n, F, N, b) /\ Front(chunk, h, F, b) /\ h.iWrite[1] \in list
      BY <2>1 DEF Writable
    <3>2. \A i \in list : P(i) \in F..(N - 1)
      BY <3>1 DEF Places1
    <3> DEFINE U == Rel(h.iUsedShmid, b)
    <3>6. F <= U /\ U <= -1 /\ F \in Int /\ U \in Int
      BY <1>2, <1>3, <3>1
    <3>3. N <= MaxChunk - 1 /\ F \in (-MaxChunk)..(-1)
      <4> HIDE DEF U
      <4> QED
        BY <1>2, <1>3, <3>1, <3>6, Sizes
    <3>4. h.iFirst \in list /\ P(h.iFirst) = F
      BY <3>1 DEF Front
    <3>5. \A i, j \in list : P(i) = P(j) => i = j
      BY <3>1 DEF Places1
    <3> HIDE DEF P, list
    <3> QED
      BY <1>2, <1>3, <3>1, <3>2, <3>3, <3>4, <3>5, Sizes
  <2>2. ASSUME pc[writer] = "rollback", NEW m, NEW p, RollingBack(chunk, h, Good, m, p)
        PROVE  <1>5
    <3> DEFINE F == P(h.iFirst)
    <3>1. /\ h.iFirst \in list /\ N < MaxChunk
          /\ F >= 1 - Good.nChunk /\ F <= Rel(h.iUsedShmid, b) /\ Rel(h.iUsedShmid, b) <= -1
          /\ \A i \in list : P(i) \in F..(N - 1)
          /\ \A i, j \in list : P(i) = P(j) => i = j
      BY <2>2 DEF RollingBack
    <3>2. pc[writer] = "rollback"
      BY <2>2
    <3> HIDE DEF P, list
    <3> QED
      BY <1>2, <1>3, <3>1, <3>2, Sizes
  <2> QED
    BY <1>1, <2>1, <2>2 DEF AliveInv, AlivePcs, Alive
<1>6. HeaderPlaced(h, b)
  BY <1>1, <1>2, <1>4, <1>5, Sizes DEF HeaderPlaced, Near
<1>7. ASSUME NEW k \in 1..Top
      PROVE  LET m == marks[k].mark
                 X == Rel(m.iNextShmid, b)
             IN  /\ m \in MarkRec /\ marks[k].iRollback \in 0..Len(rollback)
                 /\ m.nChunk \in Good.nChunk..h.nChunk /\ X \in 0..N
                 /\ m.iWrite[1] \in 1..(m.nChunk - 1) /\ P(m.iWrite[1]) = X - 1
                 /\ m.iWrite[2] \in Nat
                 /\ \A i \in list : P(i) < X => i < m.nChunk
  <2>1. k \in 1..Len(marks) /\ Len(rollback) \in Nat
    BY <1>1, <1>7, MarkTypes DEF AliveInv, MarksInv, Types, WriteTypes
  <2>2. marks[k].mark \in MarkRec /\ marks[k].iRollback \in Nat
    BY <2>1, MarkTypes
  <2>3. MarkAbove(chunk, marks[k].mark, h, Good) /\ marks[k].iRollback <= Len(rollback)
    BY <1>1, <1>7 DEF AliveInv, MarksInv
  <2>4. marks[k].mark.iWrite[2] \in 0..Room
    BY <2>2 DEF MarkRec
  <2>5. /\ marks[k].mark.nChunk \in Good.nChunk..h.nChunk
        /\ Rel(marks[k].mark.iNextShmid, b) \in 0..N
        /\ marks[k].mark.iWrite[1] \in 1..(marks[k].mark.nChunk - 1)
        /\ P(marks[k].mark.iWrite[1]) = Rel(marks[k].mark.iNextShmid, b) - 1
        /\ \A i \in list : P(i) < Rel(marks[k].mark.iNextShmid, b) => i < marks[k].mark.nChunk
    BY <2>3, Zenon DEF MarkAbove
  <2>6. marks[k].iRollback \in 0..Len(rollback) /\ marks[k].mark.iWrite[2] \in Nat
    BY <2>1, <2>2, <2>3, <2>4, Sizes
  <2> QED
    BY <2>2, <2>5, <2>6, Zenon
<1>8. Len(rollback) \in Nat /\ Top \in 1..Len(marks)
  BY <1>1 DEF AliveInv, MarksInv, Types, WriteTypes
<1>9. \A k, l \in 1..Top : k <= l =>
           /\ Rel(marks[k].mark.iNextShmid, b) <= Rel(marks[l].mark.iNextShmid, b)
           /\ marks[k].iRollback <= marks[l].iRollback
  BY <1>1 DEF AliveInv, MarksInv, MarkBelow
<1>10. N \in 0..MaxChunk
  BY <1>3, <1>4, <1>5, Sizes
<1> QED
  BY <1>1, <1>4, <1>5, <1>6, <1>7, <1>8, <1>9, <1>10 DEF AlivePlaced

\* An id in use by the committed trees
Guarded(L) == L \in Ids /\ Rel(L, Good.iNextShmid) \in (-MaxChunk)..(-1)

LEMMA LivePlaced ==
  ASSUME NEW H, NEW b \in Ids, HeaderPlaced(H, b)
  PROVE  /\ LiveUsed(H) \in Ids /\ H.iUsedShmid \in Ids
         /\ Rel(LiveUsed(H), b) \in Rel(H.iUsedShmid, b)..(-1)
         /\ Rel(LiveUsed(H), b) \in (-MaxChunk)..(-1)
         /\ Rel(H.iUsedShmid, b) \in (-MaxChunk)..(-1)
<1>1. H \in Header /\ H.iUsedShmid \in Ids /\ H.iOldShmid \in Ids
  BY HeaderType DEF HeaderPlaced
<1> QED
  BY <1>1, Sizes DEF HeaderPlaced, LiveUsed

LEMMA GoodRegion ==
  ASSUME GoodPlaced, NEW L, Guarded(L)
  PROVE  Placed(chunk, Good.nChunk, L, Good.iWrite, Good.iNextShmid)
BY HeaderType, Sizes DEF GoodPlaced, HeaderPlaced, Guarded, Placed

LEMMA WorkRegion ==
  ASSUME GoodPlaced, AlivePlaced
  PROVE  /\ \A k \in 1..Top : Placed(chunk, treehdr.nChunk, LiveUsed(treehdr),
                                     marks[k].mark.iWrite, Good.iNextShmid)
         /\ pc[writer] # "rollback" =>
              Placed(chunk, treehdr.nChunk, LiveUsed(treehdr), treehdr.iWrite, Good.iNextShmid)
<1>1. /\ HeaderPlaced(treehdr, Good.iNextShmid) /\ Good.iNextShmid \in Ids
      /\ chunk \in ChunkMap /\ treehdr.nChunk \in 2..(MaxChunk + 1)
      /\ Rel(LiveUsed(treehdr), Good.iNextShmid) \in (-MaxChunk)..(-1)
      /\ LiveUsed(treehdr) \in Ids
  BY LivePlaced, HeaderType DEF GoodPlaced, AlivePlaced, HeaderPlaced
<1>2. ASSUME NEW k \in 1..Top
      PROVE  marks[k].mark.iWrite[1] \in 1..(treehdr.nChunk - 1)
  <2>1. /\ marks[k].mark.nChunk \in Good.nChunk..treehdr.nChunk
        /\ marks[k].mark.iWrite[1] \in 1..(marks[k].mark.nChunk - 1)
        /\ Good.nChunk \in Int
    BY HeaderType DEF AlivePlaced, GoodPlaced, HeaderPlaced
  <2> QED
    BY <1>1, <2>1
<1>3. pc[writer] # "rollback" => treehdr.iWrite[1] \in 1..(treehdr.nChunk - 1)
  BY DEF AlivePlaced
<1> QED
  BY <1>1, <1>2, <1>3, Sizes DEF Placed, HeaderPlaced

\* What is allocated is in no region.
LEMMA AllocNew ==
  ASSUME GoodPlaced, AlivePlaced, AliveInv, pc[writer] \in {"open", "leaf", "copy"},
         NEW n \in 2..treehdr.nChunk, NEW L, NEW w,
         Placed(chunk, n, L, w, Good.iNextShmid), Offs(w, treehdr.iWrite), w[2] \in Nat
  PROVE  Alloc(treehdr) \notin Region(chunk, n, L, w)
<1> SUFFICES ASSUME Alloc(treehdr) \in Region(chunk, n, L, w)
             PROVE  FALSE
  OBVIOUS
<1> DEFINE b == Good.iNextShmid
           h == treehdr
           N == Rel(h.iNextShmid, b)
           i == h.iWrite[1]
<1>1. /\ InRegion(chunk, n, L, w, b, i)
      /\ i = w[1] => h.iWrite[2] + 1 <= w[2]
  BY RegionPos DEF Alloc
<1>2. Pos(chunk, i, b) = N - 1 /\ i \in 1..(h.nChunk - 1)
  <2>1. Writable(chunk, h, Good, N)
    BY DEF AliveInv
  <2> QED
    BY <2>1 DEF Writable
<1>3. w[1] \in 1..(h.nChunk - 1)
  <2>1. h.nChunk \in Int /\ n \in Int /\ n <= h.nChunk
    <3>1. h \in Header
      BY Zenon DEF AlivePlaced, HeaderPlaced
    <3>2. h.nChunk \in Int
      BY <3>1, HeaderType
    <3> QED
      BY <3>2
  <2>2. w[1] \in 1..(n - 1)
    BY DEF Placed
  <2> QED
    BY <2>1, <2>2
<1>4. /\ Pos(chunk, i, b) <= Pos(chunk, w[1], b) /\ Pos(chunk, w[1], b) < N
      /\ Pos(chunk, w[1], b) \in Int /\ Pos(chunk, i, b) \in Int /\ N \in Int
  <2>1. \A j \in 1..(h.nChunk - 1) : Pos(chunk, j, b) < N /\ Pos(chunk, j, b) \in Int
    <3>1. \A j \in 1..(h.nChunk - 1) : Pos(chunk, j, b) < N
      BY Zenon DEF AlivePlaced
    <3>2. \A j \in 1..(h.nChunk - 1) : Pos(chunk, j, b) \in (-MaxChunk)..(MaxChunk - 1)
      BY Zenon DEF AlivePlaced, HeaderPlaced, Near
    <3> QED
      BY <3>1, <3>2
  <2>2. N \in Int
    BY DEF AlivePlaced
  <2>3. Pos(chunk, i, b) <= Pos(chunk, w[1], b)
    BY <1>1 DEF InRegion
  <2> QED
    BY <1>2, <1>3, <2>1, <2>2, <2>3
<1>5. i = w[1]
  <2>1. Pos(chunk, i, b) = Pos(chunk, w[1], b)
    BY <1>2, <1>4
  <2>2. \A j, k \in 1..(h.nChunk - 1) : Pos(chunk, j, b) = Pos(chunk, k, b) => j = k
    BY DEF AlivePlaced
  <2> QED
    BY <1>2, <1>3, <2>1, <2>2
<1>6. w[2] <= h.iWrite[2] /\ h.iWrite[2] \in Nat
  BY <1>5 DEF Offs, AlivePlaced, HeaderPlaced
<1> QED
  BY <1>1, <1>5, <1>6

----------------------------------------------------------------------------
(* What the committed header and the readers describe, while a transaction  *)
(* is open.                                                                  *)

\* A step changes cell q, chunk x and v2 pointers of the open transaction.
MemStep(x, q) ==
  \A p \in Cell : p # q /\ p[1] # x =>
    LET a == Cel(mem, p)
        z == Cel(mem', p)
    IN  \/ z = a
        \/ /\ p \in WorkRoots
           /\ z.node = a.node /\ z.val = a.val /\ z.child = a.child
           /\ a.iV2 \in {0, treehdr.trans} /\ z.iV2 \in {0, treehdr.trans}

\* It leaves the ids of the committed chunks.
ChunkStep(x) ==
  \A i \in 1..(Good.nChunk - 1) :
    i # x /\ Pos(chunk, i, Good.iNextShmid) <= -1 => chunk'[i].iShmid = chunk[i].iShmid

LEMMA CommittedTree ==
  ASSUME GoodPlaced, GoodPlaced', Good' = Good, NEW x, NEW q, MemStep(x, q), ChunkStep(x),
         NEW L, Guarded(L), q \notin Reg(Good, L),
         x \in 1..(Good.nChunk - 1) =>
           Pos(chunk, x, Good.iNextShmid) < Rel(L, Good.iNextShmid),
         NEW r, NEW t \in Nat, NEW cur, Tree(mem, r, t, cur, Reg(Good, L)),
         r # Null /\ r \in WorkRoots => t < treehdr.trans, treehdr.trans \in Nat \ {0}
  PROVE  Tree(mem', r, t, cur, Region(chunk', Good.nChunk, L, Good.iWrite))
<1> DEFINE b == Good.iNextShmid
           n == Good.nChunk
           w == Good.iWrite
           S == Reg(Good, L)
           S2 == Region(chunk', n, L, w)
<1>1. Placed(chunk, n, L, w, b) /\ Placed(chunk', n, L, w, b)
  <2>1. Placed(chunk, n, L, w, b)
    BY GoodRegion
  <2>2. Near(chunk', n, b) /\ chunk' \in ChunkMap
    BY DEF GoodPlaced, HeaderPlaced
  <2> QED
    BY <2>1, <2>2 DEF Placed
<1>2. /\ Pos(chunk, w[1], b) = -1 /\ Pos(chunk', w[1], b) = -1 /\ w[2] \in Nat
      /\ Rel(L, b) \in Int
  BY DEF GoodPlaced, HeaderPlaced, Guarded
<1>3. \A i \in 1..(n - 1) : InRegion(chunk, n, L, w, b, i) =>
        i < n /\ chunk'[i].iShmid = chunk[i].iShmid
  <2> SUFFICES ASSUME NEW i \in 1..(n - 1), InRegion(chunk, n, L, w, b, i)
               PROVE  i < n /\ chunk'[i].iShmid = chunk[i].iShmid
    OBVIOUS
  <2>1. Rel(L, b) <= Pos(chunk, i, b) /\ Pos(chunk, i, b) <= -1 /\ Pos(chunk, i, b) \in Int
    BY <1>1, <1>2 DEF InRegion, Placed, Near
  <2>2. i # x
    <3> DEFINE P == Pos(chunk, i, b)
    <3> SUFFICES ASSUME i = x PROVE FALSE
      OBVIOUS
    <3>1. P < Rel(L, b)
      OBVIOUS
    <3> HIDE DEF P
    <3> QED
      BY <1>2, <2>1, <3>1 DEF P
  <2> QED
    BY <1>1, <2>1, <2>2 DEF ChunkStep, Placed
<1>4. S \subseteq S2
  BY <1>1, <1>2, <1>3, RegionGrows DEF Reg
<1>5. ASSUME NEW p \in S
      PROVE  p \in Cell /\ p # q /\ p[1] # x
  <2>1. p \in Cell /\ InRegion(chunk, n, L, w, b, p[1])
    BY <1>1, RegionPos DEF Reg
  <2>2. p[1] \in 1..(n - 1) /\ Rel(L, b) <= Pos(chunk, p[1], b) /\ Pos(chunk, p[1], b) \in Int
    BY <1>1, <2>1 DEF InRegion, Placed, Near
  <2>3. p[1] # x
    <3> DEFINE P == Pos(chunk, p[1], b)
    <3> SUFFICES ASSUME p[1] = x PROVE FALSE
      OBVIOUS
    <3>1. P < Rel(L, b)
      BY <2>2
    <3> HIDE DEF P
    <3> QED
      BY <1>2, <2>2, <3>1 DEF P
  <2> QED
    BY <2>1, <2>3
<1>6. \A p \in S : Cel(mem', p).node = Cel(mem, p).node /\ Cel(mem', p).val = Cel(mem, p).val
  BY <1>5 DEF MemStep
<1>7. r \in S => \A k \in Sub : getChildPtr(Cel(mem', r), t, k) = getChildPtr(Cel(mem, r), t, k)
  <2> SUFFICES ASSUME r \in S, Cel(mem', r) # Cel(mem, r)
               PROVE  \A k \in Sub : getChildPtr(Cel(mem', r), t, k)
                                       = getChildPtr(Cel(mem, r), t, k)
    OBVIOUS
  <2>1. r \in Cell /\ r # q /\ r[1] # x /\ r # Null
    BY <1>5, CellType
  <2>2. /\ r \in WorkRoots /\ Cel(mem', r).child = Cel(mem, r).child
        /\ Cel(mem, r).iV2 \in {0, treehdr.trans} /\ Cel(mem', r).iV2 \in {0, treehdr.trans}
    BY <2>1 DEF MemStep
  <2>3. ~(treehdr.trans <= t)
    BY <2>1, <2>2
  <2> DEFINE y == Cel(mem', r)
             z == Cel(mem, r)
  <2>4. /\ y.child = z.child
        /\ y.iV2 = 0 \/ ~(y.iV2 <= t)
        /\ z.iV2 = 0 \/ ~(z.iV2 <= t)
    BY <2>2, <2>3
  <2> HIDE DEF y, z
  <2>5. \A k \in Sub : getChildPtr(y, t, k) = getChildPtr(z, t, k)
    BY <2>4, SameVersion
  <2> QED
    BY <2>5 DEF y, z
<1> HIDE DEF S, S2
<1>8. Tree(mem', r, t, cur, S2)
  <2>1. Tree(mem, r, t, cur, S)
    BY DEF S
  <2> QED
    BY <1>4, <1>6, <1>7, <2>1, TreeKept
<1> QED
  BY <1>8 DEF S2

LEMMA HolderGuarded ==
  ASSUME GoodPlaced, NEW c \in Conn, SlotInv(c)
  PROVE  Guarded(Tid(c))
<1> DEFINE b == Good.iNextShmid
<1>1. PICK j \in 1..(Good.nChunk - 1) : chunk[j].iShmid = Tid(c)
  BY DEF SlotInv
<1>2. j \in Chunks /\ Tid(c) \in Ids
  BY <1>1, HeaderType DEF GoodPlaced, HeaderPlaced, ChunkMap
<1>3. Rel(Tid(c), b) \in (-MaxChunk)..(MaxChunk - 1) /\ Rel(Tid(c), b) < 0
  BY <1>1 DEF GoodPlaced, HeaderPlaced, Near, Pos, SlotInv
<1> QED
  BY <1>2, <1>3, Sizes DEF Guarded

\* The live tree of the open transaction begins where the committed one does.
LEMMA SameLive ==
  ASSUME AliveMem
  PROVE  /\ LiveUsed(treehdr) = LiveUsed(Good)
         /\ HasOld(Good) /\ ~OldFlushed(Good, snap) => treehdr.iUsedShmid = Good.iUsedShmid
BY DEF AliveMem, OldKept, LiveUsed, HasOld

LEMMA AliveFrame ==
  ASSUME Types, Types', Main, Main', MemMain, Alive, Alive',
         UNCHANGED <<hdr1, hdr2, bWriter, snap, client, writer, iReader, stale>>,
         \A d \in Conn \ {writer} : hdr'[d] = hdr[d] /\ pc'[d] = pc[d],
         treehdr'.trans = treehdr.trans, treehdr'.iUsedShmid = treehdr.iUsedShmid,
         treehdr'.iOldShmid = treehdr.iOldShmid, treehdr'.iOldLog = treehdr.iOldLog,
         treehdr'.oldroot = treehdr.oldroot, treehdr'.oldtrans = treehdr.oldtrans,
         treehdr'.oldcur = treehdr.oldcur,
         NEW x, NEW q, MemStep(x, q), ChunkStep(x),
         \A L : Guarded(L) => q \notin Reg(Good, L),
         x \in 1..(Good.nChunk - 1) =>
           /\ Pos(chunk, x, Good.iNextShmid) < Rel(treehdr.iUsedShmid, Good.iNextShmid)
           /\ \A c \in Conn : ~Holds(c)',
         WorkRoots' \subseteq WorkRoots \cup {q},
         \A c \in Conn : Holds(c)' => Holds(c) /\ slot'[iReader[c]] = slot[iReader[c]]
  PROVE  GoodMem' /\ SnapInv' /\ \A c \in Conn : Holds(c)' => ReaderMem(c)'
<1> DEFINE G == Good
           b == Good.iNextShmid
           C(r, t) == r # Null => /\ r = Good.root => t <= Good.trans
                                  /\ r \in WorkRoots' => t < treehdr.trans
           T(r, t, cur, L) == Tree(mem', r, t, cur, Region(chunk', Good.nChunk, L, Good.iWrite))
<1>1. /\ Good' = Good /\ GoodPlaced /\ GoodPlaced' /\ AlivePlaced /\ AliveMem /\ bWriter
      /\ writer \in Conn /\ treehdr = hdr[writer] /\ treehdr' = hdr'[writer]
      /\ writer # None /\ pc[writer] \in AlivePcs /\ pc'[writer] \in AlivePcs
      /\ pc[writer] \notin EndPcs \cup ReaderPcs /\ pc'[writer] \notin EndPcs \cup ReaderPcs
      /\ ~AtEnd /\ ~AtEnd'
  <2>1. GoodPlaced /\ GoodPlaced' /\ AlivePlaced /\ AliveMem /\ Good' = Good
    <3>1. GoodPlaced /\ AlivePlaced
      BY GoodIsPlaced, AliveIsPlaced
    <3>2. (Types /\ Main => GoodPlaced)'
      BY GoodIsPlaced, PTL
    <3>3. AliveMem /\ Good' = Good
      BY DEF Good, MemMain
    <3> QED
      BY <3>1, <3>2, <3>3
  <2>2. /\ writer # None /\ pc[writer] \in AlivePcs /\ pc'[writer] \in AlivePcs
        /\ treehdr = hdr[writer] /\ treehdr' = hdr'[writer]
    BY DEF Alive, treehdr
  <2>3. bWriter /\ writer \in Conn
    BY <2>1 DEF AlivePlaced
  <2>4. AlivePcs \cap (EndPcs \cup ReaderPcs) = {}
    BY DEF AlivePcs, EndPcs, ReaderPcs
  <2> QED
    BY <2>1, <2>2, <2>3, <2>4 DEF AtEnd
<1>2. /\ Good.trans \in Nat /\ treehdr.trans \in Nat \ {0} /\ treehdr.trans = Good.trans + 1
      /\ Good.oldtrans \in Nat /\ b \in Ids
      /\ \A c \in Conn : hdr[c].trans \in Nat /\ hdr[c].oldtrans \in Nat
  <2>1. Good \in Header /\ treehdr \in Header /\ \A c \in Conn : hdr[c] \in Header
    BY <1>1 DEF GoodPlaced, AlivePlaced, HeaderPlaced, Types, HeaderTypes
  <2> QED
    BY <1>1, <2>1 DEF Header, AliveMem, GoodPlaced
<1>3. ASSUME NEW L, Guarded(L), x \in 1..(G.nChunk - 1) => Pos(chunk, x, b) < Rel(L, b),
             NEW r, NEW t \in Nat, NEW cur, Tree(mem, r, t, cur, Reg(G, L)),
             r # Null => (r = Good.root => t <= Good.trans),
             r # Null => (r \in WorkRoots => t < treehdr.trans)
      PROVE  T(r, t, cur, L) /\ C(r, t)
  <2>1. q \notin Reg(G, L)
    BY <1>3
  <2>2. T(r, t, cur, L)
    BY <1>1, <1>2, <1>3, <2>1, CommittedTree
  <2>3. r # Null => r \in Reg(G, L)
    BY <1>3 DEF Tree
  <2> QED
    BY <1>3, <2>1, <2>2, <2>3
<1>4. ASSUME NEW L, Guarded(L), x \in 1..(G.nChunk - 1) => Pos(chunk, x, b) < Rel(L, b),
             NEW r, NEW t \in Nat, NEW cur, Kept(r, t, cur, L)
      PROVE  T(r, t, cur, L) /\ C(r, t)
  BY <1>1, <1>3, <1>4 DEF Kept, Clear
<1> HIDE DEF G
<1>5. GoodMem'
  <2> DEFINE U == Rel(treehdr.iUsedShmid, b)
  <2>1. Guarded(LiveUsed(Good)) /\ U <= Rel(LiveUsed(Good), b) /\ Guarded(Good.iUsedShmid)
    <3>1. HeaderPlaced(treehdr, b) /\ HeaderPlaced(Good, b) /\ LiveUsed(treehdr) = LiveUsed(Good)
      BY <1>1, SameLive DEF AlivePlaced, GoodPlaced
    <3> QED
      BY <1>2, <3>1, LivePlaced DEF Guarded
  <2>2. x \in 1..(Good.nChunk - 1) => /\ Pos(chunk, x, b) < Rel(LiveUsed(Good), b)
                                      /\ HasOld(Good) /\ ~OldFlushed(Good, snap)
                                           => Pos(chunk, x, b) < Rel(Good.iUsedShmid, b)
    <3> SUFFICES ASSUME x \in 1..(Good.nChunk - 1)
                 PROVE  /\ Pos(chunk, x, b) < Rel(LiveUsed(Good), b)
                        /\ HasOld(Good) /\ ~OldFlushed(Good, snap)
                             => Pos(chunk, x, b) < Rel(Good.iUsedShmid, b)
      OBVIOUS
    <3>1. Pos(chunk, x, b) < U
      OBVIOUS
    <3>2. Pos(chunk, x, b) \in Int /\ U \in Int /\ Rel(LiveUsed(Good), b) \in Int
      <4>1. Near(chunk, Good.nChunk, b) /\ HeaderPlaced(treehdr, b)
        BY <1>1 DEF GoodPlaced, AlivePlaced, HeaderPlaced
      <4>2. Pos(chunk, x, b) \in (-MaxChunk)..(MaxChunk - 1)
        BY <4>1 DEF Near
      <4>3. U \in (-MaxChunk)..(-1) /\ Rel(LiveUsed(Good), b) \in (-MaxChunk)..(-1)
        BY <2>1, <4>1 DEF HeaderPlaced, Guarded
      <4> QED
        BY <4>2, <4>3
    <3>3. HasOld(Good) /\ ~OldFlushed(Good, snap) => U = Rel(Good.iUsedShmid, b)
      BY <1>1, SameLive
    <3> DEFINE P == Pos(chunk, x, b)
               V == Rel(LiveUsed(Good), b)
    <3>4. P < V
      <4>1. P \in Int /\ U \in Int /\ V \in Int /\ P < U /\ U <= V
        BY <2>1, <3>1, <3>2
      <4> HIDE DEF P, U, V
      <4> QED
        BY <4>1
    <3> QED
      BY <3>1, <3>3, <3>4
  <2>3. T(Good.root, Good.trans, Good.cur, LiveUsed(Good))
    <3>1. Tree(mem, Good.root, Good.trans, Good.cur, Reg(Good, LiveUsed(Good)))
      BY DEF MemMain, GoodMem, HeaderMem
    <3>2. Good.trans <= Good.trans /\ Good.trans < treehdr.trans
      BY <1>2
    <3> HIDE DEF T
    <3> QED
      BY <1>2, <1>3, <2>1, <2>2, <3>1, <3>2 DEF G
  <2>4. HasOld(Good) /\ ~OldFlushed(Good, snap) =>
          /\ T(Good.oldroot, Good.oldtrans, Good.oldcur, Good.iUsedShmid)
          /\ C(Good.oldroot, Good.oldtrans)
    <3>1. HasOld(Good) /\ ~OldFlushed(Good, snap) =>
            Kept(Good.oldroot, Good.oldtrans, Good.oldcur, Good.iUsedShmid)
      BY DEF MemMain, GoodMem, HeaderMem, Kept
    <3> HIDE DEF T, C
    <3> QED
      BY <1>2, <1>4, <2>1, <2>2, <3>1 DEF G
  <2>5. HeaderMem(Good)'
    BY <1>1, <2>3, <2>4 DEF HeaderMem, Reg
  <2>6. HasOld(Good)' /\ ~OldFlushed(Good, snap)' => Clear(Good.oldroot, Good.oldtrans)'
    BY <1>1, <2>4 DEF Clear
  <2>7. bWriter' /\ writer' # None
    BY <1>1
  <2> QED
    BY <2>5, <2>6, <2>7 DEF GoodMem
<1>6. SnapInv'
  <2>1. \A d \in Conn : pc'[d] = "loaded" => pc[d] = "loaded" /\ hdr'[d] = hdr[d]
    BY <1>1 DEF AlivePcs
  <2> QED
    BY <1>1, <2>1 DEF MemMain, SnapInv
<1>7. ASSUME NEW c \in Conn, Holds(c)'
      PROVE  ReaderMem(c)'
  <2>1. /\ ReaderMem(c) /\ x \notin 1..(Good.nChunk - 1) /\ Tid(c)' = Tid(c)
        /\ slot'[iReader'[c]] = slot[iReader[c]]
    BY <1>7 DEF MemMain, Tid
  <2>2. SlotInv(c) /\ Guarded(Tid(c))
    BY <1>1, <2>1, HolderGuarded DEF ReaderMem
  <2>3. PICK j \in 1..(Good.nChunk - 1) : chunk[j].iShmid = Tid(c)
    BY <2>2 DEF SlotInv
  <2>4. chunk'[j].iShmid = Tid(c)
    <3>1. Pos(chunk, j, b) <= -1
      BY <2>2, <2>3 DEF Guarded, Pos
    <3> QED
      BY <2>1, <2>3, <3>1 DEF ChunkStep
  <2>5. /\ hdr'[c].iUsedShmid = hdr[c].iUsedShmid
        /\ hdr'[c].iOldShmid = hdr[c].iOldShmid /\ hdr'[c].iOldLog = hdr[c].iOldLog
        /\ hdr'[c].oldroot = hdr[c].oldroot /\ hdr'[c].oldtrans = hdr[c].oldtrans
        /\ hdr'[c].oldcur = hdr[c].oldcur
        /\ pc[c] \notin EndPcs /\ pc'[c] \notin EndPcs
        /\ pc'[c] = "reading" => pc[c] = "reading" /\ hdr'[c] = hdr[c]
    <3>1. CASE c = writer
      BY <1>1, <3>1 DEF ReaderPcs
    <3>2. CASE c # writer
      <4>1. pc[c] \in ReaderPcs /\ pc'[c] = pc[c]
        BY <3>2 DEF Main
      <4> QED
        BY <3>2, <4>1 DEF EndPcs, ReaderPcs
    <3> QED
      BY <3>1, <3>2
  <2>6. SlotInv(c)'
    BY <1>1, <2>1, <2>2, <2>3, <2>4, <2>5 DEF SlotInv
  <2>7. \A r, cur : \A t \in Nat : Kept(r, t, cur, Tid(c)) => T(r, t, cur, Tid(c)) /\ C(r, t)
    <3> HIDE DEF T, C
    <3> QED
      BY <1>4, <2>1, <2>2 DEF G
  <2>8. pc'[c] = "reading" => Kept(hdr[c].root, hdr[c].trans, hdr[c].cur, Tid(c))'
    <3> SUFFICES ASSUME pc'[c] = "reading"
                 PROVE  Kept(hdr[c].root, hdr[c].trans, hdr[c].cur, Tid(c))'
      OBVIOUS
    <3>1. Kept(hdr[c].root, hdr[c].trans, hdr[c].cur, Tid(c)) /\ hdr'[c] = hdr[c]
      BY <2>1, <2>5 DEF ReaderMem
    <3>2. T(hdr[c].root, hdr[c].trans, hdr[c].cur, Tid(c)) /\ C(hdr[c].root, hdr[c].trans)
      <4> HIDE DEF T, C
      <4> QED
        BY <1>2, <2>7, <3>1
    <3> QED
      BY <1>1, <2>1, <3>1, <3>2 DEF Kept, Clear, Reg
  <2>9. HasOld(hdr[c])' /\ ~OldFlushed(hdr[c], client[c])' =>
          Kept(hdr[c].oldroot, hdr[c].oldtrans, hdr[c].oldcur, Tid(c))'
    <3> SUFFICES ASSUME HasOld(hdr[c])', ~OldFlushed(hdr[c], client[c])'
                 PROVE  Kept(hdr[c].oldroot, hdr[c].oldtrans, hdr[c].oldcur, Tid(c))'
      OBVIOUS
    <3>1. HasOld(hdr[c]) /\ ~OldFlushed(hdr[c], client[c])
      BY <2>5 DEF HasOld, OldFlushed
    <3>2. Kept(hdr[c].oldroot, hdr[c].oldtrans, hdr[c].oldcur, Tid(c))
      BY <2>1, <2>5, <3>1 DEF ReaderMem
    <3>3. T(hdr[c].oldroot, hdr[c].oldtrans, hdr[c].oldcur, Tid(c))
          /\ C(hdr[c].oldroot, hdr[c].oldtrans)
      <4> HIDE DEF T, C
      <4> QED
        BY <1>2, <2>7, <3>2
    <3> QED
      BY <1>1, <2>1, <2>5, <3>3 DEF Kept, Clear, Reg
  <2> QED
    BY <2>5, <2>6, <2>8, <2>9 DEF ReaderMem
<1> QED
  BY <1>5, <1>6, <1>7

----------------------------------------------------------------------------
(* The steps of an open transaction.                                        *)

LEMMA AliveFacts ==
  ASSUME Types, Main, MemInv, NEW c \in Conn, writer = c, pc[c] \in AlivePcs
  PROVE  /\ Alive /\ MemTypes /\ MemMain /\ AliveMem /\ AliveInv /\ AlivePlaced /\ GoodPlaced
         /\ treehdr = hdr[c] /\ treehdr \in Header /\ Good \in Header /\ hdr[c] \in Header
         /\ chunk \in ChunkMap
<1>1. writer # None /\ pc[writer] # "lost"
  BY NoneNotConn DEF AlivePcs
<1>2. ~IsLost
  BY <1>1 DEF IsLost
<1>3. Alive /\ MemTypes /\ MemMain /\ AliveMem
  BY <1>1, <1>2 DEF Alive, MemInv, MemMain
<1>4. AliveInv /\ AlivePlaced /\ GoodPlaced
  BY <1>3, AliveIsPlaced, GoodIsPlaced
<1> QED
  BY <1>3, <1>4, WriterAlive

LEMMA AliveNext ==
  ASSUME Inv', NEW c \in Conn, writer' = c, pc'[c] \in AlivePcs
  PROVE  /\ Types' /\ Main' /\ Alive' /\ ~AtEnd' /\ AliveInv' /\ AlivePlaced' /\ GoodPlaced'
         /\ treehdr' = hdr'[c] /\ treehdr' \in Header /\ chunk' \in ChunkMap
<1>1. writer' # None /\ pc'[writer'] # "lost"
  BY NoneNotConn DEF AlivePcs
<1>2. Types' /\ Main'
  BY <1>1 DEF Inv, IsLost
<1>3. Alive' /\ ~AtEnd'
  BY <1>1 DEF Alive, AtEnd, EndPcs, AlivePcs
<1>4. (Types /\ Main => GoodPlaced)' /\ (Types /\ Main /\ Alive => AlivePlaced /\ AliveInv)'
  BY GoodIsPlaced, AliveIsPlaced, PTL
<1>5. treehdr' = hdr'[c]
  BY DEF treehdr
<1> QED
  BY <1>2, <1>3, <1>4, <1>5 DEF Types, HeaderTypes

LEMMA AliveIntro ==
  ASSUME MemTypes', GoodMem', SnapInv', \A c \in Conn : Holds(c)' => ReaderMem(c)',
         ~AtEnd', AliveMem'
  PROVE  MemInv'
BY DEF MemInv, MemMain

\* What an open transaction leaves of its header.
LEMMA OldFrame ==
  ASSUME AliveMem, Good' = Good, UNCHANGED snap,
         treehdr'.trans = treehdr.trans, treehdr'.iUsedShmid = treehdr.iUsedShmid,
         treehdr'.iOldShmid = treehdr.iOldShmid, treehdr'.iOldLog = treehdr.iOldLog,
         treehdr'.oldroot = treehdr.oldroot, treehdr'.oldtrans = treehdr.oldtrans,
         treehdr'.oldcur = treehdr.oldcur
  PROVE  /\ treehdr'.trans = Good'.trans + 1 /\ treehdr'.iOldLog = Good'.iOldLog
         /\ OldKept' /\ LiveUsed(treehdr') = LiveUsed(treehdr)
BY DEF AliveMem, OldKept, HasOld, OldFlushed, LiveUsed

LEMMA MarkFrame ==
  ASSUME NEW k \in 1..Top, MarkMem(k), marks'[k] = marks[k], Good' = Good,
         treehdr'.trans = treehdr.trans, LiveUsed(treehdr') = LiveUsed(treehdr),
         WorkReg(marks[k].mark.iWrite) \subseteq
           Region(chunk', treehdr'.nChunk, LiveUsed(treehdr), marks[k].mark.iWrite),
         \A p \in WorkReg(marks[k].mark.iWrite) :
           Cel(mem', p).node = Cel(mem, p).node /\ Cel(mem', p).val = Cel(mem, p).val,
         marks[k].mark.root \in WorkReg(marks[k].mark.iWrite) =>
           /\ Cel(mem', marks[k].mark.root).iV2 <= treehdr.trans
           /\ MarkCell(k)'.node = MarkCell(k).node
           /\ \A s \in Sub : getChildPtr(MarkCell(k)', treehdr.trans, s)
                               = getChildPtr(MarkCell(k), treehdr.trans, s),
         \A n \in 1..marks[k].iRollback : rollback'[n] = rollback[n],
         pc'[writer'] # "rollback" => Offs(marks[k].mark.iWrite, treehdr'.iWrite),
         pc'[writer'] \in {"linkleaf", "linkcopy"} => marks[k].mark.iWrite[1] # pend'.chunk,
         \A l \in k..Top' : Offs(marks[k].mark.iWrite, marks'[l].mark.iWrite)
  PROVE  MarkMem(k)'
<1> DEFINE m == marks[k].mark
           S == WorkReg(m.iWrite)
           S2 == Region(chunk', treehdr'.nChunk, LiveUsed(treehdr), m.iWrite)
           mc == MarkCell(k)
<1>1. /\ IF m.root = Null THEN m.cur = Empty
         ELSE /\ m.root \in S /\ Shows(mem, mc, treehdr.trans, m.cur, S)
              /\ Cel(mem, m.root).iV2 <= treehdr.trans
      /\ \A n \in 1..marks[k].iRollback : rollback[n] \in S
      /\ Offs(Good.iWrite, m.iWrite)
  BY DEF MarkMem
<1>2. m.root # Null => Shows(mem', MarkCell(k)', treehdr.trans, m.cur, S2)
  <2> SUFFICES ASSUME m.root # Null PROVE Shows(mem', MarkCell(k)', treehdr.trans, m.cur, S2)
    OBVIOUS
  <2>1. m.root \in S /\ Shows(mem, mc, treehdr.trans, m.cur, S)
    BY <1>1
  <2>2. /\ MarkCell(k)'.node = mc.node
        /\ \A s \in Sub : getChildPtr(MarkCell(k)', treehdr.trans, s)
                            = getChildPtr(mc, treehdr.trans, s)
    BY <2>1
  <2>3. S \subseteq S2 /\ \A p \in S : Cel(mem', p).node = Cel(mem, p).node
                                       /\ Cel(mem', p).val = Cel(mem, p).val
    OBVIOUS
  <2> HIDE DEF S, S2, mc, m
  <2> QED
    BY <2>1, <2>2, <2>3, ShowsGrows
<1>3. WorkReg(marks[k].mark.iWrite)' = S2 /\ marks'[k].mark = m
  BY DEF WorkReg
<1>4. IF m.root = Null THEN m.cur = Empty
      ELSE /\ m.root \in S2 /\ Shows(mem', MarkCell(k)', treehdr.trans, m.cur, S2)
           /\ Cel(mem', m.root).iV2 <= treehdr.trans
  <2>1. S \subseteq S2
    OBVIOUS
  <2>2. m.root # Null => Cel(mem', m.root).iV2 <= treehdr.trans
    BY <1>1
  <2> HIDE DEF S, S2, mc, m
  <2> QED
    BY <1>1, <1>2, <2>1, <2>2
<1>5. \A n \in 1..marks[k].iRollback : rollback'[n] \in S2
  BY <1>1
<1> QED
  BY <1>1, <1>3, <1>4, <1>5 DEF MarkMem

\* A step that changes no memory and frees nothing.
LEMMA QuietFrame ==
  ASSUME Types, Types', Main, Main', MemMain, Alive, Alive', MemTypes,
         UNCHANGED <<mem, hdr1, hdr2, bWriter, snap, client, writer, slot, iReader, rlock, stale>>,
         \A d \in Conn \ {writer} : hdr'[d] = hdr[d] /\ pc'[d] = pc[d],
         treehdr'.trans = treehdr.trans, treehdr'.iUsedShmid = treehdr.iUsedShmid,
         treehdr'.iOldShmid = treehdr.iOldShmid, treehdr'.iOldLog = treehdr.iOldLog,
         treehdr'.oldroot = treehdr.oldroot, treehdr'.oldtrans = treehdr.oldtrans,
         treehdr'.oldcur = treehdr.oldcur,
         ChunkStep(0), WorkRoots' \subseteq WorkRoots
  PROVE  MemTypes' /\ GoodMem' /\ SnapInv' /\ \A c \in Conn : Holds(c)' => ReaderMem(c)'
<1>1. MemStep(0, Null)
  BY DEF MemStep, Cel
<1>2. \A L : Null \notin Reg(Good, L)
  BY CellType DEF Reg, Region
<1>3. 0 \notin 1..(Good.nChunk - 1)
  OBVIOUS
<1>4. \A c \in Conn : Holds(c)' => Holds(c) /\ slot'[iReader[c]] = slot[iReader[c]]
  BY DEF Holds, Alive, AlivePcs, EndPcs
<1>5. MemTypes'
  BY DEF MemTypes, Cel
<1> QED
  BY <1>1, <1>2, <1>3, <1>4, <1>5, AliveFrame

LEMMA OffsSame ==
  ASSUME NEW w, w[2] \in Nat
  PROVE  Offs(w, w)
BY DEF Offs

LEMMA BeginNestedMem ==
  ASSUME Inv, Inv', MemInv, NEW c \in Conn, BeginNested(c)
  PROVE  MemInv'
<1> DEFINE h == treehdr
           n == Len(marks)
           new == [mark |-> Mark(h), iRollback |-> Len(rollback)]
<1>1. pc[c] = "open" /\ writer = c /\ Types /\ Main /\ pc[c] \in AlivePcs
  BY NotLost DEF BeginNested, Writing, AlivePcs
<1>2. /\ Alive /\ MemTypes /\ MemMain /\ AliveMem /\ AlivePlaced /\ h \in Header /\ h = hdr[c]
  BY <1>1, AliveFacts
<1>3. /\ UNCHANGED <<chunk, mem, hdr1, hdr2, bWriter, snap, client, writer, slot, iReader,
                     rlock, stale, pc, hdr, rollback, pend>>
      /\ marks' = Append(marks, new)
  BY DEF BeginNested, shmVars, lockVars
<1>4. /\ Types' /\ Main' /\ Alive' /\ ~AtEnd' /\ treehdr' = h
  BY <1>1, <1>2, <1>3, AliveNext
<1>5. /\ n \in Nat /\ Top = n /\ Top' = n + 1 /\ marks'[n + 1] = new
      /\ \A k \in 1..n : marks'[k] = marks[k]
  <2>1. n \in Nat /\ marks \in Seq([mark : MarkRec, iRollback : Nat])
    BY <1>1, MarkTypes DEF Types, WriteTypes
  <2>2. new \in [mark : MarkRec, iRollback : Nat]
    BY <1>2, MarkIsMark DEF AlivePlaced
  <2>3. Len(marks') = n + 1 /\ marks'[n + 1] = new /\ \A k \in 1..n : marks'[k] = marks[k]
    BY <1>3, <2>1, <2>2
  <2> QED
    BY <1>1, <1>3, <2>1, <2>3 DEF Top
<1>6. Good' = Good
  BY <1>3 DEF Good
<1>7. /\ treehdr'.trans = Good'.trans + 1 /\ treehdr'.iOldLog = Good'.iOldLog
      /\ OldKept' /\ LiveUsed(treehdr') = LiveUsed(treehdr)
  BY <1>2, <1>3, <1>4, <1>6, OldFrame
<1>8. WorkRoots' \subseteq WorkRoots
  <2>1. \A k \in 1..(n + 1) : k \in 1..n \/ k = n + 1
    BY <1>5
  <2>2. \A k \in 1..(n + 1) : marks'[k].mark.root \in WorkRoots
    BY <1>5, <2>1 DEF Mark, WorkRoots
  <2> QED
    BY <1>3, <1>4, <1>5, <2>2 DEF WorkRoots
<1>9. MemTypes' /\ GoodMem' /\ SnapInv' /\ \A d \in Conn : Holds(d)' => ReaderMem(d)'
  BY <1>1, <1>2, <1>3, <1>4, <1>8, QuietFrame DEF ChunkStep
<1>10. /\ WorkMem /\ RollbackInv /\ \A k \in 1..n : MarkMem(k)
       /\ h.iWrite[2] \in Nat
  BY <1>1, <1>2, <1>5 DEF AliveMem, AlivePlaced, HeaderPlaced
<1>11. ASSUME NEW k \in 1..n
       PROVE  MarkMem(k)'
  <2>1. MarkMem(k) /\ Offs(marks[k].mark.iWrite, h.iWrite)
    BY <1>1, <1>10 DEF MarkMem
  <2>2. marks'[k] = marks[k] /\ k \in 1..Top
    BY <1>5
  <2>3. \A l \in k..Top' : Offs(marks[k].mark.iWrite, marks'[l].mark.iWrite)
    <3> SUFFICES ASSUME NEW l \in k..Top'
                 PROVE  Offs(marks[k].mark.iWrite, marks'[l].mark.iWrite)
      OBVIOUS
    <3>1. CASE l = n + 1
      BY <1>5, <2>1, <3>1 DEF Mark
    <3>2. CASE l # n + 1
      <4>1. l \in k..n
        BY <1>5, <3>2
      <4> QED
        BY <1>5, <2>1, <4>1 DEF MarkMem
    <3> QED
      BY <3>1, <3>2
  <2>4. MarkCell(k)' = MarkCell(k)
    BY <1>3, <2>2 DEF MarkCell, Since
  <2>5. marks[k].mark.root \in WorkReg(marks[k].mark.iWrite) =>
          Cel(mem, marks[k].mark.root).iV2 <= treehdr.trans
    <3>1. marks[k].mark.root \in WorkReg(marks[k].mark.iWrite) => marks[k].mark.root # Null
      BY CellType DEF WorkReg, Region
    <3> QED
      BY <2>1, <3>1 DEF MarkMem
  <2> QED
    BY <1>1, <1>3, <1>4, <1>6, <1>7, <2>1, <2>2, <2>3, <2>4, <2>5, MarkFrame DEF WorkReg
<1>12. ASSUME NEW k, k = n + 1
       PROVE  MarkMem(k)'
  <2> DEFINE S == WorkReg(h.iWrite)
  <2>0. /\ marks'[k].mark.root = h.root /\ marks'[k].mark.cur = h.cur
        /\ marks'[k].mark.iWrite = h.iWrite /\ marks'[k].iRollback = Len(rollback)
        /\ Len(rollback) \in Nat
    BY <1>2, <1>5, <1>12 DEF Mark, AlivePlaced
  <2>1. /\ Since(k)' = {} /\ WorkReg(marks[k].mark.iWrite)' = S
        /\ MarkCell(k)' = Cel(mem, h.root)
    <3>1. Since(k)' = {}
      <4>1. {rollback[j] : j \in (Len(rollback) + 1)..Len(rollback)} = {}
        BY <2>0
      <4> HIDE DEF h, new
      <4> QED
        BY <1>3, <2>0, <4>1 DEF Since
    <3>2. marks'[k].mark.root \notin Since(k)'
      BY <3>1
    <3>3. MarkCell(k)' = Cel(mem, h.root)
      <4> HIDE DEF h, new
      <4> QED
        BY <1>3, <2>0, <3>2 DEF MarkCell
    <3> QED
      BY <1>4, <1>3, <2>0, <3>1, <3>3 DEF WorkReg
  <2>2. \A l \in k..Top' : l = k
    BY <1>5, <1>12
  <2>3. /\ Tree(mem, h.root, h.trans, h.cur, S)
        /\ h.root # Null => Cel(mem, h.root).iV2 <= h.trans
        /\ \A j \in 1..Len(rollback) : rollback[j] \in S
        /\ Offs(Good.iWrite, h.iWrite) /\ Offs(h.iWrite, h.iWrite)
    BY <1>10, OffsSame DEF WorkMem
  <2> HIDE DEF S
  <2> QED
    BY <1>1, <1>3, <1>4, <1>6, <2>0, <2>1, <2>2, <2>3 DEF MarkMem, Tree
<1>13. AliveMem'
  <2>1. \A k \in 1..(n + 1) : k \in 1..n \/ k = n + 1
    BY <1>5
  <2>2. \A k \in 1..Top' : MarkMem(k)'
    BY <1>5, <1>11, <1>12, <2>1
  <2>3. RollbackInv' /\ WorkMem'
    BY <1>1, <1>3, <1>4, <1>6, <1>10 DEF RollbackInv, WorkMem, WorkReg
  <2> QED
    BY <1>1, <1>3, <1>7, <2>2, <2>3 DEF AliveMem
<1> QED
  BY <1>4, <1>9, <1>13, AliveIntro

LEMMA RegionRoot ==
  ASSUME NEW ch, NEW n, NEW L, NEW w, NEW r \in Region(ch, n, L, w)
  PROVE  r \in Cell /\ r # Null
BY CellType DEF Region

\* The marks that stay when the innermost transaction goes
LEMMA FewerMarks ==
  ASSUME AliveMem, AlivePlaced, NEW k \in 1..Top, k \in 1..Top', Top' <= Top, Top' \in Nat,
         \A l \in 1..Top' : marks'[l] = marks[l],
         Good' = Good, chunk' = chunk, mem' = mem, treehdr'.trans = treehdr.trans,
         LiveUsed(treehdr') = LiveUsed(treehdr),
         WorkReg(marks[k].mark.iWrite) \subseteq
           Region(chunk', treehdr'.nChunk, LiveUsed(treehdr), marks[k].mark.iWrite),
         rollback' = rollback,
         pc'[writer'] # "rollback" => Offs(marks[k].mark.iWrite, treehdr'.iWrite),
         pc'[writer'] \notin {"linkleaf", "linkcopy"}
  PROVE  MarkMem(k)'
<1>1. MarkMem(k)
  BY DEF AliveMem
<1>2. \A l \in k..Top' : l \in k..Top /\ l \in 1..Top'
  BY DEF AlivePlaced
<1>3. \A l \in k..Top' : Offs(marks[k].mark.iWrite, marks'[l].mark.iWrite)
  BY <1>1, <1>2 DEF MarkMem
<1>4. MarkCell(k)' = MarkCell(k)
  BY DEF MarkCell, Since
<1>5. marks[k].mark.root \in WorkReg(marks[k].mark.iWrite) =>
        Cel(mem, marks[k].mark.root).iV2 <= treehdr.trans
  BY <1>1, RegionRoot DEF MarkMem, WorkReg
<1> QED
  BY <1>1, <1>3, <1>4, <1>5, MarkFrame

LEMMA CommitNestedMem ==
  ASSUME Inv, Inv', MemInv, NEW c \in Conn, CommitNested(c)
  PROVE  MemInv'
<1> DEFINE h == treehdr
           n == Len(marks)
<1>1. pc[c] = "open" /\ writer = c /\ Types /\ Main /\ pc[c] \in AlivePcs /\ n > 1
  BY NotLost DEF CommitNested, Writing, AlivePcs
<1>2. /\ Alive /\ MemTypes /\ MemMain /\ AliveMem /\ AlivePlaced /\ h \in Header /\ h = hdr[c]
  BY <1>1, AliveFacts
<1>3. /\ UNCHANGED <<chunk, mem, hdr1, hdr2, bWriter, snap, client, writer, slot, iReader,
                     rlock, stale, pc, hdr, rollback, pend>>
      /\ marks' = SubSeq(marks, 1, n - 1)
  BY DEF CommitNested, shmVars, lockVars
<1>4. /\ Types' /\ Main' /\ Alive' /\ ~AtEnd' /\ treehdr' = h
  BY <1>1, <1>2, <1>3, AliveNext
<1>5. /\ n \in Nat /\ Top = n /\ Top' = n - 1 /\ n - 1 \in Nat
      /\ \A k \in 1..(n - 1) : marks'[k] = marks[k]
  <2>1. n \in Nat /\ marks \in Seq([mark : MarkRec, iRollback : Nat])
    BY <1>1, MarkTypes DEF Types, WriteTypes
  <2>2. n - 1 \in 0..n
    BY <1>1, <2>1
  <2> HIDE DEF n
  <2>3. Len(marks') = n - 1 /\ \A k \in 1..(n - 1) : marks'[k] = marks[k]
    BY <1>3, <2>1, <2>2, Prefix DEF n
  <2> QED
    BY <1>1, <1>3, <2>1, <2>3 DEF Top, n
<1>6. Good' = Good
  BY <1>3 DEF Good
<1>7. /\ treehdr'.trans = Good'.trans + 1 /\ treehdr'.iOldLog = Good'.iOldLog
      /\ OldKept' /\ LiveUsed(treehdr') = LiveUsed(treehdr)
  BY <1>2, <1>3, <1>4, <1>6, OldFrame
<1>8. WorkRoots' \subseteq WorkRoots
  <2>1. \A k \in 1..(n - 1) : k \in 1..n
    BY <1>5
  <2> QED
    BY <1>3, <1>4, <1>5, <2>1 DEF WorkRoots
<1>9. MemTypes' /\ GoodMem' /\ SnapInv' /\ \A d \in Conn : Holds(d)' => ReaderMem(d)'
  BY <1>1, <1>2, <1>3, <1>4, <1>8, QuietFrame DEF ChunkStep
<1>10. /\ WorkMem /\ RollbackInv /\ \A k \in 1..n : MarkMem(k)
  BY <1>1, <1>2, <1>5 DEF AliveMem
<1>11. ASSUME NEW k \in 1..Top'
       PROVE  MarkMem(k)'
  <2>1. k \in 1..Top /\ Top' <= Top /\ Top' \in Nat
    BY <1>5, <1>11
  <2>2. MarkMem(k) /\ Offs(marks[k].mark.iWrite, h.iWrite)
    BY <1>1, <1>2, <2>1 DEF MarkMem, AliveMem
  <2> QED
    BY <1>1, <1>2, <1>3, <1>4, <1>5, <1>6, <1>7, <2>1, <2>2, FewerMarks DEF WorkReg
<1>13. AliveMem'
  <2>3. RollbackInv' /\ WorkMem'
    BY <1>1, <1>3, <1>4, <1>6, <1>10 DEF RollbackInv, WorkMem, WorkReg
  <2> QED
    BY <1>1, <1>3, <1>7, <1>11, <2>3 DEF AliveMem
<1> QED
  BY <1>4, <1>9, <1>13, AliveIntro

LEMMA RollbackNestedMem ==
  ASSUME Inv, Inv', MemInv, NEW c \in Conn, RollbackNested(c)
  PROVE  MemInv'
<1> DEFINE h == treehdr
           n == pend.iLevel
           m == marks[n].mark
           h2 == Restored(m)
<1>1. pc[c] = "rollback" /\ writer = c /\ Types /\ Main /\ pc[c] \in AlivePcs /\ n > 0 /\ n \in Nat
  BY NotLost DEF RollbackNested, Writing, AlivePcs, Types, WriteTypes
<1>2. /\ Alive /\ MemTypes /\ MemMain /\ AliveMem /\ AlivePlaced /\ GoodPlaced
      /\ h \in Header /\ h = hdr[c]
  BY <1>1, AliveFacts
<1>3. /\ UNCHANGED <<chunk, mem, hdr1, hdr2, bWriter, snap, client, writer, slot, iReader,
                     rlock, stale, rollback>>
      /\ marks' = SubSeq(marks, 1, n) /\ hdr' = [hdr EXCEPT ![c] = h2]
      /\ pc' = [pc EXCEPT ![c] = "open"]
  <2>1. MarkOf(pend.iLevel) = marks[n]
    <3>1. n # 0
      BY <1>1
    <3> QED
      BY <3>1 DEF MarkOf
  <2> QED
    BY <2>1 DEF RollbackNested, shmVars, lockVars, SetHeader, Goto
<1>4. pc'[c] = "open" /\ hdr'[c] = h2 /\ \A d \in Conn \ {c} : hdr'[d] = hdr[d] /\ pc'[d] = pc[d]
  BY <1>1, <1>3 DEF Types, HeaderTypes
<1>5. /\ Types' /\ Main' /\ Alive' /\ ~AtEnd' /\ treehdr' = h2 /\ AlivePlaced'
  BY <1>1, <1>3, <1>4, AliveNext DEF AlivePcs
<1>6. /\ Top = n /\ Top' = n /\ n \in 1..Len(marks)
      /\ \A k \in 1..n : marks'[k] = marks[k]
  <2>1. marks \in Seq([mark : MarkRec, iRollback : Nat]) /\ Len(marks) \in Nat
    BY <1>1, MarkTypes DEF Types, WriteTypes
  <2>2. Top = n /\ n \in 0..Len(marks)
    BY <1>1, <1>2, <2>1 DEF Top, AlivePlaced
  <2>3. Len(marks') = n /\ \A k \in 1..n : marks'[k] = marks[k]
    BY <1>3, <2>1, <2>2, Prefix
  <2> QED
    BY <1>1, <1>3, <1>4, <2>1, <2>2, <2>3 DEF Top
<1>7. Good' = Good
  BY <1>3 DEF Good
<1>8. /\ h2.root = m.root /\ h2.iWrite = m.iWrite /\ h2.nChunk = m.nChunk
      /\ h2.cur = m.cur /\ h2.trans = h.trans /\ h2.iUsedShmid = h.iUsedShmid
      /\ h2.iOldShmid = h.iOldShmid /\ h2.iOldLog = h.iOldLog /\ h2.oldroot = h.oldroot
      /\ h2.oldtrans = h.oldtrans /\ h2.oldcur = h.oldcur
  BY <1>2 DEF Restored, Header
<1>9. /\ treehdr'.trans = Good'.trans + 1 /\ treehdr'.iOldLog = Good'.iOldLog
      /\ OldKept' /\ LiveUsed(treehdr') = LiveUsed(treehdr)
  BY <1>2, <1>3, <1>5, <1>7, <1>8, OldFrame
<1>10. WorkRoots' \subseteq WorkRoots
  BY <1>3, <1>5, <1>6, <1>8 DEF WorkRoots
<1>11. MemTypes' /\ GoodMem' /\ SnapInv' /\ \A d \in Conn : Holds(d)' => ReaderMem(d)'
  BY <1>1, <1>2, <1>3, <1>4, <1>5, <1>8, <1>10, QuietFrame DEF ChunkStep
\* What lies below a mark is not above the chunks of mark n.
<1>12. ASSUME NEW k \in 1..n
       PROVE  WorkReg(marks[k].mark.iWrite) \subseteq
                Region(chunk', h2.nChunk, LiveUsed(h), marks[k].mark.iWrite)
  <2> DEFINE b == Good.iNextShmid
             w == marks[k].mark.iWrite
             X == Rel(m.iNextShmid, b)
             Y == Rel(marks[k].mark.iNextShmid, b)
  <2>1. Placed(chunk, h.nChunk, LiveUsed(h), w, b)
    BY <1>2, <1>6, WorkRegion
  <2>2. /\ Pos(chunk, w[1], b) = Y - 1 /\ Y <= X /\ X \in Int /\ Y \in Int
        /\ \A i \in 1..(h.nChunk - 1) : Pos(chunk, i, b) < X => i < m.nChunk
    <3>1. n \in 1..Top /\ k \in 1..Top /\ k <= n
      BY <1>1, <1>6
    <3>2. Rel(treehdr.iNextShmid, b) \in Int
      BY <1>2 DEF AlivePlaced
    <3>3. X \in 0..Rel(treehdr.iNextShmid, b) /\ Y \in 0..Rel(treehdr.iNextShmid, b)
      BY <1>2, <3>1 DEF AlivePlaced
    <3>4. Y <= X /\ Pos(chunk, w[1], b) = Y - 1
      BY <1>2, <3>1 DEF AlivePlaced
    <3>5. \A i \in 1..(h.nChunk - 1) : Pos(chunk, i, b) < X => i < m.nChunk
      BY <1>2, <3>1 DEF AlivePlaced
    <3> HIDE DEF X, Y
    <3> QED
      BY <3>2, <3>3, <3>4, <3>5
  <2> SUFFICES ASSUME NEW p \in WorkReg(w)
               PROVE  p \in Region(chunk', h2.nChunk, LiveUsed(h), w)
    OBVIOUS
  <2>3. p \in Cell /\ InRegion(chunk, h.nChunk, LiveUsed(h), w, b, p[1])
    BY <2>1, RegionPos DEF WorkReg
  <2>4. p[1] \in 1..(h.nChunk - 1) /\ Pos(chunk, p[1], b) <= Pos(chunk, w[1], b)
        /\ Pos(chunk, p[1], b) \in Int
    BY <2>1, <2>3 DEF InRegion, Placed, Near
  <2>5. Pos(chunk, p[1], b) < X
    <3> DEFINE P == Pos(chunk, p[1], b)
    <3>1. P <= Y - 1 /\ P \in Int
      BY <2>2, <2>4
    <3> HIDE DEF P, X, Y
    <3> QED
      BY <2>2, <3>1 DEF P
  <2>6. p[1] < m.nChunk
    BY <2>2, <2>4, <2>5
  <2> QED
    BY <1>3, <1>8, <2>6 DEF WorkReg, Region
<1>13. ASSUME NEW k \in 1..Top'
       PROVE  MarkMem(k)'
  <2>1. k \in 1..Top /\ Top' <= Top /\ Top' \in Nat /\ k \in 1..n
    BY <1>1, <1>6, <1>13
  <2>2. MarkMem(k) /\ Offs(marks[k].mark.iWrite, h2.iWrite)
    <3>1. MarkMem(k) /\ n \in k..Top
      BY <1>1, <1>2, <1>6, <2>1 DEF AliveMem
    <3> QED
      BY <1>8, <3>1 DEF MarkMem
  <2>3. /\ \A l \in 1..Top' : marks'[l] = marks[l]
        /\ pc'[writer'] = "open" /\ treehdr'.iWrite = h2.iWrite
        /\ treehdr'.trans = h.trans /\ treehdr'.nChunk = h2.nChunk
    BY <1>1, <1>3, <1>4, <1>5, <1>6, <1>8
  <2>4. WorkReg(marks[k].mark.iWrite) \subseteq
          Region(chunk', treehdr'.nChunk, LiveUsed(treehdr), marks[k].mark.iWrite)
    BY <1>12, <2>1, <2>3
  <2>5. /\ Offs(marks[k].mark.iWrite, treehdr'.iWrite) /\ treehdr'.trans = treehdr.trans
        /\ pc'[writer'] \notin {"linkleaf", "linkcopy"}
    BY <2>2, <2>3
  <2> QED
    BY <1>2, <1>3, <1>7, <1>9, <2>1, <2>3, <2>4, <2>5, FewerMarks
<1>14. WorkMem'
  <2> DEFINE S == WorkReg(m.iWrite)
             S2 == Region(chunk', h2.nChunk, LiveUsed(h), m.iWrite)
  <2>1. n \in 1..Top
    BY <1>1, <1>6
  <2>2. /\ MarkMem(n) /\ marks[n].iRollback = Len(rollback) /\ S \subseteq S2
    BY <1>1, <1>2, <1>6, <1>12, <2>1 DEF AliveMem, RollbackInv
  <2>3. MarkCell(n) = Cel(mem, m.root)
    <3>1. Since(n) = {}
      BY <1>2, <2>2 DEF Since, AlivePlaced
    <3> QED
      BY <3>1 DEF MarkCell
  <2>4. /\ Tree(mem, m.root, h.trans, m.cur, S)
        /\ m.root # Null => Cel(mem, m.root).iV2 <= h.trans
        /\ \A j \in 1..Len(rollback) : rollback[j] \in S
        /\ Offs(Good.iWrite, m.iWrite)
    BY <2>2, <2>3 DEF MarkMem, Tree
  <2>5. Tree(mem, m.root, h.trans, m.cur, S2)
    <3> HIDE DEF S, S2
    <3> QED
      BY <2>2, <2>4, TreeGrows
  <2>6. WorkReg(treehdr.iWrite)' = S2
    BY <1>5, <1>8, <1>9 DEF WorkReg
  <2> QED
    BY <1>3, <1>5, <1>7, <1>8, <2>2, <2>4, <2>5, <2>6 DEF WorkMem
<1>15. AliveMem'
  <2>1. RollbackInv'
    BY <1>2, <1>3, <1>4, <1>5, <1>8, <1>1 DEF RollbackInv, AliveMem
  <2> QED
    BY <1>1, <1>3, <1>4, <1>9, <1>13, <1>14, <2>1 DEF AliveMem
<1> QED
  BY <1>5, <1>11, <1>15, AliveIntro

LEMMA WorkRegionNext ==
  ASSUME GoodPlaced', AlivePlaced', Good' = Good, LiveUsed(treehdr') = LiveUsed(treehdr)
  PROVE  /\ \A k \in 1..Top' : Placed(chunk', treehdr'.nChunk, LiveUsed(treehdr),
                                      marks'[k].mark.iWrite, Good.iNextShmid)
         /\ pc'[writer'] # "rollback" =>
              Placed(chunk', treehdr'.nChunk, LiveUsed(treehdr), treehdr'.iWrite, Good.iNextShmid)
<1>1. (GoodPlaced /\ AlivePlaced =>
         /\ \A k \in 1..Top : Placed(chunk, treehdr.nChunk, LiveUsed(treehdr),
                                     marks[k].mark.iWrite, Good.iNextShmid)
         /\ pc[writer] # "rollback" =>
              Placed(chunk, treehdr.nChunk, LiveUsed(treehdr), treehdr.iWrite,
                     Good.iNextShmid))'
  BY WorkRegion, PTL
<1> QED
  BY <1>1

LEMMA RegionSame ==
  ASSUME NEW ch, NEW ch2, NEW n, NEW L, NEW w, w[1] \in Chunks,
         \A i \in Chunks : ch2[i].iShmid = ch[i].iShmid
  PROVE  Region(ch2, n, L, w) = Region(ch, n, L, w)
BY CellType DEF Region

LEMMA WriterHolds ==
  ASSUME Types, Main, NEW c \in Conn, writer = c, pc[c] \in AlivePcs, pc'[c] \in AlivePcs,
         \A d \in Conn \ {c} : pc'[d] = pc[d],
         UNCHANGED <<slot, iReader, rlock, stale>>
  PROVE  \A d \in Conn : Holds(d)' => Holds(d) /\ slot'[iReader[d]] = slot[iReader[d]]
BY DEF Holds

LEMMA ShmallocLinkMem ==
  ASSUME Inv, Inv', MemInv, NEW c \in Conn, ShmallocLink(c)
  PROVE  MemInv'
<1> DEFINE h == treehdr
           p == pend.chunk
           h2 == [h EXCEPT !.iWrite = <<p, 0>>]
           at == IF pc[c] = "linkleaf" THEN "leaf" ELSE "copy"
           b == Good.iNextShmid
           w == h.iWrite
           S == WorkReg(w)
           S2 == Region(chunk', h.nChunk, LiveUsed(h), <<p, 0>>)
<1>1. pc[c] \in {"linkleaf", "linkcopy"} /\ writer = c /\ Types /\ Main /\ pc[c] \in AlivePcs
  BY NotLost DEF ShmallocLink, Writing, AlivePcs
<1>2. /\ Alive /\ MemTypes /\ MemMain /\ AliveMem /\ AliveInv /\ AlivePlaced /\ GoodPlaced
      /\ h \in Header /\ h = hdr[c] /\ chunk \in ChunkMap
  BY <1>1, AliveFacts
<1>3. /\ UNCHANGED <<mem, hdr1, hdr2, bWriter, snap, client, writer, slot, iReader,
                     rlock, stale, rollback, marks, nWrite>>
      /\ chunk' = [chunk EXCEPT ![w[1]].iNext = p]
      /\ hdr' = [hdr EXCEPT ![c] = h2] /\ pc' = [pc EXCEPT ![c] = at]
      /\ pend' = [pend EXCEPT !.chunk = 0]
  BY <1>1 DEF ShmallocLink, shmVars, lockVars, SetHeader, Goto, boundVars
<1>4. /\ pc'[c] = at /\ at \in {"leaf", "copy"} /\ at \in AlivePcs /\ hdr'[c] = h2
      /\ \A d \in Conn \ {c} : hdr'[d] = hdr[d] /\ pc'[d] = pc[d]
  BY <1>1, <1>3 DEF Types, HeaderTypes, AlivePcs
<1>5. /\ Types' /\ Main' /\ Alive' /\ ~AtEnd' /\ treehdr' = h2 /\ AlivePlaced' /\ GoodPlaced'
  BY <1>1, <1>3, <1>4, AliveNext
<1>6. Top = Len(marks) /\ Top' = Top
  BY <1>1, <1>3, <1>4 DEF Top
<1>7. Good' = Good
  BY <1>3 DEF Good
<1>8. /\ h2.root = h.root /\ h2.iWrite = <<p, 0>> /\ h2.nChunk = h.nChunk
      /\ h2.cur = h.cur /\ h2.trans = h.trans /\ h2.iUsedShmid = h.iUsedShmid
      /\ h2.iOldShmid = h.iOldShmid /\ h2.iOldLog = h.iOldLog /\ h2.oldroot = h.oldroot
      /\ h2.oldtrans = h.oldtrans /\ h2.oldcur = h.oldcur
  BY <1>2 DEF Header
<1>9. /\ treehdr'.trans = Good'.trans + 1 /\ treehdr'.iOldLog = Good'.iOldLog
      /\ OldKept' /\ LiveUsed(treehdr') = LiveUsed(treehdr)
  BY <1>2, <1>3, <1>5, <1>7, <1>8, OldFrame
<1>10. \A i \in Chunks : chunk'[i].iShmid = chunk[i].iShmid
  BY <1>2, <1>3 DEF ChunkMap
<1>11. MemTypes' /\ GoodMem' /\ SnapInv' /\ \A d \in Conn : Holds(d)' => ReaderMem(d)'
  <2>1. WorkRoots' \subseteq WorkRoots
    BY <1>3, <1>5, <1>6, <1>8 DEF WorkRoots
  <2>2. ChunkStep(0)
    BY <1>2, <1>10, HeaderType DEF ChunkStep, GoodPlaced, HeaderPlaced
  <2> QED
    BY <1>1, <1>2, <1>3, <1>4, <1>5, <1>8, <2>1, <2>2, QuietFrame
<1>12. \A k \in 1..Top : WorkReg(marks[k].mark.iWrite)
                          = Region(chunk', h2.nChunk, LiveUsed(h), marks[k].mark.iWrite)
  <2> SUFFICES ASSUME NEW k \in 1..Top
               PROVE  WorkReg(marks[k].mark.iWrite)
                        = Region(chunk', h2.nChunk, LiveUsed(h), marks[k].mark.iWrite)
    OBVIOUS
  <2>1. marks[k].mark.iWrite[1] \in Chunks
    BY <1>2 DEF AlivePlaced, MarkRec
  <2> QED
    BY <1>8, <1>10, <2>1, RegionSame DEF WorkReg
<1>13. S \subseteq S2
  <2>1. Placed(chunk, h.nChunk, LiveUsed(h), w, b)
    BY <1>1, <1>2, WorkRegion
  <2>2. Placed(chunk', h2.nChunk, LiveUsed(h), <<p, 0>>, b)
    BY <1>1, <1>3, <1>4, <1>5, <1>7, <1>8, <1>9, WorkRegionNext
  <2> DEFINE N == Rel(h.iNextShmid, b)
  <2>3. /\ Pos(chunk, w[1], b) = N - 2 /\ Pos(chunk, p, b) = N - 1 /\ N \in Int
    <3>1. Pos(chunk, w[1], b) = N - 1 - 1 /\ Pos(chunk, p, b) = N - 1
      BY <1>1, <1>2 DEF AliveInv, Writable
    <3>2. N \in Int
      BY <1>2 DEF AlivePlaced
    <3> HIDE DEF N
    <3> QED
      BY <3>1, <3>2
  <2>4. p \in 1..(h.nChunk - 1) /\ p \in Chunks
    BY <1>1, <1>2, HeaderType DEF AliveInv
  <2>5. p # w[1] /\ Pos(chunk, w[1], b) <= Pos(chunk', p, b)
    <3>1. Pos(chunk', p, b) = N - 1
      BY <1>10, <2>3, <2>4 DEF Pos
    <3> HIDE DEF N
    <3>2. N - 2 # N - 1 /\ N - 2 <= N - 1
      BY <2>3
    <3> QED
      BY <2>3, <3>1, <3>2
  <2>6. \A i \in 1..(h.nChunk - 1) : InRegion(chunk, h.nChunk, LiveUsed(h), w, b, i) =>
          i < h2.nChunk /\ chunk'[i].iShmid = chunk[i].iShmid /\ (i = p => i = w[1])
    <3> SUFFICES ASSUME NEW i \in 1..(h.nChunk - 1),
                        InRegion(chunk, h.nChunk, LiveUsed(h), w, b, i)
                 PROVE  i < h2.nChunk /\ chunk'[i].iShmid = chunk[i].iShmid /\ i # p
      OBVIOUS
    <3>1. i \in Chunks /\ i < h2.nChunk
      BY <1>2, <1>8, HeaderType
    <3>2. Pos(chunk, i, b) <= N - 2
      BY <2>3 DEF InRegion
    <3>3. ~(N - 1 <= N - 2)
      <4> HIDE DEF N
      <4> QED
        BY <2>3
    <3> QED
      BY <1>10, <2>3, <3>1, <3>2, <3>3
  <2>7. Rel(LiveUsed(h), b) \in Int /\ w[2] \in Nat
    BY <1>2, <2>1 DEF Placed, AlivePlaced, HeaderPlaced
  <2> HIDE DEF N
  <2>8. Region(chunk, h.nChunk, LiveUsed(h), w)
          \subseteq Region(chunk', h2.nChunk, LiveUsed(h), <<p, 0>>)
    BY <2>1, <2>2, <2>5, <2>6, <2>7, RegionGrows
  <2> QED
    BY <1>8, <2>8 DEF WorkReg
<1>14. Offs(Good.iWrite, <<p, 0>>)
  <2> SUFFICES ASSUME Good.iWrite[1] = p PROVE FALSE
    BY DEF Offs
  <2> DEFINE N == Rel(h.iNextShmid, b)
             m == marks[1].mark
             X == Rel(m.iNextShmid, b)
  <2>1. Pos(chunk, p, b) = -1 /\ Pos(chunk, p, b) = N - 1 /\ N \in Int
    BY <1>1, <1>2 DEF GoodPlaced, AliveInv, AlivePlaced
  <2>2. 1 \in 1..Top
    BY <1>1, <1>2, MarkTypes DEF AlivePlaced
  <2>3. /\ m.iWrite[1] # p /\ X \in 0..N /\ Pos(chunk, m.iWrite[1], b) = X - 1
        /\ m.iWrite[1] \in 1..(h.nChunk - 1)
    <3>1. MarkMem(1)
      BY <1>2, <2>2 DEF AliveMem
    <3>2. Placed(chunk, h.nChunk, LiveUsed(h), m.iWrite, b)
      BY <1>2, <2>2, WorkRegion
    <3> QED
      BY <1>1, <1>2, <2>2, <3>1, <3>2 DEF MarkMem, AlivePlaced, Placed
  <2>4. p \in 1..(h.nChunk - 1) /\
        \A i, j \in 1..(h.nChunk - 1) : Pos(chunk, i, b) = Pos(chunk, j, b) => i = j
    BY <1>1, <1>2 DEF AliveInv, AlivePlaced
  <2>5. X - 1 = N - 1
    <3> HIDE DEF X, N
    <3> QED
      BY <2>1, <2>3
  <2> QED
    BY <2>1, <2>3, <2>4, <2>5
<1>15. ASSUME NEW k \in 1..Top'
       PROVE  MarkMem(k)'
  <2>1. k \in 1..Top /\ MarkMem(k) /\ Offs(marks[k].mark.iWrite, <<p, 0>>)
    <3>1. k \in 1..Top /\ MarkMem(k)
      BY <1>2, <1>6, <1>15 DEF AliveMem
    <3>2. marks[k].mark.iWrite[1] # p
      BY <1>1, <3>1 DEF MarkMem
    <3> QED
      BY <3>1, <3>2 DEF Offs
  <2>2. \A l \in k..Top' : Offs(marks[k].mark.iWrite, marks'[l].mark.iWrite)
    BY <1>3, <1>6, <2>1 DEF MarkMem
  <2>3. MarkCell(k)' = MarkCell(k)
    BY <1>3 DEF MarkCell, Since
  <2>4. marks[k].mark.root \in WorkReg(marks[k].mark.iWrite) =>
          Cel(mem, marks[k].mark.root).iV2 <= treehdr.trans
    BY <2>1, RegionRoot DEF MarkMem, WorkReg
  <2>5. pc'[writer'] \notin {"linkleaf", "linkcopy"}
    BY <1>1, <1>3, <1>4
  <2> QED
    BY <1>3, <1>5, <1>7, <1>8, <1>9, <1>12, <2>1, <2>2, <2>3, <2>4, <2>5, MarkFrame
<1>16. WorkReg(treehdr.iWrite)' = S2
  BY <1>5, <1>8, <1>9 DEF WorkReg
<1>17. WorkMem'
  <2>1. /\ Tree(mem, h.root, h.trans, h.cur, S)
        /\ h.root # Null => Cel(mem, h.root).iV2 <= h.trans
        /\ \A j \in 1..Len(rollback) : rollback[j] \in S
    BY <1>1, <1>2 DEF AliveMem, WorkMem
  <2>2. Tree(mem, h.root, h.trans, h.cur, S2)
    <3> HIDE DEF S, S2
    <3> QED
      BY <1>13, <2>1, TreeGrows
  <2> QED
    BY <1>3, <1>5, <1>7, <1>8, <1>13, <1>14, <1>16, <2>1, <2>2 DEF WorkMem
<1>18. AliveMem'
  <2>1. RollbackInv'
    BY <1>2, <1>3, <1>4, <1>5, <1>8, <1>1 DEF RollbackInv, AliveMem
  <2>2. pc'[c] = "copy" => LeafMem'
    <3> SUFFICES ASSUME pc'[c] = "copy" PROVE LeafMem'
      OBVIOUS
    <3>1. LeafMem
      BY <1>1, <1>2, <1>4 DEF AliveMem
    <3>2. pend'.leaf = pend.leaf /\ pend'.sub = pend.sub
      BY <1>1, <1>3 DEF Types, WriteTypes
    <3> QED
      BY <1>3, <1>5, <1>8, <1>13, <1>16, <3>1, <3>2 DEF LeafMem
  <2>3. pc'[writer'] \in {"leaf", "copy"} /\ writer' = c
    BY <1>1, <1>3, <1>4
  <2> QED
    BY <1>9, <1>15, <1>17, <2>1, <2>2, <2>3 DEF AliveMem
<1> QED
  BY <1>5, <1>11, <1>18, AliveIntro

LEMMA RollbackFreeMem ==
  ASSUME Inv, Inv', MemInv, NEW c \in Conn, RollbackFree(c)
  PROVE  MemInv'
<1> DEFINE h == treehdr
           p == pend.chunk
           m == marks[Top].mark
           b == Good.iNextShmid
           h2 == IF p < m.nChunk THEN [h EXCEPT !.iFirst = p] ELSE h
<1>1. pc[c] = "rollback" /\ writer = c /\ Types /\ Main /\ pc[c] \in AlivePcs /\ p # 0
  BY NotLost DEF RollbackFree, Writing, AlivePcs
<1>2. /\ Alive /\ MemTypes /\ MemMain /\ AliveMem /\ AliveInv /\ AlivePlaced /\ GoodPlaced
      /\ h \in Header /\ h = hdr[c] /\ chunk \in ChunkMap
  BY <1>1, AliveFacts
<1>3. /\ UNCHANGED <<mem, hdr1, hdr2, bWriter, snap, client, writer, slot, iReader,
                     rlock, stale, rollback, marks, pc>>
      /\ IF p < m.nChunk
         THEN chunk' = [chunk EXCEPT ![p] = [iShmid |-> Add(chunk[h.iFirst].iShmid, -1),
                                             iNext |-> h.iFirst]]
         ELSE chunk' = chunk
      /\ hdr' = [hdr EXCEPT ![c] = h2] /\ pend'.iLevel = pend.iLevel
  <2>1. MarkOf(pend.iLevel) = marks[Top]
    BY <1>1 DEF MarkOf, Top
  <2>2. pend'.iLevel = pend.iLevel
    BY <1>1 DEF RollbackFree, Types, WriteTypes
  <2>3. hdr = [hdr EXCEPT ![c] = h]
    BY <1>1, <1>2 DEF Types, HeaderTypes
  <2> QED
    BY <1>1, <2>1, <2>2, <2>3 DEF RollbackFree, shmVars, lockVars, SetHeader
<1>4. hdr'[c] = h2 /\ \A d \in Conn \ {c} : hdr'[d] = hdr[d] /\ pc'[d] = pc[d]
  BY <1>1, <1>3 DEF Types, HeaderTypes
<1>5. /\ Types' /\ Main' /\ Alive' /\ ~AtEnd' /\ treehdr' = h2 /\ AlivePlaced' /\ GoodPlaced'
  BY <1>1, <1>3, <1>4, AliveNext
<1>6. Top' = Top
  BY <1>1, <1>3 DEF Top
<1>7. Good' = Good
  BY <1>3 DEF Good
<1>8. /\ h2.root = h.root /\ h2.iWrite = h.iWrite /\ h2.nChunk = h.nChunk
      /\ h2.cur = h.cur /\ h2.trans = h.trans /\ h2.iUsedShmid = h.iUsedShmid
      /\ h2.iOldShmid = h.iOldShmid /\ h2.iOldLog = h.iOldLog /\ h2.oldroot = h.oldroot
      /\ h2.oldtrans = h.oldtrans /\ h2.oldcur = h.oldcur
  BY <1>2 DEF Header
<1>9. /\ treehdr'.trans = Good'.trans + 1 /\ treehdr'.iOldLog = Good'.iOldLog
      /\ OldKept' /\ LiveUsed(treehdr') = LiveUsed(treehdr)
  BY <1>2, <1>3, <1>5, <1>7, <1>8, OldFrame
<1>10. \A i \in Chunks : i # p => chunk'[i].iShmid = chunk[i].iShmid
  BY <1>2, <1>3 DEF ChunkMap
\* The chunk that is freed comes after the chunks of the mark.
<1>11. /\ Pos(chunk, p, b) \in Int /\ p \in 1..(h.nChunk - 1)
       /\ Rel(m.iNextShmid, b) \in Nat
       /\ Rel(m.iNextShmid, b) <= Pos(chunk, p, b)
  <2>1. RollingBack(chunk, h, Good, m, p) /\ Top \in 1..Len(marks)
    BY <1>1, <1>2 DEF AliveInv, AlivePlaced
  <2>2. Top \in 1..Top
    BY <1>1, <2>1, MarkTypes
  <2>3. Rel(h.iNextShmid, b) \in Int /\ Rel(m.iNextShmid, b) \in 0..Rel(h.iNextShmid, b)
    BY <1>2, <2>2 DEF AlivePlaced
  <2>4. p \in 1..(h.nChunk - 1) /\ Pos(chunk, p, b) \in Rel(m.iNextShmid, b)..Rel(h.iNextShmid, b)
    BY <1>1, <1>2, <2>1, HeaderType DEF RollingBack
  <2> QED
    BY <2>3, <2>4
<1>12. MemTypes' /\ GoodMem' /\ SnapInv' /\ \A d \in Conn : Holds(d)' => ReaderMem(d)'
  <2>1. WorkRoots' \subseteq WorkRoots
    BY <1>3, <1>5, <1>6, <1>8 DEF WorkRoots
  <2>2. ChunkStep(0)
    <3> SUFFICES ASSUME NEW i \in 1..(Good.nChunk - 1), Pos(chunk, i, b) <= -1
                 PROVE  chunk'[i].iShmid = chunk[i].iShmid
      BY DEF ChunkStep
    <3>1. i \in Chunks
      BY <1>2, HeaderType DEF GoodPlaced, HeaderPlaced
    <3>2. i # p
      BY <1>11
    <3> QED
      BY <1>10, <3>1, <3>2
  <2> QED
    BY <1>1, <1>2, <1>3, <1>4, <1>5, <1>8, <2>1, <2>2, QuietFrame
<1>13. ASSUME NEW k \in 1..Top
       PROVE  WorkReg(marks[k].mark.iWrite)
                \subseteq Region(chunk', h2.nChunk, LiveUsed(h), marks[k].mark.iWrite)
  <2> DEFINE w == marks[k].mark.iWrite
             X == Rel(m.iNextShmid, b)
             Y == Rel(marks[k].mark.iNextShmid, b)
             n == h.nChunk
  <2>1. Placed(chunk, n, LiveUsed(h), w, b)
    BY <1>2, WorkRegion
  <2>2. Placed(chunk', h2.nChunk, LiveUsed(h), w, b)
    BY <1>3, <1>5, <1>6, <1>7, <1>9, WorkRegionNext
  <2>3. /\ Pos(chunk, w[1], b) = Y - 1 /\ Y <= X /\ X \in Int /\ Y \in Int /\ w[2] \in Nat
        /\ w[1] \in Chunks
    <3>1. Top \in 1..Top /\ k <= Top
      BY <1>1, <1>2, MarkTypes DEF AlivePlaced
    <3>2. /\ marks[k].mark \in MarkRec /\ w[2] \in Nat /\ Pos(chunk, w[1], b) = Y - 1
          /\ Y \in 0..Rel(h.iNextShmid, b) /\ Y <= X
      BY <1>2, <3>1, MarkPlaced
    <3>3. X \in 0..Rel(h.iNextShmid, b)
      BY <1>2, <3>1, MarkPlaced
    <3>4. w[1] \in Chunks
      BY <3>2 DEF MarkRec
    <3> HIDE DEF w, X, Y
    <3> QED
      BY <3>2, <3>3, <3>4
  <2>4. ASSUME NEW i \in 1..(n - 1), Pos(chunk, i, b) <= Pos(chunk, w[1], b)
        PROVE  i # p /\ i \in Chunks /\ chunk'[i].iShmid = chunk[i].iShmid
    <3> DEFINE P == Pos(chunk, i, b)
               V == Pos(chunk, p, b)
    <3>1. P <= Y - 1 /\ Y <= X /\ X <= V /\ P \in Int /\ X \in Int /\ Y \in Int /\ V \in Int
      <4>1. P \in Int
        BY <2>1 DEF Placed, Near
      <4> HIDE DEF P
      <4>2. P <= Pos(chunk, w[1], b)
        BY <2>4 DEF P
      <4> QED
        BY <1>11, <2>3, <4>1, <4>2
    <3>2. P # V
      <4> HIDE DEF P, X, Y, V
      <4> QED
        BY <3>1
    <3>3. i # p /\ i \in Chunks
      BY <1>2, <3>2, HeaderType
    <3> QED
      BY <1>10, <3>3
  <2>5. w[1] # p /\ Pos(chunk', w[1], b) = Pos(chunk, w[1], b)
    <3>1. w[1] \in 1..(n - 1) /\ Pos(chunk, w[1], b) <= Pos(chunk, w[1], b)
      BY <2>1, <2>3 DEF Placed
    <3>2. w[1] # p /\ chunk'[w[1]].iShmid = chunk[w[1]].iShmid
      BY <2>4, <3>1
    <3> QED
      BY <3>2 DEF Pos
  <2>6. \A i \in 1..(n - 1) : InRegion(chunk, n, LiveUsed(h), w, b, i) =>
          i < h2.nChunk /\ chunk'[i].iShmid = chunk[i].iShmid
    <3> SUFFICES ASSUME NEW i \in 1..(n - 1), InRegion(chunk, n, LiveUsed(h), w, b, i)
                 PROVE  i < h2.nChunk /\ chunk'[i].iShmid = chunk[i].iShmid
      OBVIOUS
    <3>1. i < h2.nChunk
      BY <1>2, <1>8, HeaderType
    <3>2. Pos(chunk, i, b) <= Pos(chunk, w[1], b)
      BY DEF InRegion
    <3> QED
      BY <2>4, <3>1, <3>2
  <2>7. Rel(LiveUsed(h), b) \in Int /\ Pos(chunk, w[1], b) \in Int
    BY <2>1, <2>3 DEF Placed
  <2>8. Rel(LiveUsed(h), b) <= Rel(LiveUsed(h), b)
        /\ Pos(chunk, w[1], b) <= Pos(chunk', w[1], b)
    BY <2>5, <2>7
  <2> HIDE DEF X, Y
  <2>9. Region(chunk, n, LiveUsed(h), w) \subseteq Region(chunk', h2.nChunk, LiveUsed(h), w)
    BY <2>1, <2>2, <2>3, <2>6, <2>8, RegionGrows
  <2> QED
    BY <2>9 DEF WorkReg
<1>14. ASSUME NEW k \in 1..Top'
       PROVE  MarkMem(k)'
  <2>1. k \in 1..Top /\ MarkMem(k)
    BY <1>2, <1>6, <1>14 DEF AliveMem
  <2>2. \A l \in k..Top' : Offs(marks[k].mark.iWrite, marks'[l].mark.iWrite)
    BY <1>3, <1>6, <2>1 DEF MarkMem
  <2>3. MarkCell(k)' = MarkCell(k)
    BY <1>3 DEF MarkCell, Since
  <2>4. marks[k].mark.root \in WorkReg(marks[k].mark.iWrite) =>
          Cel(mem, marks[k].mark.root).iV2 <= treehdr.trans
    BY <2>1, RegionRoot DEF MarkMem, WorkReg
  <2>5. pc'[writer'] = "rollback"
    BY <1>1, <1>3
  <2> QED
    BY <1>3, <1>5, <1>7, <1>8, <1>9, <1>13, <2>1, <2>2, <2>3, <2>4, <2>5, MarkFrame
<1>15. AliveMem'
  <2>1. RollbackInv'
    BY <1>2, <1>3, <1>5, <1>6, <1>8, <1>1 DEF RollbackInv, AliveMem
  <2> QED
    BY <1>1, <1>3, <1>4, <1>9, <1>14, <2>1 DEF AliveMem
<1> QED
  BY <1>5, <1>12, <1>15, AliveIntro

LEMMA RollbackPtrsMem ==
  ASSUME Inv, Inv', MemInv, NEW c \in Conn, NEW iLevel \in 0..Len(marks),
         RollbackPtrs(c, iLevel)
  PROVE  MemInv'
<1> DEFINE h == treehdr
           top == IF iLevel = 0 THEN 1 ELSE iLevel
           mk == marks[top]
           m == mk.mark
           R == mk.iRollback
           reverted == {rollback[n] : n \in (R + 1)..Len(rollback)}
<1>1. pc[c] = "open" /\ writer = c /\ Types /\ Main /\ pc[c] \in AlivePcs
  BY NotLost DEF RollbackPtrs, Writing, AlivePcs
<1>2. /\ Alive /\ MemTypes /\ MemMain /\ AliveMem /\ AlivePlaced /\ GoodPlaced
      /\ h \in Header /\ h = hdr[c] /\ chunk \in ChunkMap
  BY <1>1, AliveFacts
<1>3. /\ UNCHANGED <<hdr, hdr1, hdr2, bWriter, snap, client, writer, slot, iReader,
                     rlock, stale, marks>>
      /\ mem' = [i \in Chunks |-> [j \in 1..Room |->
                  IF <<i, j>> \in reverted THEN Unv2(mem[i][j]) ELSE mem[i][j]]]
      /\ rollback' = SubSeq(rollback, 1, R)
      /\ chunk' = [chunk EXCEPT ![m.iWrite[1]].iNext = 0]
      /\ pc' = [pc EXCEPT ![c] = "rollback"] /\ pend'.iLevel = iLevel
  <2>1. pend'.iLevel = iLevel
    BY <1>1 DEF RollbackPtrs, Types, WriteTypes
  <2> QED
    BY <2>1 DEF RollbackPtrs, lockVars, Goto, MarkOf, Unv2
<1>4. pc'[c] = "rollback" /\ \A d \in Conn \ {c} : hdr'[d] = hdr[d] /\ pc'[d] = pc[d]
  BY <1>1, <1>3 DEF Types
<1>5. /\ Types' /\ Main' /\ Alive' /\ ~AtEnd' /\ treehdr' = h
  BY <1>1, <1>2, <1>3, <1>4, AliveNext DEF AlivePcs
<1>6. /\ Top = Len(marks) /\ Top' = top /\ top \in 1..Top /\ Top \in Nat
  <2>1. Top = Len(marks) /\ Top' = top /\ Top \in 1..Len(marks) /\ Len(marks) \in Nat
    BY <1>1, <1>2, <1>3, <1>4, MarkTypes DEF Top, AlivePlaced
  <2> QED
    BY <2>1
<1>7. Good' = Good
  BY <1>3 DEF Good
<1>8. /\ treehdr'.trans = Good'.trans + 1 /\ treehdr'.iOldLog = Good'.iOldLog
      /\ OldKept' /\ LiveUsed(treehdr') = LiveUsed(treehdr)
  BY <1>2, <1>3, <1>5, <1>7, OldFrame
<1>9. \A i \in Chunks : chunk'[i].iShmid = chunk[i].iShmid
  BY <1>2, <1>3 DEF ChunkMap
<1>10. /\ Len(rollback) \in Nat /\ R \in 0..Len(rollback) /\ Len(rollback') = R
       /\ \A n \in 1..R : rollback'[n] = rollback[n]
  <2>1. Len(rollback) \in Nat /\ R \in 0..Len(rollback) /\ rollback \in Seq(Ptr)
    BY <1>1, <1>2, <1>6 DEF AlivePlaced, Types, WriteTypes
  <2> HIDE DEF R
  <2> QED
    BY <1>3, <2>1, Prefix
<1>11. ASSUME NEW q \in Cell
       PROVE  Cel(mem', q) = IF q \in reverted THEN Unv2(Cel(mem, q)) ELSE Cel(mem, q)
  <2>1. q[1] \in Chunks /\ q[2] \in 1..Room /\ q = <<q[1], q[2]>>
    BY CellType
  <2> HIDE DEF reverted
  <2>2. Cel(mem', q) = IF <<q[1], q[2]>> \in reverted THEN Unv2(mem[q[1]][q[2]])
                       ELSE mem[q[1]][q[2]]
    BY <1>3, <2>1 DEF Cel
  <2>3. <<q[1], q[2]>> \in reverted <=> q \in reverted
    BY <2>1
  <2> QED
    BY <2>2, <2>3 DEF Cel
<1>12. /\ \A q \in reverted : Cel(mem, q).iV2 = h.trans /\ q \in WorkRoots
       /\ \A n, l \in 1..Len(rollback) : rollback[n] = rollback[l] => n = l
  <2>1. RollbackInv
    BY <1>2 DEF AliveMem
  <2>2. \A n \in (R + 1)..Len(rollback) : n \in 1..Len(rollback)
    BY <1>10
  <2> QED
    BY <2>1, <2>2 DEF RollbackInv, WorkRoots
<1>13. \A q \in Cell : /\ Cel(mem', q).node = Cel(mem, q).node
                       /\ Cel(mem', q).val = Cel(mem, q).val
                       /\ Cel(mem', q).child = Cel(mem, q).child
                       /\ Cel(mem', q).iV2 = IF q \in reverted THEN 0 ELSE Cel(mem, q).iV2
                       /\ Cel(mem', q) \in CellRec
  BY <1>2, <1>11, CelType, Unv2Cell DEF MemTypes
<1>14. MemTypes'
  <2>1. mem' \in MemMap
    <3>1. \A i \in Chunks, j \in 1..Room : <<i, j>> \in Cell
      BY DEF Cell
    <3>2. \A i \in Chunks, j \in 1..Room : mem'[i][j] \in CellRec
      BY <1>13, <3>1 DEF Cel
    <3>3. \A i \in Chunks : mem'[i] \in [1..Room -> CellRec]
      BY <1>3, <3>2
    <3> QED
      BY <1>3, <3>3 DEF MemMap
  <2>2. \A q \in Cell : Cel(mem', q).iV2 # 0 => Cel(mem', q).iV2Child \in Sub
    BY <1>2, <1>11, <1>13 DEF MemTypes
  <2> QED
    BY <2>1, <2>2 DEF MemTypes
<1>15. MemStep(0, Null)
  <2> SUFFICES ASSUME NEW q \in Cell, Cel(mem', q) # Cel(mem, q)
               PROVE  /\ q \in WorkRoots
                      /\ Cel(mem', q).node = Cel(mem, q).node
                      /\ Cel(mem', q).val = Cel(mem, q).val
                      /\ Cel(mem', q).child = Cel(mem, q).child
                      /\ Cel(mem, q).iV2 \in {0, treehdr.trans}
                      /\ Cel(mem', q).iV2 \in {0, treehdr.trans}
    BY DEF MemStep
  <2>1. q \in reverted
    BY <1>11
  <2> QED
    BY <1>12, <1>13, <2>1
<1>16. GoodMem' /\ SnapInv' /\ \A d \in Conn : Holds(d)' => ReaderMem(d)'
  <2>1. WorkRoots' \subseteq WorkRoots
    <3>1. \A n \in 1..R : n \in 1..Len(rollback)
      BY <1>10
    <3>2. \A k \in 1..top : k \in 1..Top
      BY <1>6
    <3>3. {marks'[k].mark.root : k \in 1..Top'} \subseteq {marks[k].mark.root : k \in 1..Top}
      BY <1>3, <1>6, <3>2
    <3>4. {rollback'[n] : n \in 1..Len(rollback')} \subseteq {rollback[n] : n \in 1..Len(rollback)}
      BY <1>10, <3>1
    <3> QED
      BY <1>5, <3>3, <3>4, Zenon DEF WorkRoots
  <2>2. ChunkStep(0)
    BY <1>2, <1>9, HeaderType DEF ChunkStep, GoodPlaced, HeaderPlaced
  <2>3. \A L : Null \notin Reg(Good, L)
    BY RegionRoot DEF Reg
  <2>4. 0 \notin 1..(Good.nChunk - 1)
    OBVIOUS
  <2>5. \A d \in Conn : Holds(d)' => Holds(d) /\ slot'[iReader[d]] = slot[iReader[d]]
    BY <1>1, <1>3, <1>4, WriterHolds DEF AlivePcs
  <2>6. \A d \in Conn \ {writer} : hdr'[d] = hdr[d] /\ pc'[d] = pc[d]
    BY <1>1, <1>4
  <2> HIDE DEF h
  <2> QED
    BY <1>1, <1>2, <1>3, <1>5, <1>15, <2>1, <2>2, <2>3, <2>4, <2>5, <2>6, AliveFrame DEF h
<1>17. RollbackInv'
  <2>1. \A n \in 1..R : n \in 1..Len(rollback) /\ rollback[n] \notin reverted
    <3> SUFFICES ASSUME NEW n \in 1..R
                 PROVE  n \in 1..Len(rollback) /\ rollback[n] \notin reverted
      OBVIOUS
    <3>1. \A l \in (R + 1)..Len(rollback) : l # n /\ l \in 1..Len(rollback)
      BY <1>10
    <3>2. n \in 1..Len(rollback)
      BY <1>10
    <3> QED
      BY <1>12, <3>1, <3>2
  <2>2. RollbackInv
    BY <1>2 DEF AliveMem
  <2>3. \A n \in 1..R : Cel(mem', rollback[n]).iV2 = h.trans /\ rollback[n] \in Cell
    <3> HIDE DEF reverted
    <3> QED
      BY <1>11, <2>1, <2>2 DEF RollbackInv
  <2>4. \A n, l \in 1..R : rollback[n] = rollback[l] => n = l
    BY <2>1, <2>2 DEF RollbackInv
  <2>5. marks'[Top'].iRollback = Len(rollback')
    BY <1>3, <1>6, <1>10
  <2> QED
    BY <1>5, <1>10, <2>3, <2>4, <2>5 DEF RollbackInv
<1>18. ASSUME NEW k \in 1..Top'
       PROVE  MarkMem(k)'
  <2> DEFINE r == marks[k].mark.root
             Q == marks[k].iRollback
             mc == MarkCell(k)
             m2 == MarkCell(k)'
  <2>1. k \in 1..Top /\ MarkMem(k) /\ k <= top
    BY <1>2, <1>6, <1>18 DEF AliveMem
  <2>2. \A l \in k..Top' : Offs(marks[k].mark.iWrite, marks'[l].mark.iWrite)
    <3>1. \A l \in k..top : l \in k..Top
      BY <1>6, <2>1
    <3> QED
      BY <1>3, <1>6, <2>1, <3>1 DEF MarkMem
  <2>3. Q \in 0..R /\ Q \in Nat
    <3>1. Q \in 0..Len(rollback) /\ Q <= R
      BY <1>2, <1>6, <2>1 DEF AlivePlaced
    <3> QED
      BY <1>10, <3>1
  <2>4. /\ Since(k) = {rollback[n] : n \in (Q + 1)..Len(rollback)}
        /\ Since(k)' = {rollback[n] : n \in (Q + 1)..R}
    <3>1. \A n \in (Q + 1)..R : n \in 1..R
      BY <1>10, <2>3
    <3>2. Since(k)' = {rollback'[n] : n \in (Q + 1)..Len(rollback')}
      BY <1>3 DEF Since
    <3>3. Since(k)' = {rollback'[n] : n \in (Q + 1)..R}
      BY <1>10, <3>2
    <3>4. \A n \in (Q + 1)..R : rollback'[n] = rollback[n]
      BY <1>10, <3>1
    <3>5. {rollback'[n] : n \in (Q + 1)..R} = {rollback[n] : n \in (Q + 1)..R}
      <4> HIDE DEF Q, R
      <4> QED
        BY <3>4
    <3> QED
      BY <3>3, <3>5 DEF Since
  <2>5. r \in Cell => m2.node = mc.node
                      /\ \A s \in Sub : getChildPtr(m2, h.trans, s) = getChildPtr(mc, h.trans, s)
    <3> SUFFICES ASSUME r \in Cell PROVE m2 = mc
      OBVIOUS
    <3>1. MarkCell(k)' = IF r \in Since(k)' THEN Unv2(Cel(mem', r)) ELSE Cel(mem', r)
      BY <1>3 DEF MarkCell
    <3>2. MarkCell(k) = IF r \in Since(k) THEN Unv2(Cel(mem, r)) ELSE Cel(mem, r)
      BY DEF MarkCell
    <3>3. r \in Since(k)' => r \in Since(k) /\ r \notin reverted
      <4> SUFFICES ASSUME NEW n \in (Q + 1)..R, r = rollback[n]
                   PROVE  r \in Since(k) /\ r \notin reverted
        BY <2>4
      <4>1. n \in (Q + 1)..Len(rollback) /\ n \in 1..Len(rollback)
        BY <1>10, <2>3
      <4>2. \A l \in (R + 1)..Len(rollback) : l # n /\ l \in 1..Len(rollback)
        BY <1>10, <2>3
      <4> QED
        BY <1>12, <2>4, <4>1, <4>2
    <3>4. r \in Since(k) /\ r \notin Since(k)' => r \in reverted
      <4>1. \A n \in (Q + 1)..Len(rollback) : n \in (Q + 1)..R \/ n \in (R + 1)..Len(rollback)
        BY <1>10, <2>3
      <4> QED
        BY <2>4, <4>1
    <3>5. r \in reverted => r \in Since(k)
      <4>1. \A n \in (R + 1)..Len(rollback) : n \in (Q + 1)..Len(rollback)
        BY <1>10, <2>3
      <4> QED
        BY <2>4, <4>1
    <3> HIDE DEF reverted, r
    <3> QED
      BY <1>11, <3>1, <3>2, <3>3, <3>4, <3>5
  <2>6. r \in Cell => Cel(mem, r).iV2 <= h.trans /\ Cel(mem', r).iV2 <= h.trans
    <3> SUFFICES ASSUME r \in Cell PROVE Cel(mem, r).iV2 <= h.trans /\ Cel(mem', r).iV2 <= h.trans
      OBVIOUS
    <3>1. Cel(mem, r).iV2 <= h.trans
      BY <2>1, CellType DEF MarkMem
    <3> QED
      BY <1>2, <1>13, <3>1, HeaderType
  <2>7. WorkReg(marks[k].mark.iWrite)
          = Region(chunk', h.nChunk, LiveUsed(h), marks[k].mark.iWrite)
    <3>1. marks[k].mark.iWrite[1] \in Chunks
      BY <1>2, <2>1 DEF AlivePlaced, MarkRec
    <3> QED
      BY <1>9, <3>1, RegionSame DEF WorkReg
  <2>8. \A q \in WorkReg(marks[k].mark.iWrite) : q \in Cell
    BY RegionRoot DEF WorkReg
  <2>9. \A n \in 1..Q : rollback'[n] = rollback[n]
    BY <1>10, <2>3
  <2>10. r \in WorkReg(marks[k].mark.iWrite) =>
          /\ Cel(mem', r).iV2 <= h.trans /\ m2.node = mc.node
          /\ \A s \in Sub : getChildPtr(m2, h.trans, s) = getChildPtr(mc, h.trans, s)
    <3> HIDE DEF m2, mc, r, h
    <3> QED
      BY <2>5, <2>6, <2>8
  <2>11. \A q \in WorkReg(marks[k].mark.iWrite) :
           Cel(mem', q).node = Cel(mem, q).node /\ Cel(mem', q).val = Cel(mem, q).val
    BY <1>13, <2>8
  <2>12. pc'[writer'] = "rollback"
    BY <1>1, <1>3, <1>4
  <2> QED
    BY <1>3, <1>5, <1>7, <1>8, <2>1, <2>2, <2>7, <2>9, <2>10, <2>11, <2>12, MarkFrame
<1>19. AliveMem'
  BY <1>1, <1>3, <1>4, <1>8, <1>17, <1>18 DEF AliveMem
<1> QED
  BY <1>5, <1>14, <1>16, <1>19, AliveIntro

\* The cell that is allocated next
LEMMA AllocFacts ==
  ASSUME GoodPlaced, AlivePlaced, AliveInv, AliveMem, pc[writer] \in {"open", "leaf", "copy"},
         ~Full(treehdr)
  PROVE  LET p == Alloc(treehdr)
             S2 == WorkReg(p)
         IN  /\ p \in Cell /\ p \in S2 /\ WorkReg(treehdr.iWrite) \subseteq S2
             /\ p \notin WorkReg(treehdr.iWrite)
             /\ \A L : Guarded(L) => p \notin Reg(Good, L)
             /\ Offs(Good.iWrite, p)
             /\ \A k \in 1..Top : /\ p \notin WorkReg(marks[k].mark.iWrite)
                                  /\ Offs(marks[k].mark.iWrite, p)
<1> DEFINE h == treehdr
           p == Alloc(h)
           w == h.iWrite
           b == Good.iNextShmid
           n == h.nChunk
           L0 == LiveUsed(h)
<1>1. /\ h \in Header /\ n \in 2..n /\ Good.nChunk \in 2..n /\ w[2] \in Nat
      /\ Good.iWrite[2] \in Nat
  <2>1. /\ h \in Header /\ Good \in Header /\ w[2] \in Nat /\ Good.iWrite[2] \in Nat
        /\ Good.nChunk <= h.nChunk
    BY DEF AlivePlaced, HeaderPlaced, GoodPlaced
  <2>2. h.nChunk \in 2..(MaxChunk + 1) /\ Good.nChunk \in 2..(MaxChunk + 1)
    BY <2>1, HeaderType
  <2> QED
    BY <2>1, <2>2, Sizes
<1>2. p \in Cell /\ p[1] = w[1] /\ p[2] = w[2] + 1
  BY <1>1, AllocCell DEF Alloc
<1>3. /\ Placed(chunk, n, L0, w, b) /\ Placed(chunk, n, L0, p, b)
      /\ \A k \in 1..Top : Placed(chunk, n, L0, marks[k].mark.iWrite, b)
  <2>1. /\ Placed(chunk, n, L0, w, b)
        /\ \A k \in 1..Top : Placed(chunk, n, L0, marks[k].mark.iWrite, b)
    BY WorkRegion
  <2> QED
    BY <1>2, <2>1 DEF Placed
<1>4. ASSUME NEW u, u[2] \in Nat, Offs(u, w)
      PROVE  Offs(u, p)
  BY <1>1, <1>2, <1>4 DEF Offs
<1>5. Offs(Good.iWrite, w) /\ Offs(Good.iWrite, p) /\ Offs(w, w)
  BY <1>1, <1>4, OffsSame DEF AliveMem, WorkMem
<1>6. p \notin WorkReg(w)
  BY <1>1, <1>3, <1>5, AllocNew DEF WorkReg
<1>7. ASSUME NEW k \in 1..Top
      PROVE  p \notin WorkReg(marks[k].mark.iWrite) /\ Offs(marks[k].mark.iWrite, p)
  <2>1. Offs(marks[k].mark.iWrite, w) /\ marks[k].mark.iWrite[2] \in Nat
    BY DEF AliveMem, MarkMem, AlivePlaced
  <2> QED
    BY <1>1, <1>3, <1>4, <2>1, AllocNew DEF WorkReg
<1>8. \A L : Guarded(L) => p \notin Reg(Good, L)
  BY <1>1, <1>5, GoodRegion, AllocNew DEF Reg
<1>9. p \in WorkReg(p)
  <2> DEFINE N == Rel(h.iNextShmid, b)
             U == Rel(L0, b)
  <2>1. Pos(chunk, w[1], b) = N - 1 /\ N \in Nat
    BY DEF AliveInv, Writable, AlivePlaced
  <2>2. U \in (-MaxChunk)..(-1)
    BY LivePlaced DEF AlivePlaced, GoodPlaced
  <2>3. U <= N - 1
    <3> HIDE DEF U, N
    <3> QED
      BY <2>1, <2>2, Sizes
  <2>4. p[1] \in 1..(n - 1) /\ Pos(chunk, p[1], b) \in Int /\ Pos(chunk, p[1], b) = N - 1
    BY <1>2, <1>3, <2>1 DEF Placed, Near
  <2>5. InRegion(chunk, n, L0, p, b, p[1])
    <3> HIDE DEF N, U
    <3> QED
      BY <2>1, <2>3, <2>4 DEF InRegion, U
  <2> HIDE DEF p
  <2> QED
    BY <1>2, <1>3, <2>5, RegionPos, CellType DEF WorkReg
<1>10. WorkReg(w) \subseteq WorkReg(p)
  <2> SUFFICES ASSUME NEW q \in WorkReg(w) PROVE q \in WorkReg(p)
    OBVIOUS
  <2>1. q \in Cell /\ InRegion(chunk, n, L0, w, b, q[1]) /\ (q[1] = w[1] => q[2] <= w[2])
    BY <1>3, RegionPos DEF WorkReg
  <2>2. q[1] = p[1] => q[2] <= p[2]
    BY <1>1, <1>2, <2>1, CellType
  <2> HIDE DEF p
  <2> QED
    BY <1>2, <1>3, <2>1, <2>2, RegionPos DEF WorkReg, InRegion
<1> QED
  BY <1>2, <1>5, <1>6, <1>7, <1>8, <1>9, <1>10

LEMMA InsertV2Mem ==
  ASSUME Inv, Inv', MemInv, NEW c \in Conn, NEW k \in Sub, InsertV2(c, k)
  PROVE  MemInv'
<1> DEFINE h == treehdr
           p == Alloc(h)
           r == h.root
           v == nWrite + 1
           h2 == [h EXCEPT !.iWrite = p, !.cur[k] = v]
           S == WorkReg(h.iWrite)
           S2 == WorkReg(p)
           V2(x) == [x EXCEPT !.iV2 = h.trans, !.iV2Child = k, !.iV2Ptr = p]
<1>1. pc[c] \in {"open", "leaf"} /\ writer = c /\ Types /\ Main /\ pc[c] \in AlivePcs
      /\ ~Full(h) /\ h.root # Null /\ Cel(mem, r).iV2 = 0
  BY NotLost DEF InsertV2, Writing, AlivePcs, NeedsNode, At, Cel
<1>2. /\ Alive /\ MemTypes /\ MemMain /\ AliveMem /\ AliveInv /\ AlivePlaced /\ GoodPlaced
      /\ h \in Header /\ h = hdr[c] /\ chunk \in ChunkMap
  BY <1>1, AliveFacts
<1>3. /\ UNCHANGED <<chunk, hdr1, hdr2, bWriter, snap, client, writer, slot, iReader,
                     rlock, stale, marks, pend>>
      /\ mem' = [Store(p, Leaf(v)) EXCEPT ![r[1]][r[2]] = V2(@)]
      /\ rollback' = Append(rollback, r) /\ nWrite' = v
      /\ hdr' = [hdr EXCEPT ![c] = h2] /\ pc' = [pc EXCEPT ![c] = "open"]
  BY DEF InsertV2, lockVars, SetHeader, Goto
<1>4. pc'[c] = "open" /\ hdr'[c] = h2 /\ \A d \in Conn \ {c} : hdr'[d] = hdr[d] /\ pc'[d] = pc[d]
  BY <1>1, <1>3 DEF Types, HeaderTypes
<1>5. /\ Types' /\ Main' /\ Alive' /\ ~AtEnd' /\ treehdr' = h2
  BY <1>1, <1>2, <1>3, <1>4, AliveNext DEF AlivePcs
<1>6. Top = Len(marks) /\ Top' = Top
  BY <1>1, <1>3, <1>4 DEF Top
<1>7. Good' = Good
  BY <1>3 DEF Good
<1>8. /\ h2.root = h.root /\ h2.iWrite = p /\ h2.nChunk = h.nChunk
      /\ h2.cur = [h.cur EXCEPT ![k] = v] /\ h2.trans = h.trans /\ h2.iUsedShmid = h.iUsedShmid
      /\ h2.iOldShmid = h.iOldShmid /\ h2.iOldLog = h.iOldLog /\ h2.oldroot = h.oldroot
      /\ h2.oldtrans = h.oldtrans /\ h2.oldcur = h.oldcur
      /\ h.cur \in [Sub -> Nat] /\ h.trans \in Nat \ {0} /\ v \in Nat
  <2>1. nWrite \in Nat
    BY <1>1 DEF Types, WriteTypes
  <2>2. v \in Nat
    BY <2>1
  <2> HIDE DEF p, v
  <2> QED
    BY <1>2, <2>2 DEF Header
<1>9. /\ treehdr'.trans = Good'.trans + 1 /\ treehdr'.iOldLog = Good'.iOldLog
      /\ OldKept' /\ LiveUsed(treehdr') = LiveUsed(treehdr)
  BY <1>2, <1>3, <1>5, <1>7, <1>8, OldFrame
<1>10. /\ p \in Cell /\ p \in S2 /\ S \subseteq S2 /\ p \notin S
       /\ \A L : Guarded(L) => p \notin Reg(Good, L)
       /\ Offs(Good.iWrite, p)
       /\ \A l \in 1..Top : p \notin WorkReg(marks[l].mark.iWrite)
                            /\ Offs(marks[l].mark.iWrite, p)
  BY <1>1, <1>2, AllocFacts
<1>11. /\ WorkMem /\ RollbackInv /\ r \in S /\ r \in Cell /\ r # p /\ p # Null
  BY <1>1, <1>2, <1>10, RegionRoot, CellType DEF AliveMem, WorkMem, Tree, WorkReg
<1>12. mem \in MemMap /\ Cel(mem, r) \in CellRec /\ p \in Ptr
  BY <1>2, <1>10, <1>11, CelType, CellType DEF MemTypes
<1>13. /\ mem' \in MemMap
       /\ \A q \in Cell : Cel(mem', q) = IF q = r THEN V2(Cel(mem, r))
                                         ELSE IF q = p THEN Leaf(v) ELSE Cel(mem, q)
  <2> DEFINE m1 == Store(p, Leaf(v))
             x == V2(Cel(m1, r))
  <2>1. /\ m1 \in MemMap /\ \A q \in Cell : Cel(m1, q) = IF q = p THEN Leaf(v) ELSE Cel(mem, q)
    <3>1. Leaf(v) \in CellRec
      BY <1>8, LeafType
    <3> HIDE DEF p, v
    <3> QED
      BY <1>10, <1>12, <3>1, StoreMem
  <2>2. mem' = Put(m1, r, x)
    <3>1. r[1] \in Chunks /\ r[2] \in 1..Room
      BY <1>11, CellType
    <3> HIDE DEF m1
    <3> QED
      BY <1>3, <2>1, <3>1 DEF Cel, Put, m1
  <2>3. Cel(m1, r) = Cel(mem, r)
    BY <1>11, <2>1
  <2>4. x \in CellRec
    <3> HIDE DEF p, m1
    <3> QED
      BY <1>8, <1>12, <2>3 DEF CellRec
  <2> HIDE DEF m1, x
  <2>5. /\ mem' \in MemMap
        /\ \A q \in Cell : Cel(mem', q) = IF q = r THEN x ELSE Cel(m1, q)
    <3> HIDE DEF r
    <3> QED
      BY <1>11, <2>1, <2>2, <2>4, StoreCell
  <2>6. x = V2(Cel(mem, r))
    BY <2>3 DEF x
  <2> QED
    BY <2>1, <2>5, <2>6
<1>14. /\ V2(Cel(mem, r)).node = Cel(mem, r).node /\ V2(Cel(mem, r)).val = Cel(mem, r).val
       /\ V2(Cel(mem, r)).child = Cel(mem, r).child /\ V2(Cel(mem, r)).iV2 = h.trans
       /\ V2(Cel(mem, r)).iV2Child = k /\ V2(Cel(mem, r)).iV2Ptr = p
  <2> DEFINE x == Cel(mem, r)
  <2>1. x \in CellRec
    BY <1>12
  <2> HIDE DEF p, x
  <2> QED
    BY <2>1 DEF CellRec, x
<1> HIDE DEF V2
<1>15. MemTypes'
  <2>1. ASSUME NEW q \in Cell, Cel(mem', q).iV2 # 0
        PROVE  Cel(mem', q).iV2Child \in Sub
    <3>1. CASE q = r
      BY <1>13, <1>14, <3>1
    <3>2. CASE q # r /\ q = p
      BY <1>8, <1>13, <2>1, <3>2, LeafType
    <3>3. CASE q # r /\ q # p
      BY <1>2, <1>13, <2>1, <3>3 DEF MemTypes
    <3> QED
      BY <3>1, <3>2, <3>3
  <2> QED
    BY <1>13, <2>1 DEF MemTypes
<1>16. \A q \in Cell : q # p => Cel(mem', q).node = Cel(mem, q).node
                                /\ Cel(mem', q).val = Cel(mem, q).val
  BY <1>13, <1>14
<1>17. Len(rollback) \in Nat /\ Len(rollback') = Len(rollback) + 1
       /\ rollback'[Len(rollback) + 1] = r
       /\ \A n \in 1..Len(rollback) : rollback'[n] = rollback[n]
  <2>1. rollback \in Seq(Ptr) /\ r \in Ptr
    BY <1>1, <1>11, CellType DEF Types, WriteTypes
  <2> QED
    BY <1>3, <2>1
<1>18. GoodMem' /\ SnapInv' /\ \A d \in Conn : Holds(d)' => ReaderMem(d)'
  <2>1. WorkRoots' \subseteq WorkRoots \cup {p}
    <3>1. \A n \in 1..Len(rollback') : n \in 1..Len(rollback) \/ n = Len(rollback) + 1
      BY <1>17
    <3>2. \A n \in 1..Len(rollback') : rollback'[n] \in WorkRoots
      BY <1>17, <3>1 DEF WorkRoots
    <3> QED
      BY <1>3, <1>5, <1>6, <1>8, <3>2 DEF WorkRoots
  <2>2. ChunkStep(0)
    BY <1>3 DEF ChunkStep
  <2>3. MemStep(0, p)
    <3> SUFFICES ASSUME NEW q \in Cell, q # p, Cel(mem', q) # Cel(mem, q)
                 PROVE  /\ q \in WorkRoots
                        /\ Cel(mem', q).node = Cel(mem, q).node
                        /\ Cel(mem', q).val = Cel(mem, q).val
                        /\ Cel(mem', q).child = Cel(mem, q).child
                        /\ Cel(mem, q).iV2 \in {0, treehdr.trans}
                        /\ Cel(mem', q).iV2 \in {0, treehdr.trans}
      BY DEF MemStep
    <3>1. q = r
      BY <1>13
    <3>2. r \in WorkRoots
      BY DEF WorkRoots
    <3> QED
      BY <1>1, <1>13, <1>14, <3>1, <3>2
  <2>4. 0 \notin 1..(Good.nChunk - 1)
    OBVIOUS
  <2>5. \A d \in Conn : Holds(d)' => Holds(d) /\ slot'[iReader[d]] = slot[iReader[d]]
    BY <1>1, <1>3, <1>4, WriterHolds DEF AlivePcs
  <2>6. \A d \in Conn \ {writer} : hdr'[d] = hdr[d] /\ pc'[d] = pc[d]
    BY <1>1, <1>4
  <2> HIDE DEF h, p
  <2> QED
    BY <1>1, <1>2, <1>3, <1>5, <1>8, <1>10, <2>1, <2>2, <2>3, <2>4, <2>5, <2>6, AliveFrame DEF h
<1>19. \A n \in 1..Len(rollback) : rollback[n] # r /\ rollback[n] # p /\ rollback[n] \in S
  BY <1>1, <1>8, <1>10, <1>11 DEF RollbackInv, WorkMem
<1>20. RollbackInv'
  <2>1. ASSUME NEW n \in 1..Len(rollback')
        PROVE  Cel(mem', rollback'[n]).iV2 = h.trans /\ rollback'[n] \in Cell
    <3>1. CASE n \in 1..Len(rollback)
      <4>1. rollback'[n] = rollback[n] /\ rollback[n] \in Cell
        BY <1>11, <1>17, <3>1 DEF RollbackInv
      <4>2. Cel(mem', rollback[n]) = Cel(mem, rollback[n])
        BY <1>13, <1>19, <3>1, <4>1
      <4> QED
        BY <1>11, <3>1, <4>1, <4>2 DEF RollbackInv
    <3>2. CASE n = Len(rollback) + 1
      BY <1>11, <1>13, <1>14, <1>17, <3>2
    <3> QED
      BY <1>17, <2>1, <3>1, <3>2
  <2>2. ASSUME NEW n \in 1..Len(rollback'), NEW l \in 1..Len(rollback'),
               rollback'[n] = rollback'[l]
        PROVE  n = l
    <3>1. (n \in 1..Len(rollback) \/ n = Len(rollback) + 1)
          /\ (l \in 1..Len(rollback) \/ l = Len(rollback) + 1)
      BY <1>17, <2>2
    <3> QED
      BY <1>11, <1>17, <1>19, <2>2, <3>1 DEF RollbackInv
  <2> QED
    BY <1>1, <1>3, <1>4, <1>5, <1>8, <2>1, <2>2 DEF RollbackInv
<1>21. ASSUME NEW l \in 1..Top'
       PROVE  MarkMem(l)'
  <2> DEFINE x == marks[l].mark.root
             Q == marks[l].iRollback
             mc == MarkCell(l)
             m2 == MarkCell(l)'
             Sl == WorkReg(marks[l].mark.iWrite)
  <2>1. l \in 1..Top /\ MarkMem(l)
    BY <1>2, <1>6, <1>21 DEF AliveMem
  <2>2. \A j \in l..Top' : Offs(marks[l].mark.iWrite, marks'[j].mark.iWrite)
    BY <1>3, <1>6, <2>1 DEF MarkMem
  <2>3. Q \in 0..Len(rollback)
    BY <1>2, <2>1 DEF AlivePlaced
  <2>4. Since(l)' = Since(l) \cup {r}
    <3>1. \A n \in (Q + 1)..(Len(rollback) + 1) :
            (n \in (Q + 1)..Len(rollback) /\ n \in 1..Len(rollback)) \/ n = Len(rollback) + 1
      BY <1>17, <2>3
    <3>2. \A n \in (Q + 1)..Len(rollback) :
            n \in (Q + 1)..(Len(rollback) + 1) /\ n \in 1..Len(rollback)
      BY <1>17, <2>3
    <3>3. Len(rollback) + 1 \in (Q + 1)..(Len(rollback) + 1)
      BY <1>17, <2>3
    <3>4. Since(l)' = {rollback'[n] : n \in (Q + 1)..(Len(rollback) + 1)}
      BY <1>3, <1>17 DEF Since
    <3>5. Since(l) = {rollback[n] : n \in (Q + 1)..Len(rollback)}
      BY DEF Since
    <3> HIDE DEF Q
    <3> QED
      BY <1>17, <3>1, <3>2, <3>3, <3>4, <3>5
  <2>5. r \notin Since(l)
    <3>1. \A n \in (Q + 1)..Len(rollback) : n \in 1..Len(rollback)
      BY <1>17, <2>3
    <3> QED
      BY <1>19, <3>1 DEF Since
  <2>6. x \in Sl => x \in Cell /\ x # p /\ x # Null
    BY <1>10, <2>1, RegionRoot DEF WorkReg
  <2>7. x \in Sl => /\ m2.node = mc.node
                    /\ \A s \in Sub : getChildPtr(m2, h.trans, s) = getChildPtr(mc, h.trans, s)
    <3> SUFFICES ASSUME x \in Sl
                 PROVE  /\ m2.node = mc.node
                        /\ \A s \in Sub : getChildPtr(m2, h.trans, s) = getChildPtr(mc, h.trans, s)
      OBVIOUS
    <3>1. m2 = IF x \in Since(l)' THEN Unv2(Cel(mem', x)) ELSE Cel(mem', x)
      BY <1>3 DEF MarkCell
    <3>2. mc = IF x \in Since(l) THEN Unv2(Cel(mem, x)) ELSE Cel(mem, x)
      BY DEF MarkCell
    <3>3. CASE x = r
      <4> DEFINE y == Cel(mem, r)
                 z == V2(y)
                 u == Unv2(z)
      <4>1. m2 = u /\ mc = y
        BY <1>11, <1>13, <2>4, <2>5, <3>1, <3>2, <3>3
      <4>2. z.node = y.node /\ z.child = y.child /\ z \in CellRec /\ y.iV2 = 0
        BY <1>1, <1>11, <1>13, <1>14, CelType
      <4>3. u.node = z.node /\ u.child = z.child /\ u.iV2 = 0
        <5> HIDE DEF z
        <5> QED
          BY <4>2, Unv2Cell
      <4> HIDE DEF y, z, u, m2, mc
      <4>4. \A s \in Sub : getChildPtr(u, h.trans, s) = getChildPtr(y, h.trans, s)
        BY <4>2, <4>3, SameVersion
      <4> QED
        BY <4>1, <4>2, <4>3, <4>4
    <3>4. CASE x # r
      <4>1. Cel(mem', x) = Cel(mem, x)
        BY <1>13, <2>6, <3>4
      <4>2. m2 = mc
        BY <2>4, <3>1, <3>2, <3>4, <4>1
      <4> QED
        BY <4>2
    <3> QED
      BY <3>3, <3>4
  <2>8. x \in Sl => Cel(mem', x).iV2 <= h.trans
    <3>1. x \in Sl => Cel(mem, x).iV2 <= h.trans
      BY <2>1, <2>6 DEF MarkMem
    <3> QED
      BY <1>8, <1>13, <1>14, <2>6, <3>1
  <2>9. Sl = Region(chunk', h2.nChunk, LiveUsed(h), marks[l].mark.iWrite)
    BY <1>3, <1>8 DEF WorkReg
  <2>10. \A q \in Sl : Cel(mem', q).node = Cel(mem, q).node /\ Cel(mem', q).val = Cel(mem, q).val
    <3>1. \A q \in Sl : q \in Cell /\ q # p
      BY <1>10, <2>1, RegionRoot DEF WorkReg
    <3> QED
      BY <1>16, <3>1
  <2>11. \A n \in 1..Q : rollback'[n] = rollback[n]
    BY <1>17, <2>3
  <2>12. Offs(marks[l].mark.iWrite, h2.iWrite)
    BY <1>8, <1>10, <2>1
  <2>13. pc'[writer'] \notin {"linkleaf", "linkcopy"}
    BY <1>1, <1>3, <1>4
  <2>14. x \in Sl => /\ Cel(mem', x).iV2 <= h.trans /\ m2.node = mc.node
                     /\ \A s \in Sub : getChildPtr(m2, h.trans, s) = getChildPtr(mc, h.trans, s)
    BY <2>7, <2>8
  <2> QED
    BY <1>3, <1>5, <1>7, <1>8, <1>9, <2>1, <2>2, <2>9, <2>10, <2>11, <2>12, <2>13, <2>14, MarkFrame
<1>22. WorkReg(treehdr.iWrite)' = S2
  BY <1>3, <1>5, <1>8, <1>9 DEF WorkReg
<1>23. WorkMem'
  <2> DEFINE x == Cel(mem, r)
             y == Cel(mem', r)
  <2>1. /\ r \in S2 /\ Shows(mem, x, h.trans, h.cur, S)
    BY <1>1, <1>10, <1>11 DEF WorkMem, Tree
  <2>2. y.node /\ y.iV2 = h.trans /\ y.child = x.child /\ y.iV2Child = k /\ y.iV2Ptr = p
        /\ x.iV2 = 0
    BY <1>1, <1>11, <1>13, <1>14, <2>1 DEF Shows
  <2>3. /\ ~Cel(mem', p).node /\ Cel(mem', p).val = v
    BY <1>8, <1>10, <1>11, <1>13, LeafType
  <2>4. Shows(mem', y, h.trans, h2.cur, S2)
    <3> DEFINE T(s, q) == IF q = Null THEN h2.cur[s] = 0
                          ELSE q \in S2 /\ ~Cel(mem', q).node /\ Cel(mem', q).val = h2.cur[s]
    <3> SUFFICES ASSUME NEW s \in Sub PROVE T(s, getChildPtr(y, h.trans, s))
      BY <2>2 DEF Shows
    <3>1. CASE s = k
      <4>1. getChildPtr(y, h.trans, s) = p
        BY <1>8, <2>2, <3>1 DEF getChildPtr
      <4>2. h2.cur[s] = v
        BY <1>8, <3>1
      <4> QED
        BY <1>10, <1>11, <2>3, <4>1, <4>2
    <3>2. CASE s # k
      <4> DEFINE q == getChildPtr(x, h.trans, s)
      <4>1. getChildPtr(y, h.trans, s) = q
        BY <2>2, <3>2 DEF getChildPtr
      <4>2. h2.cur[s] = h.cur[s]
        BY <1>8, <3>2
      <4>3. IF q = Null THEN h.cur[s] = 0
            ELSE q \in S /\ ~Cel(mem, q).node /\ Cel(mem, q).val = h.cur[s]
        BY <2>1 DEF Shows
      <4>4. q \in S => q \in Cell /\ q # p /\ q \in S2
        BY <1>10, RegionRoot DEF WorkReg
      <4> HIDE DEF q, h2, S, S2
      <4> QED
        BY <1>16, <4>1, <4>2, <4>3, <4>4
    <3> QED
      BY <3>1, <3>2
  <2>5. Tree(mem', r, h.trans, h2.cur, S2)
    BY <1>1, <2>1, <2>4 DEF Tree
  <2>6. \A n \in 1..Len(rollback') : rollback'[n] \in S2
    <3>1. \A n \in 1..Len(rollback') : n \in 1..Len(rollback) \/ n = Len(rollback) + 1
      BY <1>17
    <3> QED
      BY <1>10, <1>11, <1>17, <1>19, <3>1
  <2>7. y.iV2 <= h.trans
    BY <1>8, <2>2
  <2> QED
    BY <1>5, <1>7, <1>8, <1>10, <1>22, <2>5, <2>6, <2>7 DEF WorkMem
<1>24. AliveMem'
  BY <1>1, <1>3, <1>4, <1>9, <1>20, <1>21, <1>23 DEF AliveMem
<1> QED
  BY <1>5, <1>15, <1>18, <1>24, AliveIntro

\* A node or a leaf is stored where the transaction allocates.
LEMMA StoreFrame ==
  ASSUME Inv, Inv', MemInv, NEW c \in Conn, writer = c,
         pc[c] \in {"open", "leaf", "copy"}, pc'[c] \in {"open", "copy"}, ~Full(treehdr),
         NEW x \in CellRec, x.iV2 = 0, mem' = Store(Alloc(treehdr), x),
         UNCHANGED <<chunk, hdr1, hdr2, bWriter, snap, client, writer, slot, iReader,
                     rlock, stale, marks, rollback>>,
         \A d \in Conn \ {c} : hdr'[d] = hdr[d] /\ pc'[d] = pc[d],
         NEW h2, hdr'[c] = h2, h2.iWrite = Alloc(treehdr), h2.nChunk = treehdr.nChunk,
         h2.root \in {treehdr.root, Alloc(treehdr)}, h2.trans = treehdr.trans,
         h2.iUsedShmid = treehdr.iUsedShmid, h2.iOldShmid = treehdr.iOldShmid,
         h2.iOldLog = treehdr.iOldLog, h2.oldroot = treehdr.oldroot,
         h2.oldtrans = treehdr.oldtrans, h2.oldcur = treehdr.oldcur
  PROVE  LET p == Alloc(treehdr)
         IN  /\ MemTypes' /\ GoodMem' /\ SnapInv' /\ ~AtEnd' /\ treehdr' = h2
             /\ \A d \in Conn : Holds(d)' => ReaderMem(d)'
             /\ treehdr'.trans = Good'.trans + 1 /\ treehdr'.iOldLog = Good'.iOldLog /\ OldKept'
             /\ RollbackInv' /\ (\A k \in 1..Top' : MarkMem(k)')
             /\ p \in Cell /\ p # Null /\ mem \in MemMap
             /\ \A q \in Cell : Cel(mem', q) = IF q = p THEN x ELSE Cel(mem, q)
             /\ WorkReg(treehdr.iWrite)' = WorkReg(p) /\ Good' = Good
             /\ p \in WorkReg(p) /\ WorkReg(treehdr.iWrite) \subseteq WorkReg(p)
             /\ p \notin WorkReg(treehdr.iWrite) /\ Offs(Good.iWrite, p)
             /\ AliveMem /\ WorkMem /\ treehdr \in Header
<1> DEFINE h == treehdr
           p == Alloc(h)
           S == WorkReg(h.iWrite)
           S2 == WorkReg(p)
<1>1. writer = c /\ Types /\ Main /\ pc[c] \in AlivePcs /\ pc'[c] \in AlivePcs
  BY NotLost DEF AlivePcs
<1>2. /\ Alive /\ MemTypes /\ MemMain /\ AliveMem /\ AliveInv /\ AlivePlaced /\ GoodPlaced
      /\ h \in Header /\ h = hdr[c] /\ chunk \in ChunkMap /\ h.trans \in Nat \ {0}
  BY <1>1, AliveFacts, HeaderType
<1>3. /\ Types' /\ Main' /\ Alive' /\ ~AtEnd' /\ treehdr' = h2
  BY <1>1, AliveNext
<1>4. Top = Len(marks) /\ Top' = Top
  BY <1>1 DEF Top
<1>5. Good' = Good
  BY DEF Good
<1>6. /\ treehdr'.trans = Good'.trans + 1 /\ treehdr'.iOldLog = Good'.iOldLog
      /\ OldKept' /\ LiveUsed(treehdr') = LiveUsed(treehdr)
  BY <1>2, <1>3, <1>5, OldFrame
<1>7. /\ p \in Cell /\ p \in S2 /\ S \subseteq S2 /\ p \notin S
      /\ \A L : Guarded(L) => p \notin Reg(Good, L)
      /\ Offs(Good.iWrite, p)
      /\ \A l \in 1..Top : p \notin WorkReg(marks[l].mark.iWrite)
                            /\ Offs(marks[l].mark.iWrite, p)
  BY <1>1, <1>2, AllocFacts
<1>8. mem \in MemMap /\ p # Null
  BY <1>2, <1>7, CellType DEF MemTypes
<1>9. /\ mem' \in MemMap
      /\ \A q \in Cell : Cel(mem', q) = IF q = p THEN x ELSE Cel(mem, q)
  <2>1. mem' = Store(p, x)
    OBVIOUS
  <2> HIDE DEF p
  <2> QED
    BY <1>7, <1>8, <2>1, StoreMem
<1>10. MemTypes'
  <2>1. \A q \in Cell : Cel(mem', q).iV2 # 0 => Cel(mem', q).iV2Child \in Sub
    <3> HIDE DEF p
    <3> QED
      BY <1>2, <1>9 DEF MemTypes
  <2> QED
    BY <1>9, <2>1 DEF MemTypes
<1>11. GoodMem' /\ SnapInv' /\ \A d \in Conn : Holds(d)' => ReaderMem(d)'
  <2>1. WorkRoots' \subseteq WorkRoots \cup {p}
    BY <1>3, <1>4 DEF WorkRoots
  <2>2. ChunkStep(0)
    BY DEF ChunkStep
  <2>3. MemStep(0, p)
    <3> HIDE DEF p
    <3> QED
      BY <1>9 DEF MemStep
  <2>4. 0 \notin 1..(Good.nChunk - 1)
    OBVIOUS
  <2>5. \A d \in Conn : Holds(d)' => Holds(d) /\ slot'[iReader[d]] = slot[iReader[d]]
    BY <1>1, WriterHolds
  <2>6. \A d \in Conn \ {writer} : hdr'[d] = hdr[d] /\ pc'[d] = pc[d]
    BY <1>1
  <2> HIDE DEF h, p
  <2> QED
    BY <1>1, <1>2, <1>3, <1>7, <2>1, <2>2, <2>3, <2>4, <2>5, <2>6, AliveFrame DEF h
<1>12. WorkMem /\ RollbackInv
  BY <1>1, <1>2 DEF AliveMem
<1>13. RollbackInv'
  <2>1. ASSUME NEW n \in 1..Len(rollback)
        PROVE  Cel(mem', rollback[n]).iV2 = h.trans /\ rollback[n] \in Cell
    <3>1. rollback[n] \in Cell /\ rollback[n] # p
      BY <1>7, <1>12, <2>1 DEF RollbackInv, WorkMem
    <3>2. Cel(mem', rollback[n]) = Cel(mem, rollback[n])
      <4> HIDE DEF p
      <4> QED
        BY <1>9, <3>1
    <3> QED
      BY <1>12, <3>1, <3>2 DEF RollbackInv
  <2> QED
    BY <1>1, <1>3, <1>12, <2>1 DEF RollbackInv
<1>14. ASSUME NEW l \in 1..Top'
       PROVE  MarkMem(l)'
  <2> DEFINE r == marks[l].mark.root
             Sl == WorkReg(marks[l].mark.iWrite)
  <2>1. l \in 1..Top /\ MarkMem(l)
    BY <1>2, <1>4, <1>14 DEF AliveMem
  <2>2. \A j \in l..Top' : Offs(marks[l].mark.iWrite, marks'[j].mark.iWrite)
    BY <1>4, <2>1 DEF MarkMem
  <2>3. \A q \in Sl : Cel(mem', q) = Cel(mem, q) /\ q # Null
    <3>1. \A q \in Sl : q \in Cell /\ q # p /\ q # Null
      BY <1>7, <2>1, RegionRoot DEF WorkReg
    <3> HIDE DEF p
    <3> QED
      BY <1>9, <3>1
  <2>4. r \in Sl => /\ MarkCell(l)' = MarkCell(l) /\ Cel(mem', r).iV2 <= h.trans
    <3>1. r \in Sl => Cel(mem', r).iV2 <= h.trans
      BY <2>1, <2>3 DEF MarkMem
    <3> QED
      BY <2>3, <3>1 DEF MarkCell, Since
  <2>5. Sl = Region(chunk', h2.nChunk, LiveUsed(h), marks[l].mark.iWrite)
    BY DEF WorkReg
  <2>6. Offs(marks[l].mark.iWrite, h2.iWrite)
    BY <1>7, <2>1
  <2>7. pc'[writer'] \notin {"linkleaf", "linkcopy"}
    BY <1>1
  <2> QED
    BY <1>3, <1>5, <1>6, <2>1, <2>2, <2>3, <2>4, <2>5, <2>6, <2>7, MarkFrame
<1>15. WorkReg(treehdr.iWrite)' = S2
  BY <1>3, <1>6 DEF WorkReg
<1> QED
  BY <1>2, <1>3, <1>5, <1>6, <1>7, <1>8, <1>9, <1>10, <1>11, <1>12, <1>13, <1>14, <1>15

LEMMA InsertLeafMem ==
  ASSUME Inv, Inv', MemInv, NEW c \in Conn, NEW k \in Sub, InsertLeaf(c, k)
  PROVE  MemInv'
<1> DEFINE h == treehdr
           p == Alloc(h)
           x == Leaf(nWrite + 1)
           h2 == [h EXCEPT !.iWrite = p]
           S == WorkReg(h.iWrite)
           S2 == WorkReg(p)
<1>1. pc[c] \in {"open", "leaf"} /\ writer = c /\ Types /\ Main /\ pc[c] \in AlivePcs
      /\ ~Full(h) /\ (h.root # Null => Cel(mem, h.root).iV2 # 0) /\ nWrite \in Nat
  BY NotLost DEF InsertLeaf, Writing, AlivePcs, NeedsNode, At, Cel, Types, WriteTypes
<1>2. h \in Header /\ h = hdr[c]
  BY <1>1, WriterAlive
<1>3. /\ UNCHANGED <<chunk, hdr1, hdr2, bWriter, snap, client, writer, slot, iReader,
                     rlock, stale, marks, rollback, nWrite>>
      /\ mem' = Store(p, x) /\ pend'.leaf = p /\ pend'.sub = k
      /\ hdr' = [hdr EXCEPT ![c] = h2] /\ pc' = [pc EXCEPT ![c] = "copy"]
  BY <1>1 DEF InsertLeaf, lockVars, SetHeader, Goto, boundVars, Types, WriteTypes
<1>4. pc'[c] = "copy" /\ hdr'[c] = h2 /\ \A d \in Conn \ {c} : hdr'[d] = hdr[d] /\ pc'[d] = pc[d]
  BY <1>1, <1>3 DEF Types, HeaderTypes
<1>5. /\ h2.root = h.root /\ h2.iWrite = p /\ h2.nChunk = h.nChunk
      /\ h2.cur = h.cur /\ h2.trans = h.trans /\ h2.iUsedShmid = h.iUsedShmid
      /\ h2.iOldShmid = h.iOldShmid /\ h2.iOldLog = h.iOldLog /\ h2.oldroot = h.oldroot
      /\ h2.oldtrans = h.oldtrans /\ h2.oldcur = h.oldcur
  BY <1>2 DEF Header
<1>6. x \in CellRec /\ x.iV2 = 0 /\ ~x.node /\ x.val = nWrite + 1
  BY <1>1, LeafType
<1> HIDE DEF x, h2
<1>7. /\ MemTypes' /\ GoodMem' /\ SnapInv' /\ ~AtEnd' /\ treehdr' = h2
      /\ \A d \in Conn : Holds(d)' => ReaderMem(d)'
      /\ treehdr'.trans = Good'.trans + 1 /\ treehdr'.iOldLog = Good'.iOldLog /\ OldKept'
      /\ RollbackInv' /\ (\A l \in 1..Top' : MarkMem(l)')
      /\ p \in Cell /\ p # Null /\ mem \in MemMap
      /\ \A q \in Cell : Cel(mem', q) = IF q = p THEN x ELSE Cel(mem, q)
      /\ WorkReg(treehdr.iWrite)' = S2 /\ Good' = Good
      /\ p \in S2 /\ S \subseteq S2
      /\ p \notin S /\ Offs(Good.iWrite, p) /\ AliveMem /\ WorkMem
  BY <1>1, <1>3, <1>4, <1>5, <1>6, StoreFrame
<1>8. \A q \in S : q \in Cell /\ q # Null /\ Cel(mem', q) = Cel(mem, q)
  <2>1. \A q \in S : q \in Cell /\ q # Null /\ q # p
    BY <1>7, RegionRoot DEF WorkReg
  <2> HIDE DEF p
  <2> QED
    BY <1>7, <2>1
<1>9. h.root # Null => Cel(mem', h.root) = Cel(mem, h.root)
  BY <1>7, <1>8 DEF WorkMem, Tree
<1>10. WorkMem'
  <2>1. Tree(mem, h.root, h.trans, h.cur, S)
    BY <1>7 DEF WorkMem
  <2>2. Tree(mem', h.root, h.trans, h.cur, S2)
    <3> HIDE DEF S, S2
    <3> QED
      BY <1>7, <1>8, <2>1, TreeKept
  <2> QED
    BY <1>3, <1>5, <1>7, <1>9, <2>2 DEF WorkMem
<1>11. LeafMem'
  <2>1. Cel(mem', p) = x
    BY <1>7
  <2> QED
    BY <1>1, <1>3, <1>5, <1>6, <1>7, <1>9, <2>1 DEF LeafMem
<1>12. AliveMem'
  BY <1>1, <1>3, <1>4, <1>7, <1>10, <1>11 DEF AliveMem
<1> QED
  BY <1>7, <1>12, AliveIntro

LEMMA NodeType ==
  ASSUME NEW ptr \in [Sub -> Ptr]
  PROVE  /\ Node(ptr) \in CellRec /\ Node(ptr).iV2 = 0 /\ Node(ptr).node
         /\ \A t, s : getChildPtr(Node(ptr), t, s) = ptr[s]
BY DEF Node, CellRec, Ptr, getChildPtr

\* The working version is the version of the open transaction.
LEMMA WorkingChildrenAre ==
  ASSUME NEW x \in CellRec, NEW t \in Nat, x.iV2 <= t, x.iV2 # 0 => x.iV2Child \in Sub
  PROVE  /\ WorkingChildren(x) \in [Sub -> Ptr]
         /\ \A s \in Sub : WorkingChildren(x)[s] = getChildPtr(x, t, s)
BY DEF WorkingChildren, getChildPtr, CellRec

LEMMA InsertCopyMem ==
  ASSUME Inv, Inv', MemInv, NEW c \in Conn, InsertCopy(c)
  PROVE  MemInv'
<1> DEFINE h == treehdr
           p == Alloc(h)
           v == nWrite + 1
           k == pend.sub
           child == IF h.root = Null THEN [s \in Sub |-> Null]
                    ELSE WorkingChildren(Cel(mem, h.root))
           ptr == [child EXCEPT ![k] = pend.leaf]
           x == Node(ptr)
           h2 == [h EXCEPT !.iWrite = p, !.root = p, !.cur[k] = v]
           S == WorkReg(h.iWrite)
           S2 == WorkReg(p)
<1>1. pc[c] = "copy" /\ writer = c /\ Types /\ Main /\ pc[c] \in AlivePcs
      /\ ~Full(h) /\ nWrite \in Nat
  BY NotLost DEF InsertCopy, Writing, AlivePcs, Types, WriteTypes
<1>2. h \in Header /\ h = hdr[c] /\ h.trans \in Nat \ {0} /\ MemTypes /\ AliveMem
  BY <1>1, AliveFacts, HeaderType
<1>3. /\ UNCHANGED <<chunk, hdr1, hdr2, bWriter, snap, client, writer, slot, iReader,
                     rlock, stale, marks, rollback>>
      /\ mem' = Store(p, x) /\ nWrite' = v
      /\ hdr' = [hdr EXCEPT ![c] = h2] /\ pc' = [pc EXCEPT ![c] = "open"]
  BY <1>1 DEF InsertCopy, lockVars, SetHeader, Goto, At, Cel
<1>4. pc'[c] = "open" /\ hdr'[c] = h2 /\ \A d \in Conn \ {c} : hdr'[d] = hdr[d] /\ pc'[d] = pc[d]
  BY <1>1, <1>3 DEF Types, HeaderTypes
<1>5. /\ WorkMem /\ LeafMem /\ k \in Sub
  BY <1>1, <1>2 DEF AliveMem, LeafMem
<1>6. /\ h2.root = p /\ h2.iWrite = p /\ h2.nChunk = h.nChunk
      /\ h2.cur = [h.cur EXCEPT ![k] = v] /\ h2.trans = h.trans /\ h2.iUsedShmid = h.iUsedShmid
      /\ h2.iOldShmid = h.iOldShmid /\ h2.iOldLog = h.iOldLog /\ h2.oldroot = h.oldroot
      /\ h2.oldtrans = h.oldtrans /\ h2.oldcur = h.oldcur
      /\ h.cur \in [Sub -> Nat]
  BY <1>2 DEF Header
<1>7. /\ child \in [Sub -> Ptr]
      /\ h.root # Null =>
           \A s \in Sub : child[s] = getChildPtr(Cel(mem, h.root), h.trans, s)
  <2>1. CASE h.root = Null
    BY <2>1 DEF Ptr
  <2>2. CASE h.root # Null
    <3>1. h.root \in Cell /\ Cel(mem, h.root).iV2 <= h.trans
      BY <1>5, <2>2, RegionRoot DEF WorkMem, Tree, WorkReg
    <3> DEFINE y == Cel(mem, h.root)
    <3>2. y \in CellRec /\ (y.iV2 # 0 => y.iV2Child \in Sub) /\ y.iV2 <= h.trans
      BY <1>2, <3>1, CelType DEF MemTypes
    <3> HIDE DEF y
    <3>3. /\ WorkingChildren(y) \in [Sub -> Ptr]
          /\ \A s \in Sub : WorkingChildren(y)[s] = getChildPtr(y, h.trans, s)
      BY <1>2, <3>2, WorkingChildrenAre
    <3> QED
      BY <2>2, <3>3 DEF y
  <2> QED
    BY <2>1, <2>2
<1>8. /\ pend.leaf \in S /\ pend.leaf \in Cell /\ pend.leaf # Null /\ pend.leaf \in Ptr
      /\ ~Cel(mem, pend.leaf).node /\ Cel(mem, pend.leaf).val = v
  BY <1>5, RegionRoot, CellType DEF LeafMem, WorkReg
<1>9. ptr \in [Sub -> Ptr] /\ ptr[k] = pend.leaf /\ \A s \in Sub : s # k => ptr[s] = child[s]
  <2> HIDE DEF child
  <2> QED
    BY <1>5, <1>7, <1>8
<1>10. x \in CellRec /\ x.iV2 = 0 /\ x.node /\ \A t, s : getChildPtr(x, t, s) = ptr[s]
  <2> HIDE DEF ptr
  <2> QED
    BY <1>9, NodeType
<1> HIDE DEF x, h2, ptr, child
<1>11. /\ MemTypes' /\ GoodMem' /\ SnapInv' /\ ~AtEnd' /\ treehdr' = h2
       /\ \A d \in Conn : Holds(d)' => ReaderMem(d)'
       /\ treehdr'.trans = Good'.trans + 1 /\ treehdr'.iOldLog = Good'.iOldLog /\ OldKept'
       /\ RollbackInv' /\ (\A l \in 1..Top' : MarkMem(l)')
       /\ p \in Cell /\ p # Null /\ mem \in MemMap
       /\ \A q \in Cell : Cel(mem', q) = IF q = p THEN x ELSE Cel(mem, q)
       /\ WorkReg(treehdr.iWrite)' = S2 /\ Good' = Good
       /\ p \in S2 /\ S \subseteq S2
       /\ p \notin S /\ Offs(Good.iWrite, p)
  BY <1>1, <1>3, <1>4, <1>6, <1>10, StoreFrame
<1>12. \A q \in S : q \in Cell /\ q # Null /\ Cel(mem', q) = Cel(mem, q) /\ q \in S2
  <2>1. \A q \in S : q \in Cell /\ q # Null /\ q # p /\ q \in S2
    BY <1>11, RegionRoot DEF WorkReg
  <2> HIDE DEF p
  <2> QED
    BY <1>11, <2>1
<1>13. Cel(mem', p) = x
  BY <1>11
<1>14. Shows(mem', x, h.trans, h2.cur, S2)
  <2> DEFINE T(s, q) == IF q = Null THEN h2.cur[s] = 0
                        ELSE q \in S2 /\ ~Cel(mem', q).node /\ Cel(mem', q).val = h2.cur[s]
  <2> SUFFICES ASSUME NEW s \in Sub PROVE T(s, ptr[s])
    BY <1>10 DEF Shows
  <2>1. CASE s = k
    <3>1. ptr[s] = pend.leaf /\ h2.cur[s] = v
      BY <1>6, <1>9, <2>1
    <3> HIDE DEF S, S2
    <3> QED
      BY <1>8, <1>12, <3>1
  <2>2. CASE s # k
    <3>1. ptr[s] = child[s] /\ h2.cur[s] = h.cur[s]
      BY <1>6, <1>9, <2>2
    <3>2. CASE h.root = Null
      <4>1. h.cur[s] = 0 /\ child[s] = Null
        BY <1>5, <3>2 DEF WorkMem, Tree, Empty, child
      <4> QED
        BY <3>1, <4>1
    <3>3. CASE h.root # Null
      <4> DEFINE q == getChildPtr(Cel(mem, h.root), h.trans, s)
      <4>1. IF q = Null THEN h.cur[s] = 0
            ELSE q \in S /\ ~Cel(mem, q).node /\ Cel(mem, q).val = h.cur[s]
        BY <1>5, <3>3 DEF WorkMem, Tree, Shows
      <4>2. ptr[s] = q
        BY <1>7, <3>1, <3>3
      <4> HIDE DEF q, S, S2
      <4> QED
        BY <1>12, <3>1, <4>1, <4>2
    <3> QED
      BY <3>2, <3>3
  <2> QED
    BY <2>1, <2>2
<1>15. WorkMem'
  <2>1. Tree(mem', p, h.trans, h2.cur, S2)
    BY <1>11, <1>13, <1>14 DEF Tree
  <2>2. Cel(mem', p).iV2 <= h.trans
    BY <1>2, <1>10, <1>13
  <2>3. \A n \in 1..Len(rollback) : rollback[n] \in S2
    BY <1>5, <1>11 DEF WorkMem
  <2> QED
    BY <1>3, <1>6, <1>11, <2>1, <2>2, <2>3 DEF WorkMem
<1>16. AliveMem'
  BY <1>1, <1>3, <1>4, <1>11, <1>15 DEF AliveMem
<1> QED
  BY <1>11, <1>16, AliveIntro

LEMMA ShmallocChunkMem ==
  ASSUME Inv, Inv', MemInv, NEW c \in Conn, ShmallocChunk(c)
  PROVE  MemInv'
<1> DEFINE h == treehdr
           id == chunk[h.iFirst].iShmid
           reuse == Recyclable(c, h)
           x == IF reuse THEN h.iFirst ELSE h.nChunk
           cleared == IF h.iUsedShmid # id THEN Cleared(c, id) ELSE {}
           h2 == [h EXCEPT !.iNextShmid = Add(@, 1),
                           !.iFirst = IF reuse THEN chunk[@].iNext ELSE @,
                           !.nChunk = IF reuse THEN @ ELSE @ + 1]
           at == IF pc[c] = "open" THEN "linkleaf" ELSE "linkcopy"
           b == Good.iNextShmid
           n == h.nChunk
           L0 == LiveUsed(h)
           U == Rel(h.iUsedShmid, b)
           V == Rel(L0, b)
<1>1. pc[c] \in {"open", "copy"} /\ writer = c /\ Types /\ Main /\ pc[c] \in AlivePcs
      /\ x \in Chunks
  BY NotLost DEF ShmallocChunk, Writing, AlivePcs
<1>2. /\ Alive /\ MemTypes /\ MemMain /\ AliveMem /\ AliveInv /\ AlivePlaced /\ GoodPlaced
      /\ h \in Header /\ h = hdr[c] /\ chunk \in ChunkMap
  BY <1>1, AliveFacts
<1>3. /\ UNCHANGED <<hdr1, hdr2, bWriter, snap, client, writer, iReader,
                     stale, rollback, marks, nWrite>>
      /\ chunk' = [chunk EXCEPT ![x] = [iShmid |-> h.iNextShmid, iNext |-> 0]]
      /\ mem' = [mem EXCEPT ![x] = [j \in 1..Room |-> Leaf(0)]]
      /\ hdr' = [hdr EXCEPT ![c] = h2] /\ pc' = [pc EXCEPT ![c] = at]
      /\ pend' = [pend EXCEPT !.chunk = x]
      /\ slot' = [i \in 1..NReader |->
                    IF i \in cleared THEN [slot[i] EXCEPT !.iLsmId = 0] ELSE slot[i]]
      /\ rlock' = [rlock EXCEPT ![c] = @ \ cleared]
  BY <1>1 DEF ShmallocChunk, SetHeader, Goto, boundVars
<1>4. /\ pc'[c] = at /\ at \in {"linkleaf", "linkcopy"} /\ at \in AlivePcs /\ hdr'[c] = h2
      /\ \A d \in Conn \ {c} : hdr'[d] = hdr[d] /\ pc'[d] = pc[d]
  BY <1>1, <1>3 DEF Types, HeaderTypes, AlivePcs
<1>5. /\ Types' /\ Main' /\ Alive' /\ ~AtEnd' /\ treehdr' = h2
  BY <1>1, <1>3, <1>4, AliveNext
<1>6. Top = Len(marks) /\ Top' = Top
  BY <1>1, <1>3, <1>4 DEF Top
<1>7. Good' = Good
  BY <1>3 DEF Good
<1>8. /\ h2.root = h.root /\ h2.iWrite = h.iWrite /\ h2.nChunk \in {n, n + 1}
      /\ h2.cur = h.cur /\ h2.trans = h.trans /\ h2.iUsedShmid = h.iUsedShmid
      /\ h2.iOldShmid = h.iOldShmid /\ h2.iOldLog = h.iOldLog /\ h2.oldroot = h.oldroot
      /\ h2.oldtrans = h.oldtrans /\ h2.oldcur = h.oldcur
  BY <1>2 DEF Header
<1> HIDE DEF h2, at
<1>9. /\ treehdr'.trans = Good'.trans + 1 /\ treehdr'.iOldLog = Good'.iOldLog
      /\ OldKept' /\ LiveUsed(treehdr') = LiveUsed(treehdr)
  BY <1>2, <1>3, <1>5, <1>7, <1>8, OldFrame
<1>10. /\ b \in Ids /\ n \in Int /\ 1..(n - 1) \subseteq Chunks /\ HeaderPlaced(h, b)
       /\ \A i \in 1..(n - 1) : Pos(chunk, i, b) \in Int /\ Pos(chunk, h.iFirst, b) <= Pos(chunk, i, b)
       /\ h.iFirst \in 1..(n - 1) /\ h.iUsedShmid \in Ids /\ Good.nChunk \in 2..n
  <2>1. /\ b \in Ids /\ HeaderPlaced(h, b) /\ Good.nChunk <= n /\ Good \in Header
        /\ h.iFirst \in 1..(n - 1)
        /\ \A i \in 1..(n - 1) : Pos(chunk, h.iFirst, b) <= Pos(chunk, i, b)
    BY <1>2 DEF AlivePlaced, GoodPlaced, HeaderPlaced
  <2>2. /\ n \in 2..(MaxChunk + 1) /\ Good.nChunk \in 2..(MaxChunk + 1)
        /\ 1..(n - 1) \subseteq Chunks /\ h.iUsedShmid \in Ids
    BY <1>2, <2>1, HeaderType
  <2>3. Good.nChunk \in 2..n /\ n \in Int
    <3> HIDE DEF n
    <3> QED
      BY <2>1, <2>2, Sizes
  <2>4. \A i \in 1..(n - 1) : Pos(chunk, i, b) \in Int
    BY <2>1 DEF HeaderPlaced, Near
  <2> QED
    BY <2>1, <2>2, <2>3, <2>4
<1>11. U \in Int /\ V \in Int /\ U <= V /\ U <= -1
  <2>1. V \in U..(-1) /\ U \in (-MaxChunk)..(-1) /\ V \in (-MaxChunk)..(-1)
    BY <1>10, LivePlaced
  <2> HIDE DEF U, V
  <2> QED
    BY <2>1, Sizes
\* A chunk that is recycled lies below those of the trees.
<1>12. reuse => Pos(chunk, x, b) < U /\ id # h.iUsedShmid /\ Busy(c, id) = {} /\ x = h.iFirst
  <2> SUFFICES ASSUME reuse PROVE Pos(chunk, x, b) < U /\ id # h.iUsedShmid /\ Busy(c, id) = {}
    OBVIOUS
  <2>1. id # h.iUsedShmid /\ Busy(c, id) = {}
    BY DEF Recyclable
  <2>2. Pos(chunk, h.iFirst, b) <= U
    BY <1>2 DEF AlivePlaced
  <2>3. Pos(chunk, h.iFirst, b) # U
    <3>1. id \in Ids
      BY <1>2, <1>10 DEF ChunkMap
    <3> QED
      BY <1>10, <2>1, <3>1, RelEq DEF Pos
  <2> DEFINE P == Pos(chunk, h.iFirst, b)
  <2>4. P \in Int
    BY <1>10
  <2>5. P < U
    <3> HIDE DEF P, U
    <3> QED
      BY <1>11, <2>2, <2>3, <2>4 DEF P, U
  <2> QED
    BY <2>1, <2>5
<1>13. \A i \in 1..(n - 1) : U <= Pos(chunk, i, b) => i # x
  <2> SUFFICES ASSUME NEW i \in 1..(n - 1), U <= Pos(chunk, i, b), i = x PROVE FALSE
    OBVIOUS
  <2>1. CASE reuse
    <3> DEFINE P == Pos(chunk, x, b)
    <3>1. P < U /\ P \in Int /\ U <= P
      BY <1>10, <1>12, <2>1
    <3> HIDE DEF P, U
    <3> QED
      BY <1>11, <3>1
  <2>2. CASE ~reuse
    BY <1>10, <2>2
  <2> QED
    BY <2>1, <2>2
<1>14. \A i \in Chunks : i # x => chunk'[i].iShmid = chunk[i].iShmid
  <2> HIDE DEF x
  <2> QED
    BY <1>1, <1>2, <1>3 DEF ChunkMap
<1>15. \A q \in Cell : IF q[1] = x THEN Cel(mem', q) = Leaf(0) ELSE Cel(mem', q) = Cel(mem, q)
  <2> HIDE DEF x
  <2> QED
    BY <1>1, <1>2, <1>3, CellType DEF MemTypes, MemMap, Cel
<1>16. MemTypes'
  <2>1. Leaf(0) \in CellRec /\ Leaf(0).iV2 = 0
    BY LeafType
  <2>2. mem' \in MemMap
    <3> HIDE DEF x
    <3> QED
      BY <1>1, <1>2, <1>3, <2>1 DEF MemTypes, MemMap
  <2> HIDE DEF x
  <2> QED
    BY <1>2, <1>15, <2>1, <2>2 DEF MemTypes
\* A reader with a lock on a slot for the first chunk is waited for.
<1>17. ASSUME NEW d \in Conn, Holds(d), SlotInv(d)
       PROVE  /\ iReader[d] \in 1..NReader /\ slot[iReader[d]].iLsmId # 0
              /\ shm_sequence_ge(slot[iReader[d]].iTreeId, id)
              /\ d # c => ~Lockable(c, iReader[d])
  <2>1. PICK j \in 1..(Good.nChunk - 1) : chunk[j].iShmid = Tid(d)
    BY <1>17 DEF SlotInv
  <2>2. j \in 1..(n - 1) /\ j \in Chunks
    BY <1>10
  <2>3. Pos(chunk, h.iFirst, b) <= Pos(chunk, j, b) /\ id \in Ids /\ chunk[j].iShmid \in Ids
    BY <1>2, <1>10, <2>2 DEF ChunkMap
  <2> DEFINE P == Pos(chunk, h.iFirst, b)
             R == Pos(chunk, j, b)
  <2>4. P \in (-MaxChunk)..(MaxChunk - 1) /\ R \in (-MaxChunk)..(MaxChunk - 1) /\ P <= R
    BY <1>10, <2>2, <2>3 DEF HeaderPlaced, Near
  <2>5. R - P \in (-MaxShm)..(MaxShm - 1) /\ R >= P
    <3> HIDE DEF P, R
    <3> QED
      BY <2>4, Sizes
  <2>6. shm_sequence_ge(chunk[j].iShmid, id)
    BY <1>10, <2>3, <2>5, RelSequence DEF Pos
  <2>7. d # c => ~Lockable(c, iReader[d])
    BY <1>17 DEF Holds, Lockable
  <2> QED
    BY <1>17, <2>1, <2>6, <2>7 DEF SlotInv, Tid
<1>18. ASSUME NEW d \in Conn, Holds(d)'
       PROVE  Holds(d) /\ slot'[iReader[d]] = slot[iReader[d]] /\ ~reuse
  <2>1. Holds(d) /\ (d = c => iReader[d] \notin cleared)
    <3>1. CASE d = c
      <4>1. rlock'[c] = rlock[c] \ cleared
        BY <1>1, <1>3 DEF Types, ReadTypes
      <4> QED
        BY <1>1, <1>3, <1>18, <3>1, <4>1 DEF Holds
    <3>2. CASE d # c
      <4>1. rlock'[d] = rlock[d] /\ pc'[d] = pc[d]
        BY <1>1, <1>3, <1>4, <3>2 DEF Types, ReadTypes
      <4> QED
        BY <1>3, <1>18, <3>2, <4>1 DEF Holds
    <3> QED
      BY <3>1, <3>2
  <2> DEFINE i == iReader[d]
  <2>2. /\ i \in 1..NReader /\ slot[i].iLsmId # 0 /\ shm_sequence_ge(slot[i].iTreeId, id)
        /\ d # c => ~Lockable(c, i)
    BY <1>2, <1>17, <2>1 DEF MemMain, ReaderMem
  <2>3. d # c => i \in Busy(c, id)
    BY <2>2 DEF Busy
  <2>4. i \notin cleared
    <3>1. i \in Busy(c, id) => i \notin Cleared(c, id)
      BY <2>2, TreeAssumption DEF Cleared
    <3> QED
      BY <2>1, <2>3, <3>1
  <2>5. ~reuse
    <3> SUFFICES ASSUME reuse PROVE FALSE
      OBVIOUS
    <3>1. Busy(c, id) = {} /\ cleared = Cleared(c, id)
      BY <1>12
    <3>2. i \in Cleared(c, id)
      BY <2>2, <3>1 DEF Cleared
    <3> QED
      BY <2>4, <3>1, <3>2
  <2>6. slot'[i] = slot[i]
    <3> HIDE DEF cleared
    <3> QED
      BY <1>3, <2>2, <2>4
  <2> QED
    BY <2>1, <2>5, <2>6
<1>19. GoodMem' /\ SnapInv' /\ \A d \in Conn : Holds(d)' => ReaderMem(d)'
  <2>1. WorkRoots' \subseteq WorkRoots \cup {Null}
    BY <1>3, <1>5, <1>6, <1>8 DEF WorkRoots
  <2>2. ChunkStep(x)
    <3>1. \A i \in 1..(Good.nChunk - 1) : i \in Chunks
      BY <1>2, HeaderType DEF GoodPlaced, HeaderPlaced
    <3> QED
      BY <1>14, <3>1 DEF ChunkStep
  <2>3. MemStep(x, Null)
    BY <1>15 DEF MemStep
  <2>4. x \in 1..(Good.nChunk - 1) =>
          /\ Pos(chunk, x, b) < U /\ \A d \in Conn : ~Holds(d)'
    <3> SUFFICES ASSUME x \in 1..(Good.nChunk - 1) PROVE reuse
      BY <1>12, <1>18
    <3>1. x # n
      BY <1>10
    <3> QED
      BY <3>1
  <2>5. \A d \in Conn : Holds(d)' => Holds(d) /\ slot'[iReader[d]] = slot[iReader[d]]
    BY <1>18
  <2>6. \A d \in Conn \ {writer} : hdr'[d] = hdr[d] /\ pc'[d] = pc[d]
    BY <1>1, <1>4
  <2>7. \A L : Null \notin Reg(Good, L)
    BY RegionRoot DEF Reg
  <2> HIDE DEF h, x
  <2> QED
    BY <1>1, <1>2, <1>3, <1>5, <1>8, <2>1, <2>2, <2>3, <2>4, <2>5, <2>6, <2>7, AliveFrame DEF h
<1>20. ASSUME NEW w, Placed(chunk, n, L0, w, b)
       PROVE  /\ WorkReg(w) \subseteq Region(chunk', h2.nChunk, L0, w)
              /\ \A q \in WorkReg(w) : q \in Cell /\ q # Null /\ Cel(mem', q) = Cel(mem, q)
  <2> SUFFICES ASSUME NEW q \in WorkReg(w)
               PROVE  q \in Region(chunk', h2.nChunk, L0, w) /\ q \in Cell /\ q # Null
                      /\ Cel(mem', q) = Cel(mem, q)
    OBVIOUS
  <2>1. q \in Cell /\ q # Null /\ InRegion(chunk, n, L0, w, b, q[1])
    BY <1>20, RegionPos, CellType DEF WorkReg
  <2>2. q[1] \in 1..(n - 1) /\ w[1] \in 1..(n - 1)
    BY <1>20, <2>1 DEF InRegion, Placed
  <2> DEFINE P == Pos(chunk, q[1], b)
             W == Pos(chunk, w[1], b)
  <2>3. P \in Int /\ W \in Int /\ V <= P /\ P <= W
    BY <1>10, <2>1, <2>2 DEF InRegion
  <2>4. U <= P /\ U <= W
    <3> HIDE DEF P, W, U, V
    <3> QED
      BY <1>11, <2>3
  <2>5. q[1] # x /\ w[1] # x
    BY <1>13, <2>2, <2>4
  <2>6. chunk'[q[1]].iShmid = chunk[q[1]].iShmid /\ chunk'[w[1]].iShmid = chunk[w[1]].iShmid
    BY <1>10, <1>14, <2>2, <2>5
  <2>7. q[1] < h2.nChunk
    <3> HIDE DEF n
    <3> QED
      BY <1>8, <1>10, <2>2
  <2> HIDE DEF x
  <2> QED
    BY <1>15, <2>1, <2>5, <2>6, <2>7 DEF WorkReg, Region
<1>21. /\ Placed(chunk, n, L0, h.iWrite, b)
       /\ \A k \in 1..Top : Placed(chunk, n, L0, marks[k].mark.iWrite, b)
  BY <1>1, <1>2, WorkRegion
<1>22. WorkMem /\ RollbackInv
  BY <1>1, <1>2 DEF AliveMem
<1>23. RollbackInv'
  <2>1. \A j \in 1..Len(rollback) : Cel(mem', rollback[j]) = Cel(mem, rollback[j])
    BY <1>20, <1>21, <1>22 DEF WorkMem
  <2>2. rollback' = rollback /\ treehdr'.trans = h.trans /\ pc'[writer'] # "rollback"
    BY <1>1, <1>3, <1>4, <1>5, <1>8
  <2>3. /\ \A j \in 1..Len(rollback) : /\ Cel(mem, rollback[j]).iV2 = h.trans
                                        /\ rollback[j] \in Cell
        /\ \A j, l \in 1..Len(rollback) : rollback[j] = rollback[l] => j = l
    BY <1>22, Zenon DEF RollbackInv
  <2> QED
    BY <2>1, <2>2, <2>3 DEF RollbackInv
<1>24. ASSUME NEW k \in 1..Top'
       PROVE  MarkMem(k)'
  <2> DEFINE m == marks[k].mark
             Sk == WorkReg(m.iWrite)
  <2>1. k \in 1..Top /\ MarkMem(k)
    BY <1>2, <1>6, <1>24 DEF AliveMem
  <2>2. \A j \in k..Top' : Offs(m.iWrite, marks'[j].mark.iWrite)
    BY <1>3, <1>6, <2>1 DEF MarkMem
  <2>3. /\ Sk \subseteq Region(chunk', h2.nChunk, L0, m.iWrite)
        /\ \A q \in Sk : q # Null /\ Cel(mem', q) = Cel(mem, q)
    BY <1>20, <1>21, <2>1
  <2>4. m.root \in Sk => /\ MarkCell(k)' = MarkCell(k) /\ Cel(mem', m.root).iV2 <= h.trans
    <3>1. m.root \in Sk => Cel(mem', m.root) = Cel(mem, m.root) /\ m.root # Null
      BY <2>3
    <3>2. m.root # Null => Cel(mem, m.root).iV2 <= h.trans
      BY <2>1 DEF MarkMem
    <3> QED
      BY <1>3, <3>1, <3>2 DEF MarkCell, Since
  <2>5. Offs(m.iWrite, h2.iWrite)
    BY <1>1, <1>8, <2>1 DEF MarkMem
  <2>6. m.iWrite[1] # pend'.chunk
    <3> DEFINE X == Rel(m.iNextShmid, b)
    <3>1. Pos(chunk, m.iWrite[1], b) = X - 1 /\ X \in Nat
      <4>1. Pos(chunk, m.iWrite[1], b) = X - 1 /\ X \in 0..Rel(treehdr.iNextShmid, b)
        BY <1>2, <2>1, MarkPlaced
      <4> HIDE DEF X
      <4> QED
        BY <4>1
    <3>2. U <= Pos(chunk, m.iWrite[1], b)
      <4> HIDE DEF X, U
      <4> QED
        BY <1>11, <3>1
    <3>3. m.iWrite[1] \in 1..(n - 1)
      BY <1>21, <2>1 DEF Placed
    <3>4. pend'.chunk = x
      BY <1>1, <1>3 DEF Types, WriteTypes
    <3> QED
      BY <1>13, <3>2, <3>3, <3>4
  <2>7. \A q \in Sk : Cel(mem', q).node = Cel(mem, q).node /\ Cel(mem', q).val = Cel(mem, q).val
    BY <2>3
  <2> QED
    BY <1>3, <1>5, <1>7, <1>8, <1>9, <2>1, <2>2, <2>3, <2>4, <2>5, <2>6, <2>7, MarkFrame
<1>25. WorkReg(treehdr.iWrite)' = Region(chunk', h2.nChunk, L0, h.iWrite)
  BY <1>5, <1>8, <1>9 DEF WorkReg
<1>26. /\ WorkReg(h.iWrite) \subseteq Region(chunk', h2.nChunk, L0, h.iWrite)
       /\ \A q \in WorkReg(h.iWrite) : q \in Cell /\ q # Null /\ Cel(mem', q) = Cel(mem, q)
  BY <1>20, <1>21
<1>27. h.root # Null => Cel(mem', h.root) = Cel(mem, h.root)
  BY <1>22, <1>26 DEF WorkMem, Tree
<1>28. WorkMem'
  <2> DEFINE S == WorkReg(h.iWrite)
             S2 == Region(chunk', h2.nChunk, L0, h.iWrite)
  <2>1. /\ Tree(mem, h.root, h.trans, h.cur, S) /\ S \subseteq S2
        /\ \A q \in S : Cel(mem', q) = Cel(mem, q)
        /\ \A j \in 1..Len(rollback) : rollback[j] \in S2
        /\ h.root # Null => Cel(mem', h.root).iV2 <= h.trans
    BY <1>22, <1>26, <1>27 DEF WorkMem
  <2>2. Tree(mem', h.root, h.trans, h.cur, S2)
    <3> HIDE DEF S, S2
    <3> QED
      BY <2>1, TreeKept
  <2> QED
    BY <1>3, <1>5, <1>7, <1>8, <1>22, <1>25, <2>1, <2>2 DEF WorkMem
<1>29. pc'[c] = "linkcopy" => LeafMem'
  <2> SUFFICES ASSUME pc'[c] = "linkcopy" PROVE LeafMem'
    OBVIOUS
  <2>1. LeafMem
    BY <1>1, <1>2, <1>4 DEF AliveMem, at
  <2>2. pend'.leaf = pend.leaf /\ pend'.sub = pend.sub
    BY <1>1, <1>3 DEF Types, WriteTypes
  <2> QED
    BY <1>3, <1>5, <1>8, <1>25, <1>26, <1>27, <2>1, <2>2 DEF LeafMem
<1>30. AliveMem'
  BY <1>1, <1>3, <1>4, <1>9, <1>23, <1>24, <1>28, <1>29 DEF AliveMem
<1> QED
  BY <1>5, <1>16, <1>19, <1>30, AliveIntro

----------------------------------------------------------------------------
(* The committed header seen by a reader.                                   *)

LEMMA GuardedOrder ==
  ASSUME GoodPlaced, NEW x, NEW y, Guarded(x), Guarded(y)
  PROVE  shm_sequence_ge(x, y) <=> Rel(x, Good.iNextShmid) >= Rel(y, Good.iNextShmid)
<1> DEFINE b == Good.iNextShmid
           X == Rel(x, b)
           Y == Rel(y, b)
<1>1. /\ x \in Ids /\ y \in Ids /\ b \in Ids
      /\ X \in (-MaxChunk)..(-1) /\ Y \in (-MaxChunk)..(-1)
  BY DEF GoodPlaced, Guarded
<1>2. X - Y \in (-MaxShm)..(MaxShm - 1)
  <2> HIDE DEF X, Y
  <2> QED
    BY <1>1, Sizes
<1> QED
  BY <1>1, <1>2, RelSequence

LEMMA GoodGuarded ==
  ASSUME GoodPlaced
  PROVE  /\ Guarded(Good.iUsedShmid) /\ Guarded(LiveUsed(Good))
         /\ HasOld(Good) => Guarded(Good.iOldShmid)
         /\ Rel(Good.iUsedShmid, Good.iNextShmid) <= Rel(LiveUsed(Good), Good.iNextShmid)
<1> DEFINE b == Good.iNextShmid
           U == Rel(Good.iUsedShmid, b)
           V == Rel(LiveUsed(Good), b)
<1>1. /\ LiveUsed(Good) \in Ids /\ Good.iUsedShmid \in Ids /\ V \in U..(-1)
      /\ V \in (-MaxChunk)..(-1) /\ U \in (-MaxChunk)..(-1)
  BY LivePlaced DEF GoodPlaced
<1>2. U <= V
  <2> HIDE DEF U, V
  <2> QED
    BY <1>1
<1>3. HasOld(Good) => LiveUsed(Good) = Good.iOldShmid
  BY DEF LiveUsed
<1> QED
  BY <1>1, <1>2, <1>3 DEF Guarded

LEMMA GoodWider ==
  ASSUME GoodPlaced, NEW L1, NEW L2, Guarded(L1), Guarded(L2),
         Rel(L2, Good.iNextShmid) <= Rel(L1, Good.iNextShmid)
  PROVE  Reg(Good, L1) \subseteq Reg(Good, L2)
<1> DEFINE b == Good.iNextShmid
           n == Good.nChunk
           w == Good.iWrite
<1>1. Placed(chunk, n, L1, w, b) /\ Placed(chunk, n, L2, w, b)
  BY GoodRegion
<1>2. w[2] \in Nat /\ w[1] \in 1..(n - 1) /\ Pos(chunk, w[1], b) <= Pos(chunk, w[1], b)
  <2>1. w[2] \in Nat /\ w[1] \in 1..(n - 1) /\ Pos(chunk, w[1], b) = -1
    BY DEF GoodPlaced, HeaderPlaced
  <2> QED
    BY <2>1
<1>3. \A i \in 1..(n - 1) : i < n
  BY <1>1 DEF Placed
<1>4. w[2] <= w[2]
  BY <1>2
<1> HIDE DEF b, n, w
<1>5. Region(chunk, n, L1, w) \subseteq Region(chunk, n, L2, w)
  BY <1>1, <1>2, <1>3, <1>4, RegionGrows DEF b
<1> QED
  BY <1>5 DEF Reg, n, w

\* What the committed header describes a reader of an older tree id sees too.
LEMMA FromUsed ==
  ASSUME GoodPlaced, NEW L, Guarded(L), shm_sequence_ge(Good.iUsedShmid, L)
  PROVE  /\ Reg(Good, LiveUsed(Good)) \subseteq Reg(Good, L)
         /\ Reg(Good, Good.iUsedShmid) \subseteq Reg(Good, L)
<1> DEFINE b == Good.iNextShmid
           U == Rel(Good.iUsedShmid, b)
           V == Rel(LiveUsed(Good), b)
           Z == Rel(L, b)
<1>1. Z <= U /\ Z <= V
  <2>1. U >= Z /\ U <= V
    BY GuardedOrder, GoodGuarded
  <2>2. U \in Int /\ V \in Int /\ Z \in Int
    BY GoodGuarded, Sizes DEF Guarded
  <2> HIDE DEF U, V, Z
  <2> QED
    BY <2>1, <2>2
<1> QED
  BY <1>1, GoodWider, GoodGuarded

----------------------------------------------------------------------------
(* Steps that change no memory and no header in shared memory.              *)

\* A connection that does not write
LEMMA StillFrame ==
  ASSUME Types, Main, Main', MemInv, NEW c \in Conn, writer # c, pc[c] # "lost",
         UNCHANGED <<chunk, mem, hdr1, hdr2, bWriter, snap, writer, marks, rollback,
                     pend, nWrite>>,
         \A d \in Conn \ {c} :
           /\ hdr'[d] = hdr[d] /\ pc'[d] = pc[d] /\ client'[d] = client[d]
           /\ iReader'[d] = iReader[d] /\ rlock'[d] = rlock[d] /\ (d \in stale' <=> d \in stale)
           /\ Holds(d) => slot'[iReader[d]] = slot[iReader[d]],
         client'[c] <= snap, pc'[c] = "loaded" => ~Newer(Good, hdr'[c]),
         Holds(c)' => ReaderMem(c)'
  PROVE  MemInv'
<1>1. MemTypes /\ MemMain
  BY DEF MemInv, IsLost
<1>2. MemTypes' /\ Good' = Good
  BY <1>1 DEF MemTypes, Good
<1>3. writer # None => /\ writer \in Conn \ {c} /\ treehdr' = treehdr /\ Top' = Top
                       /\ pc'[writer'] = pc[writer]
  BY DEF treehdr, Top, Types, WriteTypes
<1>4. (Alive' <=> Alive) /\ (AtEnd' <=> AtEnd)
  BY <1>3 DEF Alive, AtEnd
<1>5. Alive => WorkRoots' = WorkRoots
  BY <1>3 DEF WorkRoots, Alive
<1>6. \A r, t : Clear(r, t)' <=> Clear(r, t)
  <2> SUFFICES ASSUME NEW r, NEW t PROVE Clear(r, t)' <=> Clear(r, t)
    OBVIOUS
  <2> QED
    BY <1>2, <1>3, <1>4, <1>5 DEF Clear, Alive
<1>7. \A H : HeaderMem(H)' <=> HeaderMem(H)
  BY DEF HeaderMem, Reg
<1>8. GoodMem'
  BY <1>1, <1>2, <1>6, <1>7 DEF MemMain, GoodMem
<1>9. SnapInv'
  BY <1>1, <1>2 DEF MemMain, SnapInv
<1>10. ASSUME NEW d \in Conn, Holds(d)'
       PROVE  ReaderMem(d)'
  <2>1. CASE d = c
    BY <1>10, <2>1
  <2>2. CASE d # c
    <3>1. Holds(d)
      BY <1>10, <2>2 DEF Holds
    <3>2. ReaderMem(d) /\ Tid(d)' = Tid(d) /\ slot'[iReader'[d]] = slot[iReader[d]]
      BY <1>1, <2>2, <3>1 DEF MemMain, Tid
    <3>3. SlotInv(d)'
      BY <1>2, <2>2, <3>2 DEF ReaderMem, SlotInv
    <3> QED
      BY <1>2, <1>6, <2>2, <3>2, <3>3 DEF ReaderMem, Kept, ClearEnd, Reg
  <2> QED
    BY <2>1, <2>2
<1>11. Alive' => AliveMem'
  <2> SUFFICES ASSUME Alive PROVE AliveMem'
    BY <1>4
  <2>1. AliveMem /\ treehdr' = treehdr /\ Top' = Top /\ pc'[writer'] = pc[writer]
    BY <1>1, <1>3 DEF MemMain, Alive
  <2>2. \A k : Since(k)' = Since(k) /\ (MarkCell(k)' = MarkCell(k))
    BY DEF Since, MarkCell
  <2>3. \A w : WorkReg(w)' = WorkReg(w)
    BY <2>1 DEF WorkReg
  <2>4. \A k \in 1..Top : MarkMem(k)'
    <3> SUFFICES ASSUME NEW k \in 1..Top PROVE MarkMem(k)'
      OBVIOUS
    <3>1. MarkMem(k)
      BY <2>1 DEF AliveMem
    <3> QED
      BY <1>2, <2>1, <2>2, <2>3, <3>1 DEF MarkMem
  <2>5. OldKept' /\ RollbackInv'
    BY <1>2, <2>1 DEF AliveMem, OldKept, RollbackInv
  <2>6. pc'[writer'] # "rollback" => WorkMem'
    BY <1>2, <2>1, <2>3 DEF AliveMem, WorkMem
  <2>7. pc'[writer'] \in {"copy", "linkcopy"} => LeafMem'
    BY <1>2, <2>1, <2>3 DEF AliveMem, LeafMem
  <2> QED
    BY <1>2, <2>1, <2>4, <2>5, <2>6, <2>7 DEF AliveMem
<1>12. AtEnd' => EndMem'
  BY <1>1, <1>2, <1>4, <1>7 DEF MemMain, EndMem, ClearEnd
<1> QED
  BY <1>2, <1>8, <1>9, <1>10, <1>11, <1>12 DEF MemInv, MemMain

LEMMA NotWriting ==
  ASSUME Inv, MemInv, NEW c \in Conn, pc[c] \in ReaderPcs
  PROVE  Types /\ Main /\ MemTypes /\ MemMain /\ GoodPlaced /\ writer # c /\ pc[c] # "lost"
<1>1. pc[c] # "lost"
  BY DEF ReaderPcs
<1>2. Types /\ Main /\ ~IsLost
  BY <1>1, NotLost DEF IsLost
<1> QED
  BY <1>1, <1>2, GoodIsPlaced, WriterNotReader DEF MemInv

LEMMA NextMain ==
  ASSUME Inv', NEW c \in Conn, pc'[c] # "lost"
  PROVE  Types' /\ Main' /\ GoodPlaced' /\ ~IsLost'
<1>1. Types' /\ Main' /\ ~IsLost'
  BY DEF Inv, IsLost
<1>2. (Types /\ Main => GoodPlaced)'
  BY GoodIsPlaced, PTL
<1> QED
  BY <1>1, <1>2

LEMMA NotOlder ==
  ASSUME Good \in Header
  PROVE  ~Newer(Good, Good)
BY DEF Newer, Header

LEMMA LoadHeaderMem ==
  ASSUME Inv, Inv', MemInv, NEW c \in Conn, LoadHeader(c)
  PROVE  MemInv'
<1>1. pc[c] = "idle" /\ pc[c] \in ReaderPcs
  BY DEF LoadHeader, ReaderPcs
<1>2. Types /\ Main /\ MemTypes /\ MemMain /\ GoodPlaced /\ writer # c /\ pc[c] # "lost"
  BY <1>1, NotWriting
<1>3. /\ UNCHANGED <<chunk, mem, hdr1, hdr2, bWriter, snap, writer, marks, rollback, pend,
                     nWrite, slot, iReader, rlock, stale>>
      /\ hdr' = [hdr EXCEPT ![c] = Good] /\ client' = [client EXCEPT ![c] = snap]
      /\ pc' = [pc EXCEPT ![c] = "loaded"]
  BY DEF LoadHeader, shmVars, lockVars, transVars, boundVars, SetHeader, Goto, Good
<1>4. /\ hdr'[c] = Good /\ client'[c] = snap /\ pc'[c] = "loaded"
      /\ \A d \in Conn \ {c} : hdr'[d] = hdr[d] /\ pc'[d] = pc[d] /\ client'[d] = client[d]
  BY <1>2, <1>3 DEF Types, HeaderTypes, ReadTypes
<1>5. Main'
  BY <1>4, NextMain
<1>6. ~Newer(Good, hdr'[c]) /\ client'[c] <= snap
  BY <1>2, <1>4, NotOlder DEF GoodPlaced, HeaderPlaced, Types, ReadTypes
<1>7. ~Holds(c)'
  BY <1>4 DEF Holds, AlivePcs, EndPcs
<1> QED
  BY <1>2, <1>3, <1>4, <1>5, <1>6, <1>7, StillFrame

LEMMA FinishReadTransMem ==
  ASSUME Inv, Inv', MemInv, NEW c \in Conn, FinishReadTrans(c)
  PROVE  MemInv'
<1>1. pc[c] = "reading" /\ pc[c] \in ReaderPcs
  BY DEF FinishReadTrans, ReaderPcs
<1>2. Types /\ Main /\ MemTypes /\ MemMain /\ GoodPlaced /\ writer # c /\ pc[c] # "lost"
  BY <1>1, NotWriting
<1>3. /\ UNCHANGED <<chunk, mem, hdr1, hdr2, bWriter, snap, writer, marks, rollback, pend,
                     nWrite, slot, stale>>
      /\ iReader' = [iReader EXCEPT ![c] = 0]
      /\ rlock' = [rlock EXCEPT ![c] = @ \ {iReader[c]}]
      /\ Forget(c)
  BY DEF FinishReadTrans, shmVars, transVars, boundVars
<1>4. /\ client'[c] = 0 /\ pc'[c] = "idle"
      /\ \A d \in Conn \ {c} :
           /\ hdr'[d] = hdr[d] /\ pc'[d] = pc[d] /\ client'[d] = client[d]
           /\ iReader'[d] = iReader[d] /\ rlock'[d] = rlock[d]
  BY <1>2, <1>3 DEF Forget, SetHeader, Goto, Types, HeaderTypes, ReadTypes
<1>5. Main'
  BY <1>4, NextMain
<1>6. client'[c] <= snap
  BY <1>2, <1>4 DEF Types, ReadTypes
<1>7. ~Holds(c)'
  BY <1>4 DEF Holds, AlivePcs, EndPcs
<1> QED
  BY <1>2, <1>3, <1>4, <1>5, <1>6, <1>7, StillFrame

LEMMA FlushOldMem ==
  ASSUME Inv, Inv', MemInv, FlushOld
  PROVE  MemInv'
<1>1. /\ Good = hdr1 /\ HasOld(Good) /\ ~OldFlushed(Good, snap) /\ snap' = Good.iOldLog
      /\ UNCHANGED <<chunk, mem, hdr1, hdr2, bWriter, slot, iReader, rlock, stale, pc, hdr,
                     client, writer, marks, rollback, pend, bDiscardOld, nWrite>>
      /\ \A c \in Conn : pc[c] # "lost"
  BY DEF FlushOld, Good, shmVars, lockVars, transVars, boundVars
<1>2. CASE IsLost
  <2>1. IsLost' /\ MemTypes'
    BY <1>1, <1>2 DEF MemInv, MemTypes, IsLost
  <2> QED
    BY <2>1 DEF MemInv
<1>3. CASE ~IsLost
  <2>1. MemTypes /\ MemMain /\ Types /\ Main
    BY <1>3 DEF MemInv, Inv
  <2>2. MemTypes' /\ Good' = Good /\ (Alive' <=> Alive) /\ (AtEnd' <=> AtEnd)
        /\ treehdr' = treehdr /\ Top' = Top
    BY <1>1, <2>1 DEF MemTypes, Good, Alive, AtEnd, treehdr, Top
  <2>3. \A r, t : Clear(r, t)' <=> Clear(r, t)
    <3>1. WorkRoots' = WorkRoots
      BY <1>1, <2>2 DEF WorkRoots
    <3> QED
      BY <1>1, <2>2, <3>1 DEF Clear
  <2>4. \A H, L : Reg(H, L)' = Reg(H, L)
    BY <1>1 DEF Reg
  <2>5. Good \in Header /\ hdr2 \in Header
    BY <2>1, GoodType DEF Types, HeaderTypes
  <2>6. /\ snap \in Nat /\ Good.iOldLog \in Nat /\ snap <= Good.iOldLog /\ snap # Good.iOldLog
        /\ snap >= 1
    BY <1>1, <2>1, <2>5 DEF Types, ReadTypes, Header, MemMain, SnapInv, OldFlushed
  <2>7. GoodMem'
    <3>1. /\ Tree(mem, Good.root, Good.trans, Good.cur, Reg(Good, LiveUsed(Good)))
          /\ ~bWriter /\ Good.root # Null => Cel(mem, Good.root).iV2 <= Good.trans
          /\ writer = None => \A i, j \in 1..(Good.nChunk - 1) :
                        chunk[i].iShmid = chunk[j].iShmid => i = j
      BY <2>1 DEF MemMain, GoodMem, HeaderMem
    <3>2. OldFlushed(Good, snap')
      BY <1>1 DEF OldFlushed
    <3>3. HeaderMem(Good)'
      BY <1>1, <2>2, <2>4, <3>1, <3>2 DEF HeaderMem
    <3> QED
      BY <1>1, <2>2, <3>1, <3>2, <3>3 DEF GoodMem
  <2>8. SnapInv'
    <3>1. /\ \A c \in Conn : client[c] <= snap /\ client[c] \in Nat
          /\ hdr2 = Good \/ Newer(Good, hdr2)
          /\ \A c \in Conn : pc[c] = "loaded" => ~Newer(Good, hdr[c])
      BY <2>1 DEF MemMain, SnapInv, Types, ReadTypes
    <3>2. snap' >= 1 /\ snap' <= Good.iOldLog /\ \A c \in Conn : client[c] <= snap'
      BY <1>1, <2>6, <3>1
    <3> QED
      BY <1>1, <2>2, <3>1, <3>2 DEF SnapInv
  <2>9. ASSUME NEW c \in Conn, Holds(c)'
        PROVE  ReaderMem(c)'
    <3>1. ReaderMem(c) /\ Tid(c)' = Tid(c)
      BY <1>1, <2>1, <2>9 DEF MemMain, Holds, Tid
    <3> QED
      BY <1>1, <2>2, <2>3, <2>4, <3>1 DEF ReaderMem, SlotInv, Kept, ClearEnd
  <2>10. Alive' => AliveMem'
    <3> SUFFICES ASSUME Alive PROVE AliveMem'
      BY <2>2
    <3>1. AliveMem
      BY <2>1 DEF MemMain
    <3>2. \A k : Since(k)' = Since(k) /\ (MarkCell(k)' = MarkCell(k))
      BY <1>1 DEF Since, MarkCell
    <3>3. \A w : WorkReg(w)' = WorkReg(w)
      BY <1>1, <2>2 DEF WorkReg
    <3>4. \A k \in 1..Top : MarkMem(k)'
      <4> SUFFICES ASSUME NEW k \in 1..Top PROVE MarkMem(k)'
        OBVIOUS
      <4>1. MarkMem(k)
        BY <3>1 DEF AliveMem
      <4> QED
        BY <1>1, <2>2, <3>2, <3>3, <4>1 DEF MarkMem
    <3>5. OldKept'
      BY <1>1, <2>2, <3>1 DEF AliveMem, OldKept
    <3>6. RollbackInv'
      BY <1>1, <2>2, <3>1 DEF AliveMem, RollbackInv
    <3>7. pc'[writer'] # "rollback" => WorkMem'
      BY <1>1, <2>2, <3>1, <3>3 DEF AliveMem, WorkMem
    <3>8. pc'[writer'] \in {"copy", "linkcopy"} => LeafMem'
      BY <1>1, <2>2, <3>1, <3>3 DEF AliveMem, LeafMem
    <3> QED
      BY <1>1, <2>2, <3>1, <3>4, <3>5, <3>6, <3>7, <3>8 DEF AliveMem
  <2>11. AtEnd' => EndMem'
    <3> SUFFICES ASSUME AtEnd PROVE EndMem'
      BY <2>2
    <3>1. EndMem
      BY <2>1 DEF MemMain
    <3>2. ~OldFlushed(hdr2, snap)
      <4>1. hdr2.iOldLog \in Nat /\ hdr2.iOldLog >= Good.iOldLog
        BY <2>1, <2>5, <2>6 DEF MemMain, SnapInv, Newer, Header
      <4> QED
        BY <2>6, <4>1 DEF OldFlushed
    <3>3. HeaderMem(hdr2)'
      BY <1>1, <2>4, <3>1, <3>2 DEF EndMem, HeaderMem
    <3> QED
      BY <1>1, <2>2, <3>1, <3>2, <3>3 DEF EndMem, ClearEnd
  <2> QED
    BY <2>2, <2>7, <2>8, <2>9, <2>10, <2>11 DEF MemInv, MemMain
<1> QED
  BY <1>2, <1>3

\* A reader that locks a slot for the committed header sees its trees.
LEMMA GoodSeen ==
  ASSUME Types, MemMain, GoodPlaced, NEW L, Guarded(L),
         shm_sequence_ge(Good.iUsedShmid, L)
  PROVE  /\ AtEnd \/ writer = None => Clear(Good.root, Good.trans)
         /\ Alive => Clear(Good.root, Good.trans)
         /\ Tree(mem, Good.root, Good.trans, Good.cur, Reg(Good, L))
         /\ HasOld(Good) /\ ~OldFlushed(Good, snap) =>
              Kept(Good.oldroot, Good.oldtrans, Good.oldcur, L)
<1>1. /\ Reg(Good, LiveUsed(Good)) \subseteq Reg(Good, L)
      /\ Reg(Good, Good.iUsedShmid) \subseteq Reg(Good, L)
  BY FromUsed
<1>2. HeaderMem(Good) /\ Good \in Header
  BY DEF MemMain, GoodMem, GoodPlaced, HeaderPlaced
<1>3. Good.trans <= Good.trans /\ Good.trans < Good.trans + 1
  BY <1>2 DEF Header
<1>4. Tree(mem, Good.root, Good.trans, Good.cur, Reg(Good, L))
  BY <1>1, <1>2, TreeGrows DEF HeaderMem
<1>5. HasOld(Good) /\ ~OldFlushed(Good, snap) =>
        Kept(Good.oldroot, Good.oldtrans, Good.oldcur, L)
  <2> SUFFICES ASSUME HasOld(Good), ~OldFlushed(Good, snap)
               PROVE  Kept(Good.oldroot, Good.oldtrans, Good.oldcur, L)
    OBVIOUS
  <2>1. Tree(mem, Good.oldroot, Good.oldtrans, Good.oldcur, Reg(Good, Good.iUsedShmid))
    BY <1>2 DEF HeaderMem
  <2>2. Tree(mem, Good.oldroot, Good.oldtrans, Good.oldcur, Reg(Good, L))
    BY <1>1, <2>1, TreeGrows
  <2>3. Clear(Good.oldroot, Good.oldtrans)
    BY DEF MemMain, GoodMem
  <2> QED
    BY <2>2, <2>3 DEF Kept
<1>6. Alive => Clear(Good.root, Good.trans)
  <2>1. Alive => treehdr.trans = Good.trans + 1 /\ ~AtEnd
    BY DEF MemMain, AliveMem, Alive, AtEnd, AlivePcs, EndPcs
  <2> QED
    BY <1>3, <2>1 DEF Clear
<1>7. AtEnd \/ writer = None => Clear(Good.root, Good.trans)
  <2>1. ~(AtEnd /\ Alive) /\ (writer = None => ~Alive /\ ~AtEnd)
    BY DEF Alive, AtEnd, AlivePcs, EndPcs
  <2>2. AtEnd => ClearEnd(Good.root, Good.trans)
    BY DEF MemMain, EndMem
  <2> QED
    BY <1>3, <2>1, <2>2 DEF Clear, ClearEnd
<1> QED
  BY <1>4, <1>5, <1>6, <1>7

LEMMA WriterAt ==
  ASSUME Types, Main
  PROVE  writer = None \/ Alive \/ AtEnd
BY DEF Main, Alive, AtEnd, EndPcs

LEMMA FirstSlot ==
  ASSUME NEW S \in SUBSET (1..NReader), S # {}
  PROVE  First(S) \in S /\ First(S) \in 1..NReader
<1>1. S \in SUBSET Nat
  OBVIOUS
<1> QED
  BY <1>1, FirstType

LEMMA ReadlockMem ==
  ASSUME Inv, Inv', MemInv, NEW c \in Conn, Readlock(c)
  PROVE  MemInv'
<1> DEFINE iLsm == client[c]
           iShmMax == hdr[c].iUsedShmid
           iShmMin == Add(hdr[c].iNextShmid, 1 - MaxShm)
           want == [iLsmId |-> iLsm, iTreeId |-> iShmMax]
           exact == {i \in 1..NReader : slot[i] = want}
           free == {i \in 1..NReader : Lockable(c, i)}
           usable == {i \in 1..NReader : slotIsUsable(slot[i], iLsm, iShmMin, iShmMax)}
           s == IF exact # {} THEN First(exact)
                ELSE IF free # {} THEN First(free)
                ELSE IF usable # {} THEN First(usable) ELSE 0
           id == IF exact = {} /\ free = {} THEN slot[s].iTreeId ELSE iShmMax
           ok == s # 0 /\ hdr[c] \in {hdr1, hdr2} /\ client[c] = snap
<1>1. pc[c] = "loaded" /\ pc[c] \in ReaderPcs
  BY DEF Readlock, ReaderPcs
<1>2. Types /\ Main /\ MemTypes /\ MemMain /\ GoodPlaced /\ writer # c /\ pc[c] # "lost"
  BY <1>1, NotWriting
<1>3. /\ UNCHANGED <<chunk, mem, hdr1, hdr2, bWriter, snap, writer, marks, rollback, pend,
                     nWrite>>
      /\ slot' = IF exact = {} /\ free # {} THEN [slot EXCEPT ![s] = want] ELSE slot
      /\ IF ok
         THEN /\ iReader' = [iReader EXCEPT ![c] = s]
              /\ rlock' = [rlock EXCEPT ![c] = {s}]
              /\ stale' = IF \E j \in 1..(hdr[c].nChunk - 1) : chunk[j].iShmid = id
                         THEN stale \ {c} ELSE stale \cup {c}
              /\ Goto(c, "reading")
              /\ UNCHANGED <<hdr, client>>
         ELSE Forget(c) /\ UNCHANGED <<iReader, rlock, stale>>
  BY DEF Readlock, shmVars, transVars, boundVars
<1>4. /\ exact # {} => First(exact) \in exact /\ First(exact) \in 1..NReader
      /\ free # {} => First(free) \in free /\ First(free) \in 1..NReader
      /\ usable # {} => First(usable) \in usable /\ First(usable) \in 1..NReader
  <2> HIDE DEF want, iLsm, iShmMin, iShmMax
  <2> QED
    BY FirstSlot
<1> HIDE DEF exact, free, usable, want, iLsm, iShmMin, iShmMax
<1>5. exact = {} /\ free # {} => s \in 1..NReader /\ Lockable(c, s) /\ slot'[s] = want
  <2> SUFFICES ASSUME exact = {}, free # {}
               PROVE  s \in 1..NReader /\ Lockable(c, s) /\ slot'[s] = want
    OBVIOUS
  <2>1. s \in free /\ s \in 1..NReader
    BY <1>4
  <2>2. Lockable(c, s)
    BY <2>1 DEF free
  <2> HIDE DEF s
  <2> QED
    BY <1>2, <1>3, <2>1, <2>2 DEF Types, ReadTypes
<1>6. ASSUME NEW d \in Conn \ {c}, Holds(d)
      PROVE  slot'[iReader[d]] = slot[iReader[d]]
  <2>1. ~Lockable(c, iReader[d])
    BY <1>6 DEF Holds, Lockable
  <2>2. CASE exact = {} /\ free # {}
    <3> HIDE DEF s
    <3> QED
      BY <1>3, <1>5, <2>1, <2>2
  <2> QED
    BY <1>3, <2>2
<1>7. CASE ~ok
  <2>1. /\ client'[c] = 0 /\ pc'[c] = "idle" /\ UNCHANGED <<iReader, rlock, stale>>
        /\ \A d \in Conn \ {c} : hdr'[d] = hdr[d] /\ pc'[d] = pc[d] /\ client'[d] = client[d]
    <3> HIDE DEF ok, s, id
    <3> QED
      BY <1>2, <1>3, <1>7 DEF Forget, SetHeader, Goto, Types, HeaderTypes, ReadTypes
  <2>2. Main' /\ client'[c] <= snap
    BY <1>2, <2>1, NextMain DEF Types, ReadTypes
  <2>3. ~Holds(c)'
    BY <2>1 DEF Holds, AlivePcs, EndPcs
  <2> QED
    BY <1>2, <1>3, <1>6, <2>1, <2>2, <2>3, StillFrame
<1>8. CASE ok
  <2>1. /\ iReader' = [iReader EXCEPT ![c] = s] /\ rlock' = [rlock EXCEPT ![c] = {s}]
        /\ stale' = (IF \E j \in 1..(hdr[c].nChunk - 1) : chunk[j].iShmid = id
                     THEN stale \ {c} ELSE stale \cup {c})
        /\ pc' = [pc EXCEPT ![c] = "reading"] /\ UNCHANGED <<hdr, client>>
        /\ s # 0 /\ hdr[c] \in {hdr1, hdr2} /\ client[c] = snap
    BY <1>3, <1>8 DEF Goto
  <2>2. /\ iReader'[c] = s /\ pc'[c] = "reading"
        /\ \A d \in Conn \ {c} : iReader'[d] = iReader[d] /\ rlock'[d] = rlock[d]
                                 /\ pc'[d] = pc[d] /\ (d \in stale' <=> d \in stale)
    <3> HIDE DEF s, id
    <3> QED
      BY <1>2, <2>1 DEF Types, ReadTypes
  <2>3. hdr[c] = Good
    <3>1. hdr[c] \in Header /\ (hdr2 = Good \/ Newer(Good, hdr2)) /\ ~Newer(Good, hdr[c])
      BY <1>1, <1>2 DEF Types, HeaderTypes, MemMain, SnapInv
    <3>2. hdr[c] # Torn
      BY <3>1, InitHeaders
    <3> QED
      BY <2>1, <3>1, <3>2 DEF Good
  <2>4. Main' /\ client'[c] <= snap
    BY <1>2, <2>1, <2>2, NextMain DEF Types, ReadTypes
  <2>5. ASSUME Holds(c)'
        PROVE  ReaderMem(c)'
    <3>1. PICK j \in 1..(Good.nChunk - 1) : chunk[j].iShmid = id
      <4>1. \E j \in 1..(hdr[c].nChunk - 1) : chunk[j].iShmid = id
        <5> HIDE DEF id
        <5> QED
          BY <2>1, <2>5 DEF Holds
      <4> QED
        BY <2>3, <4>1
    <3>2. snap \in Nat /\ snap >= 1 /\ Good.iUsedShmid \in Ids
      BY <1>2, HeaderType DEF MemMain, SnapInv, Types, ReadTypes, GoodPlaced, HeaderPlaced
    <3>3. /\ s \in 1..NReader /\ slot'[s].iLsmId # 0 /\ slot'[s].iTreeId = id
          /\ id = Good.iUsedShmid \/ shm_sequence_ge(Good.iUsedShmid, id)
      <4>1. CASE exact # {}
        <5>1. s \in exact /\ s \in 1..NReader /\ slot' = slot /\ id = Good.iUsedShmid
          BY <1>3, <1>4, <2>3, <4>1 DEF iShmMax
        <5> HIDE DEF s, id
        <5>2. slot[s] = [iLsmId |-> snap, iTreeId |-> Good.iUsedShmid]
          BY <2>1, <2>3, <5>1 DEF exact, want, iLsm, iShmMax
        <5> QED
          BY <3>2, <5>1, <5>2
      <4>2. CASE exact = {} /\ free # {}
        <5>1. id = Good.iUsedShmid
          BY <2>3, <4>2 DEF iShmMax
        <5> HIDE DEF s, id
        <5>2. slot'[s] = [iLsmId |-> snap, iTreeId |-> Good.iUsedShmid]
          BY <1>5, <2>1, <2>3, <4>2 DEF want, iLsm, iShmMax
        <5> QED
          BY <1>5, <3>2, <4>2, <5>1, <5>2
      <4>3. CASE exact = {} /\ free = {}
        <5>1. usable # {} /\ s = First(usable) /\ id = slot[s].iTreeId /\ slot' = slot
          BY <1>3, <2>1, <4>3
        <5>2. s \in usable /\ s \in 1..NReader
          BY <1>4, <5>1
        <5> HIDE DEF s, id
        <5>3. slotIsUsable(slot[s], iLsm, iShmMin, Good.iUsedShmid)
          BY <2>3, <5>2 DEF usable, iShmMax
        <5> QED
          BY <5>1, <5>2, <5>3 DEF slotIsUsable
      <4> QED
        BY <4>1, <4>2, <4>3
    <3> HIDE DEF s, id
    <3>4. Guarded(Good.iUsedShmid) /\ shm_sequence_ge(Good.iUsedShmid, Good.iUsedShmid)
      <4>1. Guarded(Good.iUsedShmid)
        BY <1>2, GoodGuarded
      <4>2. Rel(Good.iUsedShmid, Good.iNextShmid) \in Int
        BY <4>1, Sizes DEF Guarded
      <4> QED
        BY <1>2, <4>1, <4>2, GuardedOrder
    <3>5. Guarded(id) /\ shm_sequence_ge(Good.iUsedShmid, id)
      <4> DEFINE b == Good.iNextShmid
                 X == Rel(id, b)
                 U == Rel(Good.iUsedShmid, b)
      <4>1. id \in Ids /\ b \in Ids /\ X \in (-MaxChunk)..(MaxChunk - 1)
            /\ U \in (-MaxChunk)..(-1)
        BY <1>2, <3>1, <3>4, HeaderType
           DEF GoodPlaced, HeaderPlaced, Near, Pos, Guarded, ChunkMap
      <4>2. CASE shm_sequence_ge(Good.iUsedShmid, id)
        <5>1. U >= X
          <6>1. U - X \in (-MaxShm)..(MaxShm - 1)
            <7> HIDE DEF U, X
            <7> QED
              BY <4>1, Sizes
          <6> QED
            BY <3>2, <4>1, <4>2, <6>1, RelSequence
        <5>2. X \in (-MaxChunk)..(-1)
          <6> HIDE DEF U, X
          <6> QED
            BY <4>1, <5>1, Sizes
        <5> QED
          BY <4>1, <4>2, <5>2 DEF Guarded
      <4> QED
        BY <3>3, <3>4, <4>2
    <3>6. PICK L : L = id
      OBVIOUS
    <3>7. Clear(Good.root, Good.trans)
          /\ Tree(mem, Good.root, Good.trans, Good.cur, Reg(Good, L))
          /\ (HasOld(Good) /\ ~OldFlushed(Good, snap) =>
               Kept(Good.oldroot, Good.oldtrans, Good.oldcur, L))
      BY <1>2, <3>5, <3>6, GoodSeen, WriterAt
    <3>8. Good' = Good /\ hdr'[c] = Good /\ client'[c] = snap /\ Tid(c)' = L
      BY <1>3, <2>1, <2>2, <2>3, <3>3, <3>6 DEF Good, Tid
    <3>9. SlotInv(c)'
      <4>1. Rel(L, Good.iNextShmid) < 0
        BY <3>5, <3>6, Sizes DEF Guarded
      <4> QED
        BY <1>3, <2>2, <3>1, <3>3, <3>5, <3>8, <3>6, <4>1 DEF SlotInv
    <3>10. \A r, t : Clear(r, t) => Clear(r, t)'
      <4>1. writer # None => writer \in Conn \ {c} /\ treehdr' = treehdr /\ Top' = Top
                             /\ pc'[writer'] = pc[writer]
        BY <1>2, <1>3, <2>1, <2>2 DEF treehdr, Top, Types, WriteTypes
      <4>2. (Alive' <=> Alive) /\ (AtEnd' <=> AtEnd)
        BY <1>3, <4>1 DEF Alive, AtEnd
      <4>3. Alive => WorkRoots' = WorkRoots
        BY <1>3, <4>1 DEF WorkRoots, Alive
      <4> QED
        BY <1>3, <3>8, <4>1, <4>2, <4>3 DEF Clear, Alive
    <3>11. \A r, t, cur : Kept(r, t, cur, L) => Kept(r, t, cur, L)'
      <4>1. Reg(Good, L)' = Reg(Good, L)
        BY <1>3, <3>8 DEF Reg
      <4> SUFFICES ASSUME NEW r, NEW t, NEW cur, Kept(r, t, cur, L)
                   PROVE  Kept(r, t, cur, L)'
        OBVIOUS
      <4> QED
        BY <1>3, <3>10, <4>1 DEF Kept
    <3>12. Kept(Good.root, Good.trans, Good.cur, L)
      BY <3>7 DEF Kept
    <3>13. /\ Kept(Good.root, Good.trans, Good.cur, L)'
           /\ HasOld(Good) /\ ~OldFlushed(Good, snap) =>
                Kept(Good.oldroot, Good.oldtrans, Good.oldcur, L)'
      BY <3>7, <3>8, <3>11, <3>12
    <3> QED
      BY <2>2, <3>8, <3>9, <3>13 DEF ReaderMem, EndPcs
  <2> QED
    BY <1>2, <1>3, <1>6, <2>1, <2>2, <2>4, <2>5, StillFrame
<1> QED
  BY <1>7, <1>8

----------------------------------------------------------------------------
(* The death of a writer.                                                   *)

LEMMA DistinctIds ==
  ASSUME GoodPlaced, AlivePlaced
  PROVE  \A i, j \in 1..(Good.nChunk - 1) : chunk[i].iShmid = chunk[j].iShmid => i = j
<1>1. /\ Good.nChunk \in 2..(MaxChunk + 1) /\ treehdr.nChunk \in 2..(MaxChunk + 1)
      /\ Good.nChunk <= treehdr.nChunk
  BY HeaderType DEF GoodPlaced, AlivePlaced, HeaderPlaced
<1>2. \A i \in 1..(Good.nChunk - 1) : i \in 1..(treehdr.nChunk - 1)
  BY <1>1, Sizes
<1>3. \A i, j \in 1..(treehdr.nChunk - 1) :
        Pos(chunk, i, Good.iNextShmid) = Pos(chunk, j, Good.iNextShmid) => i = j
  BY DEF AlivePlaced
<1> QED
  BY <1>2, <1>3 DEF Pos

LEMMA ListDistinct ==
  ASSUME NEW h \in Header, NEW ch \in ChunkMap, ListOk(h, ch)
  PROVE  \A i, j \in 1..(h.nChunk - 1) : ch[i].iShmid = ch[j].iShmid => i = j
<1>1. Places1(ch, h.nChunk, 1 - h.nChunk, 0, h.iNextShmid)
  BY ListOkPlaces
<1> QED
  BY <1>1 DEF Places1, Pos

LEMMA EndFacts ==
  ASSUME Types, Main, MemMain, NEW c \in Conn, writer = c, pc[c] \in EndPcs
  PROVE  /\ AtEnd /\ ~Alive /\ EndInv /\ EndMem /\ treehdr = hdr[c] /\ hdr2 = hdr[c]
         /\ hdr2 \in Header /\ Good \in Header /\ GoodPlaced /\ chunk \in ChunkMap
<1>1. writer # None
  BY NoneNotConn
<1>2. AtEnd /\ ~Alive
  BY <1>1 DEF AtEnd, Alive, EndPcs, AlivePcs
<1>3. EndInv
  BY <1>1 DEF Main, EndPcs, AlivePcs
<1> QED
  BY <1>1, <1>2, <1>3, GoodIsPlaced, GoodType DEF MemMain, EndInv, treehdr, Types, HeaderTypes

LEMMA DieMem ==
  ASSUME Inv, Inv', MemInv, NEW c \in Conn, Die(c)
  PROVE  MemInv'
<1>1. /\ writer = c /\ writer' = None
      /\ UNCHANGED <<chunk, mem, hdr1, hdr2, bWriter, slot, stale, snap>>
      /\ iReader' = [iReader EXCEPT ![c] = 0] /\ rlock' = [rlock EXCEPT ![c] = {}]
      /\ Forget(c)
  BY DEF Die, shmVars
<1>2. pc[c] # "lost" /\ ~IsLost
  <2>1. writer # None
    BY <1>1, NoneNotConn
  <2> QED
    BY <1>1, <2>1 DEF Inv, Main, IsLost, AlivePcs
<1>3. Types /\ Main /\ MemTypes /\ MemMain
  BY <1>2, NotLost DEF MemInv
<1>4. /\ client'[c] = 0 /\ pc'[c] = "idle"
      /\ \A d \in Conn \ {c} :
           /\ hdr'[d] = hdr[d] /\ pc'[d] = pc[d] /\ client'[d] = client[d]
           /\ iReader'[d] = iReader[d] /\ rlock'[d] = rlock[d]
  BY <1>1, <1>3 DEF Forget, SetHeader, Goto, Types, HeaderTypes, ReadTypes
<1>5. MemTypes' /\ Good' = Good /\ ~Alive' /\ ~AtEnd'
  BY <1>1, <1>3 DEF MemTypes, Good, Alive, AtEnd
<1>6. \A r, t : Clear(r, t) => Clear(r, t)'
  BY <1>5 DEF Clear
<1>7. /\ bWriter
      /\ \A i, j \in 1..(Good.nChunk - 1) : chunk[i].iShmid = chunk[j].iShmid => i = j
  <2>1. CASE pc[c] \in AlivePcs
    <3>1. MemInv
      OBVIOUS
    <3> QED
      BY <1>1, <1>3, <2>1, <3>1, AliveFacts, DistinctIds DEF AliveInv
  <2>2. CASE pc[c] \in EndPcs
    <3>1. EndInv /\ hdr2 \in Header /\ Good \in Header /\ chunk \in ChunkMap
      BY <1>1, <1>3, <2>2, EndFacts
    <3>2. ListOk(hdr2, chunk) /\ Good.nChunk <= hdr2.nChunk /\ bWriter
      BY <3>1 DEF EndInv
    <3>3. \A i, j \in 1..(hdr2.nChunk - 1) : chunk[i].iShmid = chunk[j].iShmid => i = j
      BY <3>1, <3>2, ListDistinct
    <3>4. \A i \in 1..(Good.nChunk - 1) : i \in 1..(hdr2.nChunk - 1)
      BY <3>1, <3>2, HeaderType
    <3> QED
      BY <3>2, <3>3, <3>4
  <2>3. pc[c] \in AlivePcs \/ pc[c] \in EndPcs
    <3>1. writer # None
      BY <1>1, NoneNotConn
    <3> QED
      BY <1>1, <1>3, <3>1 DEF Main, EndPcs
  <2> QED
    BY <2>1, <2>2, <2>3
<1>8. GoodMem'
  BY <1>1, <1>3, <1>5, <1>6, <1>7 DEF MemMain, GoodMem, HeaderMem, Reg
<1>9. SnapInv'
  <2>1. SnapInv /\ snap \in Nat
    BY <1>3 DEF MemMain, Types, ReadTypes
  <2>2. \A d \in Conn : client'[d] <= snap
    BY <1>4, <2>1 DEF SnapInv
  <2>3. \A d \in Conn : pc'[d] = "loaded" => pc[d] = "loaded" /\ hdr'[d] = hdr[d]
    BY <1>4
  <2> QED
    BY <1>1, <1>5, <2>1, <2>2, <2>3 DEF SnapInv
<1>10. ASSUME NEW d \in Conn, Holds(d)'
       PROVE  ReaderMem(d)'
  <2>1. d # c
    BY <1>4, <1>10 DEF Holds, AlivePcs, EndPcs
  <2>2. Holds(d) /\ pc'[d] = pc[d] /\ pc[d] \in ReaderPcs
    BY <1>1, <1>3, <1>4, <1>10, <2>1 DEF Holds, Main
  <2>3. ReaderMem(d) /\ pc[d] \notin EndPcs
    BY <1>3, <2>2 DEF MemMain, ReaderPcs, EndPcs
  <2>4. SlotInv(d)' /\ Tid(d)' = Tid(d)
    BY <1>1, <1>4, <1>5, <2>1, <2>3 DEF ReaderMem, SlotInv, Tid
  <2> QED
    BY <1>1, <1>4, <1>5, <1>6, <2>1, <2>2, <2>3, <2>4 DEF ReaderMem, Kept, Reg
<1> QED
  BY <1>5, <1>8, <1>9, <1>10 DEF MemInv, MemMain

----------------------------------------------------------------------------
(* A transaction begins.                                                    *)

LEMMA BeginWriteTransMem ==
  ASSUME Inv, Inv', MemInv, NEW c \in Conn, BeginWriteTrans(c)
  PROVE  MemInv'
<1> DEFINE h == [hdr[c] EXCEPT !.trans = @ + 1]
           discard == HasOld(h) /\ OldFlushed(h, client[c])
           start == IF discard THEN DiscardOld(h) ELSE h
<1>1. pc[c] = "reading" /\ pc[c] \in ReaderPcs /\ writer = None /\ ~bWriter /\ hdr1 = hdr[c]
  BY DEF BeginWriteTrans, ReaderPcs
<1>2. Types /\ Main /\ MemTypes /\ MemMain /\ GoodPlaced
  BY <1>1, NotWriting
<1>3. /\ UNCHANGED <<chunk, mem, hdr1, hdr2, slot, iReader, rlock, stale, snap, client, pend,
                     nWrite>>
      /\ writer' = c /\ bWriter' /\ hdr' = [hdr EXCEPT ![c] = start]
      /\ marks' = <<[mark |-> Mark(start), iRollback |-> 0]>> /\ rollback' = << >>
      /\ pc' = [pc EXCEPT ![c] = "open"]
  BY DEF BeginWriteTrans, lockVars, boundVars, SetHeader, Goto
<1>4. /\ Good = hdr[c] /\ Good \in Header /\ Good' = Good /\ hdr1 = hdr2
  BY <1>1, <1>2, <1>3, InitHeaders DEF Good, Types, HeaderTypes, Main
<1>5. /\ start.root = Good.root /\ start.trans = Good.trans + 1 /\ start.cur = Good.cur
      /\ start.iWrite = Good.iWrite /\ start.nChunk = Good.nChunk
      /\ start.iOldLog = Good.iOldLog /\ start.oldroot = Good.oldroot
      /\ start.oldtrans = Good.oldtrans /\ start.oldcur = Good.oldcur
      /\ IF HasOld(Good) /\ OldFlushed(Good, client[c])
         THEN start.iUsedShmid = Good.iOldShmid /\ start.iOldShmid = 0
         ELSE start.iUsedShmid = Good.iUsedShmid /\ start.iOldShmid = Good.iOldShmid
  <2>1. /\ h.root = Good.root /\ h.trans = Good.trans + 1 /\ h.cur = Good.cur
        /\ h.iWrite = Good.iWrite /\ h.nChunk = Good.nChunk
        /\ h.iOldLog = Good.iOldLog /\ h.oldroot = Good.oldroot
        /\ h.oldtrans = Good.oldtrans /\ h.oldcur = Good.oldcur
        /\ h.iUsedShmid = Good.iUsedShmid /\ h.iOldShmid = Good.iOldShmid
    BY <1>4 DEF Header
  <2>2. discard <=> HasOld(Good) /\ OldFlushed(Good, client[c])
    BY <2>1 DEF HasOld, OldFlushed
  <2>3. discard => /\ start = DiscardOld(h)
                   /\ start.iUsedShmid = Good.iOldShmid /\ start.iOldShmid = 0
                   /\ start.root = h.root /\ start.trans = h.trans /\ start.cur = h.cur
                   /\ start.iWrite = h.iWrite /\ start.nChunk = h.nChunk
                   /\ start.iOldLog = h.iOldLog /\ start.oldroot = h.oldroot
                   /\ start.oldtrans = h.oldtrans /\ start.oldcur = h.oldcur
    BY <1>4 DEF Header, DiscardOld
  <2>4. ~discard => start = h
    OBVIOUS
  <2> HIDE DEF h, discard, start
  <2> QED
    BY <2>1, <2>2, <2>3, <2>4
<1> HIDE DEF h, discard, start
<1>6. /\ pc'[c] = "open" /\ hdr'[c] = start
      /\ \A d \in Conn \ {c} : hdr'[d] = hdr[d] /\ pc'[d] = pc[d]
  BY <1>2, <1>3 DEF Types, HeaderTypes
<1>7. /\ Types' /\ Main' /\ Alive' /\ ~AtEnd' /\ AliveInv' /\ AlivePlaced' /\ GoodPlaced'
      /\ treehdr' = start
  BY <1>3, <1>6, AliveNext DEF AlivePcs
<1>8. Top' = 1 /\ marks'[1].mark = Mark(start) /\ marks'[1].iRollback = 0
      /\ Len(rollback') = 0
  BY <1>3, <1>6 DEF Top
<1>9. WorkRoots' = {Good.root}
  <2>1. Mark(start).root = Good.root
    BY <1>5 DEF Mark
  <2> QED
    BY <1>5, <1>7, <1>8, <2>1 DEF WorkRoots
<1>10. Good.trans \in Nat /\ Good.iOldLog \in Nat /\ Good.iWrite[2] \in Nat /\ snap \in Nat
       /\ client[c] \in Nat /\ client[c] <= snap /\ snap <= Good.iOldLog
  BY <1>2, <1>4 DEF Header, GoodPlaced, HeaderPlaced, Types, ReadTypes, MemMain, SnapInv
<1>11. ASSUME NEW r, NEW t \in Nat, Clear(r, t)
       PROVE  Clear(r, t)'
  BY <1>4, <1>5, <1>7, <1>9, <1>10, <1>11 DEF Clear
<1>12. MemTypes'
  BY <1>2, <1>3 DEF MemTypes
<1>14. GoodMem'
  <2>1. HeaderMem(Good)'
    BY <1>2, <1>3, <1>4 DEF MemMain, GoodMem, HeaderMem, Reg
  <2>2. HasOld(Good) /\ ~OldFlushed(Good, snap) => Clear(Good.oldroot, Good.oldtrans)'
    <3>1. Good.oldtrans \in Nat
      BY <1>4 DEF Header
    <3>2. PICK r, t : r = Good.oldroot /\ t = Good.oldtrans
      OBVIOUS
    <3>3. HasOld(Good) /\ ~OldFlushed(Good, snap) => Clear(r, t)
      BY <1>2, <3>2 DEF MemMain, GoodMem
    <3>4. HasOld(Good) /\ ~OldFlushed(Good, snap) => Clear(r, t)'
      BY <1>11, <3>1, <3>2, <3>3
    <3> QED
      BY <1>4, <3>2, <3>4 DEF Clear
  <2>3. writer' # None
    BY <1>3, NoneNotConn
  <2> QED
    BY <1>3, <1>4, <2>1, <2>2, <2>3 DEF GoodMem
<1>15. SnapInv'
  <2>1. \A d \in Conn : pc'[d] = "loaded" => pc[d] = "loaded" /\ hdr'[d] = hdr[d]
    BY <1>6
  <2> QED
    BY <1>2, <1>3, <1>4, <2>1 DEF MemMain, SnapInv
<1>16. ASSUME NEW r, NEW t \in Nat, NEW cur, NEW L, Kept(r, t, cur, L)
       PROVE  Kept(r, t, cur, L)'
  <2>1. Reg(Good, L)' = Reg(Good, L)
    BY <1>3, <1>4 DEF Reg
  <2> QED
    BY <1>3, <1>11, <1>16, <2>1 DEF Kept
<1>17. ASSUME NEW d \in Conn, Holds(d)'
       PROVE  ReaderMem(d)'
  <2>1. Holds(d) /\ pc[d] = "reading"
    <3>1. pc[d] = "reading"
      <4>1. pc[d] \in ReaderPcs
        BY <1>1, <1>2, NoneNotConn DEF Main
      <4> QED
        BY <1>1, <1>6, <1>17, <4>1 DEF Holds, ReaderPcs, AlivePcs, EndPcs
    <3> QED
      BY <1>3, <1>17, <3>1 DEF Holds
  <2>2. ReaderMem(d)
    BY <1>2, <2>1 DEF MemMain
  <2>3. PICK L : L = Tid(d)
    OBVIOUS
  <2>4. SlotInv(d) /\ Tid(d)' = L
    BY <1>3, <2>2, <2>3 DEF ReaderMem, Tid
  <2>5. PICK r, t, cur, ro, to, co :
          /\ r = hdr[d].root /\ t = hdr[d].trans /\ cur = hdr[d].cur
          /\ ro = hdr[d].oldroot /\ to = hdr[d].oldtrans /\ co = hdr[d].oldcur
    OBVIOUS
  <2>6. hdr[d] \in Header /\ t \in Nat /\ to \in Nat
    BY <1>2, <2>5 DEF Types, HeaderTypes, Header
  <2>7. /\ Kept(r, t, cur, L)
        /\ HasOld(hdr[d]) /\ ~OldFlushed(hdr[d], client[d]) => Kept(ro, to, co, L)
    BY <2>1, <2>2, <2>3, <2>5 DEF ReaderMem, EndPcs
  <2>8. /\ Kept(r, t, cur, L)'
        /\ HasOld(hdr[d]) /\ ~OldFlushed(hdr[d], client[d]) => Kept(ro, to, co, L)'
    BY <1>16, <2>6, <2>7
  <2>9. CASE d # c
    <3>1. SlotInv(d)'
      BY <1>3, <1>4, <1>6, <2>3, <2>4, <2>9 DEF SlotInv
    <3> QED
      BY <1>3, <1>6, <2>1, <2>4, <2>5, <2>8, <2>9, <3>1 DEF ReaderMem, EndPcs, Kept, Clear
  <2>10. CASE d = c
    <3>1. shm_sequence_ge(start.iUsedShmid, L)
      <4>1. Guarded(L) /\ shm_sequence_ge(Good.iUsedShmid, L)
        BY <1>2, <1>4, <2>3, <2>4, <2>10, HolderGuarded DEF SlotInv
      <4>2. CASE ~(HasOld(Good) /\ OldFlushed(Good, client[c]))
        BY <1>5, <4>1, <4>2
      <4>3. CASE HasOld(Good) /\ OldFlushed(Good, client[c])
        <5> DEFINE b == Good.iNextShmid
                   U == Rel(Good.iUsedShmid, b)
                   V == Rel(Good.iOldShmid, b)
                   X == Rel(L, b)
        <5>1. Guarded(Good.iUsedShmid) /\ Guarded(Good.iOldShmid) /\ U <= V
          <6>1. LiveUsed(Good) = Good.iOldShmid
            BY <4>3 DEF LiveUsed
          <6> QED
            BY <1>2, <4>3, <6>1, GoodGuarded
        <5>2. U \in Int /\ V \in Int /\ X \in Int
          BY <4>1, <5>1, Sizes DEF Guarded
        <5>3. U >= X
          BY <1>2, <4>1, <5>1, GuardedOrder
        <5>4. V >= X
          <6> HIDE DEF U, V, X
          <6> QED
            BY <5>1, <5>2, <5>3
        <5> QED
          BY <1>2, <1>5, <4>1, <4>3, <5>1, <5>4, GuardedOrder
      <4> QED
        BY <4>2, <4>3
    <3>2. SlotInv(c)'
      BY <1>3, <1>4, <1>6, <2>3, <2>4, <2>10, <3>1 DEF SlotInv
    <3>3. HasOld(start) /\ ~OldFlushed(start, client[c]) =>
            HasOld(hdr[c]) /\ ~OldFlushed(hdr[c], client[c])
      BY <1>4, <1>5 DEF HasOld, OldFlushed
    <3>4. pc'[c] # "reading" /\ pc'[c] \notin EndPcs
      BY <1>6 DEF EndPcs
    <3>5. start.oldroot = ro /\ start.oldtrans = to /\ start.oldcur = co
      BY <1>4, <1>5, <2>5, <2>10
    <3> QED
      BY <1>3, <1>6, <2>4, <2>8, <2>10, <3>2, <3>3, <3>4, <3>5 DEF ReaderMem, Kept, Clear
  <2> QED
    BY <2>9, <2>10
<1>18. LiveUsed(start) = LiveUsed(Good)
  BY <1>5 DEF LiveUsed, HasOld
<1>19. OldKept'
  <2>1. CASE ~(HasOld(Good) /\ OldFlushed(Good, client[c]))
    BY <1>4, <1>5, <1>7, <2>1 DEF OldKept
  <2>2. CASE HasOld(Good) /\ OldFlushed(Good, client[c])
    <3>1. OldFlushed(Good, snap)
      BY <1>10, <2>2 DEF OldFlushed
    <3> QED
      BY <1>3, <1>4, <1>5, <1>7, <2>2, <3>1 DEF OldKept, HasOld
  <2> QED
    BY <2>1, <2>2
<1>20. RollbackInv'
  BY <1>6, <1>3, <1>8 DEF RollbackInv
<1>21. Good.root # Null => Cel(mem, Good.root).iV2 <= Good.trans
  BY <1>1, <1>2 DEF MemMain, GoodMem
<1> DEFINE S == Reg(Good, LiveUsed(Good))
<1>22. WorkReg(Good.iWrite)' = S
  BY <1>3, <1>4, <1>5, <1>7, <1>18 DEF WorkReg, Reg
<1>23. Tree(mem, Good.root, Good.trans, Good.cur, S)
  BY <1>2 DEF MemMain, GoodMem, HeaderMem
<1>24. Good.root # Null =>
         /\ Good.root \in S /\ Shows(mem, Cel(mem, Good.root), start.trans, Good.cur, S)
         /\ Cel(mem, Good.root).iV2 <= start.trans
         /\ Cel(mem, Good.root).iV2 \in Nat
  <2> SUFFICES ASSUME Good.root # Null
               PROVE  /\ Good.root \in S
                      /\ Shows(mem, Cel(mem, Good.root), start.trans, Good.cur, S)
                      /\ Cel(mem, Good.root).iV2 <= start.trans
                      /\ Cel(mem, Good.root).iV2 \in Nat
    OBVIOUS
  <2>1. Good.root \in Cell
    BY <1>4 DEF Header, Ptr
  <2>2. Cel(mem, Good.root).iV2 \in Nat
    BY <1>2, <2>1, CelType DEF MemTypes
  <2>3. Good.root \in S /\ Shows(mem, Cel(mem, Good.root), Good.trans, Good.cur, S)
    BY <1>23 DEF Tree
  <2>4. /\ Cel(mem, Good.root).iV2 <= Good.trans /\ Cel(mem, Good.root).iV2 <= start.trans
    BY <1>5, <1>10, <1>21, <2>2
  <2>5. \A k \in Sub : getChildPtr(Cel(mem, Good.root), start.trans, k)
                         = getChildPtr(Cel(mem, Good.root), Good.trans, k)
    BY <2>4 DEF getChildPtr
  <2>6. Shows(mem, Cel(mem, Good.root), start.trans, Good.cur, S)
    <3> HIDE DEF S
    <3> QED
      BY <2>3, <2>5 DEF Shows
  <2> QED
    BY <2>2, <2>3, <2>4, <2>6
<1> HIDE DEF S
<1>25. WorkMem'
  <2>1. Tree(mem, start.root, start.trans, start.cur, S)
    BY <1>5, <1>23, <1>24 DEF Tree
  <2>2. Offs(Good.iWrite, start.iWrite)
    BY <1>5, <1>10, OffsSame
  <2> QED
    BY <1>3, <1>4, <1>5, <1>7, <1>8, <1>22, <1>24, <2>1, <2>2 DEF WorkMem
<1>26. MarkMem(1)'
  <2>1. /\ marks'[1].mark.root = Good.root /\ marks'[1].mark.cur = Good.cur
        /\ marks'[1].mark.iWrite = Good.iWrite
    BY <1>5, <1>8 DEF Mark
  <2>2. Since(1)' = {}
    BY <1>8 DEF Since
  <2>3. MarkCell(1)' = Cel(mem, Good.root)
    BY <1>3, <2>1, <2>2 DEF MarkCell
  <2>4. Good.root = Null => Good.cur = Empty
    BY <1>23 DEF Tree
  <2>5. Offs(Good.iWrite, Good.iWrite)
    BY <1>10, OffsSame
  <2> QED
    BY <1>3, <1>4, <1>5, <1>6, <1>7, <1>8, <1>22, <1>24, <2>1, <2>3, <2>4, <2>5 DEF MarkMem
<1>27. AliveMem'
  <2>1. \A k \in 1..Top' : MarkMem(k)'
    BY <1>8, <1>26
  <2> QED
    BY <1>3, <1>4, <1>5, <1>6, <1>7, <1>19, <1>20, <1>25, <2>1 DEF AliveMem
<1> QED
  BY <1>7, <1>12, <1>14, <1>15, <1>17, <1>27, AliveIntro

----------------------------------------------------------------------------
(* A transaction ends.                                                      *)

LEMMA EndTransactionMem ==
  ASSUME Inv, Inv', MemInv, NEW c \in Conn, EndTransaction(c)
  PROVE  MemInv'
<1> DEFINE want == [iLsmId |-> client[c], iTreeId |-> treehdr.iUsedShmid]
           free == {i \in 1..NReader : Lockable(c, i)}
           set == bDiscardOld /\ free # {} /\ \A i \in 1..NReader : slot[i] # want
           s == First(free)
<1>1. /\ writer = c /\ pc[c] = "endflag" /\ pc[c] \in EndPcs /\ writer' = None
      /\ UNCHANGED <<chunk, mem, hdr1, hdr2, iReader, stale, snap, hdr, client>>
      /\ pc' = [pc EXCEPT ![c] = "reading"]
      /\ slot' = (IF set THEN [slot EXCEPT ![s] = want] ELSE slot)
      /\ rlock' = IF set THEN [rlock EXCEPT ![c] = @ \ {s}] ELSE rlock
  BY DEF EndTransaction, Writing, Goto, EndPcs
<1>2. Types /\ Main /\ MemTypes /\ MemMain
  <2>1. pc[c] # "lost" /\ ~IsLost
    BY <1>1 DEF IsLost
  <2> QED
    BY <2>1, NotLost DEF MemInv
<1>3. /\ AtEnd /\ ~Alive /\ EndInv /\ EndMem /\ treehdr = hdr[c] /\ hdr2 = hdr[c]
      /\ hdr2 \in Header /\ Good \in Header /\ GoodPlaced /\ chunk \in ChunkMap
  BY <1>1, <1>2, EndFacts
<1>4. Good = hdr2 /\ Good = hdr[c] /\ Good' = Good /\ ListOk(Good, chunk)
  <2>1. hdr1 = hdr2 /\ ListOk(hdr2, chunk)
    BY <1>1, <1>3 DEF EndInv
  <2> QED
    BY <1>1, <1>3, <2>1 DEF Good
<1>5. /\ pc'[c] = "reading" /\ \A d \in Conn \ {c} : pc'[d] = pc[d]
      /\ ~Alive' /\ ~AtEnd'
  BY <1>1, <1>2 DEF Types, Alive, AtEnd
<1>6. set => s \in 1..NReader /\ Lockable(c, s)
  <2> SUFFICES ASSUME set PROVE s \in 1..NReader /\ Lockable(c, s)
    OBVIOUS
  <2>1. free \in SUBSET (1..NReader) /\ free # {}
    OBVIOUS
  <2>2. s \in free
    <3> HIDE DEF free
    <3> QED
      BY <2>1, FirstSlot
  <2> QED
    BY <2>2
<1> HIDE DEF set, s, want, free
<1>7. ASSUME NEW d \in Conn, Holds(d)'
      PROVE  Holds(d) /\ slot'[iReader[d]] = slot[iReader[d]]
  <2>1. pc[d] \in {"reading"} \cup AlivePcs \cup EndPcs
    BY <1>1, <1>5, <1>7 DEF Holds
  <2>2. CASE d # c
    <3>1. iReader[d] \in rlock[d]
      BY <1>1, <1>2, <1>7, <2>2 DEF Holds, Types, ReadTypes
    <3>2. set => iReader[d] # s
      BY <1>6, <2>2, <3>1 DEF Lockable
    <3> QED
      BY <1>1, <1>7, <2>1, <3>1, <3>2 DEF Holds
  <2>3. CASE d = c
    <3>1. iReader[c] \in rlock[c] /\ (set => iReader[c] # s)
      BY <1>1, <1>2, <1>7, <2>3 DEF Holds, Types, ReadTypes
    <3> QED
      BY <1>1, <1>7, <2>1, <2>3, <3>1 DEF Holds
  <2> QED
    BY <2>2, <2>3
<1>8. \A r, t : Clear(r, t) => Clear(r, t)'
  BY <1>4, <1>5 DEF Clear
<1>9. MemTypes'
  BY <1>1, <1>2 DEF MemTypes
<1>10. GoodMem'
  <2>1. HeaderMem(Good)'
    BY <1>1, <1>2, <1>4 DEF MemMain, GoodMem, HeaderMem, Reg
  <2>2. HasOld(Good) /\ ~OldFlushed(Good, snap) => Clear(Good.oldroot, Good.oldtrans)'
    <3>1. PICK r, t : r = Good.oldroot /\ t = Good.oldtrans
      OBVIOUS
    <3>2. HasOld(Good) /\ ~OldFlushed(Good, snap) => Clear(r, t)
      BY <1>2, <3>1 DEF MemMain, GoodMem
    <3>3. HasOld(Good) /\ ~OldFlushed(Good, snap) => Clear(r, t)'
      BY <1>8, <3>2
    <3> QED
      BY <1>4, <3>1, <3>3 DEF Clear
  <2>3. Good.root # Null => Cel(mem, Good.root).iV2 <= Good.trans
    BY <1>3, <1>4 DEF EndMem
  <2>4. \A i, j \in 1..(Good.nChunk - 1) : chunk[i].iShmid = chunk[j].iShmid => i = j
    BY <1>3, <1>4, ListDistinct
  <2> QED
    BY <1>1, <1>4, <2>1, <2>2, <2>3, <2>4 DEF GoodMem, Clear
<1>11. SnapInv'
  <2>1. \A d \in Conn : pc'[d] = "loaded" => pc[d] = "loaded"
    BY <1>5
  <2> QED
    BY <1>1, <1>2, <1>4, <2>1 DEF MemMain, SnapInv
<1>12. ASSUME NEW d \in Conn, Holds(d)'
       PROVE  ReaderMem(d)'
  <2>1. Holds(d) /\ slot'[iReader[d]] = slot[iReader[d]]
    BY <1>7, <1>12
  <2>2. ReaderMem(d) /\ SlotInv(d)
    BY <1>2, <2>1 DEF MemMain, ReaderMem
  <2>3. PICK L : L = Tid(d)
    OBVIOUS
  <2>4. Tid(d)' = L /\ SlotInv(d)'
    BY <1>1, <1>4, <2>1, <2>2, <2>3 DEF SlotInv, Tid
  <2>5. \A r, t, cur : Kept(r, t, cur, L) => Kept(r, t, cur, L)'
    <3> SUFFICES ASSUME NEW r, NEW t, NEW cur, Kept(r, t, cur, L) PROVE Kept(r, t, cur, L)'
      OBVIOUS
    <3>1. Reg(Good, L)' = Reg(Good, L)
      BY <1>1, <1>4 DEF Reg
    <3> QED
      BY <1>1, <1>8, <3>1 DEF Kept
  <2>6. /\ Kept(hdr[d].root, hdr[d].trans, hdr[d].cur, L)
        /\ HasOld(hdr[d]) /\ ~OldFlushed(hdr[d], client[d]) =>
             Kept(hdr[d].oldroot, hdr[d].oldtrans, hdr[d].oldcur, L)
    <3>1. CASE d # c
      <4>1. pc[d] = "reading"
        <5>1. pc[d] \in ReaderPcs
          BY <1>1, <1>2, <3>1 DEF Main
        <5> QED
          BY <2>1, <5>1 DEF Holds, ReaderPcs, AlivePcs, EndPcs
      <4> QED
        BY <2>2, <2>3, <4>1 DEF ReaderMem, EndPcs
    <3>2. CASE d = c
      <4>1. Guarded(L) /\ shm_sequence_ge(Good.iUsedShmid, L)
        BY <1>3, <1>4, <2>2, <2>3, <3>2, HolderGuarded DEF SlotInv
      <4>2. Clear(Good.root, Good.trans)
            /\ Tree(mem, Good.root, Good.trans, Good.cur, Reg(Good, L))
        BY <1>2, <1>3, <4>1, GoodSeen
      <4>3. HasOld(Good) /\ ~OldFlushed(Good, client[c]) =>
              /\ Tree(mem, Good.oldroot, Good.oldtrans, Good.oldcur, Reg(Good, L))
              /\ ClearEnd(Good.oldroot, Good.oldtrans)
        BY <1>1, <1>4, <2>2, <2>3, <3>2 DEF ReaderMem
      <4>4. \A r, t : ClearEnd(r, t) => Clear(r, t)
        BY <1>3, <1>4 DEF Clear, ClearEnd
      <4> QED
        BY <1>4, <3>2, <4>2, <4>3, <4>4 DEF Kept
    <3> QED
      BY <3>1, <3>2
  <2>7. /\ Kept(hdr[d].root, hdr[d].trans, hdr[d].cur, L)'
        /\ HasOld(hdr[d]) /\ ~OldFlushed(hdr[d], client[d]) =>
             Kept(hdr[d].oldroot, hdr[d].oldtrans, hdr[d].oldcur, L)'
    <3>1. PICK r, t, cur, ro, to, co :
            /\ r = hdr[d].root /\ t = hdr[d].trans /\ cur = hdr[d].cur
            /\ ro = hdr[d].oldroot /\ to = hdr[d].oldtrans /\ co = hdr[d].oldcur
      OBVIOUS
    <3>2. /\ Kept(r, t, cur, L)'
          /\ HasOld(hdr[d]) /\ ~OldFlushed(hdr[d], client[d]) => Kept(ro, to, co, L)'
      BY <2>5, <2>6, <3>1
    <3> QED
      BY <1>1, <3>1, <3>2 DEF Kept, Clear
  <2>8. pc'[d] \notin EndPcs
    <3>1. d # c => pc[d] \in ReaderPcs
      BY <1>1, <1>2 DEF Main
    <3> QED
      BY <1>5, <3>1 DEF EndPcs, ReaderPcs
  <2> QED
    BY <1>1, <2>4, <2>7, <2>8 DEF ReaderMem
<1> QED
  BY <1>5, <1>9, <1>10, <1>11, <1>12 DEF MemInv, MemMain

\* The published header's chunks hold what the replaced one's held.
LEMMA EndGrows ==
  ASSUME Types, Main, MemMain, NEW c \in Conn, writer = c, pc[c] \in EndPcs,
         NEW j \in 1..(Good.nChunk - 1), NEW L, L = chunk[j].iShmid
  PROVE  Reg(Good, L) \subseteq Reg(hdr2, L) /\ Rel(L, hdr2.iNextShmid) < 0
<1> DEFINE h == hdr2
           b == h.iNextShmid
           n == Good.nChunk
           m == h.nChunk
<1>1. /\ EndInv /\ EndMem /\ h \in Header /\ Good \in Header /\ GoodPlaced /\ chunk \in ChunkMap
  BY EndFacts
<1>2. Places1(chunk, m, 1 - m, 0, b) /\ Trees(chunk, h) /\ n <= m
  BY <1>1, ListOkPlaces DEF EndInv
<1>3. /\ m \in 2..(MaxChunk + 1) /\ b \in Ids /\ n \in 2..(MaxChunk + 1)
      /\ h.iWrite \in Chunks \X (0..Room) /\ Good.iWrite \in Chunks \X (0..Room)
      /\ 1..(m - 1) \subseteq Chunks
  BY <1>1, HeaderType
<1>4. \A i \in 1..(n - 1) : i \in 1..(m - 1)
  BY <1>2, <1>3
<1>5. /\ \A i \in 1..(m - 1) : Pos(chunk, i, b) \in (1 - m)..(0 - 1)
      /\ \A i, k \in 1..(m - 1) : Pos(chunk, i, b) = Pos(chunk, k, b) => i = k
  BY <1>2 DEF Places1
<1>6. \A i \in 1..(m - 1) : /\ Pos(chunk, i, b) \in (-MaxChunk)..(MaxChunk - 1)
                            /\ Pos(chunk, i, b) <= -1 /\ Pos(chunk, i, b) \in Int
  BY <1>3, <1>5, Sizes
<1>7. L \in Ids /\ Rel(L, b) = Pos(chunk, j, b) /\ Rel(L, b) \in (-MaxChunk)..(MaxChunk - 1)
      /\ Rel(L, b) <= -1 /\ Rel(L, b) \in Int
  BY <1>1, <1>3, <1>4, <1>6 DEF Pos, ChunkMap
<1>8. /\ Good.iWrite[1] \in 1..(n - 1) /\ h.iWrite[1] \in 1..(m - 1)
      /\ Pos(chunk, h.iWrite[1], b) = -1
  BY <1>1, <1>2 DEF GoodPlaced, Trees
<1> HIDE DEF b, n, m
<1>9. Placed(chunk, n, L, Good.iWrite, b) /\ Placed(chunk, m, L, h.iWrite, b)
  BY <1>1, <1>3, <1>4, <1>6, <1>7, <1>8 DEF Placed, Near
<1>10. \A i \in 1..(n - 1) : InRegion(chunk, n, L, Good.iWrite, b, i) =>
         i < m /\ (i = h.iWrite[1] => i = Good.iWrite[1])
  <2> SUFFICES ASSUME NEW i \in 1..(n - 1), InRegion(chunk, n, L, Good.iWrite, b, i)
               PROVE  i < m /\ (i = h.iWrite[1] => i = Good.iWrite[1])
    OBVIOUS
  <2>1. i < m
    BY <1>3, <1>4
  <2>2. ASSUME i = h.iWrite[1]
        PROVE  i = Good.iWrite[1]
    <3>1. Pos(chunk, i, b) <= Pos(chunk, Good.iWrite[1], b)
      BY DEF InRegion
    <3>2. Pos(chunk, i, b) = -1 /\ Good.iWrite[1] \in 1..(m - 1)
      BY <1>4, <1>8, <2>2
    <3>3. Pos(chunk, Good.iWrite[1], b) = -1
      BY <1>6, <3>1, <3>2
    <3> QED
      BY <1>4, <1>5, <3>2, <3>3
  <2> QED
    BY <2>1, <2>2
<1>11. Pos(chunk, Good.iWrite[1], b) <= Pos(chunk, h.iWrite[1], b) /\ Rel(L, b) <= Rel(L, b)
  BY <1>4, <1>6, <1>7, <1>8
<1>12. /\ Good.iWrite[1] = h.iWrite[1] => Good.iWrite[2] <= h.iWrite[2]
       /\ Good.iWrite[2] \in Nat /\ h.iWrite[2] \in Nat
  BY <1>1, <1>3, Sizes DEF EndMem, Offs
<1>13. Region(chunk, n, L, Good.iWrite) \subseteq Region(chunk, m, L, h.iWrite)
  BY <1>9, <1>10, <1>11, <1>12, RegionGrows
<1>14. Rel(L, b) < 0
  BY <1>7
<1> QED
  BY <1>13, <1>14 DEF Reg, b, n, m

LEMMA NewerOrder ==
  ASSUME NEW h1 \in Header, NEW h2 \in Header, NEW h3 \in Header, Newer(h1, h2)
  PROVE  h1.iOldLog <= h2.iOldLog /\ (Newer(h2, h3) => Newer(h1, h3))
BY DEF Newer, Header

LEMMA EndHdr1Mem ==
  ASSUME Inv, Inv', MemInv, NEW c \in Conn, EndHdr1(c)
  PROVE  MemInv'
<1>1. /\ writer = c /\ pc[c] = "end1" /\ pc[c] \in EndPcs
      /\ UNCHANGED <<chunk, mem, hdr2, bWriter, slot, iReader, rlock, stale, snap, hdr, client,
                     writer>>
      /\ hdr1' = IF hdr1 = Torn THEN treehdr ELSE Torn
      /\ pc' = IF hdr1 = Torn THEN [pc EXCEPT ![c] = "endflag"] ELSE pc
  BY DEF EndHdr1, Writing, Goto, EndPcs, lockVars
<1>2. Types /\ Main /\ MemTypes /\ MemMain
  <2>1. pc[c] # "lost" /\ ~IsLost
    BY <1>1 DEF IsLost
  <2> QED
    BY <2>1, NotLost DEF MemInv
<1>3. /\ AtEnd /\ ~Alive /\ EndInv /\ EndMem /\ treehdr = hdr[c] /\ hdr2 = hdr[c]
      /\ hdr2 \in Header /\ Good \in Header /\ GoodPlaced /\ chunk \in ChunkMap
  BY <1>1, <1>2, EndFacts
<1>4. Good' = hdr2 /\ hdr2' = hdr2 /\ bWriter
  BY <1>1, <1>3, InitHeaders DEF Good, EndInv
<1>5. /\ pc'[c] \in EndPcs /\ \A d \in Conn \ {c} : pc'[d] = pc[d]
      /\ AtEnd' /\ ~Alive'
  <2>1. pc'[c] \in EndPcs /\ \A d \in Conn \ {c} : pc'[d] = pc[d]
    BY <1>1, <1>2 DEF Types, EndPcs
  <2>2. writer' = c /\ c # None
    BY <1>1, NoneNotConn
  <2> QED
    BY <2>1, <2>2 DEF AtEnd, Alive, EndPcs, AlivePcs
<1>6. \A r, t : Clear(r, t) => Clear(r, t)'
  BY <1>1, <1>3, <1>4, <1>5 DEF Clear
<1>7. \A r, t : ClearEnd(r, t) => Clear(r, t)' /\ ClearEnd(r, t)'
  BY <1>1, <1>4, <1>5 DEF Clear, ClearEnd
<1>8. MemTypes'
  BY <1>1, <1>2 DEF MemTypes
<1>9. HeaderMem(hdr2)'
  BY <1>1, <1>3 DEF EndMem, HeaderMem, Reg
<1>10. HasOld(hdr2) /\ ~OldFlushed(hdr2, snap) =>
         ClearEnd(hdr2.oldroot, hdr2.oldtrans)' /\ Clear(hdr2.oldroot, hdr2.oldtrans)'
  <2>1. PICK r, t : r = hdr2.oldroot /\ t = hdr2.oldtrans
    OBVIOUS
  <2>2. HasOld(hdr2) /\ ~OldFlushed(hdr2, snap) => ClearEnd(r, t)
    BY <1>3, <2>1 DEF EndMem
  <2>3. HasOld(hdr2) /\ ~OldFlushed(hdr2, snap) => ClearEnd(r, t)' /\ Clear(r, t)'
    BY <1>7, <2>2
  <2> QED
    BY <1>1, <2>1, <2>3 DEF ClearEnd, Clear
<1>11. GoodMem'
  <2>1. HeaderMem(Good)'
    BY <1>4, <1>9 DEF HeaderMem, Reg
  <2>2. writer' # None
    BY <1>1, NoneNotConn
  <2> QED
    BY <1>1, <1>4, <1>10, <2>1, <2>2 DEF GoodMem, Clear
<1>12. SnapInv'
  <2>1. /\ snap \in Nat /\ snap >= 1 /\ snap <= Good.iOldLog /\ Good.iOldLog \in Nat
        /\ hdr2.iOldLog \in Nat /\ (hdr2 = Good \/ Newer(Good, hdr2))
    BY <1>2, <1>3 DEF MemMain, SnapInv, Types, ReadTypes, Header
  <2>2. snap <= hdr2.iOldLog
    BY <1>3, <2>1, NewerOrder
  <2>3. ASSUME NEW d \in Conn, pc'[d] = "loaded"
        PROVE  ~Newer(hdr2, hdr[d])
    <3>1. pc[d] = "loaded" /\ hdr[d] \in Header
      BY <1>1, <1>2, <1>5, <2>3 DEF Types, HeaderTypes, EndPcs
    <3>2. ~Newer(Good, hdr[d])
      BY <1>2, <3>1 DEF MemMain, SnapInv
    <3> QED
      BY <1>3, <2>1, <3>1, <3>2, NewerOrder
  <2> QED
    BY <1>1, <1>2, <1>4, <2>1, <2>2, <2>3 DEF MemMain, SnapInv
<1>13. ASSUME NEW d \in Conn, Holds(d)'
       PROVE  ReaderMem(d)'
  <2>1. Holds(d) /\ (pc[d] \in EndPcs <=> pc'[d] \in EndPcs) /\ (d # c => pc'[d] = pc[d])
    BY <1>1, <1>5, <1>13 DEF Holds
  <2>2. ReaderMem(d) /\ SlotInv(d)
    BY <1>2, <2>1 DEF MemMain, ReaderMem
  <2>3. PICK L : L = Tid(d)
    OBVIOUS
  <2>4. PICK j \in 1..(Good.nChunk - 1) : chunk[j].iShmid = L
    BY <2>2, <2>3 DEF SlotInv
  <2>5. Reg(Good, L) \subseteq Reg(hdr2, L) /\ Rel(L, hdr2.iNextShmid) < 0
    BY <1>1, <1>2, <2>4, EndGrows
  <2>6. j \in 1..(hdr2.nChunk - 1)
    <3>1. Good.nChunk <= hdr2.nChunk /\ Good.nChunk \in Int /\ hdr2.nChunk \in Int
      BY <1>3, HeaderType DEF EndInv
    <3> QED
      BY <3>1
  <2>7. Tid(d)' = L /\ SlotInv(d)'
    BY <1>1, <1>4, <2>2, <2>3, <2>4, <2>5, <2>6 DEF SlotInv, Tid
  <2>8. \A r, t, cur : Kept(r, t, cur, L) => Kept(r, t, cur, L)'
    <3> SUFFICES ASSUME NEW r, NEW t, NEW cur, Kept(r, t, cur, L) PROVE Kept(r, t, cur, L)'
      OBVIOUS
    <3>1. Reg(Good, L)' = Reg(hdr2, L)
      BY <1>1, <1>4 DEF Reg
    <3>2. Tree(mem, r, t, cur, Reg(hdr2, L))
      BY <2>5, TreeGrows DEF Kept
    <3> QED
      BY <1>1, <1>6, <3>1, <3>2 DEF Kept
  <2>9. CASE pc[d] \in EndPcs
    <3>1. HasOld(hdr[d]) /\ ~OldFlushed(hdr[d], client[d]) =>
            /\ Tree(mem, hdr[d].oldroot, hdr[d].oldtrans, hdr[d].oldcur, Reg(hdr2, L))
            /\ ClearEnd(hdr[d].oldroot, hdr[d].oldtrans)
      BY <2>2, <2>3, <2>9 DEF ReaderMem
    <3>2. Reg(hdr2, L)' = Reg(hdr2, L)
      BY <1>1 DEF Reg
    <3>3. pc'[d] # "reading" /\ pc'[d] \in EndPcs
      BY <2>1, <2>9 DEF EndPcs
    <3> QED
      BY <1>1, <2>7, <3>1, <3>2, <3>3 DEF ReaderMem, ClearEnd, Reg
  <2>10. CASE pc[d] \notin EndPcs
    <3>1. PICK r, t, cur, ro, to, co :
            /\ r = hdr[d].root /\ t = hdr[d].trans /\ cur = hdr[d].cur
            /\ ro = hdr[d].oldroot /\ to = hdr[d].oldtrans /\ co = hdr[d].oldcur
      OBVIOUS
    <3>2. /\ pc[d] = "reading" => Kept(r, t, cur, L)
          /\ HasOld(hdr[d]) /\ ~OldFlushed(hdr[d], client[d]) => Kept(ro, to, co, L)
      BY <2>2, <2>3, <2>10, <3>1 DEF ReaderMem
    <3>3. /\ pc[d] = "reading" => Kept(r, t, cur, L)'
          /\ HasOld(hdr[d]) /\ ~OldFlushed(hdr[d], client[d]) => Kept(ro, to, co, L)'
      BY <2>8, <3>2
    <3>4. d # c /\ pc'[d] = pc[d]
      BY <1>1, <2>1, <2>10
    <3> QED
      BY <1>1, <2>7, <2>10, <3>1, <3>3, <3>4 DEF ReaderMem, Kept, Clear
  <2> QED
    BY <2>9, <2>10
<1>14. EndMem'
  <2>1. Offs(hdr2.iWrite, hdr2.iWrite)
    <3>1. hdr2.iWrite[2] \in Nat
      BY <1>3, HeaderType, Sizes
    <3> QED
      BY <3>1, OffsSame
  <2>2. hdr2.trans <= hdr2.trans
    BY <1>3 DEF Header
  <2> QED
    BY <1>1, <1>3, <1>4, <1>9, <1>10, <2>1, <2>2 DEF EndMem, ClearEnd
<1> QED
  BY <1>5, <1>8, <1>11, <1>12, <1>13, <1>14 DEF MemInv, MemMain

----------------------------------------------------------------------------
(* A transaction publishes its header.                                      *)

\* What header h adds to the committed chunks is behind them.
LEMMA GoodGrows ==
  ASSUME GoodPlaced, AlivePlaced, NEW n \in Good.nChunk..treehdr.nChunk, NEW w,
         w[1] \in 1..(n - 1), w[2] \in Nat, Pos(chunk, w[1], Good.iNextShmid) >= -1,
         Offs(Good.iWrite, w), NEW L, Guarded(L)
  PROVE  Reg(Good, L) \subseteq Region(chunk, n, L, w)
<1> DEFINE b == Good.iNextShmid
           g == Good.nChunk
           v == Good.iWrite
<1>1. Placed(chunk, g, L, v, b) /\ v[2] \in Nat /\ v[1] \in 1..(g - 1) /\ Pos(chunk, v[1], b) = -1
  BY GoodRegion DEF GoodPlaced, HeaderPlaced
<1>2. g \in 2..(MaxChunk + 1) /\ treehdr.nChunk \in 2..(MaxChunk + 1) /\ b \in Ids
  BY HeaderType DEF GoodPlaced, AlivePlaced, HeaderPlaced
<1>3. /\ \A i \in 1..(treehdr.nChunk - 1) : Pos(chunk, i, b) \in (-MaxChunk)..(MaxChunk - 1)
      /\ \A i, j \in 1..(treehdr.nChunk - 1) : Pos(chunk, i, b) = Pos(chunk, j, b) => i = j
  BY DEF AlivePlaced, HeaderPlaced, Near
<1>4. \A i \in 1..(n - 1) : i \in 1..(treehdr.nChunk - 1)
  BY <1>2
<1>5. \A i \in 1..(g - 1) : i \in 1..(n - 1)
  BY <1>2
<1>6. n \in 2..(MaxChunk + 1) /\ L \in Ids /\ Rel(L, b) \in (-MaxChunk)..(MaxChunk - 1)
      /\ chunk \in ChunkMap
  <2>1. n \in 2..(MaxChunk + 1)
    BY <1>2, Sizes
  <2> QED
    BY <1>1, <2>1 DEF Placed
<1> HIDE DEF b, g, v
<1>7. Placed(chunk, n, L, w, b)
  BY <1>2, <1>3, <1>4, <1>6 DEF Placed, Near
<1>8. Pos(chunk, w[1], b) \in Int /\ Pos(chunk, w[1], b) >= -1
  BY <1>3, <1>4, Sizes DEF b
<1>9. \A i \in 1..(g - 1) : InRegion(chunk, g, L, v, b, i) => i < n /\ (i = w[1] => i = v[1])
  <2> SUFFICES ASSUME NEW i \in 1..(g - 1), InRegion(chunk, g, L, v, b, i)
               PROVE  i < n /\ (i = w[1] => i = v[1])
    OBVIOUS
  <2>1. i < n
    BY <1>5, <1>6
  <2>2. ASSUME i = w[1]
        PROVE  i = v[1]
    <3>1. Pos(chunk, i, b) <= -1
      BY <1>1 DEF InRegion
    <3>2. Pos(chunk, i, b) = -1
      BY <1>8, <2>2, <3>1
    <3> QED
      BY <1>1, <1>3, <1>4, <1>5, <3>2
  <2> QED
    BY <2>1, <2>2
<1>10. Pos(chunk, v[1], b) <= Pos(chunk, w[1], b) /\ Rel(L, b) <= Rel(L, b)
  BY <1>1, <1>6, <1>8, Sizes
<1>11. v[1] = w[1] => v[2] <= w[2]
  BY DEF Offs, v
<1>12. Region(chunk, g, L, v) \subseteq Region(chunk, n, L, w)
  BY <1>1, <1>7, <1>9, <1>10, <1>11, RegionGrows
<1> QED
  BY <1>12 DEF Reg, g, v

LEMMA PublishMem ==
  ASSUME Types, Main, MemInv, NEW c \in Conn, writer = c, pc[c] \in AlivePcs,
         NEW h2 \in Header, hdr' = [hdr EXCEPT ![c] = h2], hdr2' = h2,
         pc' = [pc EXCEPT ![c] = "end1"],
         UNCHANGED <<chunk, mem, hdr1, bWriter, slot, iReader, rlock, stale, snap, client,
                     writer>>,
         HeaderMem(h2), Newer(Good, h2), Offs(Good.iWrite, h2.iWrite),
         h2.root # Null => /\ Cel(mem, h2.root).iV2 <= h2.trans /\ h2.root \in WorkRoots
                           /\ h2.trans = treehdr.trans,
         HasOld(h2) /\ ~OldFlushed(h2, snap) =>
           (h2.oldroot # Null /\ h2.oldroot = h2.root => h2.oldtrans <= h2.trans),
         Holds(c) => shm_sequence_ge(h2.iUsedShmid, Tid(c)),
         Holds(c) /\ HasOld(h2) /\ ~OldFlushed(h2, client[c]) =>
           /\ Tree(mem, h2.oldroot, h2.oldtrans, h2.oldcur, Reg(h2, Tid(c)))
           /\ (h2.oldroot # Null /\ h2.oldroot = h2.root => h2.oldtrans <= h2.trans)
  PROVE  MemInv'
<1>1. /\ Alive /\ MemTypes /\ MemMain /\ AliveMem /\ AliveInv /\ AlivePlaced /\ GoodPlaced
      /\ treehdr = hdr[c] /\ treehdr \in Header /\ Good \in Header
  BY AliveFacts
<1>2. Good' = Good /\ Good = hdr1 /\ bWriter /\ Good.trans \in Nat
  <2>1. hdr1 = hdr2 /\ hdr2 \in Header
    BY <1>1 DEF AliveInv, Types, HeaderTypes
  <2> QED
    BY <1>1, <2>1, InitHeaders DEF Good, AliveInv, Header
<1>3. /\ hdr'[c] = h2 /\ pc'[c] = "end1"
      /\ \A d \in Conn \ {c} : hdr'[d] = hdr[d] /\ pc'[d] = pc[d]
  BY DEF Types, HeaderTypes
<1>4. AtEnd' /\ ~Alive'
  BY <1>3, NoneNotConn DEF AtEnd, Alive, EndPcs, AlivePcs
<1>5. ASSUME NEW r, NEW t \in Nat, Clear(r, t)
      PROVE  Clear(r, t)'
  <2>1. r # Null /\ r = h2.root => t <= h2.trans
    <3> SUFFICES ASSUME r # Null, r = h2.root PROVE t <= h2.trans
      OBVIOUS
    <3>1. t < treehdr.trans /\ h2.trans = treehdr.trans
      BY <1>1, <1>5 DEF Clear
    <3> QED
      BY <3>1 DEF Header
  <2> QED
    BY <1>2, <1>4, <1>5, <2>1 DEF Clear
<1>6. MemTypes'
  BY <1>1 DEF MemTypes
<1>7. GoodMem'
  <2>1. HeaderMem(Good)'
    BY <1>1, <1>2 DEF MemMain, GoodMem, HeaderMem, Reg
  <2>2. HasOld(Good) /\ ~OldFlushed(Good, snap) => Clear(Good.oldroot, Good.oldtrans)'
    <3>1. PICK r, t : r = Good.oldroot /\ t = Good.oldtrans
      OBVIOUS
    <3>2. t \in Nat
      BY <1>1, <3>1 DEF Header
    <3>3. HasOld(Good) /\ ~OldFlushed(Good, snap) => Clear(r, t)
      BY <1>1, <3>1 DEF MemMain, GoodMem
    <3>4. HasOld(Good) /\ ~OldFlushed(Good, snap) => Clear(r, t)'
      BY <1>5, <3>2, <3>3
    <3> QED
      BY <1>2, <3>1, <3>4 DEF Clear
  <2>3. writer' # None
    BY NoneNotConn
  <2> QED
    BY <1>2, <2>1, <2>2, <2>3 DEF GoodMem, Clear
<1>8. SnapInv'
  <2>1. \A d \in Conn : pc'[d] = "loaded" => pc[d] = "loaded" /\ hdr'[d] = hdr[d]
    BY <1>3
  <2> QED
    BY <1>1, <1>2, <2>1 DEF MemMain, SnapInv
<1>9. ASSUME NEW d \in Conn, Holds(d)'
      PROVE  ReaderMem(d)'
  <2>1. Holds(d)
    BY <1>3, <1>9 DEF Holds
  <2>2. ReaderMem(d) /\ SlotInv(d)
    BY <1>1, <2>1 DEF MemMain, ReaderMem
  <2>3. PICK L : L = Tid(d)
    OBVIOUS
  <2>4. Tid(d)' = L
    BY <2>3 DEF Tid
  <2>5. CASE d = c
    <3>1. SlotInv(c)'
      BY <1>2, <1>3, <2>1, <2>2, <2>3, <2>4, <2>5 DEF SlotInv
    <3>2. HasOld(h2) /\ ~OldFlushed(h2, client[c]) =>
            /\ Tree(mem, h2.oldroot, h2.oldtrans, h2.oldcur, Reg(h2, L))
            /\ (h2.oldroot # Null /\ h2.oldroot = h2.root => h2.oldtrans <= h2.trans)
      BY <2>1, <2>3, <2>5
    <3>3. Reg(h2, L)' = Reg(h2, L)
      BY DEF Reg
    <3> QED
      BY <1>3, <2>4, <2>5, <3>1, <3>2, <3>3 DEF ReaderMem, EndPcs, ClearEnd, Reg
  <2>6. CASE d # c
    <3>1. pc[d] = "reading" /\ pc'[d] = "reading" /\ pc[d] \notin EndPcs /\ hdr'[d] = hdr[d]
      <4>1. pc[d] \in ReaderPcs
        BY <2>6 DEF Main
      <4> QED
        BY <1>3, <2>1, <2>6, <4>1 DEF Holds, ReaderPcs, AlivePcs, EndPcs
    <3>2. SlotInv(d)'
      BY <1>2, <2>2, <2>3, <2>4, <3>1 DEF SlotInv
    <3>3. PICK r, t, cur, ro, to, co :
            /\ r = hdr[d].root /\ t = hdr[d].trans /\ cur = hdr[d].cur
            /\ ro = hdr[d].oldroot /\ to = hdr[d].oldtrans /\ co = hdr[d].oldcur
      OBVIOUS
    <3>4. t \in Nat /\ to \in Nat
      <4>1. hdr[d] \in Header
        BY DEF Types, HeaderTypes
      <4> QED
        BY <3>3, <4>1 DEF Header
    <3>5. /\ Kept(r, t, cur, L)
          /\ HasOld(hdr[d]) /\ ~OldFlushed(hdr[d], client[d]) => Kept(ro, to, co, L)
      BY <2>2, <2>3, <3>1, <3>3 DEF ReaderMem
    <3>6. Reg(Good, L)' = Reg(Good, L)
      BY <1>2 DEF Reg
    <3>7. /\ Kept(r, t, cur, L)'
          /\ HasOld(hdr[d]) /\ ~OldFlushed(hdr[d], client[d]) => Kept(ro, to, co, L)'
      BY <1>5, <3>4, <3>5, <3>6 DEF Kept
    <3> QED
      BY <2>4, <3>1, <3>2, <3>3, <3>7 DEF ReaderMem, Kept, Clear, EndPcs
  <2> QED
    BY <2>5, <2>6
<1>10. EndMem'
  <2>1. HeaderMem(h2)'
    BY DEF HeaderMem, Reg
  <2>2. Good.root # Null /\ Good.root = h2.root => Good.trans <= h2.trans
    BY <1>1, <1>2 DEF AliveMem
  <2> QED
    BY <1>2, <2>1, <2>2 DEF EndMem, ClearEnd
<1> QED
  BY <1>4, <1>6, <1>7, <1>8, <1>9, <1>10 DEF MemInv, MemMain

\* A header that keeps the old tree of its transaction
LEMMA PublishKept ==
  ASSUME Types, Main, MemInv, NEW c \in Conn, writer = c, pc[c] \in AlivePcs,
         NEW h2 \in Header, hdr' = [hdr EXCEPT ![c] = h2], hdr2' = h2,
         pc' = [pc EXCEPT ![c] = "end1"],
         UNCHANGED <<chunk, mem, hdr1, bWriter, slot, iReader, rlock, stale, snap, client,
                     writer>>,
         h2.trans = treehdr.trans, h2.iUsedShmid = treehdr.iUsedShmid,
         h2.iOldShmid = treehdr.iOldShmid, h2.iOldLog = treehdr.iOldLog,
         h2.oldroot = treehdr.oldroot, h2.oldtrans = treehdr.oldtrans,
         h2.oldcur = treehdr.oldcur,
         h2.nChunk \in Good.nChunk..treehdr.nChunk, h2.iWrite[1] \in 1..(h2.nChunk - 1),
         Pos(chunk, h2.iWrite[1], Good.iNextShmid) >= -1, Offs(Good.iWrite, h2.iWrite),
         Tree(mem, h2.root, h2.trans, h2.cur, Reg(h2, LiveUsed(treehdr))),
         h2.root # Null => Cel(mem, h2.root).iV2 <= h2.trans /\ h2.root \in WorkRoots
  PROVE  MemInv'
<1>1. /\ Alive /\ MemTypes /\ MemMain /\ AliveMem /\ AliveInv /\ AlivePlaced /\ GoodPlaced
      /\ treehdr = hdr[c] /\ treehdr \in Header /\ Good \in Header
  BY AliveFacts
<1>2. /\ treehdr.trans = Good.trans + 1 /\ treehdr.iOldLog = Good.iOldLog /\ OldKept
      /\ Good.trans \in Nat /\ Good.oldtrans \in Nat /\ treehdr.oldtrans \in Nat
  BY <1>1 DEF AliveMem, Header
<1>3. Newer(Good, h2)
  BY <1>2 DEF Newer
<1>4. h2.iWrite[2] \in Nat
  BY HeaderType, Sizes
<1>5. ASSUME NEW L, Guarded(L)
      PROVE  Reg(Good, L) \subseteq Reg(h2, L)
  <2>1. PICK n, w : n = h2.nChunk /\ w = h2.iWrite
    OBVIOUS
  <2>2. Reg(Good, L) \subseteq Region(chunk, n, L, w)
    BY <1>1, <1>4, <1>5, <2>1, GoodGrows
  <2> QED
    BY <2>1, <2>2 DEF Reg
<1>6. ASSUME NEW r, NEW t \in Nat, Clear(r, t)
      PROVE  r # Null /\ r = h2.root => t <= h2.trans
  <2> SUFFICES ASSUME r # Null, r = h2.root PROVE t <= h2.trans
    OBVIOUS
  <2>1. t < treehdr.trans
    BY <1>1, <1>6 DEF Clear
  <2> QED
    BY <1>2, <2>1
<1>7. HasOld(h2) /\ ~OldFlushed(h2, snap) =>
        /\ Tree(mem, h2.oldroot, h2.oldtrans, h2.oldcur, Reg(h2, h2.iUsedShmid))
        /\ (h2.oldroot # Null /\ h2.oldroot = h2.root => h2.oldtrans <= h2.trans)
  <2> SUFFICES ASSUME HasOld(h2), ~OldFlushed(h2, snap)
               PROVE  /\ Tree(mem, h2.oldroot, h2.oldtrans, h2.oldcur, Reg(h2, h2.iUsedShmid))
                      /\ (h2.oldroot # Null /\ h2.oldroot = h2.root => h2.oldtrans <= h2.trans)
    OBVIOUS
  <2>1. /\ h2.iUsedShmid = Good.iUsedShmid /\ HasOld(Good) /\ ~OldFlushed(Good, snap)
        /\ h2.oldroot = Good.oldroot /\ h2.oldtrans = Good.oldtrans /\ h2.oldcur = Good.oldcur
    BY <1>2 DEF OldKept, HasOld, OldFlushed
  <2>2. /\ Tree(mem, Good.oldroot, Good.oldtrans, Good.oldcur, Reg(Good, Good.iUsedShmid))
        /\ Clear(Good.oldroot, Good.oldtrans)
    BY <1>1, <2>1 DEF MemMain, GoodMem, HeaderMem
  <2>3. Reg(Good, Good.iUsedShmid) \subseteq Reg(h2, Good.iUsedShmid)
    BY <1>1, <1>5, GoodGuarded
  <2>4. Tree(mem, Good.oldroot, Good.oldtrans, Good.oldcur, Reg(h2, Good.iUsedShmid))
    BY <2>2, <2>3, TreeGrows
  <2> QED
    BY <1>2, <1>6, <2>1, <2>2, <2>4
<1>8. HeaderMem(h2)
  <2>1. LiveUsed(h2) = LiveUsed(treehdr)
    BY DEF LiveUsed, HasOld
  <2> QED
    BY <1>7, <2>1 DEF HeaderMem
<1>9. Holds(c) =>
        /\ shm_sequence_ge(h2.iUsedShmid, Tid(c))
        /\ HasOld(h2) /\ ~OldFlushed(h2, client[c]) =>
             /\ Tree(mem, h2.oldroot, h2.oldtrans, h2.oldcur, Reg(h2, Tid(c)))
             /\ (h2.oldroot # Null /\ h2.oldroot = h2.root => h2.oldtrans <= h2.trans)
  <2> SUFFICES ASSUME Holds(c)
               PROVE  /\ shm_sequence_ge(h2.iUsedShmid, Tid(c))
                      /\ HasOld(h2) /\ ~OldFlushed(h2, client[c]) =>
                           /\ Tree(mem, h2.oldroot, h2.oldtrans, h2.oldcur, Reg(h2, Tid(c)))
                           /\ (h2.oldroot # Null /\ h2.oldroot = h2.root =>
                                 h2.oldtrans <= h2.trans)
    OBVIOUS
  <2>1. ReaderMem(c) /\ SlotInv(c)
    BY <1>1 DEF MemMain, ReaderMem
  <2>2. pc[c] \notin EndPcs
    BY DEF AlivePcs, EndPcs
  <2>3. HasOld(h2) /\ ~OldFlushed(h2, client[c]) =>
          Kept(h2.oldroot, h2.oldtrans, h2.oldcur, Tid(c))
    BY <1>1, <2>1, <2>2 DEF ReaderMem, HasOld, OldFlushed
  <2>4. Reg(Good, Tid(c)) \subseteq Reg(h2, Tid(c))
    BY <1>1, <1>5, <2>1, HolderGuarded
  <2>5. \A r, t, cur : Tree(mem, r, t, cur, Reg(Good, Tid(c))) =>
                         Tree(mem, r, t, cur, Reg(h2, Tid(c)))
    BY <2>4, TreeGrows
  <2> QED
    BY <1>1, <1>2, <1>6, <2>1, <2>3, <2>5 DEF Kept, SlotInv
<1> QED
  BY <1>3, <1>7, <1>8, <1>9, PublishMem

LEMMA RollbackAllMem ==
  ASSUME Inv, Inv', MemInv, NEW c \in Conn, RollbackAll(c)
  PROVE  MemInv'
<1> DEFINE h == treehdr
           m == marks[1].mark
           h2 == Restored(m)
           b == Good.iNextShmid
           w == m.iWrite
           X == Rel(m.iNextShmid, b)
<1>1. /\ pc[c] = "rollback" /\ writer = c /\ Types /\ Main /\ pc[c] \in AlivePcs
      /\ pend.chunk = 0 /\ pend.iLevel = 0
  BY NotLost DEF RollbackAll, Writing, AlivePcs
<1>2. /\ Alive /\ MemTypes /\ MemMain /\ AliveMem /\ AlivePlaced /\ GoodPlaced
      /\ h \in Header /\ h = hdr[c]
  BY <1>1, AliveFacts
<1>3. /\ UNCHANGED <<chunk, mem, hdr1, bWriter, slot, iReader, rlock, stale, snap, client,
                     writer>>
      /\ hdr' = [hdr EXCEPT ![c] = h2] /\ hdr2' = h2
      /\ pc' = [pc EXCEPT ![c] = "end1"]
  BY <1>1 DEF RollbackAll, Publish, SetHeader, Goto, MarkOf, lockVars
<1>4. Top = 1
  BY <1>1 DEF Top
<1>5. h2 \in Header
  <2>1. pc'[c] # "lost"
    BY <1>1, <1>3 DEF Types
  <2>2. hdr2' \in Header
    BY <2>1, NextMain DEF Types, HeaderTypes
  <2> QED
    BY <1>3, <2>2
<1>6. /\ h2.root = m.root /\ h2.iWrite = m.iWrite /\ h2.nChunk = m.nChunk
      /\ h2.cur = m.cur /\ h2.trans = h.trans /\ h2.iUsedShmid = h.iUsedShmid
      /\ h2.iOldShmid = h.iOldShmid /\ h2.iOldLog = h.iOldLog /\ h2.oldroot = h.oldroot
      /\ h2.oldtrans = h.oldtrans /\ h2.oldcur = h.oldcur
  BY <1>2 DEF Restored, Header
<1>7. /\ m.nChunk \in Good.nChunk..h.nChunk /\ w[1] \in 1..(m.nChunk - 1)
      /\ Pos(chunk, w[1], b) = X - 1 /\ X \in Int /\ X >= 0
      /\ \A i \in 1..(h.nChunk - 1) : Pos(chunk, i, b) < X => i < m.nChunk
  <2>1. X \in 0..Rel(h.iNextShmid, b) /\ Rel(h.iNextShmid, b) \in Int
    BY <1>2, <1>4 DEF AlivePlaced
  <2>2. X \in Int /\ X >= 0
    <3> HIDE DEF X
    <3> QED
      BY <2>1
  <2> QED
    BY <1>2, <1>4, <2>2 DEF AlivePlaced
<1> DEFINE S == WorkReg(w)
           S2 == Reg(h2, LiveUsed(h))
<1>8. S \subseteq S2
  <2>1. Placed(chunk, h.nChunk, LiveUsed(h), w, b)
    BY <1>2, <1>4, WorkRegion
  <2> SUFFICES ASSUME NEW p \in S PROVE p \in S2
    OBVIOUS
  <2>2. p \in Cell /\ InRegion(chunk, h.nChunk, LiveUsed(h), w, b, p[1])
    BY <2>1, RegionPos DEF WorkReg
  <2>3. p[1] \in 1..(h.nChunk - 1) /\ Pos(chunk, p[1], b) <= Pos(chunk, w[1], b)
        /\ Pos(chunk, p[1], b) \in Int
    BY <2>1, <2>2 DEF InRegion, Placed, Near
  <2>4. Pos(chunk, p[1], b) < X
    <3> DEFINE P == Pos(chunk, p[1], b)
    <3>1. P <= X - 1 /\ P \in Int
      BY <1>7, <2>3
    <3> HIDE DEF P, X
    <3> QED
      BY <1>7, <3>1 DEF P
  <2>5. p[1] < m.nChunk
    BY <1>7, <2>3, <2>4
  <2> QED
    BY <1>6, <2>5 DEF WorkReg, Region, Reg
<1>9. /\ Tree(mem, m.root, h.trans, m.cur, S)
      /\ m.root # Null => Cel(mem, m.root).iV2 <= h.trans
      /\ Offs(Good.iWrite, m.iWrite)
  <2>1. MarkMem(1) /\ marks[1].iRollback = Len(rollback)
    BY <1>1, <1>2, <1>4 DEF AliveMem, RollbackInv
  <2>2. Since(1) = {}
    BY <1>2, <2>1 DEF Since, AlivePlaced
  <2>3. MarkCell(1) = Cel(mem, m.root)
    BY <2>2 DEF MarkCell
  <2> QED
    BY <2>1, <2>3 DEF MarkMem, Tree
<1>10. Tree(mem, m.root, h.trans, m.cur, S2)
  <2> HIDE DEF S, S2
  <2> QED
    BY <1>8, <1>9, TreeGrows
<1>11. m.root \in WorkRoots
  BY <1>4 DEF WorkRoots
<1>12. Pos(chunk, w[1], b) >= -1
  <2> HIDE DEF X
  <2> QED
    BY <1>7
<1>13. PICK g \in Header : g = h2
  BY <1>5
<1> HIDE DEF h2, m, w, b, X, S
<1>14. Tree(mem, g.root, g.trans, g.cur, Reg(g, LiveUsed(treehdr)))
  BY <1>6, <1>10, <1>13
<1> QED
  BY <1>1, <1>3, <1>6, <1>7, <1>9, <1>11, <1>12, <1>13, <1>14, PublishKept DEF w, b

LEMMA MadeOld ==
  ASSUME NEW h \in Header
  PROVE  LET g == MakeOld(h)
         IN  /\ g.root = Null /\ g.cur = Empty /\ g.iWrite = h.iWrite /\ g.nChunk = h.nChunk
             /\ g.iUsedShmid = h.iUsedShmid /\ g.iOldLog = h.iOldLog + 1
             /\ g.oldroot = h.root /\ g.oldtrans = h.trans /\ g.oldcur = h.cur
<1> DEFINE x == Add(h.iNextShmid, -1)
           l == h.iOldLog + 1
           g1 == [h EXCEPT !.iOldShmid = x, !.iOldLog = l,
                           !.oldroot = h.root, !.oldtrans = h.trans, !.oldcur = h.cur]
           e == Empty
           g2 == [g1 EXCEPT !.root = Null, !.trans = 1, !.cur = e]
<1>1. MakeOld(h) = g2
  BY DEF MakeOld
<1> HIDE DEF x, l, e
<1>2. /\ g1.iWrite = h.iWrite /\ g1.nChunk = h.nChunk /\ g1.iUsedShmid = h.iUsedShmid
      /\ g1.iOldLog = l /\ g1.oldroot = h.root /\ g1.oldtrans = h.trans /\ g1.oldcur = h.cur
      /\ DOMAIN g1 = DOMAIN h
  BY DEF Header
<1>3. /\ g2.root = Null /\ g2.cur = e /\ g2.iWrite = g1.iWrite /\ g2.nChunk = g1.nChunk
      /\ g2.iUsedShmid = g1.iUsedShmid /\ g2.iOldLog = g1.iOldLog
      /\ g2.oldroot = g1.oldroot /\ g2.oldtrans = g1.oldtrans /\ g2.oldcur = g1.oldcur
  BY DEF Header
<1> HIDE DEF g1, g2
<1> QED
  BY <1>1, <1>2, <1>3 DEF l, e

LEMMA CommitMem ==
  ASSUME Inv, Inv', MemInv, NEW c \in Conn, Commit(c)
  PROVE  MemInv'
<1> DEFINE h == treehdr
           b == Good.iNextShmid
<1>1. pc[c] = "open" /\ writer = c /\ Types /\ Main /\ pc[c] \in AlivePcs
  BY NotLost DEF Commit, Writing, AlivePcs
<1>2. /\ Alive /\ MemTypes /\ MemMain /\ AliveMem /\ AlivePlaced /\ GoodPlaced /\ AliveInv
      /\ h \in Header /\ h = hdr[c] /\ Good \in Header
  BY <1>1, AliveFacts
<1>3. PICK g : /\ g = h \/ (g = MakeOld(h) /\ ~HasOld(h))
               /\ hdr' = [hdr EXCEPT ![c] = g] /\ hdr2' = g
               /\ pc' = [pc EXCEPT ![c] = "end1"]
               /\ UNCHANGED <<chunk, mem, hdr1, bWriter, slot, iReader, rlock, stale, snap,
                              client, writer>>
  <2>1. PICK bFlush \in BOOLEAN : Publish(c, IF bFlush /\ ~HasOld(h) THEN MakeOld(h) ELSE h)
    BY DEF Commit
  <2> DEFINE g == IF bFlush /\ ~HasOld(h) THEN MakeOld(h) ELSE h
  <2>2. /\ hdr' = [hdr EXCEPT ![c] = g] /\ hdr2' = g /\ pc' = [pc EXCEPT ![c] = "end1"]
        /\ UNCHANGED <<chunk, mem, hdr1, bWriter, slot, iReader, rlock, stale, snap, client,
                       writer>>
    BY <2>1 DEF Commit, Publish, SetHeader, Goto, lockVars
  <2>3. g = h \/ (g = MakeOld(h) /\ ~HasOld(h))
    OBVIOUS
  <2> HIDE DEF g
  <2> QED
    BY <2>2, <2>3
<1>4. g \in Header
  <2>1. pc'[c] # "lost"
    BY <1>1, <1>3 DEF Types
  <2>2. hdr2' \in Header
    BY <2>1, NextMain DEF Types, HeaderTypes
  <2> QED
    BY <1>3, <2>2
<1>5. WorkMem
  BY <1>1, <1>2 DEF AliveMem
<1>6. CASE g = h
  <2>1. /\ g.nChunk \in Good.nChunk..h.nChunk /\ g.iWrite[1] \in 1..(g.nChunk - 1)
        /\ Pos(chunk, g.iWrite[1], b) >= -1
    <3>1. Writable(chunk, h, Good, Rel(h.iNextShmid, b))
      BY <1>1, <1>2 DEF AliveInv
    <3>2. h.iWrite[1] \in 1..(h.nChunk - 1)
          /\ Pos(chunk, h.iWrite[1], b) = Rel(h.iNextShmid, b) - 1
      BY <3>1 DEF Writable
    <3>3. Rel(h.iNextShmid, b) \in 0..MaxChunk /\ Good.nChunk <= h.nChunk
          /\ Good.nChunk \in Int /\ h.nChunk \in Int
      BY <1>2, HeaderType DEF AlivePlaced
    <3>4. Pos(chunk, h.iWrite[1], b) >= -1
      BY <3>2, <3>3, Sizes
    <3> QED
      BY <1>6, <3>2, <3>3, <3>4
  <2>2. /\ Tree(mem, g.root, g.trans, g.cur, Reg(g, LiveUsed(treehdr)))
        /\ g.root # Null => Cel(mem, g.root).iV2 <= g.trans
        /\ Offs(Good.iWrite, g.iWrite)
    BY <1>5, <1>6 DEF WorkMem, WorkReg, Reg
  <2>3. g.root \in WorkRoots
    BY <1>6 DEF WorkRoots
  <2> QED
    BY <1>1, <1>3, <1>4, <1>6, <2>1, <2>2, <2>3, PublishKept
<1>7. CASE g = MakeOld(h) /\ ~HasOld(h)
  <2>1. /\ g.root = Null /\ g.cur = Empty /\ g.iWrite = h.iWrite /\ g.nChunk = h.nChunk
        /\ g.iUsedShmid = h.iUsedShmid /\ g.iOldLog = h.iOldLog + 1
        /\ g.oldroot = h.root /\ g.oldtrans = h.trans /\ g.oldcur = h.cur
    BY <1>2, <1>7, MadeOld
  <2>2. \A L : Reg(g, L) = Region(chunk, h.nChunk, L, h.iWrite)
    BY <2>1 DEF Reg
  <2>3. Tree(mem, g.oldroot, g.oldtrans, g.oldcur, Reg(g, h.iUsedShmid))
    <3>1. LiveUsed(h) = h.iUsedShmid
      BY <1>7 DEF LiveUsed
    <3> QED
      BY <1>5, <2>1, <2>2, <3>1 DEF WorkMem, WorkReg
  <2>4. HeaderMem(g)
    BY <2>1, <2>3 DEF HeaderMem, Tree
  <2>5. Newer(Good, g) /\ Offs(Good.iWrite, g.iWrite)
    <3>1. h.iOldLog = Good.iOldLog /\ Good.iOldLog \in Nat
      BY <1>2 DEF AliveMem, Header
    <3> QED
      BY <1>5, <2>1, <3>1 DEF Newer, WorkMem
  <2>6. Holds(c) => /\ shm_sequence_ge(g.iUsedShmid, Tid(c))
                    /\ Tree(mem, g.oldroot, g.oldtrans, g.oldcur, Reg(g, Tid(c)))
    <3> SUFFICES ASSUME Holds(c)
                 PROVE  /\ shm_sequence_ge(g.iUsedShmid, Tid(c))
                        /\ Tree(mem, g.oldroot, g.oldtrans, g.oldcur, Reg(g, Tid(c)))
      OBVIOUS
    <3>1. SlotInv(c) /\ Guarded(Tid(c))
      BY <1>2, HolderGuarded DEF MemMain, ReaderMem
    <3>2. shm_sequence_ge(h.iUsedShmid, Tid(c))
      BY <1>2, <3>1 DEF SlotInv
    <3>3. PICK L : L = Tid(c)
      OBVIOUS
    <3>4. Reg(g, h.iUsedShmid) \subseteq Reg(g, L)
      <4> DEFINE n == h.nChunk
                 w == h.iWrite
                 U == h.iUsedShmid
      <4>1. LiveUsed(h) = U
        BY <1>7 DEF LiveUsed
      <4>2. Placed(chunk, n, U, w, b)
        BY <1>1, <1>2, <4>1, WorkRegion
      <4>3. L \in Ids /\ Rel(L, b) \in (-MaxChunk)..(-1) /\ Rel(U, b) \in (-MaxChunk)..(-1)
            /\ U \in Ids
        BY <1>2, <3>1, <3>3, HeaderType DEF Guarded, AlivePlaced, HeaderPlaced
      <4>4. Placed(chunk, n, L, w, b)
        BY <4>2, <4>3, Sizes DEF Placed
      <4>5. Rel(L, b) <= Rel(U, b)
        <5>1. Guarded(L) /\ Guarded(U)
          BY <4>3 DEF Guarded
        <5>2. Rel(U, b) >= Rel(L, b)
          BY <1>2, <3>2, <3>3, <5>1, GuardedOrder
        <5> QED
          BY <4>3, <5>2, Sizes
      <4>6. w[2] \in Nat /\ w[1] \in 1..(n - 1) /\ Pos(chunk, w[1], b) \in Int
        BY <1>2, <4>2, HeaderType, Sizes DEF Placed, Near
      <4>7. \A i \in 1..(n - 1) : i < n
        BY <4>2 DEF Placed
      <4>8. w[2] <= w[2] /\ Pos(chunk, w[1], b) <= Pos(chunk, w[1], b)
        BY <4>6
      <4> HIDE DEF b, n, w, U
      <4>9. Region(chunk, n, U, w) \subseteq Region(chunk, n, L, w)
        BY <4>2, <4>4, <4>5, <4>6, <4>7, <4>8, RegionGrows
      <4> QED
        BY <2>2, <4>9 DEF n, w, U
    <3>5. Tree(mem, g.oldroot, g.oldtrans, g.oldcur, Reg(g, L))
      BY <2>3, <3>4, TreeGrows
    <3> QED
      BY <2>1, <3>2, <3>3, <3>5
  <2> QED
    BY <1>1, <1>3, <1>4, <2>1, <2>4, <2>5, <2>6, PublishMem
<1> QED
  BY <1>3, <1>6, <1>7

----------------------------------------------------------------------------
(* A repair.                                                                *)

\* The ids a repair changes: those of the chunks an open transaction took,
\* and that of the first chunk; the new ones come before the smallest.
LEMMA RepairedIdsAre ==
  ASSUME NEW h \in Header, chunk \in ChunkMap, Committed(chunk, h)
  PROVE  \E k \in 1..(h.nChunk - 1) :
           LET b == h.iNextShmid
           IN  /\ \A j \in 1..(h.nChunk - 1) : Pos(chunk, k, b) <= Pos(chunk, j, b)
               /\ Pos(chunk, k, b) <= -1
               /\ \A i \in 1..(h.nChunk - 1) :
                    \/ RepairedList(h)[i].iShmid = chunk[i].iShmid
                    \/ /\ Pos(RepairedList(h), i, b) < Pos(chunk, k, b)
                       /\ (i = h.iFirst /\ k # h.iFirst) \/ Pos(chunk, i, b) >= 0
<1> DEFINE list == 1..(h.nChunk - 1)
           b == h.iNextShmid
           small(i) == \A j \in list :
               \/ chunk[j].iShmid # chunk[i].iShmid
                  /\ shm_sequence_ge(chunk[j].iShmid, chunk[i].iShmid)
               \/ chunk[j].iShmid = chunk[i].iShmid /\ j <= i
           min == CHOOSE i \in list : small(i)
           late == {i \in list \ {h.iFirst} :
                      shm_sequence_ge(chunk[i].iShmid, h.iNextShmid)}
           prev == Add(chunk[min].iShmid, -1 - Cardinality(late))
           fix == RepairedIds(h)
<1>1. /\ h.nChunk \in 2..(MaxChunk + 1) /\ h.nChunk \in Int
      /\ list \subseteq Chunks /\ b \in Ids /\ MaxChunk \in Nat
  BY HeaderType, Sizes
<1>2. min \in list /\ small(min)
  <2>1. \A i \in list : Pos(chunk, i, b) \in (-MaxChunk)..(MaxChunk - 1)
    BY <1>1 DEF Committed
  <2>2. \E i \in list : small(i)
    BY <1>1, <2>1, SmallestChunk
  <2> HIDE DEF small
  <2> QED
    BY <2>2
<1>3. IsFiniteSet(list) /\ Cardinality(list) = h.nChunk - 1
  <2>1. h.nChunk - 1 \in Nat
    BY <1>1
  <2> QED
    BY <2>1, FirstNumbers
<1>4. /\ fix.prev = prev
      /\ fix.id = [i \in list |->
                 IF i = h.iFirst
                 THEN IF min # h.iFirst THEN prev ELSE chunk[i].iShmid
                 ELSE IF i \in late
                 THEN Add(chunk[min].iShmid, -1 - Cardinality({j \in late : j < i}))
                 ELSE chunk[i].iShmid]
  BY DEF RepairedIds
<1>5. \A i \in list : RepairedList(h)[i].iShmid = fix.id[i]
  BY <1>1 DEF RepairedList
<1>6. \A j \in list : Pos(chunk, j, b) \in (-MaxChunk)..(MaxChunk - 1) /\ chunk[j].iShmid \in Ids
  BY <1>1 DEF Committed, ChunkMap
<1>7. PICK k \in list : k = min
  BY <1>2
<1> DEFINE m == Pos(chunk, k, b)
<1>8. \A j \in list : m <= Pos(chunk, j, b)
  <2> SUFFICES ASSUME NEW j \in list PROVE m <= Pos(chunk, j, b)
    OBVIOUS
  <2>1. chunk[j].iShmid = chunk[k].iShmid
        \/ shm_sequence_ge(chunk[j].iShmid, chunk[k].iShmid)
    BY <1>2, <1>7
  <2>2. Pos(chunk, j, b) - m \in (-MaxShm)..(MaxShm - 1) /\ m \in Int /\ Pos(chunk, j, b) \in Int
    BY <1>6, Sizes
  <2>3. CASE chunk[j].iShmid = chunk[k].iShmid
    BY <2>2, <2>3 DEF Pos
  <2>4. CASE shm_sequence_ge(chunk[j].iShmid, chunk[k].iShmid)
    <3>1. Pos(chunk, j, b) >= m
      BY <1>1, <1>6, <2>2, <2>4, RelSequence DEF Pos
    <3> QED
      BY <2>2, <3>1
  <2> QED
    BY <2>1, <2>3, <2>4
<1>9. m <= -1 /\ m \in (-MaxChunk)..(-1)
  <2>1. h.iWrite[1] \in list /\ Pos(chunk, h.iWrite[1], b) = -1
    BY DEF Committed, Trees
  <2>2. m <= -1
    BY <1>8, <2>1
  <2>3. m \in (-MaxChunk)..(MaxChunk - 1)
    BY <1>6
  <2> HIDE DEF m
  <2> QED
    BY <1>1, <2>2, <2>3
<1>10. ASSUME NEW S \in SUBSET list
       PROVE  Rel(Add(chunk[k].iShmid, -1 - Cardinality(S)), b) < m
  <2>1. Cardinality(S) \in 0..MaxChunk
    <3>1. Cardinality(S) <= Cardinality(list) /\ Cardinality(S) \in Nat
      BY <1>3, FS_Subset, FS_CardinalityType
    <3> QED
      BY <1>1, <1>3, <3>1
  <2>2. m + (-1 - Cardinality(S)) \in (-2 * MaxShm)..(2 * MaxShm - 1)
    <3> HIDE DEF m
    <3> QED
      BY <1>9, <2>1, Sizes
  <2>3. m = Rel(chunk[k].iShmid, b) /\ chunk[k].iShmid \in Ids /\ -1 - Cardinality(S) \in Int
    BY <1>6, <2>1 DEF Pos
  <2>4. Rel(Add(chunk[k].iShmid, -1 - Cardinality(S)), b) = m + (-1 - Cardinality(S))
    BY <1>1, <2>2, <2>3, RelAdd
  <2> HIDE DEF m
  <2> QED
    BY <1>9, <2>1, <2>4
<1>11. ASSUME NEW i \in list
       PROVE  \/ RepairedList(h)[i].iShmid = chunk[i].iShmid
              \/ /\ Pos(RepairedList(h), i, b) < m
                 /\ (i = h.iFirst /\ k # h.iFirst) \/ Pos(chunk, i, b) >= 0
  <2>1. late \in SUBSET list /\ {j \in late : j < i} \in SUBSET list
    OBVIOUS
  <2>2. Rel(prev, b) < m
        /\ Rel(Add(chunk[k].iShmid, -1 - Cardinality({j \in late : j < i})), b) < m
    BY <1>7, <1>10, <2>1
  <2>3. i \in late => Pos(chunk, i, b) >= 0
    <3> SUFFICES ASSUME i \in late PROVE Pos(chunk, i, b) >= 0
      OBVIOUS
    <3>1. shm_sequence_ge(chunk[i].iShmid, b)
      OBVIOUS
    <3>2. Rel(b, b) = 0
      BY <1>1, RelZero
    <3>3. Rel(chunk[i].iShmid, b) - Rel(b, b) \in (-MaxShm)..(MaxShm - 1)
      BY <1>6, <3>2, Sizes DEF Pos
    <3>4. Rel(chunk[i].iShmid, b) >= Rel(b, b)
      BY <1>1, <1>6, <3>1, <3>3, RelSequence
    <3> QED
      BY <3>2, <3>4 DEF Pos
  <2>4. Pos(RepairedList(h), i, b) = Rel(fix.id[i], b)
    BY <1>5 DEF Pos
  <2> HIDE DEF fix, min, prev, late, m
  <2>5. CASE i = h.iFirst
    <3>1. fix.id[i] = IF min # h.iFirst THEN prev ELSE chunk[i].iShmid
      BY <1>4, <2>5
    <3> QED
      BY <1>5, <1>7, <2>2, <2>4, <2>5, <3>1
  <2>6. CASE i # h.iFirst /\ i \in late
    <3>1. fix.id[i] = Add(chunk[k].iShmid, -1 - Cardinality({j \in late : j < i}))
      BY <1>4, <1>7, <2>6
    <3> QED
      BY <2>2, <2>3, <2>4, <2>6, <3>1
  <2>7. CASE i # h.iFirst /\ i \notin late
    BY <1>4, <1>5, <2>7
  <2> QED
    BY <2>5, <2>6, <2>7
<1> HIDE DEF list, b, m
<1> QED
  BY <1>7, <1>8, <1>9, <1>11 DEF list, b, m

\* Every place of a whole list is taken.
LEMMA PlaceTaken ==
  ASSUME NEW ch \in ChunkMap, NEW b \in Ids, NEW n \in 2..(MaxChunk + 1),
         NEW lo \in Int, NEW hi \in Int, Places1(ch, n, lo, hi, b), NEW x \in lo..(hi - 1)
  PROVE  \E i \in 1..(n - 1) : Pos(ch, i, b) = x
<1> SUFFICES ASSUME \A i \in 1..(n - 1) : Pos(ch, i, b) # x
             PROVE  FALSE
  OBVIOUS
<1>1. \A i \in 1..(n - 1) : Pos(ch, i, b) \in Int
  BY DEF Places1
<1>2. \A i \in 1..(n - 1) : Pos(ch, i, b) < x + 1 <=> Pos(ch, i, b) < x
  BY <1>1
<1>3. {i \in 1..(n - 1) : Pos(ch, i, b) < x + 1} = {i \in 1..(n - 1) : Pos(ch, i, b) < x}
  BY <1>2
<1>4. x \in lo..hi /\ x + 1 \in lo..hi /\ x \in Int
  OBVIOUS
<1>5. /\ Cardinality({i \in 1..(n - 1) : Pos(ch, i, b) < x}) = x - lo
      /\ Cardinality({i \in 1..(n - 1) : Pos(ch, i, b) < x + 1}) = x + 1 - lo
  BY <1>4, CountBelow
<1>6. x - lo = x + 1 - lo
  BY <1>3, <1>5
<1> QED
  BY <1>4, <1>6

\* A repair whose list passes leaves the chunks that hold committed trees.
LEMMA RepairKeeps ==
  ASSUME NEW h \in Header, chunk \in ChunkMap, Committed(chunk, h), ListOk(h, RepairedList(h)),
         \A i, j \in 1..(h.nChunk - 1) : chunk[i].iShmid = chunk[j].iShmid => i = j,
         NEW i \in 1..(h.nChunk - 1), Pos(chunk, i, h.iNextShmid) <= -1
  PROVE  RepairedList(h)[i].iShmid = chunk[i].iShmid
<1> DEFINE n == h.nChunk
           b == h.iNextShmid
           list == 1..(n - 1)
           ch == RepairedList(h)
<1>1. /\ n \in 2..(MaxChunk + 1) /\ n \in Int /\ b \in Ids /\ list \subseteq Chunks
  BY HeaderType
<1>2. ch \in ChunkMap
  <2>1. n <= h.nChunk
    BY <1>1
  <2> QED
    BY <2>1, RepairType
<1>3. Places1(ch, n, 1 - n, 0, b)
  BY <1>2, ListOkPlaces
<1>4. /\ \A j \in list : Pos(ch, j, b) \in (1 - n)..(0 - 1)
      /\ \A j \in list : /\ chunk[j].iShmid \in Ids /\ Pos(chunk, j, b) \in Int
  BY <1>1, <1>3, PosType DEF Places1, ChunkMap
<1>5. PICK k \in list :
        /\ \A j \in list : Pos(chunk, k, b) <= Pos(chunk, j, b)
        /\ Pos(chunk, k, b) <= -1
        /\ \A j \in list :
             \/ ch[j].iShmid = chunk[j].iShmid
             \/ /\ Pos(ch, j, b) < Pos(chunk, k, b)
                /\ (j = h.iFirst /\ k # h.iFirst) \/ Pos(chunk, j, b) >= 0
  BY RepairedIdsAre
<1> HIDE DEF ch
<1> SUFFICES ASSUME ch[i].iShmid # chunk[i].iShmid
             PROVE  FALSE
  BY DEF ch
<1>6. i = h.iFirst /\ k # i
  BY <1>4, <1>5
<1>7. Pos(chunk, k, b) < Pos(chunk, i, b)
  <2>1. Pos(chunk, k, b) # Pos(chunk, i, b)
    BY <1>1, <1>4, <1>6, RelEq DEF Pos
  <2> QED
    BY <1>4, <1>5, <2>1
<1>8. ch[k].iShmid = chunk[k].iShmid
  BY <1>4, <1>5, <1>6
<1>9. Pos(chunk, i, b) \in (1 - n)..(0 - 1)
  <2>1. Pos(chunk, k, b) \in (1 - n)..(0 - 1)
    BY <1>4, <1>8 DEF Pos
  <2> QED
    BY <1>1, <1>4, <1>7, <2>1
<1>10. PICK j \in list : Pos(ch, j, b) = Pos(chunk, i, b)
  <2>1. 1 - n \in Int /\ 0 \in Int
    BY <1>1
  <2> QED
    BY <1>1, <1>2, <1>3, <1>9, <2>1, PlaceTaken
<1>11. ch[j].iShmid = chunk[j].iShmid
  BY <1>4, <1>5, <1>7, <1>10
<1>12. chunk[j].iShmid = chunk[i].iShmid
  BY <1>1, <1>4, <1>10, <1>11, RelEq DEF Pos
<1>13. j = i
  BY <1>12
<1> QED
  BY <1>11, <1>13

\* treeRepairPtrs() changes one cell.
LEMMA RepairPtrsMem ==
  ASSUME MemTypes, NEW h \in Header
  PROVE  /\ treeRepairPtrs(h) \in MemMap
         /\ \A q \in Cell :
              Cel(treeRepairPtrs(h), q) =
                IF q = h.root /\ Cel(mem, q).iV2 > h.trans THEN Unv2(Cel(mem, q))
                ELSE Cel(mem, q)
<1>1. mem \in MemMap /\ h.root \in {Null} \cup Cell /\ \A q \in Cell : q # Null
  BY HeaderType, CellType DEF MemTypes, Ptr
<1>2. CASE h.root # Null /\ Cel(mem, h.root).iV2 > h.trans
  <2>1. h.root \in Cell /\ Cel(mem, h.root) \in CellRec
    BY <1>1, <1>2, CelType
  <2>2. treeRepairPtrs(h) = Put(mem, h.root, Unv2(Cel(mem, h.root)))
    BY <1>2 DEF treeRepairPtrs, Put, Unv2, Cel, At
  <2>3. Unv2(Cel(mem, h.root)) \in CellRec
    BY <2>1, Unv2Cell
  <2> QED
    BY <1>1, <1>2, <2>1, <2>2, <2>3, StoreCell
<1>3. CASE ~(h.root # Null /\ Cel(mem, h.root).iV2 > h.trans)
  <2>1. treeRepairPtrs(h) = mem
    BY <1>3 DEF treeRepairPtrs, Cel, At
  <2> QED
    BY <1>1, <1>3, <2>1
<1> QED
  BY <1>2, <1>3

LEMMA RepairMem ==
  ASSUME Inv, Inv', MemInv, NEW c \in Conn, Repair(c)
  PROVE  MemInv'
<1> DEFINE h == hdr[c]
           list == RepairedList(h)
           misled == h # Good \/ BehindEnd(h) \/ ~treeCheckLinkedList(h, list)
<1>1. /\ pc[c] = "reading" /\ pc[c] \in ReaderPcs /\ writer = None
      /\ Types /\ Main /\ MemTypes /\ MemMain /\ GoodPlaced
  BY NotWriting DEF Repair, ReaderPcs
<1>2. /\ hdr1' = Good /\ hdr2' = Good /\ chunk' = list /\ mem' = treeRepairPtrs(h)
      /\ bWriter' = ~treeCheckLinkedList(h, list)
      /\ IF misled THEN pc' = [d \in Conn |-> "lost"] ELSE pc' = pc
      /\ UNCHANGED <<snap, hdr, client, writer, slot, iReader, rlock, stale>>
  BY DEF Repair, Good, lockVars, transVars, boundVars
<1>3. /\ Good \in Header /\ Good # Torn /\ h \in Header /\ chunk \in ChunkMap
      /\ Committed(chunk, Good)
      /\ \A d \in Conn : pc[d] \in ReaderPcs
  BY <1>1, GoodType, InitHeaders, NoneNotConn DEF Types, HeaderTypes, Main
<1>4. /\ mem' \in MemMap
      /\ \A q \in Cell :
           Cel(mem', q) = IF q = h.root /\ Cel(mem, q).iV2 > h.trans THEN Unv2(Cel(mem, q))
                          ELSE Cel(mem, q)
  BY <1>1, <1>2, <1>3, RepairPtrsMem
<1>5. h = Good /\ treeCheckLinkedList(h, list) => ListOk(h, list)
  BY <1>3, RepairPasses
<1>6. MemTypes'
  <2>1. ASSUME NEW q \in Cell, Cel(mem', q).iV2 # 0
        PROVE  Cel(mem', q).iV2Child \in Sub
    <3>1. Cel(mem, q) \in CellRec
      BY <1>1, CelType DEF MemTypes
    <3>2. Unv2(Cel(mem, q)).iV2 = 0
      BY <3>1, Unv2Cell
    <3>3. Cel(mem', q) = Cel(mem, q)
      BY <1>4, <2>1, <3>2
    <3> QED
      BY <1>1, <2>1, <3>3 DEF MemTypes
  <2> QED
    BY <1>4, <2>1 DEF MemTypes
<1>7. CASE misled
  <2>1. IsLost'
    BY <1>2, <1>7 DEF IsLost
  <2> QED
    BY <1>6, <2>1 DEF MemInv
<1>8. CASE ~misled
  <2>1. h = Good /\ ListOk(Good, list) /\ pc' = pc /\ bWriter' = FALSE /\ list \in ChunkMap
    <3>1. chunk' \in ChunkMap
      BY DEF Inv, Types
    <3> QED
      BY <1>2, <1>5, <1>8, <3>1
  <2>2. Good' = Good
    BY <1>2, <1>3 DEF Good
  <2>3. ~Alive' /\ ~AtEnd' /\ ~Alive /\ ~AtEnd
    BY <1>1, <1>2 DEF Alive, AtEnd
  <2>4. GoodPlaced'
    BY <1>1, <2>1, NextMain DEF ReaderPcs
  <2> DEFINE b == Good.iNextShmid
             n == Good.nChunk
             w == Good.iWrite
  <2>5. ASSUME NEW i \in 1..(n - 1), Pos(chunk, i, b) <= -1
        PROVE  list[i].iShmid = chunk[i].iShmid
    BY <1>1, <1>3, <2>1, <2>5, RepairKeeps DEF MemMain, GoodMem
  <2> HIDE DEF list, h, misled
  <2>6. ASSUME NEW L, Guarded(L)
        PROVE  /\ Reg(Good, L) \subseteq Region(list, n, L, w)
               /\ \A j \in 1..(n - 1) : chunk[j].iShmid = L => list[j].iShmid = L
    <3>1. Placed(chunk, n, L, w, b)
      BY <1>1, <2>6, GoodRegion
    <3>2. Near(list, n, b)
      BY <1>2, <2>2, <2>4 DEF GoodPlaced, HeaderPlaced, Near, Pos
    <3>3. Placed(list, n, L, w, b)
      BY <2>1, <3>1, <3>2 DEF Placed
    <3>4. /\ Pos(chunk, w[1], b) = -1 /\ Pos(list, w[1], b) = -1
          /\ w[2] \in Nat /\ w[1] \in 1..(n - 1) /\ Rel(L, b) \in (-MaxChunk)..(-1)
      BY <1>1, <1>2, <2>2, <2>4, <2>6 DEF GoodPlaced, HeaderPlaced, Guarded, Pos
    <3>5. \A i \in 1..(n - 1) : InRegion(chunk, n, L, w, b, i) =>
            i < n /\ list[i].iShmid = chunk[i].iShmid
      <4> SUFFICES ASSUME NEW i \in 1..(n - 1), InRegion(chunk, n, L, w, b, i)
                   PROVE  i < n /\ list[i].iShmid = chunk[i].iShmid
        OBVIOUS
      <4>1. Pos(chunk, i, b) <= -1
        BY <3>4 DEF InRegion
      <4>2. i < n
        BY <3>1 DEF Placed
      <4> QED
        BY <2>5, <4>1, <4>2
    <3>6. Region(chunk, n, L, w) \subseteq Region(list, n, L, w)
      <4>1. /\ Rel(L, b) <= Rel(L, b) /\ w[2] <= w[2]
            /\ Pos(chunk, w[1], b) <= Pos(list, w[1], b)
        BY <3>4, Sizes
      <4> HIDE DEF b, n, w
      <4> QED
        BY <3>1, <3>3, <3>4, <3>5, <4>1, RegionGrows
    <3>7. ASSUME NEW j \in 1..(n - 1), chunk[j].iShmid = L
          PROVE  list[j].iShmid = L
      <4>1. Pos(chunk, j, b) <= -1
        BY <3>4, <3>7 DEF Pos
      <4> QED
        BY <2>5, <3>7, <4>1
    <3> QED
      BY <3>6, <3>7 DEF Reg
  <2>7. \A q \in Cell : Cel(mem', q) = IF q = Good.root /\ Cel(mem, q).iV2 > Good.trans
                                        THEN Unv2(Cel(mem, q)) ELSE Cel(mem, q)
    BY <1>4, <2>1
  <2>8. \A r, t : Clear(r, t) => Clear(r, t)'
    BY <2>2, <2>3 DEF Clear
  <2>9. ASSUME NEW L, Guarded(L), NEW r, NEW t \in Nat, NEW cur,
               Tree(mem, r, t, cur, Reg(Good, L)), Clear(r, t)
        PROVE  Tree(mem', r, t, cur, Region(list, n, L, w))
    <3>1. \A p \in Reg(Good, L) : p \in Cell
      BY DEF Reg, Region
    <3>2. \A p \in Reg(Good, L) : /\ Cel(mem', p).node = Cel(mem, p).node
                                  /\ Cel(mem', p).val = Cel(mem, p).val
      <4> SUFFICES ASSUME NEW p \in Reg(Good, L)
                   PROVE  /\ Cel(mem', p).node = Cel(mem, p).node
                          /\ Cel(mem', p).val = Cel(mem, p).val
        OBVIOUS
      <4>1. p \in Cell /\ Cel(mem, p) \in CellRec
        BY <1>1, <3>1, CelType DEF MemTypes
      <4> QED
        BY <2>7, <4>1, Unv2Cell
    <3>3. r \in Reg(Good, L) =>
            \A k \in Sub : getChildPtr(Cel(mem', r), t, k) = getChildPtr(Cel(mem, r), t, k)
      <4> SUFFICES ASSUME r \in Reg(Good, L), Cel(mem', r) # Cel(mem, r)
                   PROVE  \A k \in Sub : getChildPtr(Cel(mem', r), t, k)
                                           = getChildPtr(Cel(mem, r), t, k)
        OBVIOUS
      <4> DEFINE x == Cel(mem, r)
                 y == Cel(mem', r)
      <4>1. r \in Cell /\ x \in CellRec /\ x.iV2 \in Nat /\ r # Null
        BY <1>1, <3>1, CelType, CellType DEF MemTypes
      <4>2. r = Good.root /\ x.iV2 > Good.trans /\ y = Unv2(x)
        BY <2>7, <4>1
      <4>3. t <= Good.trans /\ Good.trans \in Nat
        BY <1>3, <2>9, <4>1, <4>2, HeaderType DEF Clear
      <4>4. y.child = x.child /\ y.iV2 = 0 /\ ~(x.iV2 <= t)
        <5>1. y.child = x.child /\ y.iV2 = 0
          BY <4>1, <4>2, Unv2Cell
        <5> HIDE DEF x, y
        <5> QED
          BY <4>1, <4>2, <4>3, <5>1
      <4> HIDE DEF x, y
      <4>5. \A k \in Sub : getChildPtr(y, t, k) = getChildPtr(x, t, k)
        BY <4>4, SameVersion
      <4> QED
        BY <4>5 DEF x, y
    <3> HIDE DEF n, w
    <3> QED
      BY <2>6, <2>9, <3>2, <3>3, TreeKept
  <2>10. \A L : Reg(Good, L)' = Region(list, n, L, w)
    BY <1>2, <2>2 DEF Reg
  <2>11. HeaderMem(Good)'
    <3> DEFINE old == HasOld(Good) /\ ~OldFlushed(Good, snap)
    <3>1. /\ Good.trans \in Nat /\ Good.oldtrans \in Nat
          /\ Guarded(LiveUsed(Good)) /\ Guarded(Good.iUsedShmid)
      BY <1>1, <1>3, GoodGuarded DEF Header
    <3>2. /\ Tree(mem, Good.root, Good.trans, Good.cur, Reg(Good, LiveUsed(Good)))
          /\ old => /\ Tree(mem, Good.oldroot, Good.oldtrans, Good.oldcur,
                            Reg(Good, Good.iUsedShmid))
                    /\ Clear(Good.oldroot, Good.oldtrans)
      BY <1>1 DEF MemMain, GoodMem, HeaderMem
    <3>3. Clear(Good.root, Good.trans)
      BY <2>3, <3>1 DEF Clear
    <3>4. Tree(mem', Good.root, Good.trans, Good.cur, Region(list, n, LiveUsed(Good), w))
      BY <2>9, <3>1, <3>2, <3>3
    <3>5. old => Tree(mem', Good.oldroot, Good.oldtrans, Good.oldcur,
                      Region(list, n, Good.iUsedShmid, w))
      BY <2>9, <3>1, <3>2
    <3>6. LiveUsed(Good)' = LiveUsed(Good) /\ snap' = snap
      BY <1>2, <2>2 DEF LiveUsed, HasOld
    <3> QED
      BY <2>2, <1>2, <3>4, <3>5, <3>6 DEF HeaderMem, Reg
  <2>12. GoodMem'
    <3>1. HasOld(Good) /\ ~OldFlushed(Good, snap) => Clear(Good.oldroot, Good.oldtrans)'
      <4>1. PICK r, t : r = Good.oldroot /\ t = Good.oldtrans
        OBVIOUS
      <4>2. HasOld(Good) /\ ~OldFlushed(Good, snap) => Clear(r, t)
        BY <1>1, <4>1 DEF MemMain, GoodMem
      <4>3. HasOld(Good) /\ ~OldFlushed(Good, snap) => Clear(r, t)'
        BY <2>8, <4>2
      <4> QED
        BY <2>2, <4>1, <4>3 DEF Clear
    <3>2. Good.root # Null => Cel(mem', Good.root).iV2 <= Good.trans
      <4> SUFFICES ASSUME Good.root # Null
                   PROVE  Cel(mem', Good.root).iV2 <= Good.trans
        OBVIOUS
      <4>1. Good.root \in Cell /\ Good.trans \in Nat
        BY <1>3, HeaderType DEF Ptr
      <4>2. Cel(mem, Good.root) \in CellRec /\ Cel(mem, Good.root).iV2 \in Nat
        BY <1>1, <4>1, CelType DEF MemTypes
      <4>3. Unv2(Cel(mem, Good.root)).iV2 = 0
        BY <4>2, Unv2Cell
      <4> QED
        BY <2>7, <4>1, <4>2, <4>3
    <3>3. \A i, j \in 1..(n - 1) : list[i].iShmid = list[j].iShmid => i = j
      BY <1>3, <2>1, ListDistinct
    <3> QED
      BY <1>2, <2>2, <2>11, <3>1, <3>2, <3>3 DEF GoodMem, Clear
  <2>13. SnapInv'
    BY <1>1, <1>2, <2>1, <2>2 DEF MemMain, SnapInv
  <2>14. ASSUME NEW d \in Conn, Holds(d)'
         PROVE  ReaderMem(d)'
    <3>1. Holds(d) /\ pc[d] = "reading"
      BY <1>2, <1>3, <2>1, <2>14 DEF Holds, ReaderPcs, AlivePcs, EndPcs
    <3>2. ReaderMem(d) /\ SlotInv(d)
      BY <1>1, <3>1 DEF MemMain, ReaderMem
    <3>3. PICK L : L = Tid(d)
      OBVIOUS
    <3>4. Guarded(L)
      BY <1>1, <3>2, <3>3, HolderGuarded
    <3>5. Tid(d)' = L /\ SlotInv(d)'
      BY <1>2, <2>2, <2>6, <3>2, <3>3, <3>4 DEF SlotInv, Tid
    <3>6. ASSUME NEW r, NEW t \in Nat, NEW cur, Kept(r, t, cur, L)
          PROVE  Kept(r, t, cur, L)'
      <4>1. Tree(mem', r, t, cur, Region(list, n, L, w))
        BY <2>9, <3>4, <3>6 DEF Kept
      <4> QED
        BY <2>8, <2>10, <3>6, <4>1 DEF Kept
    <3>7. PICK r, t, cur, ro, to, co :
            /\ r = hdr[d].root /\ t = hdr[d].trans /\ cur = hdr[d].cur
            /\ ro = hdr[d].oldroot /\ to = hdr[d].oldtrans /\ co = hdr[d].oldcur
      OBVIOUS
    <3>8. t \in Nat /\ to \in Nat
      <4>1. hdr[d] \in Header
        BY <1>1 DEF Types, HeaderTypes
      <4> QED
        BY <3>7, <4>1 DEF Header
    <3>9. /\ Kept(r, t, cur, L)
          /\ HasOld(hdr[d]) /\ ~OldFlushed(hdr[d], client[d]) => Kept(ro, to, co, L)
      BY <3>1, <3>2, <3>3, <3>7 DEF ReaderMem, EndPcs
    <3>10. /\ Kept(r, t, cur, L)'
           /\ HasOld(hdr[d]) /\ ~OldFlushed(hdr[d], client[d]) => Kept(ro, to, co, L)'
      BY <3>6, <3>8, <3>9
    <3>11. pc'[d] = "reading" /\ hdr'[d] = hdr[d] /\ client'[d] = client[d]
      BY <1>2, <2>1, <3>1
    <3> QED
      BY <3>5, <3>7, <3>10, <3>11 DEF ReaderMem, Kept, Clear, EndPcs
  <2> QED
    BY <1>6, <2>3, <2>12, <2>13, <2>14 DEF MemInv, MemMain
<1> QED
  BY <1>7, <1>8

----------------------------------------------------------------------------
(* The theorems.                                                            *)

LEMMA InitMem == Init => MemInv
<1> SUFFICES ASSUME Init PROVE MemInv
  OBVIOUS
<1>1. Inv
  BY InitInv
<1>2. /\ hdr1 \in {InitHeader, AgedHeader} /\ hdr1 # Torn /\ Good = hdr1 /\ hdr2 = hdr1
      /\ writer = None /\ bWriter = FALSE /\ snap = 1
      /\ \A c \in Conn : pc[c] = "idle" /\ client[c] = 0
      /\ mem = [i \in Chunks |-> [j \in 1..Room |-> Leaf(0)]]
  BY InitHeaders DEF Init, Good
<1>3. /\ Good.root = Null /\ Good.cur = Empty /\ ~HasOld(Good) /\ Good.iOldLog = 1
  <2> DEFINE ok(h) == h.root = Null /\ h.cur = Empty /\ h.iOldShmid = 0 /\ h.iOldLog = 1
  <2>1. ok(InitHeader)
    BY DEF InitHeader
  <2>2. InitHeader \in Header
    BY InitHeaders
  <2>3. ok(AgedHeader)
    BY <2>1, <2>2 DEF AgedHeader, Header
  <2>4. ok(Good)
    <3> HIDE DEF ok
    <3> QED
      BY <1>2, <2>1, <2>3
  <2> QED
    BY <2>4 DEF HasOld
<1>4. ~Alive /\ ~AtEnd
  BY <1>2 DEF Alive, AtEnd
<1>5. MemTypes
  <2>1. Leaf(0) \in CellRec /\ Leaf(0).iV2 = 0
    BY LeafType
  <2>2. mem \in MemMap
    BY <1>2, <2>1 DEF MemMap
  <2>3. \A p \in Cell : Cel(mem, p) = Leaf(0)
    BY <1>2, CellType DEF Cel
  <2> QED
    BY <2>1, <2>2, <2>3 DEF MemTypes
<1>6. CASE IsLost
  BY <1>5, <1>6 DEF MemInv
<1>7. CASE ~IsLost
  <2>1. Types /\ Main
    BY <1>1, <1>7 DEF Inv
  <2>2. Good \in Header /\ chunk \in ChunkMap /\ ListOk(Good, chunk)
    BY <1>2, <2>1, GoodType DEF Types, HeaderTypes, Main
  <2>3. \A i, j \in 1..(Good.nChunk - 1) : chunk[i].iShmid = chunk[j].iShmid => i = j
    BY <2>2, ListDistinct
  <2>4. GoodMem
    BY <1>2, <1>3, <2>3 DEF GoodMem, HeaderMem, Tree
  <2>5. SnapInv
    BY <1>2, <1>3 DEF SnapInv
  <2>6. \A c \in Conn : ~Holds(c)
    BY <1>2 DEF Holds, AlivePcs, EndPcs
  <2> QED
    BY <1>4, <1>5, <2>4, <2>5, <2>6 DEF MemInv, MemMain
<1> QED
  BY <1>6, <1>7

LEMMA SameMem == MemInv /\ UNCHANGED vars => MemInv'
<1> SUFFICES ASSUME MemInv, UNCHANGED vars PROVE MemInv'
  OBVIOUS
<1>1. UNCHANGED <<chunk, mem, hdr1, hdr2, bWriter, slot, iReader, rlock, stale, snap, pc, hdr,
                  client, writer, marks, rollback, pend, bDiscardOld, nWrite>>
  BY DEF vars, shmVars, lockVars, transVars, boundVars
<1>2. /\ Good' = Good /\ treehdr' = treehdr /\ Top' = Top /\ (IsLost' <=> IsLost)
      /\ (Alive' <=> Alive) /\ (AtEnd' <=> AtEnd) /\ (MemTypes' <=> MemTypes)
      /\ pc'[writer'] = pc[writer]
  BY <1>1 DEF Good, treehdr, Top, IsLost, Alive, AtEnd, MemTypes
<1>3. WorkRoots' = WorkRoots
  BY <1>1, <1>2 DEF WorkRoots
<1>4. \A r, t : Clear(r, t)' <=> Clear(r, t)
  BY <1>1, <1>2, <1>3 DEF Clear
<1>5. \A H : HeaderMem(H)' <=> HeaderMem(H)
  BY <1>1 DEF HeaderMem, Reg
<1>6. MemMain => MemMain'
  <2> SUFFICES ASSUME MemMain PROVE MemMain'
    OBVIOUS
  <2>1. GoodMem'
    BY <1>1, <1>2, <1>4, <1>5 DEF MemMain, GoodMem
  <2>2. SnapInv'
    BY <1>1, <1>2 DEF MemMain, SnapInv
  <2>3. ASSUME NEW d \in Conn, Holds(d)'
        PROVE  ReaderMem(d)'
    <3>1. Holds(d)
      BY <1>1, <2>3 DEF Holds
    <3>2. ReaderMem(d) /\ Tid(d)' = Tid(d)
      BY <1>1, <3>1 DEF MemMain, Tid
    <3>3. SlotInv(d)'
      BY <1>1, <1>2, <3>2 DEF ReaderMem, SlotInv
    <3> QED
      BY <1>1, <1>2, <1>4, <3>2, <3>3 DEF ReaderMem, Kept, ClearEnd, Reg
  <2>4. Alive => AliveMem'
    <3> SUFFICES ASSUME Alive PROVE AliveMem'
      OBVIOUS
    <3>1. AliveMem
      BY DEF MemMain
    <3>2. \A k : Since(k)' = Since(k) /\ MarkCell(k)' = MarkCell(k)
      BY <1>1 DEF Since, MarkCell
    <3>3. \A w : WorkReg(w)' = WorkReg(w)
      BY <1>1, <1>2 DEF WorkReg
    <3>4. \A k \in 1..Top : MarkMem(k)'
      <4> SUFFICES ASSUME NEW k \in 1..Top PROVE MarkMem(k)'
        OBVIOUS
      <4>1. MarkMem(k)
        BY <3>1 DEF AliveMem
      <4> QED
        BY <1>1, <1>2, <3>2, <3>3, <4>1 DEF MarkMem
    <3>5. OldKept' /\ RollbackInv'
      BY <1>1, <1>2, <3>1 DEF AliveMem, OldKept, RollbackInv
    <3>6. pc[writer] # "rollback" => WorkMem'
      BY <1>1, <1>2, <3>1, <3>3 DEF AliveMem, WorkMem
    <3>7. pc[writer] \in {"copy", "linkcopy"} => LeafMem'
      BY <1>1, <1>2, <3>1, <3>3 DEF AliveMem, LeafMem
    <3> QED
      BY <1>1, <1>2, <3>1, <3>4, <3>5, <3>6, <3>7 DEF AliveMem
  <2>5. AtEnd => EndMem'
    BY <1>1, <1>2, <1>5 DEF MemMain, EndMem, ClearEnd
  <2> QED
    BY <1>2, <2>1, <2>2, <2>3, <2>4, <2>5 DEF MemMain
<1> QED
  BY <1>2, <1>6 DEF MemInv

LEMMA NextMem == Inv /\ MemInv /\ [Next]_vars => MemInv'
<1> SUFFICES ASSUME Inv, MemInv, [Next]_vars PROVE MemInv'
  OBVIOUS
<1>1. Inv'
  BY NextInv
<1>2. CASE UNCHANGED vars
  BY <1>2, SameMem
<1>3. CASE Next
  <2>1. CASE Lost
    BY <2>1, SameMem DEF Lost
  <2>2. CASE FlushOld
    BY <1>1, <2>2, FlushOldMem
  <2>3. ASSUME NEW c \in Conn,
               \/ LoadHeader(c) \/ Readlock(c) \/ FinishReadTrans(c)
               \/ Repair(c) \/ BeginWriteTrans(c)
        PROVE  MemInv'
    BY <1>1, <2>3, LoadHeaderMem, ReadlockMem, FinishReadTransMem, RepairMem,
       BeginWriteTransMem
  <2>4. ASSUME NEW c \in Conn,
               \/ BeginNested(c) \/ ShmallocChunk(c) \/ ShmallocLink(c)
               \/ InsertCopy(c)
               \/ (\E k \in Sub : InsertV2(c, k) \/ InsertLeaf(c, k))
        PROVE  MemInv'
    BY <1>1, <2>4, BeginNestedMem, ShmallocChunkMem, ShmallocLinkMem, InsertCopyMem,
       InsertV2Mem, InsertLeafMem
  <2>5. ASSUME NEW c \in Conn,
               \/ (\E iLevel \in 0..Len(marks) : RollbackPtrs(c, iLevel))
               \/ RollbackFree(c) \/ RollbackNested(c) \/ RollbackAll(c)
               \/ CommitNested(c) \/ Commit(c)
               \/ EndHdr1(c) \/ EndTransaction(c)
               \/ Die(c)
        PROVE  MemInv'
    BY <1>1, <2>5, RollbackPtrsMem, RollbackFreeMem, RollbackNestedMem, RollbackAllMem,
       CommitNestedMem, CommitMem, EndHdr1Mem, EndTransactionMem, DieMem
  <2> QED
    BY <1>3, <2>1, <2>2, <2>3, <2>4, <2>5 DEF Next
<1> QED
  BY <1>2, <1>3

LEMMA SpecMem == Spec => [](Inv /\ MemInv)
<1>1. Init => Inv /\ MemInv
  BY InitInv, InitMem
<1>2. (Inv /\ MemInv) /\ [Next]_vars => (Inv /\ MemInv)'
  BY NextInv, NextMem
<1> QED
  BY <1>1, <1>2, PTL DEF Spec

\* The tree-header in shared memory describes, at every moment of the next
\* write transaction, of its rollback and after the death of its writer, memory
\* that holds what its own transaction wrote: treeShmalloc() recycles no chunk
\* of its trees, no v2 pointer of a later version shows in them, and what
\* treeRepairPtrs() and treeRepairList() change of a dead writer's leaves them.
THEOREM TreeCommittedIntact == Spec => []CommittedIntact
<1>1. Inv /\ MemInv => CommittedIntact
  <2> SUFFICES ASSUME Inv, MemInv, hdr1 # Torn, ~IsLost
               PROVE  Intact(hdr1, snap)
    BY DEF CommittedIntact
  <2>1. Good = hdr1 /\ HeaderMem(Good) /\ Good \in Header
    BY GoodType DEF Inv, Types, MemInv, MemMain, GoodMem, Good
  <2>2. hdr1.cur \in [Sub -> Nat] /\ hdr1.oldcur \in [Sub -> Nat]
    BY <2>1 DEF Header
  <2>3. View(hdr1.root, hdr1.trans) = hdr1.cur
    BY <2>1, <2>2, TreeView DEF HeaderMem
  <2>4. HasOld(hdr1) /\ ~OldFlushed(hdr1, snap) =>
          View(hdr1.oldroot, hdr1.oldtrans) = hdr1.oldcur
    BY <2>1, <2>2, TreeView DEF HeaderMem
  <2> QED
    BY <2>3, <2>4 DEF Intact
<1> QED
  BY <1>1, SpecMem, PTL

\* A read transaction that holds the lock of lsmReadlock() on a slot reads its
\* own version of the trees for as long as it lasts, whatever writers
\* recycle, change, roll back, publish or leave behind: isInUse() keeps every
\* chunk from the slot's tree id on, and a node it can reach changes only in a
\* v2 pointer newer than its version.
THEOREM TreeReadersIntact == Spec => []TreeReaderIntact
<1>1. Inv /\ MemInv => TreeReaderIntact
  <2> SUFFICES ASSUME Inv, MemInv, NEW c \in Conn,
                      pc[c] = "reading", iReader[c] \in rlock[c], c \notin stale
               PROVE  Intact(hdr[c], client[c])
    BY DEF TreeReaderIntact
  <2>1. Types /\ MemMain
    BY NotLost DEF MemInv, IsLost
  <2>2. ReaderMem(c) /\ hdr[c] \in Header
    BY <2>1 DEF Holds, MemMain, Types, HeaderTypes
  <2>3. hdr[c].cur \in [Sub -> Nat] /\ hdr[c].oldcur \in [Sub -> Nat]
    BY <2>2 DEF Header
  <2>4. View(hdr[c].root, hdr[c].trans) = hdr[c].cur
    BY <2>2, <2>3, TreeView DEF ReaderMem, Kept
  <2>5. HasOld(hdr[c]) /\ ~OldFlushed(hdr[c], client[c]) =>
          View(hdr[c].oldroot, hdr[c].oldtrans) = hdr[c].oldcur
    BY <2>2, <2>3, TreeView DEF ReaderMem, Kept, EndPcs
  <2> QED
    BY <2>4, <2>5 DEF Intact
<1> QED
  BY <1>1, SpecMem, PTL
=============================================================================
