------------------------------ MODULE LsmTree ------------------------------
(***************************************************************************)
(* The in-memory tree of LSMoVe in shared memory (src/LSMoVe/src/lsm_tree.c *)
(* and the write transactions of lsm_shared.c): the chunks of the "-shm"    *)
(* file and their sequence ids, the allocator that recycles them, the node  *)
(* with its "v2" child pointer, marks and rollback, the two copies of the   *)
(* tree-header, the old tree that is flushed and discarded, and the repair  *)
(* after a writer that died.                                                *)
(*                                                                          *)
(* The tree is one interior node over one leaf per subtree (a member of     *)
(* Sub); what splitting and joining nodes does is in LsmBtree.  A leaf or   *)
(* a node fills one of the Room cells of a chunk.  A header carries the     *)
(* content that its transaction gave the trees (cur, oldcur), which no      *)
(* action reads: it is what the memory is compared with.                    *)
(***************************************************************************)
EXTENDS Integers, Sequences, FiniteSets

CONSTANTS
  Conn,            \* connections
  Writers,         \* those that open write transactions
  Mortal,          \* those whose process may die
  Sub,             \* subtrees below the interior node
  NReader,         \* LSM_LOCK_NREADER, read-lock slots
  Room,            \* cells of a chunk
  MaxChunk,        \* bound: chunks 1..MaxChunk beside the header chunk
  ShmidMod,        \* 2^32 in the code: a shm-id is a u32
  MaxShm,          \* LSM_MAX_SHMCHUNKS, 2^30 in the code
  Levels,          \* bound: nested transactions
  MaxWrite,        \* bound: values written
  MaxTrans,        \* bound: write transactions that end
  MaxDeath         \* bound: deaths

None == "none"

ASSUME TreeAssumption ==
  /\ Mortal \subseteq Conn /\ Writers \subseteq Conn /\ None \notin Conn \cup Sub
  /\ {NReader, Room, MaxChunk, Levels, MaxShm} \subseteq Nat \ {0}
  /\ {MaxWrite, MaxTrans, MaxDeath} \subseteq Nat
  /\ ShmidMod = 4 * MaxShm /\ 2 <= MaxChunk /\ 2 * MaxChunk <= MaxShm

Null == <<0, 0>>                    \* no offset
Chunks == 1..MaxChunk

VARIABLES
  chunk,           \* ShmChunk of every chunk: iShmid, iNext
  mem,             \* the cells of every chunk
  hdr1, hdr2,      \* ShmHeader.hdr1, hdr2
  bWriter,         \* ShmHeader.bWriter
  slot,            \* ShmHeader.aReader[]
  snap,            \* id of the snapshot in shared memory
  pc,              \* where each connection is
  hdr,             \* lsm_db.treehdr of each connection
  iReader,         \* lsm_db.iReader, 0 for -1
  rlock,           \* slots each connection holds a SHARED lock on
  stale,           \* those whose slot named no chunk any more when they locked it
  client,          \* id of the snapshot of the read transaction
  writer,          \* connection with the WRITER lock, or None
  marks,           \* lsm_db.aTrans[] of the writer
  rollback,        \* lsm_db.rollback of the writer
  pend,            \* the leaf or chunk the writer has not linked yet
  bDiscardOld,     \* lsm_db.bDiscardOld of the writer
  nWrite, nTrans, nDeath

shmVars == <<chunk, mem, hdr1, hdr2, bWriter>>
lockVars == <<slot, iReader, rlock, stale>>
transVars == <<marks, rollback, pend, bDiscardOld>>
boundVars == <<nWrite, nTrans, nDeath>>
vars == <<shmVars, lockVars, snap, pc, hdr, client, writer, transVars,
          boundVars>>

----------------------------------------------------------------------------
(* Shared-memory ids and nodes.                                             *)

Add(id, n) == (id + n) % ShmidMod

shm_sequence_ge(a, b) == (a - b) % ShmidMod < MaxShm

Leaf(v) == [node |-> FALSE, val |-> v, child |-> [k \in Sub |-> Null],
            iV2 |-> 0, iV2Child |-> None, iV2Ptr |-> Null]
Node(child) == [node |-> TRUE, val |-> 0, child |-> child,
                iV2 |-> 0, iV2Child |-> None, iV2Ptr |-> Null]

At(p) == mem[p[1]][p[2]]

getChildPtr(p, iVersion, k) ==
  IF p.iV2 # 0 /\ p.iV2 <= iVersion /\ k = p.iV2Child THEN p.iV2Ptr ELSE p.child[k]

\* Every subtree pointer of the working version (WORKING_VERSION).
WorkingChildren(p) ==
  IF p.iV2 = 0 THEN p.child ELSE [p.child EXCEPT ![p.iV2Child] = p.iV2Ptr]

\* What a cursor of version iTransId finds below iRoot; -1 where the memory
\* no longer holds a node or a leaf.
View(iRoot, iTransId) ==
  [k \in Sub |->
    IF iRoot = Null THEN 0
    ELSE IF ~At(iRoot).node THEN -1
    ELSE LET p == getChildPtr(At(iRoot), iTransId, k)
         IN  IF p = Null THEN 0 ELSE IF At(p).node THEN -1 ELSE At(p).val]

NoPend == [leaf |-> Null, sub |-> None, chunk |-> 0, iLevel |-> 0]

Empty == [k \in Sub |-> 0]

\* lsmTreeInit()
InitHeader ==
  [root |-> Null, trans |-> 1, iWrite |-> <<1, 0>>, iFirst |-> 1, nChunk |-> 2,
   iNextShmid |-> 2, iUsedShmid |-> 1, iOldShmid |-> 0, iOldLog |-> 1,
   oldroot |-> Null, oldtrans |-> 0, cur |-> Empty, oldcur |-> Empty]

\* After many transactions: the last old tree is flushed and discarded, the
\* live tree empty; the first of two chunks is free and ids are about to wrap.
AgedHeader ==
  [InitHeader EXCEPT !.trans = 2, !.iWrite = <<2, 1>>, !.nChunk = 3,
                     !.iNextShmid = 0, !.iUsedShmid = ShmidMod - 1]

\* A header in the middle of a memcpy(): its checksum does not match.
Torn == [InitHeader EXCEPT !.trans = 0]

treehdr == hdr[writer]
Writing(c, at) == writer = c /\ pc[c] = at
Goto(c, at) == pc' = [pc EXCEPT ![c] = at]
SetHeader(c, h) == hdr' = [hdr EXCEPT ![c] = h]

\* Without a read transaction the private header and snapshot are not used:
\* the next one loads them again.
Forget(c) ==
  /\ Goto(c, "idle")
  /\ SetHeader(c, InitHeader)
  /\ client' = [client EXCEPT ![c] = 0]

----------------------------------------------------------------------------
(* Read transactions.                                                       *)

\* lsmTreeLoadHeader() and the snapshot of lsmBeginReadTrans()
LoadHeader(c) ==
  /\ pc[c] = "idle"
  /\ ~(hdr1 = Torn /\ hdr2 = Torn)
  /\ SetHeader(c, IF hdr1 # Torn THEN hdr1 ELSE hdr2)
  /\ client' = [client EXCEPT ![c] = snap]
  /\ Goto(c, "loaded")
  /\ UNCHANGED <<shmVars, lockVars, snap, writer, transVars, boundVars>>

\* Slots connection c can lock EXCLUSIVE: its own lock does not conflict.
Lockable(c, i) == \A d \in Conn \ {c} : i \notin rlock[d]

slotIsUsable(s, iLsm, iShmMin, iShmMax) ==
  /\ s.iLsmId # 0 /\ s.iLsmId <= iLsm
  /\ shm_sequence_ge(iShmMax, s.iTreeId) /\ shm_sequence_ge(s.iTreeId, iShmMin)

First(S) == CHOOSE i \in S : \A j \in S : i <= j

\* lsmReadlock(): an exact match, a slot nobody holds, or a usable one;
\* then lsmBeginReadTrans() checks that header and snapshot are unchanged.
Readlock(c) ==
  LET iLsm == client[c]
      iShmMax == hdr[c].iUsedShmid
      iShmMin == Add(hdr[c].iNextShmid, 1 - MaxShm)
      want == [iLsmId |-> iLsm, iTreeId |-> iShmMax]
      exact == {i \in 1..NReader : slot[i] = want}
      free == {i \in 1..NReader : Lockable(c, i)}
      usable == {i \in 1..NReader : slotIsUsable(slot[i], iLsm, iShmMin, iShmMax)}
      i == IF exact # {} THEN First(exact)
           ELSE IF free # {} THEN First(free)
           ELSE IF usable # {} THEN First(usable) ELSE 0
      id == IF exact = {} /\ free = {} THEN slot[i].iTreeId ELSE iShmMax
      ok == i # 0 /\ hdr[c] \in {hdr1, hdr2} /\ client[c] = snap
  IN  /\ pc[c] = "loaded"
      /\ slot' = IF exact = {} /\ free # {} THEN [slot EXCEPT ![i] = want] ELSE slot
      /\ IF ok
         THEN /\ iReader' = [iReader EXCEPT ![c] = i]
              /\ rlock' = [rlock EXCEPT ![c] = {i}]
              /\ stale' = IF \E j \in 1..(hdr[c].nChunk - 1) : chunk[j].iShmid = id
                         THEN stale \ {c} ELSE stale \cup {c}
              /\ Goto(c, "reading")
              /\ UNCHANGED <<hdr, client>>
         ELSE Forget(c) /\ UNCHANGED <<iReader, rlock, stale>>
      /\ UNCHANGED <<shmVars, snap, writer, transVars, boundVars>>

\* lsmFinishReadTrans(), dbReleaseReadlock()
FinishReadTrans(c) ==
  /\ pc[c] = "reading"
  /\ iReader' = [iReader EXCEPT ![c] = 0]
  /\ rlock' = [rlock EXCEPT ![c] = @ \ {iReader[c]}]
  /\ Forget(c)
  /\ UNCHANGED <<shmVars, slot, stale, snap, writer, transVars, boundVars>>

----------------------------------------------------------------------------
(* lsmTreeRepair()                                                          *)

\* Mutant: the pointer of the transaction that died is left.
treeRepairPtrsLate(h) ==
  IF h.root # Null /\ At(h.root).iV2 > h.trans + 1
  THEN [mem EXCEPT ![h.root[1]][h.root[2]] =
          [@ EXCEPT !.iV2 = 0, !.iV2Child = None, !.iV2Ptr = Null]]
  ELSE mem

\* treeRepairPtrs(): the interior node of the caller's tree loses a v2
\* pointer that is newer than the caller's transaction id.
treeRepairPtrs(h) ==
  IF h.root # Null /\ At(h.root).iV2 > h.trans
  THEN [mem EXCEPT ![h.root[1]][h.root[2]] =
          [@ EXCEPT !.iV2 = 0, !.iV2Child = None, !.iV2Ptr = Null]]
  ELSE mem

Pow2(n) == CHOOSE m \in {2^k : k \in 0..n} : m >= n /\ (m = 1 \/ m \div 2 < n)

\* treeRepairList(), 1: chunks with an id from treehdr.iNextShmid on get ids
\* before the smallest one, the first chunk of the list the one before those.
RepairedIds(h) ==
  LET list == 1..(h.nChunk - 1)
      min == CHOOSE i \in list : \A j \in list :
               \/ chunk[j].iShmid # chunk[i].iShmid
                  /\ shm_sequence_ge(chunk[j].iShmid, chunk[i].iShmid)
               \/ chunk[j].iShmid = chunk[i].iShmid /\ j <= i
      late == {i \in list \ {h.iFirst} :
                 shm_sequence_ge(chunk[i].iShmid, h.iNextShmid)}
      prev == Add(chunk[min].iShmid, -1 - Cardinality(late))
  IN  [prev |-> prev,
       id |-> [i \in list |->
                 IF i = h.iFirst
                 THEN IF min # h.iFirst THEN prev ELSE chunk[i].iShmid
                 ELSE IF i \in late
                 THEN Add(chunk[min].iShmid, -1 - Cardinality({j \in late : j < i}))
                 ELSE chunk[i].iShmid]]

\* treeRepairList(), 2: place every chunk in aSpace[] at its distance from the
\* smallest id and link what stands side by side.  aSpace[] has nSort places;
\* a chunk further away is stored behind its end, where nothing links it.
Places(h) ==
  LET fix == RepairedIds(h)
  IN  [i \in 1..(h.nChunk - 1) |-> (fix.id[i] - fix.prev) % ShmidMod]

nSort(h) == Pow2(h.nChunk - 1)

BehindEnd(h) == \E i \in 1..(h.nChunk - 1) : Places(h)[i] >= nSort(h)

RepairedList(h) ==
  LET list == 1..(h.nChunk - 1)
      fix == RepairedIds(h)
      place == Places(h)
      next(i) == LET after == {j \in list : place[j] = place[i] + 1}
                 IN  IF place[i] + 1 >= nSort(h) \/ after = {} THEN 0 ELSE First(after)
  IN  [i \in Chunks |->
        IF i \notin list THEN chunk[i]
        ELSE [iShmid |-> fix.id[i],
              iNext |-> IF place[i] < nSort(h) THEN next(i) ELSE chunk[i].iNext]]

\* treeCheckLinkedList(): from the first chunk on each has the id after that
\* of the one before, and the last is visited after nChunk - 1 steps; so every
\* chunk is in the list, at the place its id gives it.
treeCheckLinkedList(h, ch) ==
  LET list == 1..(h.nChunk - 1)
      place(i) == (ch[i].iShmid - ch[h.iFirst].iShmid) % ShmidMod
  IN  /\ h.iFirst \in list
      /\ \A i, j \in list : place(i) = place(j) => i = j
      /\ \A i \in list :
           \/ place(i) = h.nChunk - 2 /\ ch[i].iNext = 0
           \/ /\ place(i) < h.nChunk - 2
              /\ ch[i].iNext \in list /\ place(ch[i].iNext) = place(i) + 1

\* The list a header needs: every chunk once, ids ascending to iNextShmid - 1
\* (what treeShmalloc() asserts before it recycles a chunk).
ListOk(h, ch) ==
  /\ treeCheckLinkedList(h, ch)
  /\ ch[h.iFirst].iShmid = Add(h.iNextShmid, 1 - h.nChunk)

----------------------------------------------------------------------------
(* Write transactions: lsmBeginWriteTrans().                                *)

\* lsmTreeRepair() works on the tree-header of the caller, which may be older
\* than the one in shared memory.  Such a repair, one that stores behind the
\* end of aSpace[] and one that cannot link the chunks is misdirected.
Repair(c) ==
  LET h == hdr[c]
      good == IF hdr1 # Torn THEN hdr1 ELSE hdr2
      list == RepairedList(h)
  IN  /\ c \in Writers /\ pc[c] = "reading" /\ writer = None /\ bWriter
      /\ hdr1' = good /\ hdr2' = good
      /\ mem' = treeRepairPtrs(h)
      /\ chunk' = list
      /\ bWriter' = ~treeCheckLinkedList(h, list)
      /\ IF h # good \/ BehindEnd(h) \/ ~treeCheckLinkedList(h, list)
         THEN pc' = [d \in Conn |-> "lost"] ELSE UNCHANGED pc
      /\ UNCHANGED <<lockVars, snap, hdr, client, writer, transVars, boundVars>>

\* lsmTreeDiscardOld()
DiscardOld(h) == [h EXCEPT !.iUsedShmid = h.iOldShmid, !.iOldShmid = 0]

HasOld(h) == h.iOldShmid # 0

\* The old tree is not read by a connection whose snapshot holds it.
OldFlushed(h, s) == h.iOldLog = s

Mark(h) == [root |-> h.root, iWrite |-> h.iWrite, nChunk |-> h.nChunk,
            iNextShmid |-> h.iNextShmid, cur |-> h.cur]

\* lsm_begin(db, 1): with the WRITER lock, on the newest version only, the
\* transaction starts and its mark is taken.  LSM_BUSY changes nothing.
BeginWriteTrans(c) ==
  LET h == [hdr[c] EXCEPT !.trans = @ + 1]
      discard == HasOld(h) /\ OldFlushed(h, client[c])
      start == IF discard THEN DiscardOld(h) ELSE h
  IN  /\ c \in Writers /\ pc[c] = "reading" /\ writer = None /\ nTrans < MaxTrans
      /\ ~bWriter /\ hdr1 = hdr[c]
      /\ writer' = c
      /\ bWriter' = TRUE
      /\ SetHeader(c, start)
      /\ bDiscardOld' = discard
      /\ marks' = <<[mark |-> Mark(start), iRollback |-> 0]>>
      /\ rollback' = << >>
      /\ Goto(c, "open")
      /\ UNCHANGED <<chunk, mem, hdr1, hdr2, lockVars, snap, client, pend, boundVars>>

\* lsm_begin(db, -1) inside a transaction
BeginNested(c) ==
  /\ Writing(c, "open") /\ Len(marks) < Levels
  /\ marks' = Append(marks, [mark |-> Mark(treehdr), iRollback |-> Len(rollback)])
  /\ UNCHANGED <<shmVars, lockVars, snap, pc, hdr, client, writer, rollback, pend,
                 bDiscardOld, boundVars>>

----------------------------------------------------------------------------
(* treeShmalloc()                                                           *)

Full(h) == h.iWrite[2] = Room

\* treeUpdatePtr() needs a new node: the tree has none, or one with a v2 pointer.
NeedsNode(h) == h.root # Null => At(h.root).iV2 # 0

\* Mutant: a reader of exactly this id does not count.
BusyNewer(c, iShmid) ==
  {i \in 1..NReader : /\ slot[i].iLsmId # 0 /\ slot[i].iTreeId # iShmid
                      /\ shm_sequence_ge(slot[i].iTreeId, iShmid) /\ ~Lockable(c, i)}

\* isInUse(): slots of this id or newer are locked and cleared in order until
\* one is busy.  A connection's own slot is not busy: it is cleared, unlocked.
Busy(c, iShmid) ==
  {i \in 1..NReader : /\ slot[i].iLsmId # 0 /\ shm_sequence_ge(slot[i].iTreeId, iShmid)
                      /\ ~Lockable(c, i)}

Cleared(c, iShmid) ==
  {i \in 1..NReader : /\ slot[i].iLsmId # 0 /\ shm_sequence_ge(slot[i].iTreeId, iShmid)
                      /\ \A j \in Busy(c, iShmid) : i < j}

\* Mutant: the chunks the committed tree uses are not spared.
RecyclableUsed(c, h) == Busy(c, chunk[h.iFirst].iShmid) = {}

Recyclable(c, h) ==
  LET id == chunk[h.iFirst].iShmid IN h.iUsedShmid # id /\ Busy(c, id) = {}

\* The first chunk of the list is recycled unless the trees or a reader may
\* use it, else a chunk is appended; it gets the next id.
ShmallocChunk(c) ==
  LET h == treehdr
      id == chunk[h.iFirst].iShmid
      reuse == Recyclable(c, h)
      iNext == IF reuse THEN h.iFirst ELSE h.nChunk
      cleared == IF h.iUsedShmid # id THEN Cleared(c, id) ELSE {}
  IN  /\ Writing(c, "open") \/ Writing(c, "copy")
      /\ Full(h) /\ nWrite < MaxWrite
      /\ iNext \in Chunks
      /\ chunk' = [chunk EXCEPT ![iNext] = [iShmid |-> h.iNextShmid, iNext |-> 0]]
      /\ mem' = [mem EXCEPT ![iNext] = [j \in 1..Room |-> Leaf(0)]]
      /\ SetHeader(c, [h EXCEPT !.iNextShmid = Add(@, 1),
                                !.iFirst = IF reuse THEN chunk[@].iNext ELSE @,
                                !.nChunk = IF reuse THEN @ ELSE @ + 1])
      /\ pend' = [pend EXCEPT !.chunk = iNext]
      /\ Goto(c, IF pc[c] = "open" THEN "linkleaf" ELSE "linkcopy")
      /\ slot' = [i \in 1..NReader |->
                    IF i \in cleared THEN [slot[i] EXCEPT !.iLsmId = 0] ELSE slot[i]]
      /\ rlock' = [rlock EXCEPT ![c] = @ \ cleared]
      /\ UNCHANGED <<hdr1, hdr2, bWriter, iReader, stale, snap, client, writer, marks,
                     rollback, bDiscardOld, boundVars>>

\* The finished chunk is linked to the new one.
ShmallocLink(c) ==
  /\ Writing(c, "linkleaf") \/ Writing(c, "linkcopy")
  /\ chunk' = [chunk EXCEPT ![treehdr.iWrite[1]].iNext = pend.chunk]
  /\ SetHeader(c, [treehdr EXCEPT !.iWrite = <<pend.chunk, 0>>])
  /\ pend' = [pend EXCEPT !.chunk = 0]
  /\ Goto(c, IF pc[c] = "linkleaf" THEN "leaf" ELSE "copy")
  /\ UNCHANGED <<mem, hdr1, hdr2, bWriter, lockVars, snap, client, writer, marks,
                 rollback, bDiscardOld, boundVars>>

Alloc(h) == <<h.iWrite[1], h.iWrite[2] + 1>>
Store(p, x) == [mem EXCEPT ![p[1]][p[2]] = x]

----------------------------------------------------------------------------
(* lsmTreeInsert() below subtree k, and treeUpdatePtr().                    *)

\* A new leaf; the first change of a node goes into its v2 pointer.
InsertV2(c, k) ==
  LET h == treehdr
      p == Alloc(h)
      v == nWrite + 1
  IN  /\ Writing(c, "open") \/ Writing(c, "leaf")
      /\ nWrite < MaxWrite /\ ~Full(h) /\ ~NeedsNode(h)
      /\ nWrite' = v
      /\ mem' = [Store(p, Leaf(v)) EXCEPT ![h.root[1]][h.root[2]] =
                  [@ EXCEPT !.iV2 = h.trans, !.iV2Child = k, !.iV2Ptr = p]]
      /\ rollback' = Append(rollback, h.root)
      /\ SetHeader(c, [h EXCEPT !.iWrite = p, !.cur[k] = v])
      /\ Goto(c, "open")
      /\ UNCHANGED <<chunk, hdr1, hdr2, bWriter, lockVars, snap, client, writer,
                     marks, pend, bDiscardOld, nTrans, nDeath>>

\* A new leaf whose parent has to be copied, ...
InsertLeaf(c, k) ==
  LET h == treehdr
      p == Alloc(h)
  IN  /\ Writing(c, "open") \/ Writing(c, "leaf")
      /\ nWrite < MaxWrite /\ ~Full(h) /\ NeedsNode(h)
      /\ mem' = Store(p, Leaf(nWrite + 1))
      /\ SetHeader(c, [h EXCEPT !.iWrite = p])
      /\ pend' = [pend EXCEPT !.leaf = p, !.sub = k]
      /\ Goto(c, "copy")
      /\ UNCHANGED <<chunk, hdr1, hdr2, bWriter, lockVars, snap, client, writer,
                     marks, rollback, bDiscardOld, boundVars>>

\* ... copyTreeNode(): the copy has the v2 pointer among its children.
InsertCopy(c) ==
  LET h == treehdr
      p == Alloc(h)
      v == nWrite + 1
      child == IF h.root = Null THEN [k \in Sub |-> Null]
               ELSE WorkingChildren(At(h.root))
  IN  /\ Writing(c, "copy") /\ ~Full(h)
      /\ nWrite' = v
      /\ mem' = Store(p, Node([child EXCEPT ![pend.sub] = pend.leaf]))
      /\ SetHeader(c, [h EXCEPT !.iWrite = p, !.root = p, !.cur[pend.sub] = v])
      /\ pend' = NoPend
      /\ Goto(c, "open")
      /\ UNCHANGED <<chunk, hdr1, hdr2, bWriter, lockVars, snap, client, writer, marks,
                     rollback, bDiscardOld, nTrans, nDeath>>

----------------------------------------------------------------------------
(* lsmTreeRollback()                                                        *)

\* The mark of lsm_rollback(db, iLevel)
MarkOf(iLevel) == marks[IF iLevel = 0 THEN 1 ELSE iLevel]

\* Revert the v2 pointers set since the mark; cut the chunk list at the mark.
RollbackPtrs(c, iLevel) ==
  LET m == MarkOf(iLevel)
      reverted == {rollback[n] : n \in (m.iRollback + 1)..Len(rollback)}
  IN  /\ Writing(c, "open")
      /\ mem' = [i \in Chunks |-> [j \in 1..Room |->
                  IF <<i, j>> \in reverted
                  THEN [mem[i][j] EXCEPT !.iV2 = 0, !.iV2Child = None, !.iV2Ptr = Null]
                  ELSE mem[i][j]]]
      /\ rollback' = SubSeq(rollback, 1, m.iRollback)
      /\ pend' = [pend EXCEPT !.chunk = chunk[m.mark.iWrite[1]].iNext,
                              !.iLevel = iLevel]
      /\ chunk' = [chunk EXCEPT ![m.mark.iWrite[1]].iNext = 0]
      /\ Goto(c, "rollback")
      /\ UNCHANGED <<hdr1, hdr2, bWriter, lockVars, snap, hdr, client, writer, marks,
                     bDiscardOld, boundVars>>

\* One chunk of the rest goes to the front of the list with the id before.
RollbackFree(c) ==
  LET i == pend.chunk
      m == MarkOf(pend.iLevel).mark
      first == treehdr.iFirst
  IN  /\ Writing(c, "rollback") /\ i # 0
      /\ pend' = [pend EXCEPT !.chunk = chunk[i].iNext]
      /\ IF i < m.nChunk
         THEN /\ chunk' = [chunk EXCEPT ![i] =
                             [iShmid |-> Add(chunk[first].iShmid, -1), iNext |-> first]]
              /\ SetHeader(c, [treehdr EXCEPT !.iFirst = i])
         ELSE UNCHANGED <<chunk, hdr>>
      /\ UNCHANGED <<mem, hdr1, hdr2, bWriter, lockVars, snap, pc, client, writer,
                     marks, rollback, bDiscardOld, boundVars>>

\* Mutant: the ids given since the mark are not taken back.
RestoredKeepId(m) ==
  [treehdr EXCEPT !.root = m.root, !.iWrite = m.iWrite, !.nChunk = m.nChunk,
                  !.cur = m.cur]

\* The header gets the fields of the mark, ...
Restored(m) ==
  [treehdr EXCEPT !.root = m.root, !.iWrite = m.iWrite, !.nChunk = m.nChunk,
                  !.iNextShmid = m.iNextShmid, !.cur = m.cur]

\* ... and the enclosing transaction goes on, ...
RollbackNested(c) ==
  /\ Writing(c, "rollback") /\ pend.chunk = 0 /\ pend.iLevel > 0
  /\ SetHeader(c, Restored(MarkOf(pend.iLevel).mark))
  /\ marks' = SubSeq(marks, 1, pend.iLevel)
  /\ pend' = NoPend
  /\ Goto(c, "open")
  /\ UNCHANGED <<shmVars, lockVars, snap, client, writer, rollback, bDiscardOld,
                 boundVars>>

\* lsmTreeEndTransaction() copies header 2 before header 1; nobody reads a
\* half-copied header 2, as header 1 is good meanwhile.
Publish(c, h) == SetHeader(c, h) /\ hdr2' = h

\* ... or the transaction ends.
RollbackAll(c) ==
  /\ Writing(c, "rollback") /\ pend.chunk = 0 /\ pend.iLevel = 0
  /\ Publish(c, Restored(MarkOf(0).mark))
  /\ pend' = NoPend
  /\ bDiscardOld' = FALSE
  /\ Goto(c, "end1")
  /\ UNCHANGED <<chunk, mem, hdr1, bWriter, lockVars, snap, client, writer, marks,
                 rollback, boundVars>>

----------------------------------------------------------------------------
(* lsm_commit(), lsmFinishWriteTrans() and lsmTreeEndTransaction().         *)

\* lsmTreeMakeOld()
MakeOld(h) ==
  [h EXCEPT !.iOldShmid = Add(h.iNextShmid, -1), !.iOldLog = @ + 1,
            !.oldroot = h.root, !.oldtrans = h.trans, !.oldcur = h.cur,
            !.root = Null, !.trans = 1, !.cur = Empty]

\* lsm_commit(db, iLevel > 0)
CommitNested(c) ==
  /\ Writing(c, "open") /\ Len(marks) > 1
  /\ marks' = SubSeq(marks, 1, Len(marks) - 1)
  /\ UNCHANGED <<shmVars, lockVars, snap, pc, hdr, client, writer, rollback, pend,
                 bDiscardOld, boundVars>>

\* The tree may be over its limit when it is committed.
Commit(c) ==
  /\ Writing(c, "open")
  /\ \E bFlush \in BOOLEAN :
       /\ Publish(c, IF bFlush /\ ~HasOld(treehdr) THEN MakeOld(treehdr) ELSE treehdr)
       /\ bDiscardOld' = (bDiscardOld /\ ~bFlush)
  /\ Goto(c, "end1")
  /\ UNCHANGED <<chunk, mem, hdr1, bWriter, lockVars, snap, client, writer, marks,
                 rollback, pend,
                 boundVars>>

\* ... then header 1, ...
EndHdr1(c) ==
  /\ Writing(c, "end1")
  /\ hdr1' = IF hdr1 = Torn THEN treehdr ELSE Torn
  /\ IF hdr1 = Torn THEN Goto(c, "endflag") ELSE UNCHANGED pc
  /\ UNCHANGED <<chunk, mem, hdr2, bWriter, lockVars, snap, hdr, client, writer,
                 transVars, boundVars>>

\* ... and then the flag is cleared.  A commit that discarded the old tree
\* sets a slot for the new id (dbSetReadLock()), WRITER is released.
EndTransaction(c) ==
  LET want == [iLsmId |-> client[c], iTreeId |-> treehdr.iUsedShmid]
      free == {i \in 1..NReader : Lockable(c, i)}
      set == bDiscardOld /\ free # {} /\ \A i \in 1..NReader : slot[i] # want
  IN  /\ Writing(c, "endflag")
      /\ bWriter' = FALSE
      /\ slot' = IF set THEN [slot EXCEPT ![First(free)] = want] ELSE slot
      /\ rlock' = IF set THEN [rlock EXCEPT ![c] = @ \ {First(free)}] ELSE rlock
      /\ marks' = << >> /\ rollback' = << >> /\ bDiscardOld' = FALSE
      /\ writer' = None
      /\ nTrans' = nTrans + 1
      /\ Goto(c, "reading")
      /\ UNCHANGED <<chunk, mem, hdr1, hdr2, iReader, stale, snap, hdr, client, pend,
                     nWrite, nDeath>>

\* A worker writes the old tree into a new snapshot (sortedNewToplevel() of
\* TREE_OLD); in the middle of its own write transaction it discards it too.
FlushOld ==
  /\ hdr1 # Torn /\ HasOld(hdr1) /\ ~OldFlushed(hdr1, snap)
  /\ \A c \in Conn : pc[c] # "lost"
  /\ snap' = hdr1.iOldLog
  /\ UNCHANGED <<shmVars, lockVars, pc, hdr, client, writer, transVars, boundVars>>

----------------------------------------------------------------------------
\* The process of a writer dies: its locks go, what it wrote to shared memory
\* stays.  (The death of a reader is like the end of its transaction.)
Die(c) ==
  /\ c \in Mortal /\ writer = c /\ nDeath < MaxDeath
  /\ nDeath' = nDeath + 1
  /\ Forget(c)
  /\ iReader' = [iReader EXCEPT ![c] = 0]
  /\ rlock' = [rlock EXCEPT ![c] = {}]
  /\ writer' = None /\ marks' = << >> /\ rollback' = << >>
  /\ pend' = NoPend /\ bDiscardOld' = FALSE
  /\ UNCHANGED <<shmVars, slot, stale, snap, nWrite, nTrans>>

Init ==
  /\ hdr1 \in {InitHeader, AgedHeader} /\ hdr2 = hdr1 /\ bWriter = FALSE
  /\ chunk = [i \in Chunks |->
                [iShmid |-> IF i < hdr1.nChunk THEN Add(hdr1.iNextShmid, i - hdr1.nChunk) ELSE 0,
                 iNext |-> IF i + 1 < hdr1.nChunk THEN i + 1 ELSE 0]]
  /\ mem = [i \in Chunks |-> [j \in 1..Room |-> Leaf(0)]]
  /\ slot = [i \in 1..NReader |-> [iLsmId |-> 0, iTreeId |-> 0]]
  /\ snap = 1
  /\ pc = [c \in Conn |-> "idle"]
  /\ hdr = [c \in Conn |-> hdr1]
  /\ iReader = [c \in Conn |-> 0] /\ rlock = [c \in Conn |-> {}] /\ stale = {}
  /\ client = [c \in Conn |-> 0]
  /\ writer = None /\ marks = << >> /\ rollback = << >> /\ bDiscardOld = FALSE
  /\ pend = NoPend
  /\ nWrite = 0 /\ nTrans = 0 /\ nDeath = 0

\* After a misdirected repair no header describes the memory any more; what
\* the connections then read and write there is not modelled.
IsLost == \A c \in Conn : pc[c] = "lost"
Lost == IsLost /\ UNCHANGED vars

Next ==
  \/ Lost
  \/ FlushOld
  \/ \E c \in Conn :
       \/ LoadHeader(c) \/ Readlock(c) \/ FinishReadTrans(c)
       \/ Repair(c) \/ BeginWriteTrans(c)
       \/ BeginNested(c) \/ ShmallocChunk(c) \/ ShmallocLink(c)
       \/ InsertCopy(c)
       \/ (\E k \in Sub : InsertV2(c, k) \/ InsertLeaf(c, k))
       \/ (\E iLevel \in 0..Len(marks) : RollbackPtrs(c, iLevel))
       \/ RollbackFree(c) \/ RollbackNested(c) \/ RollbackAll(c)
       \/ CommitNested(c) \/ Commit(c)
       \/ EndHdr1(c) \/ EndTransaction(c)
       \/ Die(c)

Spec == Init /\ [][Next]_vars

----------------------------------------------------------------------------
(* Properties.                                                              *)

\* What header h and snapshot s make of the memory is what the transactions
\* they come from wrote: the current tree, and the old one where it is read.
Intact(h, s) ==
  /\ View(h.root, h.trans) = h.cur
  /\ HasOld(h) /\ ~OldFlushed(h, s) => View(h.oldroot, h.oldtrans) = h.oldcur

\* Types; the writer never passes the chunk the trees begin in, so that its
\* list is never empty.
TypeOK ==
  /\ chunk \in [Chunks -> [iShmid : 0..(ShmidMod - 1), iNext : 0..MaxChunk]]
  /\ bWriter \in BOOLEAN /\ bDiscardOld \in BOOLEAN
  /\ iReader \in [Conn -> 0..NReader] /\ rlock \in [Conn -> SUBSET (1..NReader)]
  /\ writer \in Conn \cup {None}
  /\ \A c \in Conn : hdr[c].iFirst \in Chunks /\ hdr[c].nChunk \in 2..(MaxChunk + 1)

\* A connection that still holds the lock on its slot reads its version of
\* the trees, whatever writers recycle, change, roll back or leave behind.  Of
\* a tree id whose chunk was recycled before it was locked the allocator knows
\* nothing: such a reader is stale.
TreeReaderIntact ==
  \A c \in Conn :
    pc[c] = "reading" /\ iReader[c] \in rlock[c] /\ c \notin stale
      => Intact(hdr[c], client[c])

\* The tree-header in shared memory describes memory that holds its trees,
\* at every moment of the next transaction and after the death of its writer.
CommittedIntact ==
  hdr1 # Torn /\ ~IsLost => Intact(hdr1, snap)

\* Whenever no write transaction is open, the chunks are linked in the order
\* of their ids, which end at iNextShmid - 1, although a rollback or a repair
\* has put recycled chunks back.
ChunksLinked ==
  ~bWriter /\ hdr1 # Torn /\ ~IsLost => ListOk(hdr1, chunk)
=============================================================================
