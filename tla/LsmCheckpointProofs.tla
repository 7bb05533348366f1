------------------------ MODULE LsmCheckpointProofs ------------------------
(***************************************************************************)
(* The free list and the checkpoints of LsmSnapshot.  Nothing is assumed   *)
(* of who works, writes checkpoints, dies or fails in the first two        *)
(* theorems; the others are about a database maintained by one connection. *)
(***************************************************************************)
EXTENDS LsmSnapshotProofs

-----------------------------------------------------------------------------
(* The invariant of the free list and of the announced checkpoint *)

\* Every block of the file of snapshot s is in use or free, never both.
Accounted(s) ==
  \A b \in Block :
    IF b <= s.nBlock THEN (s.blk[b] # 0) # (s.free[b] >= 0)
    ELSE s.blk[b] = 0 /\ s.free[b] < 0

Good(s) == s.id > 0 /\ Accounted(s)

\* The snapshots that are, or may become, current or a checkpoint.
ListsOK ==
  /\ Good(snap1.snap)
  /\ Good(snap2.snap)
  /\ worker # None => Good(wsnap)
  /\ \A c \in Conn : pc[c] \in CkptLabels => Good(buf[c])
  /\ \A p \in {1, 2} : meta[p] # None => Good(meta[p])

\* The announced page is complete, and a checkpoint under way is newer; once
\* synced it is on the other page.
Newer(c) ==
  /\ pc[c] \in CkptLabels /\ iMetaPage # 0 => buf[c].id > meta[iMetaPage].id
  /\ pc[c] = "setmeta" => meta[OtherPage(iMetaPage)] = buf[c]

AnnouncedOK ==
  /\ iMetaPage # 0 => meta[iMetaPage] # None
  /\ \A c \in Conn : Newer(c)

FileInv == TypeOK /\ RoleOK /\ ListsOK /\ AnnouncedOK

-----------------------------------------------------------------------------
(* Snapshots that account for every block *)

LEMMA EmptyGood == Good(EmptySnapshot)
BY BoundAssumption DEF Good, Accounted, EmptySnapshot, Block

LEMMA OtherPageFacts ==
  ASSUME NEW p \in 0..2
  PROVE  OtherPage(p) \in {1, 2} /\ OtherPage(p) # p
<1>1. CASE p = 0 BY <1>1 DEF OtherPage
<1>2. CASE p = 1 BY <1>2 DEF OtherPage
<1>3. CASE p = 2 BY <1>3 DEF OtherPage
<1>. QED BY <1>1, <1>2, <1>3

\* What freelistAppend() and lsmBlockAllocate() do to one entry keeps the list
\* complete, as long as the file grows by one block at a time.
LEMMA GoodSetBlock ==
  ASSUME NEW s \in Snapshot, Good(s), NEW b \in Block, b <= s.nBlock + 1,
         NEW v \in Nat, NEW f \in Int, (v # 0) # (f >= 0)
  PROVE  Good(SetBlock(s, b, v, f))
<1>. DEFINE t == SetBlock(s, b, v, f)
<1>1. /\ t.id = s.id
      /\ t.nBlock = IF b > s.nBlock THEN b ELSE s.nBlock
      /\ s.nBlock \in Int /\ b \in Int /\ t.nBlock \in Int
  BY BoundAssumption DEF SetBlock, Snapshot, Block
<1>2. /\ t.blk[b] = v /\ t.free[b] = f
      /\ \A d \in Block \ {b} : t.blk[d] = s.blk[d] /\ t.free[d] = s.free[d]
  BY SetBlockFields
<1>. HIDE DEF t
<1>3. \A d \in Block \ {b} : d <= t.nBlock <=> d <= s.nBlock
  BY <1>1 DEF Block
<1>4. b <= t.nBlock
  BY <1>1
<1>5. ASSUME NEW d \in Block
      PROVE  IF d <= t.nBlock THEN (t.blk[d] # 0) # (t.free[d] >= 0)
             ELSE t.blk[d] = 0 /\ t.free[d] < 0
  <2>1. CASE d = b
    BY <1>2, <1>4, <2>1
  <2>2. CASE d # b
    BY <1>2, <1>3, <2>2 DEF Good, Accounted
  <2>. QED BY <2>1, <2>2
<1>6. Good(t)
  BY <1>1, <1>5 DEF Good, Accounted
<1>. QED BY <1>6 DEF t

LEMMA GoodNext ==
  ASSUME wsnap \in Snapshot, Good(wsnap)
  PROVE  Good(NextSnapshot)
<1>1. /\ NextSnapshot.id = wsnap.id + 1 /\ NextSnapshot.nBlock = wsnap.nBlock
      /\ NextSnapshot.blk = wsnap.blk /\ NextSnapshot.free = wsnap.free
      /\ wsnap.id \in Nat
  BY DEF NextSnapshot, Snapshot
<1>. QED BY <1>1 DEF Good, Accounted

\* The worker's snapshot stays complete while blocks are allocated and freed.
LEMMA GoodWorker ==
  ASSUME TypeOK, RoleOK, ListsOK, NEW c \in Conn,
         Allocate(c) \/ BlockFree(c) \/ BlockRefree(c)
  PROVE  Good(wsnap')
<1>1. /\ worker = c /\ worker # None /\ wsnap \in Snapshot
      /\ wsnap.id \in Nat /\ wsnap.id + 1 \in Nat /\ wsnap.nBlock \in Nat
      /\ Good(wsnap)
  <2>1. worker = c /\ wsnap \in Snapshot
    BY WsnapType DEF Allocate, BlockFree, BlockRefree, BaseLabels, ScanLabels
  <2>. QED BY <2>1, ConnAssumption, BoundAssumption DEF ListsOK, Snapshot
<1>2. CASE Allocate(c)
  <2>1. PICK b \in Block : IsNextBlock(b) /\ wsnap' = SetBlock(wsnap, b, wsnap.id + 1, -1)
    BY <1>2 DEF Allocate
  <2>2. b <= wsnap.nBlock + 1
    BY <1>1, <2>1, BoundAssumption DEF IsNextBlock, Recyclable, Block
  <2>3. (wsnap.id + 1 # 0) # (-1 >= 0)
    BY <1>1
  <2>. QED BY <1>1, <2>1, <2>2, <2>3, GoodSetBlock
<1>3. CASE BlockFree(c)
  <2>1. PICK b \in Block : wsnap.blk[b] # 0 /\ wsnap' = SetBlock(wsnap, b, 0, wsnap.id)
    BY <1>3 DEF BlockFree
  <2>2. b <= wsnap.nBlock + 1
    BY <1>1, <2>1, BoundAssumption DEF Good, Accounted, Block
  <2>3. (0 # 0) # (wsnap.id >= 0)
    BY <1>1
  <2>. QED BY <1>1, <2>1, <2>2, <2>3, GoodSetBlock
<1>4. CASE BlockRefree(c)
  <2>1. PICK b \in Block : wsnap.blk[b] = wsnap.id + 1 /\ wsnap' = SetBlock(wsnap, b, 0, 0)
    BY <1>4 DEF BlockRefree
  <2>2. b <= wsnap.nBlock + 1
    BY <1>1, <2>1, BoundAssumption DEF Good, Accounted, Block
  <2>3. (0 # 0) # (0 >= 0)
    OBVIOUS
  <2>. QED BY <1>1, <2>1, <2>2, <2>3, GoodSetBlock
<1>. QED BY <1>2, <1>3, <1>4

-----------------------------------------------------------------------------
(* Steps that leave snapshots and checkpoints alone *)

Quiet ==
  /\ UNCHANGED <<snap1, snap2, iMetaPage, meta, worker, wsnap>>
  /\ \A c \in Conn : pc'[c] \in CkptLabels => pc'[c] = pc[c] /\ buf'[c] = buf[c]

LEMMA ReadQuiet ==
  ASSUME TypeOK, NEW c \in Conn, ReadStep(c) \/ FinishReadTrans(c), ~LoadStep(c)
  PROVE  Quiet
<1>. USE DEF Quiet, TypeOK, ConnTypeOK, CkptLabels, shmVars, lockVars, connVars,
             workVars, fileVars, Goto
<1>1. CASE LoadHeader(c)      BY <1>1 DEF LoadHeader
<1>2. CASE LoadSnapshot(c)    BY <1>2 DEF LoadSnapshot
<1>3. CASE ExactSlot(c)       BY <1>3 DEF ExactSlot, FindSlot
<1>4. CASE ExactSlotLock(c)   BY <1>4 DEF ExactSlotLock, ShareSlot
<1>5. CASE ExclSlot(c)        BY <1>5 DEF ExclSlot
<1>6. CASE ExclSlotSet(c)     BY <1>6 DEF ExclSlotSet
<1>7. CASE UsableSlot(c)      BY <1>7 DEF UsableSlot, FindSlot, AttemptFailed
<1>8. CASE UsableSlotLock(c)  BY <1>8 DEF UsableSlotLock, ShareSlot
<1>9. CASE CheckHeader(c)     BY <1>9 DEF CheckHeader, AttemptFailed
<1>10. CASE CheckSnapshot(c)  BY <1>10 DEF CheckSnapshot, AttemptFailed
<1>11. CASE FinishReadTrans(c) BY <1>11 DEF FinishReadTrans
<1>. QED
  BY <1>1, <1>2, <1>3, <1>4, <1>5, <1>6, <1>7, <1>8, <1>9, <1>10, <1>11
  DEF ReadStep, LoadStep

LEMMA WriteQuiet ==
  ASSUME TypeOK, NEW c \in Conn, WriteStep(c) \/ SetLockStep(c)
  PROVE  Quiet
<1>. USE DEF Quiet, TypeOK, ConnTypeOK, CkptLabels, shmVars, lockVars, connVars,
             workVars, fileVars, Goto
<1>1. CASE BeginWriteTrans(c)   BY <1>1 DEF BeginWriteTrans
<1>2. CASE Commit(c)            BY <1>2 DEF Commit
<1>3. CASE FinishWriteTrans(c)  BY <1>3 DEF FinishWriteTrans
<1>4. CASE SetReadLock(c)       BY <1>4 DEF SetReadLock
<1>5. CASE SetReadLockTry(c)    BY <1>5 DEF SetReadLockTry
<1>6. CASE SetReadLockSet(c)    BY <1>6 DEF SetReadLockSet
<1>. QED
  BY <1>1, <1>2, <1>3, <1>4, <1>5, <1>6 DEF WriteStep, SetLockStep

LEMMA ScanQuiet ==
  ASSUME TypeOK, NEW c \in Conn,
         \/ AllocateSynced(c) \/ AllocateInUse(c)
         \/ ScanSlot(c) \/ ScanSlotLock(c) \/ ScanSlotClear(c)
  PROVE  Quiet
<1>. USE DEF Quiet, TypeOK, ConnTypeOK, CkptLabels, shmVars, lockVars, connVars,
             workVars, fileVars, Goto
<1>1. CASE AllocateSynced(c)  BY <1>1 DEF AllocateSynced
<1>2. CASE AllocateInUse(c)   BY <1>2 DEF AllocateInUse
<1>3. CASE ScanSlot(c)        BY <1>3 DEF ScanSlot
<1>4. CASE ScanSlotLock(c)    BY <1>4 DEF ScanSlotLock
<1>5. CASE ScanSlotClear(c)   BY <1>5 DEF ScanSlotClear
<1>. QED BY <1>1, <1>2, <1>3, <1>4, <1>5

LEMMA QuietLists ==
  ASSUME Quiet, ListsOK, AnnouncedOK
  PROVE  ListsOK' /\ AnnouncedOK'
<1>1. ListsOK'
  BY DEF Quiet, ListsOK
<1>2. AnnouncedOK'
  <2>1. ASSUME NEW c \in Conn PROVE Newer(c)'
    BY <2>1 DEF Quiet, AnnouncedOK, Newer, CkptLabels
  <2>. QED BY <2>1 DEF Quiet, AnnouncedOK
<1>. QED BY <1>1, <1>2

\* lsmCheckpointLoad() gives the checkpointer a complete copy, and the
\* checkpointer goes on only when it is newer than the announced checkpoint.
LEMMA LoadLists ==
  ASSUME TypeOK, ListsOK, AnnouncedOK, NEW c \in Conn, LoadStep(c)
  PROVE  ListsOK' /\ AnnouncedOK'
<1>1. /\ UNCHANGED <<snap1, snap2, iMetaPage, meta, worker, wsnap>>
      /\ \A d \in Conn \ {c} : pc'[d] = pc[d] /\ buf'[d] = buf[d]
  BY LoadFrame DEF TypeOK, ConnTypeOK, shmVars, workVars, fileVars
<1>2. /\ pc'[c] # "setmeta"
      /\ pc'[c] \in CkptLabels => LoadedGood(c) /\ ~CheckpointDone(buf'[c])
  BY LoadFrame DEF CkptLabels, LoadLabels, Resume
<1>3. pc'[c] \in CkptLabels => Good(buf'[c]) /\ buf'[c] \in Snapshot
  BY <1>2, LoadFrame DEF LoadedGood, ListsOK
<1>4. ListsOK'
  BY <1>1, <1>3 DEF ListsOK
<1>5. Newer(c)'
  <2>. SUFFICES ASSUME pc'[c] \in CkptLabels, iMetaPage # 0
                PROVE  buf'[c].id > meta[iMetaPage].id
    BY <1>1, <1>2 DEF Newer
  <2>1. ~(meta[iMetaPage].id >= buf'[c].id)
    BY <1>2 DEF CheckpointDone
  <2>2. meta[iMetaPage] \in Snapshot
    BY DEF AnnouncedOK, TypeOK, ShmTypeOK, FileTypeOK
  <2>. QED BY <1>3, <2>1, <2>2 DEF Snapshot
<1>6. \A d \in Conn \ {c} : Newer(d)'
  BY <1>1 DEF AnnouncedOK, Newer
<1>. QED BY <1>1, <1>4, <1>5, <1>6 DEF AnnouncedOK

-----------------------------------------------------------------------------
(* The steps of the worker *)

\* The worker changes neither the pages of the file nor a checkpoint's copy.
LEMMA WorkFrame ==
  ASSUME TypeOK, NEW c \in Conn, WorkStep(c)
  PROVE  /\ UNCHANGED <<iMetaPage, meta>>
         /\ \A d \in Conn : pc'[d] \in CkptLabels => pc'[d] = pc[d] /\ buf'[d] = buf[d]
<1>. USE DEF TypeOK, ConnTypeOK, CkptLabels, shmVars, lockVars, connVars,
             workVars, fileVars, Goto
<1>1. CASE BeginWork(c)    BY <1>1 DEF BeginWork
<1>2. CASE AllocStep(c)
  <2>1. CASE Allocate(c)   BY <2>1 DEF Allocate
  <2>. QED BY <1>2, <2>1, ScanQuiet DEF AllocStep, Quiet
<1>3. CASE BlockFree(c)    BY <1>3 DEF BlockFree
<1>4. CASE BlockRefree(c)  BY <1>4 DEF BlockRefree
<1>5. CASE SaveWorker(c)   BY <1>5 DEF SaveWorker
<1>6. CASE SaveSnap2(c)    BY <1>6 DEF SaveSnap2
<1>7. CASE SaveBarrier(c)  BY <1>7 DEF SaveBarrier
<1>8. CASE SaveSnap1(c)    BY <1>8 DEF SaveSnap1
<1>9. CASE FinishWork(c)   BY <1>9 DEF FinishWork, Resume
<1>. QED
  BY <1>1, <1>2, <1>3, <1>4, <1>5, <1>6, <1>7, <1>8, <1>9 DEF WorkStep

LEMMA WorkLists ==
  ASSUME TypeOK, RoleOK, ListsOK, AnnouncedOK, NEW c \in Conn, WorkStep(c)
  PROVE  ListsOK' /\ AnnouncedOK'
<1>. USE ConnAssumption DEF shmVars, lockVars, workVars
<1>1. AnnouncedOK'
  <2>1. ASSUME NEW d \in Conn PROVE Newer(d)'
    BY <2>1, WorkFrame DEF AnnouncedOK, Newer, CkptLabels
  <2>. QED BY <2>1, WorkFrame DEF AnnouncedOK
<1>2. /\ \A d \in Conn : pc'[d] \in CkptLabels => Good(buf'[d])
      /\ \A p \in {1, 2} : meta'[p] # None => Good(meta'[p])
  BY WorkFrame DEF ListsOK
<1>3. Good(snap1'.snap) /\ Good(snap2'.snap) /\ (worker' # None => Good(wsnap'))
  <2>1. CASE BeginWork(c)
    BY <2>1 DEF BeginWork, Repaired, ListsOK
  <2>2. CASE Allocate(c)
    BY <2>2, GoodWorker DEF Allocate, ListsOK
  <2>3. CASE AllocStep(c) /\ ~Allocate(c)
    BY <2>3, ScanQuiet DEF AllocStep, Quiet, ListsOK
  <2>4. CASE BlockFree(c)
    BY <2>4, GoodWorker DEF BlockFree, ListsOK
  <2>5. CASE BlockRefree(c)
    BY <2>5, GoodWorker DEF BlockRefree, ListsOK
  <2>6. CASE SaveWorker(c)
    <3>1. worker = c /\ wsnap \in Snapshot /\ Good(wsnap)
      BY <2>6, WsnapType DEF SaveWorker, BaseLabels, ListsOK
    <3>2. NextSnapshot \in Snapshot
      BY <3>1 DEF NextSnapshot, Snapshot
    <3>3. snap2'.snap = snap2.snap \/ snap2'.snap = NextSnapshot
      BY <2>6, <3>2, OverwrittenFields DEF SaveWorker, TypeOK, ShmTypeOK
    <3>4. Good(NextSnapshot)
      BY <3>1, GoodNext
    <3>. QED BY <2>6, <3>3, <3>4 DEF SaveWorker, ListsOK
  <2>7. CASE SaveSnap2(c)
    <3>1. worker = c /\ Good(wsnap)
      BY <2>7, WsnapType DEF SaveSnap2, SaveLabels, ListsOK
    <3>. QED BY <2>7, <3>1 DEF SaveSnap2, ListsOK
  <2>8. CASE SaveBarrier(c)
    <3>1. worker = c /\ wsnap \in Snapshot /\ Good(wsnap)
      BY <2>8, WsnapType DEF SaveBarrier, SaveLabels, ListsOK
    <3>2. snap1'.snap = snap1.snap \/ snap1'.snap = wsnap
      BY <2>8, <3>1, OverwrittenFields DEF SaveBarrier, TypeOK, ShmTypeOK
    <3>. QED BY <2>8, <3>1, <3>2 DEF SaveBarrier, ListsOK
  <2>9. CASE SaveSnap1(c)
    <3>1. worker = c /\ Good(wsnap)
      BY <2>9, WsnapType DEF SaveSnap1, SaveLabels, ListsOK
    <3>. QED BY <2>9, <3>1 DEF SaveSnap1, ListsOK
  <2>10. CASE FinishWork(c)
    BY <2>10 DEF FinishWork, ListsOK
  <2>. QED
    BY <2>1, <2>2, <2>3, <2>4, <2>5, <2>6, <2>7, <2>8, <2>9, <2>10 DEF WorkStep, AllocStep
<1>. QED BY <1>1, <1>2, <1>3 DEF ListsOK
-----------------------------------------------------------------------------
(* The steps of the checkpointer, and failures *)

\* Only one connection at a time writes a checkpoint.
LEMMA OneCheckpointer ==
  ASSUME RoleOK, NEW c \in Conn, pc[c] \in CkptLabels
  PROVE  \A d \in Conn : pc[d] \in CkptLabels => d = c
BY DEF RoleOK

LEMMA CheckpointFrame ==
  ASSUME TypeOK, NEW c \in Conn, CheckpointStep(c)
  PROVE  /\ UNCHANGED <<snap1, snap2, worker, wsnap, disk>>
         /\ \A d \in Conn \ {c} : pc'[d] = pc[d] /\ buf'[d] = buf[d]
BY DEF CheckpointStep, BeginCheckpoint, SyncDb, CheckpointStore, SyncMeta,
       FinishCheckpoint, Goto, TypeOK, ConnTypeOK, shmVars, lockVars, workVars,
       fileVars, connVars

LEMMA CheckpointLists ==
  ASSUME TypeOK, RoleOK, ListsOK, AnnouncedOK, NEW c \in Conn, CheckpointStep(c)
  PROVE  ListsOK' /\ AnnouncedOK'
<1>. USE DEF TypeOK, ConnTypeOK, FileTypeOK
<1>1. iMetaPage \in 0..2 /\ OtherPage(iMetaPage) \in {1, 2} /\ OtherPage(iMetaPage) # iMetaPage
  BY OtherPageFacts DEF ShmTypeOK
<1>2. \A d \in Conn \ {c} : pc'[d] = pc[d] /\ buf'[d] = buf[d]
  BY CheckpointFrame
<1>3. \A d \in Conn \ {c} : pc'[d] \in CkptLabels => pc[c] \notin CkptLabels
  BY <1>2, OneCheckpointer
<1>4. Good(snap1'.snap) /\ Good(snap2'.snap) /\ (worker' # None => Good(wsnap'))
  BY CheckpointFrame DEF ListsOK
<1>5. CASE BeginCheckpoint(c)
  <2>1. Quiet
    BY <1>5, CheckpointFrame
    DEF BeginCheckpoint, Quiet, Goto, CkptLabels, shmVars, fileVars
  <2>. QED BY <2>1, QuietLists
<1>6. CASE ~BeginCheckpoint(c)
  <2>1. /\ pc[c] \in CkptLabels /\ buf' = buf
        /\ \A d \in Conn \ {c} : pc'[d] \notin CkptLabels
        /\ Good(buf[c]) /\ buf[c] \in Snapshot
    BY <1>3, <1>6 DEF CheckpointStep, SyncDb, CheckpointStore, SyncMeta, FinishCheckpoint,
                      CkptLabels, ListsOK
  <2>2. \A d \in Conn : pc'[d] \in CkptLabels => Good(buf'[d])
    BY <2>1
  <2>3. \A p \in {1, 2} : meta'[p] = meta[p] \/ meta'[p] = None \/ meta'[p] = buf[c]
    BY <1>1, <1>6 DEF CheckpointStep, SyncDb, CheckpointStore, SyncMeta, FinishCheckpoint,
                      fileVars
  <2>4. ListsOK'
    BY <1>4, <2>1, <2>2, <2>3 DEF ListsOK
  <2>5. \A d \in Conn \ {c} : Newer(d)'
    BY <2>1 DEF Newer, CkptLabels
  <2>6. Newer(c)' /\ (iMetaPage' # 0 => meta'[iMetaPage'] # None)
    <3>1. CASE SyncDb(c)
      BY <2>1, <3>1 DEF SyncDb, Goto, Newer, AnnouncedOK, shmVars
    <3>2. CASE CheckpointStore(c)
      <4>1. /\ iMetaPage' = iMetaPage /\ pc'[c] = "syncmeta"
            /\ iMetaPage # 0 => meta'[iMetaPage] = meta[iMetaPage]
        BY <1>1, <3>2 DEF CheckpointStore, Goto, shmVars
      <4>. QED BY <2>1, <4>1 DEF Newer, AnnouncedOK
    <3>3. CASE SyncMeta(c)
      <4>1. /\ iMetaPage' = iMetaPage
            /\ iMetaPage # 0 => meta'[iMetaPage] = meta[iMetaPage]
            /\ meta'[OtherPage(iMetaPage)] = buf[c]
        BY <1>1, <3>3 DEF SyncMeta, shmVars
      <4>. QED BY <2>1, <4>1 DEF Newer, AnnouncedOK, OtherPage
    <3>4. CASE FinishCheckpoint(c)
      <4>1. /\ iMetaPage' = OtherPage(iMetaPage) /\ meta' = meta
            /\ pc'[c] \notin CkptLabels /\ pc[c] = "setmeta"
        BY <3>4 DEF FinishCheckpoint, Goto, Resume, CkptLabels, fileVars
      <4>2. meta[OtherPage(iMetaPage)] # None
        BY <2>1, <4>1, NoneAssumption DEF AnnouncedOK, Newer
      <4>. QED BY <4>1, <4>2 DEF Newer, CkptLabels
    <3>. QED BY <1>6, <3>1, <3>2, <3>3, <3>4 DEF CheckpointStep
  <2>. QED BY <2>4, <2>5, <2>6 DEF AnnouncedOK
<1>. QED BY <1>5, <1>6

LEMMA DieLists ==
  ASSUME TypeOK, ListsOK, AnnouncedOK, NEW c \in Conn, Die(c)
  PROVE  ListsOK' /\ AnnouncedOK'
<1>1. /\ UNCHANGED <<snap1, snap2, iMetaPage, meta>>
      /\ worker' # None => worker' = worker /\ wsnap' = wsnap
      /\ \A d \in Conn : pc'[d] \in CkptLabels => pc'[d] = pc[d] /\ buf'[d] = buf[d]
  BY DEF Die, Goto, CkptLabels, TypeOK, ConnTypeOK, shmVars, fileVars, workVars
<1>2. ListsOK'
  BY <1>1 DEF ListsOK
<1>3. \A d \in Conn : Newer(d)'
  BY <1>1 DEF AnnouncedOK, Newer, CkptLabels
<1>. QED BY <1>1, <1>2, <1>3 DEF AnnouncedOK

\* lsmCheckpointRecover() takes the newest of the complete pages.
LEMMA RecoveredFacts ==
  ASSUME TypeOK, ListsOK
  PROVE  /\ RecoveredPage \in 0..2
         /\ Good(Recovered)
         /\ RecoveredPage # 0 => meta[RecoveredPage] # None
         /\ \A p \in {1, 2} : meta[p] # None =>
              /\ RecoveredPage # 0
              /\ meta[RecoveredPage].id >= meta[p].id
<1>1. \A p \in {1, 2} : /\ PageId(p) \in Nat
                        /\ meta[p] = None => PageId(p) = 0
                        /\ meta[p] # None => PageId(p) = meta[p].id /\ PageId(p) > 0
  BY DEF PageId, TypeOK, FileTypeOK, Snapshot, ListsOK, Good
<1>2. RecoveredPage \in 0..2
  BY DEF RecoveredPage
<1>3. /\ RecoveredPage # 0 => meta[RecoveredPage] # None
      /\ \A p \in {1, 2} : meta[p] # None =>
           /\ RecoveredPage # 0
           /\ meta[RecoveredPage].id >= meta[p].id
  BY <1>1 DEF RecoveredPage
<1>4. Good(Recovered)
  BY <1>2, <1>3, EmptyGood DEF Recovered, ListsOK
<1>. QED BY <1>2, <1>3, <1>4

LEMMA CrashLists ==
  ASSUME TypeOK, ListsOK, Crash
  PROVE  ListsOK' /\ AnnouncedOK'
<1>1. /\ snap1'.snap = Recovered /\ snap2'.snap = Recovered /\ meta' = meta
      /\ iMetaPage' = RecoveredPage /\ worker' = None
      /\ \A c \in Conn : pc'[c] \notin CkptLabels
  BY DEF Crash, CkptLabels
<1>2. ListsOK'
  BY <1>1, RecoveredFacts DEF ListsOK
<1>3. AnnouncedOK'
  BY <1>1, RecoveredFacts DEF AnnouncedOK, Newer, CkptLabels
<1>. QED BY <1>2, <1>3

\* Only lsmCheckpointWrite()'s last step announces another page, and until then
\* the announced one is not written to.
LEMMA AnnouncedStays ==
  ASSUME TypeOK, Next, ~Crash, ~\E c \in Conn : FinishCheckpoint(c)
  PROVE  iMetaPage' = iMetaPage /\ (iMetaPage # 0 => meta'[iMetaPage] = meta[iMetaPage])
<1>1. ASSUME NEW c \in Conn, CheckpointStep(c)
      PROVE  iMetaPage' = iMetaPage /\ (iMetaPage # 0 => meta'[iMetaPage] = meta[iMetaPage])
  <2>1. OtherPage(iMetaPage) # iMetaPage
    BY OtherPageFacts DEF TypeOK, ShmTypeOK
  <2>. QED
    BY <1>1, <2>1
    DEF CheckpointStep, BeginCheckpoint, SyncDb, CheckpointStore, SyncMeta, shmVars,
        fileVars, TypeOK, ShmTypeOK, FileTypeOK
<1>2. ASSUME NEW c \in Conn, \/ ReadStep(c) \/ FinishReadTrans(c) \/ WriteStep(c)
                             \/ SetLockStep(c) \/ WorkStep(c) \/ Die(c)
      PROVE  iMetaPage' = iMetaPage /\ meta' = meta
  <2>1. CASE WorkStep(c)
    BY <2>1, WorkFrame
  <2>2. CASE Die(c)
    BY <2>2 DEF Die, shmVars, fileVars
  <2>3. CASE LoadStep(c)
    BY <2>3, LoadFrame DEF shmVars, fileVars
  <2>. QED BY <1>2, <2>1, <2>2, <2>3, ReadQuiet, WriteQuiet DEF Quiet
<1>. QED BY <1>1, <1>2 DEF Next

-----------------------------------------------------------------------------
(* The first two theorems *)

LEMMA InitFile == Init => FileInv
<1>. SUFFICES ASSUME Init PROVE FileInv
  OBVIOUS
<1>1. TypeOK /\ RoleOK
  BY InitType, InitRole
<1>2. Recovered = EmptySnapshot /\ RecoveredPage = 0
  BY DEF Init, Recovered, RecoveredPage, PageId
<1>3. ListsOK
  BY <1>2, EmptyGood DEF Init, ListsOK, CkptLabels
<1>4. AnnouncedOK
  BY <1>2 DEF Init, AnnouncedOK, Newer, CkptLabels
<1>. QED BY <1>1, <1>3, <1>4 DEF FileInv

LEMMA FileStep ==
  ASSUME FileInv, [Next]_vars
  PROVE  FileInv'
<1>1. CASE UNCHANGED vars
  <2>1. TypeOK' /\ RoleOK'
    <3>. USE DEF vars, shmVars, lockVars, connVars, workVars, fileVars
    <3>1. TypeOK'
      BY <1>1, TypeFrame DEF FileInv, TypeOK
    <3>2. RoleOK'
      BY <1>1 DEF FileInv, RoleOK
    <3>. QED BY <3>1, <3>2
  <2>2. Quiet
    BY <1>1 DEF Quiet, vars, shmVars, lockVars, connVars, workVars, fileVars
  <2>. QED BY <2>1, <2>2, QuietLists DEF FileInv
<1>2. CASE Next
  <2>1. TypeOK' /\ RoleOK'
    BY <1>2, TypeStep, RoleStep DEF FileInv
  <2>2. ASSUME NEW c \in Conn, \/ ReadStep(c) \/ FinishReadTrans(c)
                               \/ WriteStep(c) \/ SetLockStep(c)
        PROVE  ListsOK' /\ AnnouncedOK'
    BY <2>2, ReadQuiet, WriteQuiet, QuietLists, LoadLists DEF FileInv
  <2>3. ASSUME NEW c \in Conn, WorkStep(c) PROVE ListsOK' /\ AnnouncedOK'
    BY <2>3, WorkLists DEF FileInv
  <2>4. ASSUME NEW c \in Conn, CheckpointStep(c) PROVE ListsOK' /\ AnnouncedOK'
    BY <2>1, <2>4, CheckpointLists DEF FileInv
  <2>5. ASSUME NEW c \in Conn, Die(c) PROVE ListsOK' /\ AnnouncedOK'
    BY <2>5, DieLists DEF FileInv
  <2>6. CASE Crash
    BY <2>1, <2>6, CrashLists DEF FileInv
  <2>. QED BY <1>2, <2>1, <2>2, <2>3, <2>4, <2>5, <2>6 DEF Next, FileInv
<1>. QED BY <1>1, <1>2

LEMMA FileInvariant == Spec => []FileInv
<1>. QED BY InitFile, FileStep, PTL DEF Spec

\* freelistAppend(), lsmBlockAllocate(), lsmBlockFree() and lsmBlockRefree()
\* never lose a block and never list one twice: in whichever complete copy a
\* connection loads, an orphan's too, a block of the file is in use or free, with
\* any number of workers and whatever dies or fails.
THEOREM FreelistAccounted == Spec => []FreelistComplete
<1>1. FileInv => FreelistComplete
  <2>. SUFFICES ASSUME FileInv PROVE FreelistComplete
    OBVIOUS
  <2>1. Accounted(snap1.snap) /\ Accounted(snap2.snap)
    BY DEF FileInv, ListsOK, Good
  <2>. QED BY <2>1 DEF FreelistComplete, Accounted
<1>. QED BY <1>1, FileInvariant, PTL

\* lsmCheckpointWrite() never loses the checkpoint it announced in iMetaPage, nor
\* goes back to an older one: with any number of checkpointers, which may die
\* between writing a page, syncing it and announcing it, and across failures of
\* the machine that leave a torn page.
THEOREM CheckpointOnlyGrows == Spec => CheckpointMonotone
<1>1. ASSUME FileInv, [Next]_vars, iMetaPage # 0
      PROVE  iMetaPage' # 0 /\ PageId(iMetaPage)' >= PageId(iMetaPage)
  <2>1. FileInv'
    BY <1>1, FileStep
  <2>2. iMetaPage \in {1, 2} /\ meta[iMetaPage] \in Snapshot /\ meta[iMetaPage] # None
    BY <1>1 DEF FileInv, AnnouncedOK, TypeOK, ShmTypeOK, FileTypeOK
  <2>3. meta[iMetaPage].id \in Nat /\ PageId(iMetaPage) = meta[iMetaPage].id
    BY <2>2 DEF PageId, Snapshot
  <2>4. CASE iMetaPage' = iMetaPage /\ meta'[iMetaPage] = meta[iMetaPage]
    BY <1>1, <2>3, <2>4 DEF PageId
  <2>5. ASSUME NEW c \in Conn, FinishCheckpoint(c)
        PROVE  iMetaPage' # 0 /\ PageId(iMetaPage)' >= PageId(iMetaPage)
    <3>1. /\ iMetaPage' = OtherPage(iMetaPage) /\ iMetaPage' # 0
          /\ meta' = meta
          /\ meta[OtherPage(iMetaPage)] = buf[c]
          /\ buf[c].id > meta[iMetaPage].id /\ buf[c] \in Snapshot
      BY <1>1, <2>2, <2>5, OtherPageFacts
      DEF FinishCheckpoint, FileInv, AnnouncedOK, Newer, CkptLabels, fileVars, TypeOK, ConnTypeOK
    <3>2. PageId(iMetaPage)' = buf[c].id
      BY <3>1, NoneAssumption DEF PageId
    <3>. QED BY <2>3, <3>1, <3>2 DEF Snapshot
  <2>6. CASE Crash
    <3>1. iMetaPage' = RecoveredPage /\ meta' = meta
      BY <2>6 DEF Crash
    <3>2. RecoveredPage # 0 /\ meta[RecoveredPage] # None
          /\ meta[RecoveredPage].id >= meta[iMetaPage].id
      BY <1>1, <2>2, RecoveredFacts DEF FileInv
    <3>. QED BY <2>3, <3>1, <3>2 DEF PageId
  <2>7. CASE Next /\ ~Crash /\ ~\E c \in Conn : FinishCheckpoint(c)
    BY <1>1, <2>4, <2>7, AnnouncedStays DEF FileInv
  <2>8. CASE UNCHANGED vars
    BY <2>8, <2>4 DEF vars, shmVars, fileVars
  <2>. QED BY <1>1, <2>5, <2>6, <2>7, <2>8
<1>2. FileInv /\ [Next]_vars =>
        [iMetaPage # 0 => iMetaPage' # 0 /\ PageId(iMetaPage)' >= PageId(iMetaPage)]_vars
  BY <1>1
<1>. QED BY <1>2, FileInvariant, PTL DEF Spec, CheckpointMonotone
-----------------------------------------------------------------------------
(* One connection m does all the work and writes all the checkpoints *)

Durable(s) == \A b \in Block : s.blk[b] # 0 => b \in synced

\* The page that is not announced holds an older checkpoint, or the one that
\* m is about to announce.
PagesOK(m) ==
  \A p \in {1, 2} : p # iMetaPage /\ meta[p] # None =>
    \/ iMetaPage # 0 /\ meta[p].id < meta[iMetaPage].id
    \/ /\ pc[m] \in {"syncmeta", "setmeta"}
       /\ p = OtherPage(iMetaPage)
       /\ meta[p] = buf[m]

\* What a checkpoint under way is a copy of, and what is already synced of it.
CopyingOK(m) ==
  /\ pc[m] \in CkptLabels => buf[m] = Newest
  /\ pc[m] \in {"store", "syncmeta", "setmeta"} => Durable(buf[m])

\* lsmBlockAllocate() recycles nothing that the announced checkpoint needs.
InUseOK(m) ==
  /\ pc[m] = "synced" =>
       /\ wMeta = iMetaPage
       /\ iMetaPage # 0 => inUse = meta[iMetaPage].id
  /\ pc[m] \in ScanLabels /\ iMetaPage # 0 => inUse <= meta[iMetaPage].id

AnnouncedHeld ==
  iMetaPage # 0 => Safe(meta[iMetaPage]) /\ Durable(meta[iMetaPage])

MaintOK(m) ==
  /\ worker \in {None, m}
  /\ ckptr \in {None, m}
  /\ PagesOK(m)
  /\ CopyingOK(m)
  /\ InUseOK(m)
  /\ AnnouncedHeld

MaintInv(m) == ReaderInv /\ ListsOK /\ AnnouncedOK /\ MaintOK(m)
\* A step of connection c, other than a failure of the machine.
StepOf(c) ==
  \/ ReadStep(c) \/ FinishReadTrans(c) \/ WriteStep(c) \/ SetLockStep(c)
  \/ WorkStep(c) \/ CheckpointStep(c) \/ Die(c)

\* A connection does not move another one, and only the worker allocates.
LEMMA OthersStep ==
  ASSUME TypeOK, RoleOK, NEW m \in Conn, NEW c \in Conn \ {m}, StepOf(c)
  PROVE  /\ pc'[m] = pc[m] /\ buf'[m] = buf[m]
         /\ worker # c => UNCHANGED <<inUse, wMeta>>
<1>. USE DEF TypeOK, ConnTypeOK, shmVars, lockVars, connVars, workVars, fileVars, Goto
<1>0. CASE LoadStep(c)
  BY <1>0, LoadFrame
<1>1. CASE (ReadStep(c) \/ FinishReadTrans(c)) /\ ~LoadStep(c)
  BY <1>1
  DEF ReadStep, LoadStep, LoadHeader, LoadSnapshot, ExactSlot, ExactSlotLock, ExclSlot,
      ExclSlotSet, UsableSlot, UsableSlotLock, FindSlot, ShareSlot, CheckHeader,
      CheckSnapshot, AttemptFailed, FinishReadTrans
<1>2. CASE WriteStep(c) \/ SetLockStep(c)
  BY <1>2
  DEF WriteStep, BeginWriteTrans, Commit, FinishWriteTrans,
      SetLockStep, SetReadLock, SetReadLockTry, SetReadLockSet
<1>3. CASE AllocStep(c)
  <2>1. worker = c
    BY <1>3, WsnapType
    DEF AllocStep, AllocateSynced, AllocateInUse, ScanSlot, ScanSlotLock,
        ScanSlotClear, Allocate, BaseLabels, ScanLabels
  <2>. QED
    BY <1>3, <2>1
    DEF AllocStep, AllocateSynced, AllocateInUse, ScanSlot, ScanSlotLock,
        ScanSlotClear, Allocate
<1>4. CASE WorkStep(c) /\ ~AllocStep(c)
  BY <1>4
  DEF WorkStep, BeginWork, BlockFree, BlockRefree, SaveWorker, SaveSnap2,
      SaveBarrier, SaveSnap1, FinishWork
<1>5. CASE CheckpointStep(c)
  BY <1>5
  DEF CheckpointStep, BeginCheckpoint, SyncDb, CheckpointStore, SyncMeta, FinishCheckpoint
<1>6. CASE Die(c)
  BY <1>6 DEF Die
<1>. QED BY <1>0, <1>1, <1>2, <1>3, <1>4, <1>5, <1>6 DEF StepOf

\* Where a connection is not while it takes a step.
LEMMA OwnStep ==
  ASSUME TypeOK, NEW m \in Conn, StepOf(m)
  PROVE  /\ ~CheckpointStep(m) /\ ~Die(m) => pc[m] \notin CkptLabels
         /\ ~AllocStep(m) => pc'[m] \notin ScanLabels \cup {"synced"}
<1>. USE DEF TypeOK, ConnTypeOK, shmVars, lockVars, connVars, workVars, fileVars, Goto,
             CkptLabels, ScanLabels
<1>0. CASE LoadStep(m)
  BY <1>0, LoadFrame DEF LoadLabels, Resume
<1>1. CASE (ReadStep(m) \/ FinishReadTrans(m)) /\ ~LoadStep(m)
  BY <1>1
  DEF ReadStep, LoadStep, LoadHeader, LoadSnapshot, ExactSlot, ExactSlotLock, ExclSlot,
      ExclSlotSet, UsableSlot, UsableSlotLock, FindSlot, ShareSlot, CheckHeader,
      CheckSnapshot, AttemptFailed, FinishReadTrans
<1>2. CASE WriteStep(m) \/ SetLockStep(m)
  BY <1>2
  DEF WriteStep, BeginWriteTrans, Commit, FinishWriteTrans,
      SetLockStep, SetReadLock, SetReadLockTry, SetReadLockSet
<1>3. CASE AllocStep(m)
  BY <1>3
  DEF AllocStep, AllocateSynced, AllocateInUse, ScanSlot, ScanSlotLock,
      ScanSlotClear, Allocate
<1>4. CASE WorkStep(m) /\ ~AllocStep(m)
  BY <1>4
  DEF WorkStep, BeginWork, BlockFree, BlockRefree, SaveWorker, SaveSnap2,
      SaveBarrier, SaveSnap1, FinishWork, Resume
<1>5. CASE CheckpointStep(m)
  BY <1>5
  DEF CheckpointStep, BeginCheckpoint, SyncDb, CheckpointStore, SyncMeta, FinishCheckpoint,
      Resume
<1>6. CASE Die(m)
  BY <1>6 DEF Die
<1>. QED BY <1>0, <1>1, <1>2, <1>3, <1>4, <1>5, <1>6 DEF StepOf

LEMMA NextSteps ==
  ASSUME Next, ~Crash
  PROVE  \E c \in Conn : StepOf(c)
BY DEF Next, StepOf

\* Blocks leave the synced set only when the worker writes to them.
LEMMA SyncedStep ==
  ASSUME NEW c \in Conn, StepOf(c)
  PROVE  synced' = synced \/ synced' = Block \/ Allocate(c)
<1>. USE DEF fileVars
<1>1. CASE ReadStep(c) \/ FinishReadTrans(c)
  BY <1>1
  DEF ReadStep, LoadHeader, LoadSnapshot, LoadFirst, LoadSecond, LoadCopy,
      LoadGivesUp, ExactSlot, ExactSlotLock, ExclSlot, ExclSlotSet, UsableSlot,
      UsableSlotLock, FindSlot, ShareSlot, CheckHeader, CheckSnapshot, FinishReadTrans
<1>2. CASE WriteStep(c) \/ SetLockStep(c) \/ Die(c)
  BY <1>2
  DEF WriteStep, BeginWriteTrans, Commit, FinishWriteTrans,
      SetLockStep, SetReadLock, SetReadLockTry, SetReadLockSet, Die
<1>3. CASE WorkStep(c)
  BY <1>3
  DEF WorkStep, BeginWork, AllocStep, AllocateSynced, AllocateInUse, ScanSlot,
      ScanSlotLock, ScanSlotClear, BlockFree, BlockRefree, SaveWorker,
      SaveSnap2, SaveBarrier, SaveSnap1, FinishWork
<1>4. CASE CheckpointStep(c)
  BY <1>4
  DEF CheckpointStep, BeginCheckpoint, SyncDb, CheckpointStore, SyncMeta, FinishCheckpoint
<1>. QED BY <1>1, <1>2, <1>3, <1>4 DEF StepOf

-----------------------------------------------------------------------------

\* The hypothesis on who maintains the database.
OneMaintainer(m) == m \in Conn /\ Workers \cup Checkpointers \subseteq {m} /\ m \notin Mortal

LEMMA MaintainerRoles ==
  ASSUME RoleOK, NEW m, OneMaintainer(m), worker \in {None, m}, ckptr \in {None, m},
         NEW c \in Conn, StepOf(c)
  PROVE  /\ WorkStep(c) => c = m \/ FinishWork(c)
         /\ CheckpointStep(c) => c = m
         /\ Die(c) => c # m /\ worker # c /\ ckptr # c
         /\ worker' \in {None, m} /\ ckptr' \in {None, m}
<1>. USE ConnAssumption DEF OneMaintainer
<1>1. ASSUME WorkStep(c) PROVE c = m \/ FinishWork(c)
  BY <1>1
  DEF WorkStep, BeginWork, AllocStep, AllocateSynced, AllocateInUse, ScanSlot,
      ScanSlotLock, ScanSlotClear, Allocate, BlockFree, BlockRefree, SaveWorker,
      SaveSnap2, SaveBarrier, SaveSnap1, RoleOK, BaseLabels, ScanLabels, SaveLabels
<1>2. ASSUME CheckpointStep(c) PROVE c = m
  BY <1>2
  DEF CheckpointStep, BeginCheckpoint, SyncDb, CheckpointStore, SyncMeta,
      FinishCheckpoint, RoleOK, CkptLabels
<1>3. ASSUME Die(c) PROVE c # m /\ worker # c /\ ckptr # c
  BY <1>3 DEF Die
<1>4. worker' \in {None, m} /\ ckptr' \in {None, m}
  <2>. USE DEF lockVars
  <2>1. CASE ReadStep(c) \/ FinishReadTrans(c)
    BY <2>1
    DEF ReadStep, LoadHeader, LoadSnapshot, LoadFirst, LoadSecond, LoadCopy, AfterLoad,
        LoadGivesUp, ExactSlot, ExactSlotLock, ExclSlot, ExclSlotSet, UsableSlot,
        UsableSlotLock, FindSlot, ShareSlot, CheckHeader, CheckSnapshot, FinishReadTrans
  <2>2. CASE WriteStep(c) \/ SetLockStep(c) \/ Die(c)
    BY <2>2
    DEF WriteStep, BeginWriteTrans, Commit, FinishWriteTrans,
        SetLockStep, SetReadLock, SetReadLockTry, SetReadLockSet, Die
  <2>3. CASE WorkStep(c)
    BY <2>3
    DEF WorkStep, BeginWork, AllocStep, AllocateSynced, AllocateInUse, ScanSlot,
        ScanSlotLock, ScanSlotClear, Allocate, BlockFree, BlockRefree, SaveWorker,
        SaveSnap2, SaveBarrier, SaveSnap1, FinishWork
  <2>4. CASE CheckpointStep(c)
    BY <1>2, <2>4
    DEF CheckpointStep, BeginCheckpoint, SyncDb, CheckpointStore, SyncMeta,
        FinishCheckpoint
  <2>. QED BY <2>1, <2>2, <2>3, <2>4 DEF StepOf
<1>. QED BY <1>1, <1>2, <1>3, <1>4
LEMMA AnnouncedVersion ==
  ASSUME TypeOK, CopyOK, AnnouncedOK, iMetaPage # 0
  PROVE  /\ iMetaPage \in {1, 2} /\ meta[iMetaPage] \in Snapshot
         /\ meta[iMetaPage] # None /\ VersionOK(meta[iMetaPage])
<1>1. iMetaPage \in {1, 2} /\ meta[iMetaPage] # None
  BY DEF TypeOK, ShmTypeOK, AnnouncedOK
<1>. QED BY <1>1 DEF TypeOK, FileTypeOK, CopyOK, MetaOf

\* The worker is m, whose scan started from the announced checkpoint.
LEMMA AnnouncedSpared ==
  ASSUME TypeOK, RoleOK, NEW m, OneMaintainer(m), MaintOK(m), iMetaPage # 0
  PROVE  Spared(meta[iMetaPage])
<1>. SUFFICES ASSUME NEW c \in Conn, Allocate(c) PROVE inUse <= meta[iMetaPage].id
  BY DEF Spared
<1>1. c = m /\ pc[m] \in ScanLabels
  BY MaintainerRoles DEF StepOf, WorkStep, AllocStep, MaintOK, Allocate, ScanLabels, FinishWork
<1>. QED BY <1>1 DEF MaintOK, InUseOK

\* A safe and durable snapshot that the worker spares stays so.
LEMMA HeldStep ==
  ASSUME ReaderInv, Next, ~Crash, NEW s \in Snapshot,
         VersionOK(s), Safe(s), Spared(s), Durable(s)
  PROVE  Safe(s)' /\ Durable(s)'
<1>1. TypeOK'
  BY TypeStep DEF ReaderInv
<1>2. Safe(s)'
  BY <1>1, BlocksStep DEF ReaderInv, BlockStep, StaysSafe
<1>3. PICK c \in Conn : StepOf(c)
  BY NextSteps
<1>4. CASE Allocate(c)
  <2>1. PICK b \in Block : IsNextBlock(b) /\ synced' = synced \ {b}
    BY <1>4 DEF Allocate
  <2>2. Kept(s, wsnap)
    BY <1>4, AllocateWsnap, ConnAssumption DEF ReaderInv, Safe
  <2>3. s.blk[b] = 0
    BY <1>4, <2>1, <2>2, NextBlockUnused DEF ReaderInv
  <2>. QED BY <1>2, <2>1, <2>3 DEF Durable
<1>5. CASE ~Allocate(c)
  BY <1>2, <1>3, <1>5, SyncedStep DEF Durable
<1>. QED BY <1>4, <1>5

LEMMA HeldAfter ==
  ASSUME NEW m, OneMaintainer(m), MaintInv(m), Next, ~Crash
  PROVE  AnnouncedHeld'
<1>. USE DEF MaintInv, ReaderInv
<1>1. CASE ~\E c \in Conn : FinishCheckpoint(c)
  <2>. SUFFICES ASSUME iMetaPage' # 0
                PROVE  Safe(meta[iMetaPage])' /\ Durable(meta[iMetaPage])'
    BY DEF AnnouncedHeld
  <2>1. iMetaPage' = iMetaPage /\ iMetaPage # 0 /\ meta'[iMetaPage'] = meta[iMetaPage]
    BY <1>1, AnnouncedStays
  <2>2. meta[iMetaPage] \in Snapshot /\ VersionOK(meta[iMetaPage])
    BY <2>1, AnnouncedVersion
  <2>3. Spared(meta[iMetaPage]) /\ Safe(meta[iMetaPage]) /\ Durable(meta[iMetaPage])
    BY <2>1, AnnouncedSpared DEF MaintOK, AnnouncedHeld
  <2>4. \A s \in Snapshot : s = meta[iMetaPage] => Safe(s)' /\ Durable(s)'
    BY <2>2, <2>3, HeldStep
  <2>. QED BY <2>1, <2>2, <2>4
<1>2. ASSUME NEW c \in Conn, FinishCheckpoint(c) PROVE AnnouncedHeld'
  <2>1. c = m /\ pc[m] = "setmeta"
    BY <1>2, MaintainerRoles DEF StepOf, CheckpointStep, MaintOK, FinishCheckpoint
  <2>2. /\ iMetaPage' = OtherPage(iMetaPage) /\ meta' = meta /\ synced' = synced
        /\ UNCHANGED <<snap1, snap2, disk, worker, wsnap>>
    BY <1>2 DEF FinishCheckpoint, fileVars, workVars
  <2>3. meta[OtherPage(iMetaPage)] = Newest /\ Durable(Newest) /\ Safe(Newest)
    BY <2>1 DEF AnnouncedOK, Newer, MaintOK, CopyingOK, CkptLabels, DataOK, OneMaintainer
  <2>4. meta'[iMetaPage'] = Newest
    BY <2>2, <2>3
  <2>5. Safe(Newest)' /\ Newest' = Newest
    BY <2>2, <2>3, SafeSame, NewestType DEF Newest
  <2>6. Durable(Newest)'
    BY <2>2, <2>3, <2>5 DEF Durable
  <2>. QED BY <2>4, <2>5, <2>6 DEF AnnouncedHeld
<1>. QED BY <1>1, <1>2

\* While m writes a checkpoint nobody publishes a snapshot or writes a block.
LEMMA CopyingAfter ==
  ASSUME NEW m, OneMaintainer(m), MaintInv(m), NEW c \in Conn, StepOf(c), Next, ~Crash
  PROVE  CopyingOK(m)'
<1>. USE DEF MaintInv, ReaderInv
<1>0. m \in Conn
  BY DEF OneMaintainer
<1>1. CASE CheckpointStep(c)
  <2>1. c = m
    BY <1>1, MaintainerRoles DEF MaintOK
  <2>2. UNCHANGED <<snap1, snap2>> /\ Newest' = Newest
    BY <1>1, CheckpointFrame DEF Newest
  <2>3. CASE BeginCheckpoint(m)
    BY <1>0, <2>3 DEF BeginCheckpoint, Goto, CopyingOK, CkptLabels, TypeOK, ConnTypeOK
  <2>4. CASE SyncDb(m) \/ SyncMeta(m)
    BY <2>2, <2>4 DEF SyncDb, SyncMeta, MaintOK, CopyingOK, CkptLabels, Durable
  <2>5. CASE CheckpointStore(m)
    BY <2>2, <2>5 DEF CheckpointStore, MaintOK, CopyingOK, CkptLabels, Durable
  <2>6. CASE FinishCheckpoint(m)
    BY <1>0, <2>6 DEF FinishCheckpoint, Goto, Resume, CopyingOK, CkptLabels, TypeOK, ConnTypeOK
  <2>. QED BY <1>1, <2>1, <2>3, <2>4, <2>5, <2>6 DEF CheckpointStep
<1>2. CASE LoadStep(m) /\ c = m
  <2>1. UNCHANGED <<snap1, snap2>> /\ Newest' = Newest /\ pc[m] \in LoadLabels
    BY <1>0, <1>2, LoadFrame DEF shmVars, Newest
  <2>2. pc'[m] \in CkptLabels => pc'[m] = "syncdb" /\ LoadedGood(m)
    BY <1>0, <1>2, LoadFrame DEF CkptLabels, LoadLabels, Resume
  <2>3. worker = None
    BY <1>0, <2>1
    DEF RoleOK, MaintOK, LoadLabels, BaseLabels, ScanLabels, SaveLabels, SetLabels
  <2>4. LoadedGood(m) => buf'[m] = Newest
    BY <2>3, ConnAssumption DEF LoadedGood, OrphanFree, Newest
  <2>. QED BY <2>1, <2>2, <2>4 DEF CopyingOK, CkptLabels
<1>3. CASE ~CheckpointStep(c) /\ ~(LoadStep(m) /\ c = m)
  <2>. SUFFICES ASSUME pc'[m] \in CkptLabels
                PROVE  /\ buf'[m] = Newest'
                       /\ pc'[m] \in {"store", "syncmeta", "setmeta"} => Durable(buf[m])'
    BY DEF CopyingOK, CkptLabels
  <2>1. pc'[m] = pc[m] /\ buf'[m] = buf[m]
    <3>1. CASE c = m
      <4>1. Die(m) => pc'[m] = "idle"
        BY <1>0 DEF Die, Goto, TypeOK, ConnTypeOK
      <4>2. ~Die(m)
        BY <4>1 DEF CkptLabels
      <4>. QED
        BY <1>0, <1>3, <3>1, <4>2, ReadQuiet, WriteQuiet, WorkFrame DEF StepOf, Quiet
    <3>2. CASE c # m
      BY <1>0, <3>2, OthersStep
    <3>. QED BY <3>1, <3>2
  <2>2. pc[m] \in CkptLabels /\ worker = None
    BY <1>0, <2>1
    DEF RoleOK, MaintOK, CkptLabels, BaseLabels, ScanLabels, SaveLabels, SetLabels
  <2>3. ~\E d \in Conn : \/ BeginWork(d) \/ SaveWorker(d) \/ SaveSnap2(d)
                         \/ SaveBarrier(d) \/ SaveSnap1(d) \/ Allocate(d)
    <3>. SUFFICES ASSUME NEW d \in Conn, \/ BeginWork(d) \/ SaveWorker(d) \/ SaveSnap2(d)
                                         \/ SaveBarrier(d) \/ SaveSnap1(d) \/ Allocate(d)
                  PROVE  FALSE
      OBVIOUS
    <3>1. CASE BeginWork(d)
      BY <2>2, <3>1 DEF BeginWork, OneMaintainer, CkptLabels
    <3>2. CASE ~BeginWork(d)
      <4>1. pc[d] \in BaseLabels \cup SaveLabels
        BY <3>2 DEF SaveWorker, SaveSnap2, SaveBarrier, SaveSnap1, Allocate,
                    BaseLabels, ScanLabels, SaveLabels
      <4>. QED BY <2>2, <4>1, WsnapType, ConnAssumption
    <3>. QED BY <3>1, <3>2
  <2>4. Newest' = Newest
    BY <2>3, ShmUntouched DEF Newest
  <2>5. synced' = synced \/ synced' = Block
    BY <2>3, SyncedStep
  <2>. QED BY <2>1, <2>2, <2>4, <2>5 DEF MaintOK, CopyingOK, Durable
<1>. QED BY <1>1, <1>2, <1>3

\* lsmCheckpointWrite() writes only the page that is not announced.
LEMMA PagesAfter ==
  ASSUME NEW m, OneMaintainer(m), MaintInv(m), NEW c \in Conn, StepOf(c)
  PROVE  PagesOK(m)'
<1>. USE DEF MaintInv, ReaderInv
<1>0. /\ m \in Conn /\ iMetaPage \in 0..2
      /\ OtherPage(iMetaPage) \in {1, 2} /\ OtherPage(iMetaPage) # iMetaPage
      /\ PagesOK(m) /\ Newer(m)
  BY OtherPageFacts DEF OneMaintainer, TypeOK, ShmTypeOK, MaintOK, AnnouncedOK
<1>1. CASE CheckpointStep(c)
  <2>1. c = m
    BY <1>1, MaintainerRoles DEF MaintOK
  <2>2. CASE BeginCheckpoint(m)
    <3>1. UNCHANGED <<meta, iMetaPage>> /\ pc[m] \notin {"syncmeta", "setmeta"}
      BY <2>2 DEF BeginCheckpoint, shmVars, fileVars
    <3>. QED BY <1>0, <3>1 DEF PagesOK
  <2>3. CASE SyncDb(m)
    <3>1. UNCHANGED <<meta, iMetaPage>> /\ pc[m] \notin {"syncmeta", "setmeta"}
      BY <2>3 DEF SyncDb, shmVars
    <3>. QED BY <1>0, <3>1 DEF PagesOK
  <2>4. CASE CheckpointStore(m) \/ SyncMeta(m)
    <3>1. /\ iMetaPage' = iMetaPage /\ buf' = buf
          /\ pc'[m] \in {"syncmeta", "setmeta"}
      BY <1>0, <2>4 DEF CheckpointStore, SyncMeta, Goto, shmVars, TypeOK, ConnTypeOK
    <3>2. /\ meta'[OtherPage(iMetaPage)] \in {None, buf[m]}
          /\ \A p \in {1, 2} : p # OtherPage(iMetaPage) => meta'[p] = meta[p]
      BY <1>0, <2>4 DEF CheckpointStore, SyncMeta, TypeOK, FileTypeOK
    <3>3. ASSUME NEW p \in {1, 2}, p # iMetaPage, meta'[p] # None, p # OtherPage(iMetaPage)
          PROVE  iMetaPage' # 0 /\ meta'[p].id < meta'[iMetaPage].id
      BY <1>0, <3>1, <3>2, <3>3 DEF PagesOK
    <3>. QED BY <3>1, <3>2, <3>3 DEF PagesOK
  <2>5. CASE FinishCheckpoint(m)
    <3>1. /\ iMetaPage' = OtherPage(iMetaPage) /\ meta' = meta
          /\ meta[OtherPage(iMetaPage)] = buf[m]
          /\ iMetaPage # 0 => meta[iMetaPage].id < buf[m].id
      <4>1. iMetaPage # 0 => meta[iMetaPage].id \in Nat /\ buf[m].id \in Nat
        BY <1>0, AnnouncedVersion DEF Snapshot, TypeOK, ConnTypeOK
      <4>2. iMetaPage # 0 => buf[m].id > meta[iMetaPage].id
        BY <1>0, <2>5 DEF FinishCheckpoint, Newer, CkptLabels
      <4>. QED BY <1>0, <2>5, <4>1, <4>2 DEF FinishCheckpoint, fileVars, Newer
    <3>2. ASSUME NEW p \in {1, 2}, p # iMetaPage', meta'[p] # None
          PROVE  iMetaPage' # 0 /\ meta'[p].id < meta'[iMetaPage'].id
      <4>1. iMetaPage' \in {1, 2}
        BY <1>0, <3>1
      <4>2. iMetaPage # 0 => p = iMetaPage
        BY <1>0, <3>1, <3>2
      <4>3. iMetaPage # 0
        BY <1>0, <3>1, <3>2 DEF PagesOK
      <4>. QED BY <3>1, <4>1, <4>2, <4>3
    <3>. QED BY <3>2 DEF PagesOK
  <2>. QED BY <1>1, <2>1, <2>2, <2>3, <2>4, <2>5 DEF CheckpointStep
<1>2. CASE ~CheckpointStep(c)
  <2>1. UNCHANGED <<iMetaPage, meta>>
    <3>1. CASE WorkStep(c)
      BY <3>1, WorkFrame
    <3>2. CASE Die(c)
      BY <3>2 DEF Die, shmVars, fileVars
    <3>3. CASE LoadStep(c)
      BY <3>3, LoadFrame DEF shmVars, fileVars
    <3>. QED BY <1>2, <3>1, <3>2, <3>3, ReadQuiet, WriteQuiet DEF StepOf, Quiet
  <2>2. pc[m] \in CkptLabels => pc'[m] = pc[m] /\ buf'[m] = buf[m]
    <3>1. CASE c = m
      BY <1>0, <1>2, <3>1, OwnStep, MaintainerRoles DEF MaintOK
    <3>2. CASE c # m
      BY <1>0, <3>2, OthersStep
    <3>. QED BY <3>1, <3>2
  <2>. QED BY <1>0, <2>1, <2>2 DEF PagesOK, CkptLabels
<1>. QED BY <1>1, <1>2

\* From lsmCheckpointSynced() to findFreeblock() the bound only goes down.
LEMMA InUseAfter ==
  ASSUME NEW m, OneMaintainer(m), MaintInv(m), NEW c \in Conn, StepOf(c), Next, ~Crash
  PROVE  InUseOK(m)'
<1>. USE DEF MaintInv, ReaderInv
<1>0. m \in Conn /\ InUseOK(m) /\ inUse \in Nat
  BY DEF OneMaintainer, MaintOK, TypeOK, WorkTypeOK
<1>1. iMetaPage # 0 => meta[iMetaPage].id \in Nat /\ meta[iMetaPage].id > 0 /\ meta[iMetaPage] # None
  BY AnnouncedVersion DEF Snapshot, ListsOK, Good
<1>2. CASE AllocStep(c)
  <2>1. c = m
    <3>1. pc[c] \in BaseLabels
      BY <1>2 DEF AllocStep, AllocateSynced, AllocateInUse, ScanSlot, ScanSlotLock,
                  ScanSlotClear, Allocate, BaseLabels, ScanLabels
    <3>. QED BY <3>1, WsnapType, ConnAssumption DEF MaintOK
  <2>2. UNCHANGED <<iMetaPage, meta>>
    BY <1>2, WorkFrame DEF WorkStep
  <2>3. CASE AllocateSynced(m)
    <3>1. /\ pc'[m] = "synced" /\ wMeta' = iMetaPage
          /\ iMetaPage # 0 => inUse' = meta[iMetaPage].id
      BY <1>0, <1>1, <2>3 DEF AllocateSynced, Goto, TypeOK, ConnTypeOK
    <3>. QED BY <2>2, <3>1 DEF InUseOK, ScanLabels
  <2>4. CASE AllocateInUse(m)
    <3>1. pc'[m] = "scan"
      BY <1>0, <2>4 DEF AllocateInUse, Goto, TypeOK, ConnTypeOK
    <3>2. ASSUME iMetaPage # 0 PROVE inUse' <= meta[iMetaPage].id
      <4>1. inUse = meta[iMetaPage].id /\ wMeta = iMetaPage
        BY <1>0, <2>4, <3>2 DEF AllocateInUse, InUseOK
      <4>2. inUse' = IF iReader[m] # 0 /\ client[m].id < inUse THEN client[m].id ELSE inUse
        BY <1>1, <2>4, <3>2, <4>1 DEF AllocateInUse
      <4>3. iReader[m] # 0 => client[m].id \in Nat
        <5>1. iReader[m] # 0 => client[m] \in Snapshot
          BY <1>0, <2>4 DEF AllocateInUse, RoleOK
        <5>. QED BY <5>1 DEF Snapshot
      <4>. QED BY <1>0, <4>1, <4>2, <4>3
    <3>. QED BY <2>2, <3>1, <3>2 DEF InUseOK
  <2>5. CASE ScanSlot(m) \/ ScanSlotLock(m) \/ ScanSlotClear(m)
    <3>1. pc[m] \in ScanLabels /\ pc'[m] \in ScanLabels /\ pc'[m] # "synced"
      BY <1>0, <2>5 DEF ScanSlot, ScanSlotLock, ScanSlotClear, ScanLabels, Goto, TypeOK, ConnTypeOK
    <3>2. inUse' = inUse \/ (inUse' = iThis /\ pc[m] = "scanlock")
      BY <2>5 DEF ScanSlot, ScanSlotLock, ScanSlotClear, workVars
    <3>3. pc[m] = "scanlock" => iThis <= inUse /\ iThis \in Nat
      BY <1>0 DEF ScanOK, ScanOf, TypeOK, WorkTypeOK
    <3>. QED BY <1>0, <1>1, <2>2, <3>1, <3>2, <3>3 DEF InUseOK
  <2>6. CASE Allocate(m)
    <3>1. pc'[m] = "work"
      BY <1>0, <2>6 DEF Allocate, Goto, TypeOK, ConnTypeOK
    <3>. QED BY <3>1 DEF InUseOK, ScanLabels
  <2>. QED BY <1>2, <2>1, <2>3, <2>4, <2>5, <2>6 DEF AllocStep
<1>3. CASE ~AllocStep(c) /\ c = m
  BY <1>0, <1>3, OwnStep DEF InUseOK
<1>4. CASE ~AllocStep(c) /\ c # m
  <2>1. pc'[m] = pc[m]
    BY <1>0, <1>4, OthersStep
  <2>2. UNCHANGED <<inUse, wMeta>>
    BY <1>0, <1>4, OthersStep, ConnAssumption DEF MaintOK
  <2>3. ~\E d \in Conn : FinishCheckpoint(d) /\ pc[m] \in ScanLabels \cup {"synced"}
    <3>. SUFFICES ASSUME NEW d \in Conn, FinishCheckpoint(d) PROVE pc[m] = "setmeta"
      BY DEF ScanLabels
    <3>1. d = m
      BY MaintainerRoles DEF StepOf, CheckpointStep, MaintOK
    <3>. QED BY <3>1 DEF FinishCheckpoint
  <2>4. pc[m] \in ScanLabels \cup {"synced"} =>
          iMetaPage' = iMetaPage /\ (iMetaPage # 0 => meta'[iMetaPage] = meta[iMetaPage])
    BY <2>3, AnnouncedStays
  <2>. QED BY <1>0, <2>1, <2>2, <2>4 DEF InUseOK
<1>. QED BY <1>2, <1>3, <1>4
-----------------------------------------------------------------------------
(* Recovery *)

\* What lsmCheckpointRecover() would load is whole, and newer than the other page.
LEMMA RecoveredHeld ==
  ASSUME NEW m, OneMaintainer(m), MaintInv(m)
  PROVE  /\ Intact(Recovered) /\ Durable(Recovered)
         /\ Recovered.id >= FirstId /\ WellFormed(Recovered, Recovered.id)
         /\ \A p \in {1, 2} : p # RecoveredPage /\ meta[p] # None =>
              RecoveredPage # 0 /\ meta[p].id < Recovered.id
<1>. USE DEF MaintInv, ReaderInv
<1>1. CASE RecoveredPage = 0
  <2>1. /\ Recovered = EmptySnapshot /\ EmptySnapshot.id = FirstId
        /\ \A b \in Block : EmptySnapshot.blk[b] = 0 /\ EmptySnapshot.free[b] = -1
    BY <1>1 DEF Recovered, EmptySnapshot
  <2>2. \A p \in {1, 2} : meta[p] = None
    BY <1>1, RecoveredFacts
  <2>. QED BY <2>1, <2>2, BoundAssumption DEF Intact, Durable, WellFormed
<1>2. CASE RecoveredPage # 0
  <2>1. /\ RecoveredPage \in {1, 2} /\ Recovered = meta[RecoveredPage] /\ Recovered # None
        /\ Recovered \in Snapshot
        /\ \A p \in {1, 2} : meta[p] # None => Recovered.id >= meta[p].id
    BY <1>2, RecoveredFacts, RecoveredType DEF Recovered
  <2>2. Recovered.id >= FirstId /\ WellFormed(Recovered, Recovered.id)
    BY <2>1 DEF CopyOK, MetaOf, VersionOK
  <2>3. PagesOK(m) /\ Newer(m) /\ CopyingOK(m)
    BY DEF MaintOK, AnnouncedOK, OneMaintainer
  <2>4. iMetaPage # 0 => iMetaPage \in {1, 2} /\ meta[iMetaPage].id \in Nat /\ meta[iMetaPage] # None
    BY AnnouncedVersion DEF Snapshot
  <2>5. \A p \in {1, 2} : meta[p] # None => meta[p].id \in Nat
    BY DEF TypeOK, FileTypeOK, Snapshot
  <2>6. CASE RecoveredPage = iMetaPage
    <3>1. Intact(Recovered) /\ Durable(Recovered)
      BY <2>1, <2>6 DEF MaintOK, AnnouncedHeld, Safe
    <3>2. ASSUME NEW p \in {1, 2}, p # RecoveredPage, meta[p] # None
          PROVE  meta[p].id < Recovered.id
      <4>1. CASE meta[p].id < meta[iMetaPage].id
        BY <2>1, <2>6, <4>1
      <4>2. CASE pc[m] \in {"syncmeta", "setmeta"} /\ meta[p] = buf[m]
        <5>1. meta[p].id > meta[iMetaPage].id
          BY <2>1, <2>3, <2>6, <4>2 DEF Newer, CkptLabels
        <5>. QED BY <2>1, <2>4, <2>5, <2>6, <3>2, <5>1
      <4>. QED BY <2>3, <2>6, <3>2, <4>1, <4>2 DEF PagesOK
    <3>. QED BY <1>2, <2>2, <3>1, <3>2
  <2>7. CASE RecoveredPage # iMetaPage
    <3>1. ~(iMetaPage # 0 /\ Recovered.id < meta[iMetaPage].id)
      BY <2>1, <2>4, <2>5
    <3>2. /\ pc[m] \in {"syncmeta", "setmeta"}
          /\ RecoveredPage = OtherPage(iMetaPage) /\ Recovered = buf[m]
      BY <2>1, <2>3, <2>7, <3>1 DEF PagesOK
    <3>3. buf[m] = Newest /\ Durable(buf[m]) /\ Safe(Newest)
      BY <2>3, <3>2 DEF CopyingOK, CkptLabels, DataOK
    <3>4. ASSUME NEW p \in {1, 2}, p # RecoveredPage, meta[p] # None
          PROVE  meta[p].id < Recovered.id
      <4>1. iMetaPage # 0
        BY <2>3, <3>2, <3>4 DEF PagesOK
      <4>2. p = iMetaPage
        BY <2>1, <2>4, <2>7, <3>4, <4>1
      <4>3. buf[m].id > meta[iMetaPage].id
        BY <2>3, <3>2, <4>1 DEF Newer, CkptLabels
      <4>. QED BY <2>1, <2>5, <3>2, <3>4, <4>2, <4>3
    <3>. QED BY <1>2, <2>2, <3>2, <3>3, <3>4 DEF Safe
  <2>. QED BY <2>6, <2>7
<1>. QED BY <1>1, <1>2

LEMMA CrashMaint ==
  ASSUME NEW m, OneMaintainer(m), MaintInv(m), Crash
  PROVE  MaintInv(m)'
<1>. USE DEF MaintInv
<1>. USE ConnAssumption, BoundAssumption
<1>1. /\ snap1' = [ok |-> TRUE, snap |-> Recovered] /\ snap2' = snap1' /\ meta' = meta
      /\ iMetaPage' = RecoveredPage
      /\ disk' = [b \in Block |-> IF b \in synced THEN disk[b] ELSE 0] /\ synced' = Block
      /\ worker' = None /\ ckptr' = None /\ wsnap' = None
      /\ \A c \in Conn : /\ pc'[c] = "idle" /\ inTrans'[c] = FALSE /\ iReader'[c] = 0
                         /\ client'[c] = None /\ buf'[c] = ZeroSnapshot
  BY DEF Crash
<1>2. TypeOK' /\ RoleOK' /\ LockOK'
  BY TypeStep, RoleStep, LockStep DEF ReaderInv, Next
<1>3. ListsOK' /\ AnnouncedOK'
  BY CrashLists DEF ReaderInv
<1>4. /\ Recovered \in Snapshot /\ Recovered.id \in Nat /\ RecoveredPage \in 0..2
      /\ Intact(Recovered) /\ Durable(Recovered)
      /\ Recovered.id >= FirstId /\ WellFormed(Recovered, Recovered.id)
  BY RecoveredHeld, RecoveredType DEF ReaderInv, Snapshot
<1>5. Newest' = Recovered /\ snap1'.snap = Recovered /\ snap2'.snap = Recovered
  BY <1>1 DEF Newest
<1>6. SlotOK' /\ ScanOK'
  BY <1>1 DEF SlotOK, SlotOf, ScanOK, ScanOf, HoldsReadLock, ReadLabels, ScanLabels
<1>7. ShmOK' /\ OrphanFree'
  BY <1>1, <1>4, <1>5 DEF ShmOK, OrphanFree
<1>8. CopyOK'
  <2>2. \A c \in Conn : CopyOf(c)'
    BY <1>1 DEF CopyOf, CkptLabels, ReadLabels
  <2>3. ASSUME NEW p \in {1, 2}, meta[p] # None
        PROVE  VersionOK(meta[p])' /\ meta[p].id >= FirstId
    <3>1. meta[p].id >= FirstId /\ WellFormed(meta[p], meta[p].id) /\ meta[p].id \in Nat
      BY <2>3 DEF ReaderInv, CopyOK, MetaOf, VersionOK, TypeOK, FileTypeOK, Snapshot
    <3>2. CASE p = RecoveredPage
      <4>1. meta[p] = Recovered
        BY <3>2 DEF Recovered
      <4>. QED BY <1>1, <1>4, <1>5, <4>1 DEF VersionOK
    <3>3. CASE p # RecoveredPage
      <4>1. meta[p].id < Recovered.id
        BY <2>3, <3>3, RecoveredHeld
      <4>. QED BY <1>1, <1>4, <1>5, <3>1, <4>1 DEF VersionOK
    <3>. QED BY <3>2, <3>3
  <2>4. \A p \in {1, 2} : MetaOf(p)'
    BY <1>1, <2>3 DEF MetaOf
  <2>. QED BY <2>2, <2>4 DEF CopyOK
<1>9. Safe(Recovered)'
  <2>1. \A b \in Block : Recovered.blk[b] # 0 => disk'[b] = Recovered.blk[b]
    BY <1>1, <1>4 DEF Intact, Durable
  <2>2. Kept(Recovered, Recovered)
    BY DEF Kept
  <2>3. Recovered' = Recovered
    BY <1>1 DEF Recovered, RecoveredPage, PageId
  <2>. QED BY <1>1, <1>5, <2>1, <2>2, <2>3 DEF Safe, Intact, Kept
<1>10. DataOK'
  <2>1. Recovered' = Recovered
    BY <1>1 DEF Recovered, RecoveredPage, PageId
  <2>. QED BY <1>1, <1>5, <1>9, <2>1 DEF DataOK, HoldsReadLock
<1>11. MaintOK(m)'
  <2>1. PagesOK(m)'
    <3>. SUFFICES ASSUME NEW p \in {1, 2}, p # iMetaPage', meta'[p] # None
                  PROVE  iMetaPage' # 0 /\ meta'[p].id < meta'[iMetaPage'].id
      BY DEF PagesOK
    <3>. QED BY <1>1, RecoveredHeld DEF Recovered
  <2>2. CopyingOK(m)' /\ InUseOK(m)'
    BY <1>1 DEF CopyingOK, InUseOK, CkptLabels, ScanLabels, OneMaintainer
  <2>3. AnnouncedHeld'
    <3>1. iMetaPage' # 0 => meta'[iMetaPage'] = Recovered
      BY <1>1 DEF Recovered
    <3>2. Recovered' = Recovered
      BY <1>1 DEF Recovered, RecoveredPage, PageId
    <3>3. Durable(Recovered)'
      BY <1>1 DEF Durable
    <3>. QED BY <1>9, <3>1, <3>2, <3>3 DEF AnnouncedHeld
  <2>. QED BY <1>1, <2>1, <2>2, <2>3 DEF MaintOK
<1>. QED BY <1>2, <1>3, <1>6, <1>7, <1>8, <1>10, <1>11 DEF ReaderInv

-----------------------------------------------------------------------------
(* The theorems about one maintaining connection *)

LEMMA InitMaint ==
  ASSUME NEW m, OneMaintainer(m), Init
  PROVE  MaintInv(m)
<1>1. ReaderInv
  BY InitReader
<1>2. ListsOK /\ AnnouncedOK
  BY InitFile DEF FileInv
<1>3. RecoveredPage = 0
  BY DEF Init, RecoveredPage, PageId
<1>4. MaintOK(m)
  BY <1>3
  DEF Init, MaintOK, PagesOK, CopyingOK, InUseOK, AnnouncedHeld, CkptLabels, ScanLabels,
      OneMaintainer
<1>. QED BY <1>1, <1>2, <1>4 DEF MaintInv

LEMMA MaintStep ==
  ASSUME NEW m, OneMaintainer(m), MaintInv(m), [Next]_vars
  PROVE  MaintInv(m)'
<1>. USE DEF MaintInv
<1>1. CASE UNCHANGED vars
  <2>1. ReaderInv'
    BY <1>1, ReaderSame
  <2>. USE DEF vars, shmVars, lockVars, connVars, workVars, fileVars
  <2>2. Quiet
    BY <1>1 DEF Quiet
  <2>3. MaintOK(m)'
    BY <1>1 DEF MaintOK, PagesOK, CopyingOK, InUseOK, AnnouncedHeld, Safe, Intact, Kept,
                Durable, Newest
  <2>. QED BY <2>1, <2>2, <2>3, QuietLists
<1>2. CASE Next /\ ~Crash
  <2>0. NoOrphans
    BY ConnAssumption
    DEF NoOrphans, Die, OneMaintainer, ReaderInv, RoleOK, MaintOK, SaveLabels
  <2>1. ReaderInv'
    BY <1>2, <2>0, ReaderStep
  <2>2. ListsOK' /\ AnnouncedOK'
    BY <1>2, FileStep DEF FileInv, ReaderInv
  <2>3. PICK c \in Conn : StepOf(c)
    BY <1>2, NextSteps
  <2>4. worker' \in {None, m} /\ ckptr' \in {None, m}
    BY <2>3, MaintainerRoles DEF MaintOK, ReaderInv
  <2>5. PagesOK(m)' /\ CopyingOK(m)' /\ InUseOK(m)' /\ AnnouncedHeld'
    BY <1>2, <2>3, PagesAfter, CopyingAfter, InUseAfter, HeldAfter
  <2>. QED BY <2>1, <2>2, <2>4, <2>5 DEF MaintOK
<1>3. CASE Crash
  BY <1>3, CrashMaint
<1>. QED BY <1>1, <1>2, <1>3

LEMMA MaintInvariant ==
  ASSUME NEW m, OneMaintainer(m)
  PROVE  Spec => []MaintInv(m)
<1>1. Init => MaintInv(m)
  BY InitMaint
<1>2. MaintInv(m) /\ [Next]_vars => MaintInv(m)'
  BY MaintStep
<1>. QED BY <1>1, <1>2, PTL DEF Spec

\* If one connection, which does not die alone, does all the work and writes all
\* the checkpoints, then whenever the machine fails lsmCheckpointRecover() finds a
\* checkpoint whose blocks were synced before its page was written and have not
\* been recycled by lsmBlockAllocate() since: for any number of other readers and
\* writers, dying or not, any number of slots and blocks and of failures.
THEOREM CheckpointSafe ==
  ASSUME NEW m, OneMaintainer(m)
  PROVE  Spec => []CheckpointIntact
<1>1. MaintInv(m) => CheckpointIntact
  BY RecoveredHeld DEF CheckpointIntact, Durable
<1>. QED BY <1>1, MaintInvariant, PTL

\* With one such connection the slot locks protect their readers after every
\* recovery of the machine too, since lsmCheckpointRecover() restores a state the
\* protocol of the slots starts from.
THEOREM LockedReaderSurvives ==
  ASSUME NEW m, OneMaintainer(m)
  PROVE  Spec => []LockedReaderIntact
<1>1. MaintInv(m) => LockedReaderIntact
  BY DEF MaintInv, ReaderInv, DataOK, Safe, LockedReaderIntact
<1>. QED BY <1>1, MaintInvariant, PTL
=============================================================================
