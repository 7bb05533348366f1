------------------------- MODULE LsmSnapshotProofs -------------------------
(***************************************************************************)
(* Why a slot lock protects a snapshot: an inductive invariant of          *)
(* LsmSnapshot and its proof.                                              *)
(***************************************************************************)
EXTENDS LsmSnapshot, TLAPS

ReadLabels == {"exact", "exactlock", "excl", "exclset", "usable", "usablelock",
               "checkhdr", "checksnap"}
ScanLabels == {"scan", "scanlock", "scanzero"}
BaseLabels == {"work", "synced"} \cup ScanLabels
SaveLabels == {"save2", "barrier", "save1"}
SetLabels  == {"setlock", "setexcl", "setslot", "locksset"}
CkptLabels == {"syncdb", "store", "syncmeta", "setmeta"}
LoadLabels == {"load1", "load2"}

-----------------------------------------------------------------------------
(* The invariant, in named parts *)

\* Who is where: locks, transactions and places agree.
RoleOK ==
  /\ worker # None => wsnap \in Snapshot
  /\ \A c \in Conn :
       /\ pc[c] \in BaseLabels \cup SaveLabels => worker = c
       /\ pc[c] \in SetLabels => worker = c \/ writer = c
       /\ worker = c => pc[c] \in BaseLabels \cup SaveLabels \cup SetLabels
       /\ writer = c => inTrans[c] /\ pc[c] # "idle"
       /\ pc[c] \in {"write", "autowork"} => writer = c
       /\ pc[c] \in CkptLabels => ckptr = c
       /\ ckptr = c => pc[c] \in CkptLabels \cup LoadLabels
       /\ pc[c] \in LoadLabels /\ ckptr # c => ~inTrans[c] /\ client[c] = None
       /\ pc[c] \in ReadLabels \cup {"loadhdr", "loadsnap"} => ~inTrans[c]
       /\ inTrans[c] => client[c] \in Snapshot
       /\ iReader[c] # 0 => inTrans[c] \/ pc[c] \in {"checkhdr", "checksnap"}
       /\ pc[c] \in {"checkhdr", "checksnap"} => iReader[c] # 0
       /\ pc[c] \in {"exactlock", "exclset", "usablelock",
                     "setslot", "scanlock", "scanzero"} => idx[c] \in Slot
       /\ pc[c] \in ScanLabels => idx[c] > 0

\* lsmShmLock(): an exclusive lock excludes every other connection's lock.
Exclusion ==
  \A i \in Slot : \A c, d \in Conn :
    c # d /\ rlock[i][c] = "excl" => rlock[i][d] = "unlock"

ExclHeld ==
  \A c \in Conn :
    pc[c] \in {"exclset", "setslot", "scanzero"} => rlock[idx[c]][c] = "excl"

LockOK == Exclusion /\ ExclHeld

\* A locked slot promises at most the id of the snapshot it is locked for.
SlotOf(c) ==
  /\ pc[c] \in ReadLabels => /\ buf[c].id > 0
                             /\ client[c] # None => client[c].id = buf[c].id
  /\ pc[c] \in {"checkhdr", "checksnap"} =>
       /\ rlock[iReader[c]][c] = "shared"
       /\ slot[iReader[c]].id > 0
       /\ slot[iReader[c]].id <= buf[c].id
  /\ HoldsReadLock(c) => /\ slot[iReader[c]].id > 0
                         /\ slot[iReader[c]].id <= client[c].id

SlotOK == \A c \in Conn : SlotOf(c)

\* Block stamps do not come from the future, a used block is not free, and
\* nothing is known of blocks beyond the end of the file.
WellFormed(s, max) ==
  \A b \in Block :
    /\ s.blk[b] <= max
    /\ s.blk[b] # 0 => s.free[b] < 0
    /\ b > s.nBlock => s.blk[b] = 0 /\ s.free[b] < 0

\* The two copies in shared memory, and how they relate to the worker's.
ShmOK ==
  /\ snap1.ok \/ snap2.ok
  /\ snap1.snap = snap2.snap \/ snap1.snap.id < snap2.snap.id
  /\ snap1.snap.id >= FirstId
  /\ WellFormed(snap1.snap, snap1.snap.id)
  /\ WellFormed(snap2.snap, snap2.snap.id)
  /\ worker # None => WellFormed(wsnap, wsnap.id + 1)
  /\ \A c \in Conn : worker = c =>
       /\ pc[c] \in BaseLabels \cup SetLabels =>
            /\ snap1.ok /\ snap2.ok /\ snap1.snap = snap2.snap
            /\ snap1.snap.id = wsnap.id
       /\ pc[c] \in SaveLabels =>
            /\ pc[c] = "save2" => ~snap2.ok
            /\ pc[c] # "save1" => snap1.ok /\ snap1.snap.id + 1 = wsnap.id
            /\ pc[c] = "save1" => ~snap1.ok
            /\ pc[c] # "save2" => snap2 = [ok |-> TRUE, snap |-> wsnap]
            /\ WellFormed(wsnap, wsnap.id)

\* Two complete copies that differ are the work of the worker that is between
\* them: none died there.
OrphanFree ==
  snap1.ok /\ snap2.ok /\ snap1.snap # snap2.snap =>
    \E c \in Conn : worker = c /\ pc[c] = "barrier"

\* The newest snapshot that lsmCheckpointLoad() can come back with.
Newest == IF snap2.ok THEN snap2.snap ELSE snap1.snap

\* A copy a connection has of a snapshot is an old one, or what is in shared
\* memory under the same id.
VersionOK(s) ==
  /\ s.id <= Newest.id
  /\ s.id = Newest.id => s = Newest
  /\ s.id = snap1.snap.id => s = snap1.snap
  /\ WellFormed(s, s.id)

\* (What lsmCheckpointLoad() copied without a good checksum is used by nobody.)
CopyOf(c) ==
  /\ client[c] # None => VersionOK(client[c])
  /\ pc[c] \in ReadLabels /\ client[c] = None => VersionOK(buf[c])
  /\ pc[c] \in CkptLabels => VersionOK(buf[c]) /\ buf[c].id >= FirstId

MetaOf(p) == meta[p] # None => VersionOK(meta[p]) /\ meta[p].id >= FirstId

CopyOK == /\ \A c \in Conn : CopyOf(c)
          /\ \A p \in {1, 2} : MetaOf(p)

\* Snapshot t still uses the blocks of s, or has freed them no earlier than s.
Kept(s, t) ==
  \A b \in Block : s.blk[b] # 0 => t.blk[b] = s.blk[b] \/ t.free[b] >= s.id

Safe(s) ==
  /\ Intact(s)
  /\ Kept(s, Newest)
  /\ worker # None => Kept(s, wsnap)

DataOK ==
  /\ worker # None => Intact(wsnap)
  /\ Safe(snap1.snap)
  /\ Safe(Newest)
  /\ \A c \in Conn : HoldsReadLock(c) => Safe(client[c])

\* firstSnapshotInUse(): what the scan of the slots has established so far.
ScanOf(c) ==
  /\ pc[c] \in ScanLabels \cup {"synced"} => inUse <= wsnap.id
  /\ pc[c] \in ScanLabels =>
       /\ iReader[c] # 0 => inUse <= client[c].id
       /\ \A d \in Conn \ {c} :
            HoldsReadLock(d) /\ iReader[d] < idx[c] => inUse <= client[d].id
  /\ pc[c] = "scanlock" =>
       /\ iThis <= inUse
       /\ \A d \in Conn \ {c} :
            HoldsReadLock(d) /\ iReader[d] = idx[c] => iThis <= client[d].id

ScanOK == \A c \in Conn : ScanOf(c)

ReaderInv ==
  /\ TypeOK /\ RoleOK /\ LockOK /\ SlotOK /\ ShmOK /\ OrphanFree
  /\ CopyOK /\ DataOK /\ ScanOK

-----------------------------------------------------------------------------
(* Types *)

LEMMA TypeFrame ==
  ASSUME TypeOK
  PROVE  /\ UNCHANGED shmVars  => ShmTypeOK'
         /\ UNCHANGED lockVars => LockTypeOK'
         /\ UNCHANGED connVars => ConnTypeOK'
         /\ UNCHANGED workVars => WorkTypeOK'
         /\ UNCHANGED fileVars => FileTypeOK'
BY DEF TypeOK, ShmTypeOK, LockTypeOK, ConnTypeOK, WorkTypeOK, FileTypeOK,
       shmVars, lockVars, connVars, workVars, fileVars

LEMMA NewestType == TypeOK => Newest \in Snapshot
BY DEF TypeOK, ShmTypeOK, ShmCopy, Newest

LEMMA RepairedType == TypeOK => Repaired \in Snapshot
BY DEF TypeOK, ShmTypeOK, ShmCopy, Repaired

LEMMA ZeroType == EmptySnapshot \in Snapshot /\ ZeroSnapshot \in Snapshot
BY BoundAssumption DEF EmptySnapshot, ZeroSnapshot, Snapshot, Block

LEMMA RecoveredType == TypeOK => Recovered \in Snapshot /\ RecoveredPage \in 0..2
BY ZeroType DEF TypeOK, FileTypeOK, Recovered, RecoveredPage, PageId, Snapshot

LEMMA IdxInSlot ==
  ASSUME RoleOK, NEW c \in Conn,
         pc[c] \in {"exactlock", "exclset", "usablelock",
                    "setslot", "scanlock", "scanzero"}
  PROVE  idx[c] \in Slot
BY DEF RoleOK

LEMMA WsnapType ==
  ASSUME RoleOK, NEW c \in Conn, pc[c] \in BaseLabels \cup SaveLabels
  PROVE  worker = c /\ wsnap \in Snapshot
BY ConnAssumption DEF RoleOK

LEMMA SetSlotType ==
  ASSUME TypeOK, RoleOK, NEW c \in Conn, pc[c] \in SetLabels, NEW h \in TreeHdr
  PROVE  SetSlot(c, h) \in SlotValue
BY ConnAssumption DEF RoleOK, SetSlot, SlotValue, Snapshot, TreeHdr

LEMMA SetBlockType ==
  ASSUME NEW s \in Snapshot, NEW b \in Block, NEW v \in Nat, NEW f \in Int
  PROVE  SetBlock(s, b, v, f) \in Snapshot
BY BoundAssumption DEF SetBlock, Snapshot, Block

LEMMA OverwrittenFields ==
  ASSUME NEW old \in ShmCopy, NEW s \in Snapshot, NEW x \in Overwritten(old, s)
  PROVE  /\ x \in ShmCopy
         /\ x.ok = FALSE
         /\ x.snap = old.snap \/ x.snap = s
<1>1. /\ x.ok = FALSE
      /\ x.snap = old.snap \/ x.snap = s
  BY DEF Overwritten
<1>2. \A t \in Snapshot : [ok |-> FALSE, snap |-> t] \in ShmCopy
  BY DEF ShmCopy
<1>3. old.snap \in Snapshot
  BY DEF ShmCopy
<1>4. x \in ShmCopy
  BY <1>2, <1>3, Zenon DEF Overwritten
<1>. QED BY <1>1, <1>4

LEMMA AttemptFailedType ==
  ASSUME TypeOK, NEW c \in Conn, AttemptFailed(c)
  PROVE  /\ pc' \in [Conn -> Label]
         /\ att' \in [Conn -> Nat]
         /\ inTrans' \in [Conn -> BOOLEAN]
<1>1. pc' \in [Conn -> Label] /\ att' \in [Conn -> Nat]
  BY DEF TypeOK, ConnTypeOK, AttemptFailed, Goto, Label
<1>2. inTrans' \in [Conn -> BOOLEAN]
  BY Zenon DEF TypeOK, ConnTypeOK, AttemptFailed
<1>. QED BY <1>1, <1>2

LEMMA WorkedSnapshotType ==
  ASSUME TypeOK, RoleOK, NEW c \in Conn,
         Allocate(c) \/ BlockFree(c) \/ BlockRefree(c) \/ SaveWorker(c)
  PROVE  wsnap \in Snapshot /\ wsnap' \in Snapshot
<1>1. wsnap \in Snapshot
  BY WsnapType DEF Allocate, BlockFree, BlockRefree, SaveWorker, BaseLabels, ScanLabels
<1>2. wsnap.id \in Nat /\ wsnap.id \in Int /\ wsnap.id + 1 \in Nat /\ -1 \in Int
      /\ 0 \in Nat /\ 0 \in Int
  BY <1>1 DEF Snapshot
<1>3. Allocate(c) \/ BlockFree(c) \/ BlockRefree(c) => wsnap' \in Snapshot
  BY <1>1, <1>2, SetBlockType DEF Allocate, BlockFree, BlockRefree
<1>4. SaveWorker(c) => wsnap' \in Snapshot
  BY <1>1 DEF SaveWorker, NextSnapshot, Snapshot
<1>. QED BY <1>1, <1>3, <1>4

\* What a step inside lsmCheckpointLoad() does.
LoadStep(c) == LoadFirst(c) \/ LoadSecond(c) \/ LoadGivesUp(c)

LoadedGood(c) == \E copy \in {snap1, snap2} : copy.ok /\ buf'[c] = copy.snap

LEMMA LoadFrame ==
  ASSUME TypeOK, NEW c \in Conn, LoadStep(c)
  PROVE  /\ pc[c] \in LoadLabels
         /\ UNCHANGED <<inTrans, iReader, client, hdr, rlock, worker, writer>>
         /\ UNCHANGED <<shmVars, workVars, fileVars>>
         /\ buf' \in [Conn -> Snapshot]
         /\ idx' \in [Conn -> Nat] /\ att' \in [Conn -> Nat] /\ iSnap' \in [Conn -> {1, 2}]
         /\ \A d \in Conn \ {c} : buf'[d] = buf[d] /\ idx'[d] = idx[d]
         /\ pc' = [pc EXCEPT ![c] = pc'[c]]
         /\ \/ pc'[c] \in LoadLabels /\ UNCHANGED ckptr
            \/ pc'[c] = "exact" /\ ckptr # c /\ UNCHANGED ckptr /\ LoadedGood(c)
            \/ /\ pc'[c] = "syncdb" /\ ckptr = c /\ UNCHANGED ckptr /\ LoadedGood(c)
               /\ ~CheckpointDone(buf'[c])
            \/ pc'[c] = Resume(c) /\ ckptr = c /\ ckptr' = None
            \/ pc'[c] = "idle" /\ ckptr # c /\ UNCHANGED ckptr
<1>. USE DEF TypeOK, ConnTypeOK, LoadLabels
<1>1. snap1.snap \in Snapshot /\ snap2.snap \in Snapshot
  BY DEF ShmTypeOK, ShmCopy
<1>2. CASE LoadFirst(c)
  <2>1. CASE snap1.ok
    BY <1>1, <1>2, <2>1 DEF LoadFirst, LoadCopy, AfterLoad, Goto, FirstSlot, LoadedGood
  <2>2. CASE ~snap1.ok
    BY <1>1, <1>2, <2>2 DEF LoadFirst, LoadCopy, Goto
  <2>. QED BY <2>1, <2>2
<1>3. CASE LoadSecond(c)
  <2>1. CASE snap2.ok
    BY <1>1, <1>3, <2>1 DEF LoadSecond, LoadCopy, AfterLoad, Goto, FirstSlot, LoadedGood
  <2>2. CASE ~snap2.ok
    BY <1>1, <1>3, <2>2 DEF LoadSecond, LoadCopy, Goto
  <2>. QED BY <2>1, <2>2
<1>4. CASE LoadGivesUp(c)
  BY <1>1, <1>4 DEF LoadGivesUp, Goto
<1>. QED BY <1>2, <1>3, <1>4 DEF LoadStep

LEMMA TypeStep ==
  ASSUME TypeOK, RoleOK, Next
  PROVE  TypeOK'
<1>. USE ConnAssumption, BoundAssumption, TypeFrame DEF TypeOK
<1>1. ASSUME NEW c \in Conn, LoadHeader(c) PROVE TypeOK'
  <2>1. ConnTypeOK'
    BY <1>1 DEF ConnTypeOK, LoadHeader, Goto, Label, ShmTypeOK
  <2>. QED BY <1>1, <2>1 DEF LoadHeader
<1>2. ASSUME NEW c \in Conn, LoadSnapshot(c) PROVE TypeOK'
  <2>1. ConnTypeOK'
    BY <1>2 DEF ConnTypeOK, LoadSnapshot, Goto, FirstSlot, ClientCacheOk, Label
  <2>. QED BY <1>2, <2>1 DEF LoadSnapshot
<1>39. ASSUME NEW c \in Conn, LoadStep(c) PROVE TypeOK'
  <2>1. ConnTypeOK' /\ LockTypeOK'
    BY <1>39, LoadFrame DEF ConnTypeOK, LockTypeOK, Label, LoadLabels, Resume
  <2>. QED BY <1>39, <2>1, LoadFrame
<1>3. ASSUME NEW c \in Conn, ExactSlot(c) PROVE TypeOK'
  <2>1. ConnTypeOK'
    BY <1>3 DEF ConnTypeOK, ExactSlot, FindSlot, FirstSlot, NextSlot, Goto, Label
  <2>. QED BY <1>3, <2>1 DEF ExactSlot, FindSlot
<1>4. ASSUME NEW c \in Conn, ExactSlotLock(c) PROVE TypeOK'
  <2>1. LockTypeOK'
    BY <1>4 DEF LockTypeOK, ExactSlotLock, ShareSlot, SetLock, NextSlot, NoSlot, Goto
  <2>2. ConnTypeOK'
    BY <1>4, IdxInSlot DEF ConnTypeOK, ExactSlotLock, ShareSlot, NextSlot, NoSlot, Goto, Label
  <2>. QED BY <1>4, <2>1, <2>2 DEF ExactSlotLock, ShareSlot
<1>5. ASSUME NEW c \in Conn, ExclSlot(c) PROVE TypeOK'
  <2>1. LockTypeOK'
    BY <1>5 DEF LockTypeOK, ExclSlot, FirstSlot, NextSlot, SetLock, Goto
  <2>2. ConnTypeOK'
    BY <1>5 DEF ConnTypeOK, ExclSlot, FirstSlot, NextSlot, SetLock, Goto, Label
  <2>. QED BY <1>5, <2>1, <2>2 DEF ExclSlot
<1>6. ASSUME NEW c \in Conn, ExclSlotSet(c) PROVE TypeOK'
  <2>1. ShmTypeOK'
    BY <1>6, IdxInSlot DEF ShmTypeOK, ExclSlotSet, WantedSlot, SetLock, NoSlot, Goto, ConnTypeOK, SlotValue, TreeHdr, Snapshot
  <2>2. LockTypeOK'
    BY <1>6 DEF LockTypeOK, ExclSlotSet, WantedSlot, SetLock, NoSlot, Goto
  <2>3. ConnTypeOK'
    BY <1>6, IdxInSlot DEF ConnTypeOK, ExclSlotSet, WantedSlot, SetLock, NoSlot, Goto, Label
  <2>. QED BY <1>6, <2>1, <2>2, <2>3 DEF ExclSlotSet
<1>7. ASSUME NEW c \in Conn, UsableSlot(c) PROVE TypeOK'
  <2>1. ConnTypeOK'
    BY <1>7, AttemptFailedType DEF ConnTypeOK, UsableSlot, FindSlot, FirstSlot, NextSlot, NoSlot, Goto, Label
  <2>. QED BY <1>7, <2>1 DEF UsableSlot, FindSlot
<1>8. ASSUME NEW c \in Conn, UsableSlotLock(c) PROVE TypeOK'
  <2>1. LockTypeOK'
    BY <1>8 DEF LockTypeOK, UsableSlotLock, ShareSlot, SetLock, NextSlot, NoSlot, Goto
  <2>2. ConnTypeOK'
    BY <1>8, IdxInSlot DEF ConnTypeOK, UsableSlotLock, ShareSlot, NextSlot, NoSlot, Goto, Label
  <2>. QED BY <1>8, <2>1, <2>2 DEF UsableSlotLock, ShareSlot
<1>9. ASSUME NEW c \in Conn, CheckHeader(c) PROVE TypeOK'
  <2>1. LockTypeOK'
    BY <1>9 DEF LockTypeOK, CheckHeader, ReleaseReadlock, SetLock
  <2>2. ConnTypeOK'
    BY <1>9, AttemptFailedType DEF ConnTypeOK, CheckHeader, ReleaseReadlock, SetLock, Goto, Label
  <2>. QED BY <1>9, <2>1, <2>2 DEF CheckHeader
<1>10. ASSUME NEW c \in Conn, CheckSnapshot(c) PROVE TypeOK'
  <2>1. LockTypeOK'
    <3>1. CASE LoadOk(c)
      BY <1>10, <3>1 DEF LockTypeOK, CheckSnapshot
    <3>2. CASE ~LoadOk(c)
      BY <1>10, <3>2 DEF LockTypeOK, CheckSnapshot, ReleaseReadlock, SetLock
    <3>. QED BY <3>1, <3>2
  <2>2. ConnTypeOK'
    <3>1. CASE LoadOk(c)
      <4>1. client' \in [Conn -> Snapshot \cup {None}]
        BY <1>10, <3>1 DEF CheckSnapshot, ConnTypeOK
      <4>2. inTrans' \in [Conn -> BOOLEAN]
        BY <1>10, <3>1, Zenon DEF CheckSnapshot, ConnTypeOK
      <4>. QED
        BY <1>10, <3>1, <4>1, <4>2 DEF CheckSnapshot, ConnTypeOK, Goto, Label
    <3>2. CASE ~LoadOk(c)
      BY <1>10, <3>2, AttemptFailedType
      DEF CheckSnapshot, ConnTypeOK, ReleaseReadlock
    <3>. QED BY <3>1, <3>2
  <2>. QED BY <1>10, <2>1, <2>2 DEF CheckSnapshot
<1>11. ASSUME NEW c \in Conn, FinishReadTrans(c) PROVE TypeOK'
  <2>1. LockTypeOK'
    BY <1>11 DEF LockTypeOK, FinishReadTrans, ReleaseReadlock, SetLock
  <2>2. ConnTypeOK'
    BY <1>11 DEF ConnTypeOK, FinishReadTrans, ReleaseReadlock, SetLock, Label
  <2>. QED BY <1>11, <2>1, <2>2 DEF FinishReadTrans
<1>12. ASSUME NEW c \in Conn, BeginWriteTrans(c) PROVE TypeOK'
  <2>1. LockTypeOK'
    BY <1>12 DEF LockTypeOK, BeginWriteTrans, Goto
  <2>2. ConnTypeOK'
    BY <1>12 DEF ConnTypeOK, BeginWriteTrans, Goto, Label
  <2>. QED BY <1>12, <2>1, <2>2 DEF BeginWriteTrans
<1>13. ASSUME NEW c \in Conn, Commit(c) PROVE TypeOK'
  <2>1. ShmTypeOK'
    BY <1>13 DEF ShmTypeOK, Commit, Goto, TreeHdr
  <2>2. ConnTypeOK'
    BY <1>13 DEF ConnTypeOK, Commit, Goto, Label, ShmTypeOK, TreeHdr
  <2>. QED BY <1>13, <2>1, <2>2 DEF Commit
<1>14. ASSUME NEW c \in Conn, FinishWriteTrans(c) PROVE TypeOK'
  <2>1. LockTypeOK'
    BY <1>14 DEF LockTypeOK, FinishWriteTrans, Goto
  <2>2. ConnTypeOK'
    BY <1>14 DEF ConnTypeOK, FinishWriteTrans, Goto, Label
  <2>. QED BY <1>14, <2>1, <2>2 DEF FinishWriteTrans
<1>15. ASSUME NEW c \in Conn, SetReadLock(c) PROVE TypeOK'
  <2>1. ConnTypeOK'
    BY <1>15 DEF ConnTypeOK, SetReadLock, FirstSlot, Goto, Label, ShmTypeOK
  <2>. QED BY <1>15, <2>1 DEF SetReadLock
<1>16. ASSUME NEW c \in Conn, SetReadLockTry(c) PROVE TypeOK'
  <2>1. LockTypeOK'
    BY <1>16 DEF LockTypeOK, SetReadLockTry, NextSlot, NoSlot, SetLock, Goto
  <2>2. ConnTypeOK'
    BY <1>16 DEF ConnTypeOK, SetReadLockTry, NextSlot, NoSlot, SetLock, Goto, Label
  <2>. QED BY <1>16, <2>1, <2>2 DEF SetReadLockTry
<1>17. ASSUME NEW c \in Conn, SetReadLockSet(c) PROVE TypeOK'
  <2>1. ShmTypeOK'
    BY <1>17, SetSlotType DEF ShmTypeOK, SetReadLockSet, SetLock, NoSlot, Goto, ConnTypeOK, SetLabels
  <2>2. LockTypeOK'
    BY <1>17 DEF LockTypeOK, SetReadLockSet, SetSlot, SetLock, NoSlot, Goto
  <2>3. ConnTypeOK'
    BY <1>17 DEF ConnTypeOK, SetReadLockSet, SetSlot, SetLock, NoSlot, Goto, Label
  <2>. QED BY <1>17, <2>1, <2>2, <2>3 DEF SetReadLockSet
<1>18. ASSUME NEW c \in Conn, BeginWork(c) PROVE TypeOK'
  <2>1. ShmTypeOK'
    BY <1>18, RepairedType DEF ShmTypeOK, BeginWork, Goto, ShmCopy
  <2>2. LockTypeOK'
    BY <1>18 DEF LockTypeOK, BeginWork, Repaired, Goto
  <2>3. ConnTypeOK'
    BY <1>18 DEF ConnTypeOK, BeginWork, Repaired, Goto, Label
  <2>4. WorkTypeOK'
    BY <1>18, RepairedType DEF WorkTypeOK, BeginWork, Goto
  <2>. QED BY <1>18, <2>1, <2>2, <2>3, <2>4 DEF BeginWork
<1>19. ASSUME NEW c \in Conn, AllocateSynced(c) PROVE TypeOK'
  <2>1. ConnTypeOK'
    BY <1>19 DEF ConnTypeOK, AllocateSynced, Goto, Label
  <2>2. WorkTypeOK'
    BY <1>19 DEF WorkTypeOK, AllocateSynced, Goto, ShmTypeOK, FileTypeOK, Snapshot
  <2>. QED BY <1>19, <2>1, <2>2 DEF AllocateSynced
<1>20. ASSUME NEW c \in Conn, AllocateInUse(c) PROVE TypeOK'
  <2>1. ConnTypeOK'
    BY <1>20 DEF ConnTypeOK, AllocateInUse, FirstSlot, Goto, Label
  <2>2. WorkTypeOK'
    <3>1. wsnap \in Snapshot
      BY <1>20, WsnapType DEF AllocateInUse, BaseLabels
    <3>2. iReader[c] # 0 => client[c] \in Snapshot
      BY <1>20 DEF AllocateInUse, RoleOK
    <3>. QED
      BY <1>20, <3>1, <3>2 DEF WorkTypeOK, AllocateInUse, Snapshot
  <2>. QED BY <1>20, <2>1, <2>2 DEF AllocateInUse
<1>21. ASSUME NEW c \in Conn, ScanSlot(c) PROVE TypeOK'
  <2>1. ConnTypeOK'
    BY <1>21 DEF ConnTypeOK, ScanSlot, NextSlot, Goto, Label
  <2>2. WorkTypeOK'
    BY <1>21 DEF WorkTypeOK, ScanSlot, NextSlot, Goto, ShmTypeOK, SlotValue
  <2>. QED BY <1>21, <2>1, <2>2 DEF ScanSlot
<1>22. ASSUME NEW c \in Conn, ScanSlotLock(c) PROVE TypeOK'
  <2>1. LockTypeOK'
    BY <1>22 DEF LockTypeOK, ScanSlotLock, SetLock, NextSlot, Goto
  <2>2. ConnTypeOK'
    BY <1>22 DEF ConnTypeOK, ScanSlotLock, SetLock, NextSlot, Goto, Label
  <2>3. WorkTypeOK'
    BY <1>22 DEF WorkTypeOK, ScanSlotLock, SetLock, NextSlot, Goto
  <2>. QED BY <1>22, <2>1, <2>2, <2>3 DEF ScanSlotLock
<1>23. ASSUME NEW c \in Conn, ScanSlotClear(c) PROVE TypeOK'
  <2>1. ShmTypeOK'
    BY <1>23 DEF ShmTypeOK, ScanSlotClear, SetLock, NextSlot, Goto, SlotValue
  <2>2. LockTypeOK'
    BY <1>23 DEF LockTypeOK, ScanSlotClear, SetLock, NextSlot, Goto
  <2>3. ConnTypeOK'
    BY <1>23 DEF ConnTypeOK, ScanSlotClear, SetLock, NextSlot, Goto, Label
  <2>. QED BY <1>23, <2>1, <2>2, <2>3 DEF ScanSlotClear
<1>24. ASSUME NEW c \in Conn, Allocate(c) PROVE TypeOK'
  <2>1. ConnTypeOK'
    BY <1>24 DEF ConnTypeOK, Allocate, NoSlot, Goto, Label
  <2>2. WorkTypeOK'
    BY <1>24, WorkedSnapshotType DEF WorkTypeOK, Allocate
  <2>3. FileTypeOK'
    <3>1. wsnap.id + 1 \in Nat
      BY <1>24, WorkedSnapshotType DEF Snapshot
    <3>. QED BY <1>24, <3>1 DEF FileTypeOK, Allocate
  <2>. QED BY <1>24, <2>1, <2>2, <2>3 DEF Allocate
<1>25. ASSUME NEW c \in Conn, BlockFree(c) PROVE TypeOK'
  <2>1. WorkTypeOK'
    BY <1>25, WorkedSnapshotType DEF WorkTypeOK, BlockFree
  <2>. QED BY <1>25, <2>1 DEF BlockFree
<1>26. ASSUME NEW c \in Conn, BlockRefree(c) PROVE TypeOK'
  <2>1. WorkTypeOK'
    BY <1>26, WorkedSnapshotType DEF WorkTypeOK, BlockRefree
  <2>. QED BY <1>26, <2>1 DEF BlockRefree
<1>27. ASSUME NEW c \in Conn, SaveWorker(c) PROVE TypeOK'
  <2>1. ShmTypeOK'
    BY <1>27, WorkedSnapshotType, OverwrittenFields DEF ShmTypeOK, SaveWorker
  <2>2. ConnTypeOK'
    BY <1>27 DEF ConnTypeOK, SaveWorker, Goto, Label
  <2>3. WorkTypeOK'
    BY <1>27, WorkedSnapshotType DEF WorkTypeOK, SaveWorker
  <2>. QED BY <1>27, <2>1, <2>2, <2>3 DEF SaveWorker
<1>28. ASSUME NEW c \in Conn, SaveSnap2(c) PROVE TypeOK'
  <2>1. ShmTypeOK'
    BY <1>28, WsnapType DEF ShmTypeOK, SaveSnap2, Goto, ShmCopy, BaseLabels, SaveLabels, ScanLabels
  <2>2. ConnTypeOK'
    BY <1>28 DEF ConnTypeOK, SaveSnap2, Goto, Label
  <2>. QED BY <1>28, <2>1, <2>2 DEF SaveSnap2
<1>29. ASSUME NEW c \in Conn, SaveBarrier(c) PROVE TypeOK'
  <2>1. ShmTypeOK'
    <3>1. wsnap \in Snapshot
      BY <1>29, WsnapType DEF SaveBarrier, SaveLabels
    <3>. QED
      BY <1>29, <3>1, OverwrittenFields DEF ShmTypeOK, SaveBarrier
  <2>2. ConnTypeOK'
    BY <1>29 DEF ConnTypeOK, SaveBarrier, Overwritten, Goto, Label
  <2>. QED BY <1>29, <2>1, <2>2 DEF SaveBarrier
<1>30. ASSUME NEW c \in Conn, SaveSnap1(c) PROVE TypeOK'
  <2>1. ShmTypeOK'
    BY <1>30, WsnapType DEF ShmTypeOK, SaveSnap1, Goto, ShmCopy, BaseLabels, SaveLabels, ScanLabels
  <2>2. ConnTypeOK'
    BY <1>30 DEF ConnTypeOK, SaveSnap1, Goto, Label
  <2>. QED BY <1>30, <2>1, <2>2 DEF SaveSnap1
<1>31. ASSUME NEW c \in Conn, FinishWork(c) PROVE TypeOK'
  <2>1. LockTypeOK'
    BY <1>31 DEF LockTypeOK, FinishWork, Resume, Goto
  <2>2. ConnTypeOK'
    BY <1>31 DEF ConnTypeOK, FinishWork, Resume, Goto, Label
  <2>3. WorkTypeOK'
    BY <1>31 DEF WorkTypeOK, FinishWork, Resume, Goto
  <2>. QED BY <1>31, <2>1, <2>2, <2>3 DEF FinishWork
<1>32. ASSUME NEW c \in Conn, BeginCheckpoint(c) PROVE TypeOK'
  <2>1. LockTypeOK'
    BY <1>32 DEF LockTypeOK, BeginCheckpoint, Goto
  <2>2. ConnTypeOK'
    BY <1>32 DEF ConnTypeOK, BeginCheckpoint, Goto, Label
  <2>. QED BY <1>32, <2>1, <2>2 DEF BeginCheckpoint
<1>33. ASSUME NEW c \in Conn, SyncDb(c) PROVE TypeOK'
  <2>1. ConnTypeOK'
    BY <1>33 DEF ConnTypeOK, SyncDb, Goto, Label
  <2>2. FileTypeOK'
    BY <1>33 DEF FileTypeOK, SyncDb, Goto
  <2>. QED BY <1>33, <2>1, <2>2 DEF SyncDb
<1>34. ASSUME NEW c \in Conn, CheckpointStore(c) PROVE TypeOK'
  <2>1. ConnTypeOK'
    BY <1>34 DEF ConnTypeOK, CheckpointStore, Goto, Label
  <2>2. FileTypeOK'
    <3>1. PICK page \in {None, buf[c]} :
            meta' = [meta EXCEPT ![OtherPage(iMetaPage)] = page]
      BY <1>34 DEF CheckpointStore
    <3>2. page \in Snapshot \cup {None}
      BY <1>34 DEF ConnTypeOK
    <3>. QED BY <1>34, <3>1, <3>2 DEF FileTypeOK, CheckpointStore
  <2>. QED BY <1>34, <2>1, <2>2 DEF CheckpointStore
<1>35. ASSUME NEW c \in Conn, SyncMeta(c) PROVE TypeOK'
  <2>1. ConnTypeOK'
    BY <1>35 DEF ConnTypeOK, SyncMeta, Goto, Label
  <2>2. FileTypeOK'
    BY <1>35 DEF FileTypeOK, SyncMeta, Goto, ConnTypeOK
  <2>. QED BY <1>35, <2>1, <2>2 DEF SyncMeta
<1>36. ASSUME NEW c \in Conn, FinishCheckpoint(c) PROVE TypeOK'
  <2>1. ShmTypeOK'
    BY <1>36 DEF ShmTypeOK, FinishCheckpoint, Resume, OtherPage, Goto
  <2>2. LockTypeOK'
    BY <1>36 DEF LockTypeOK, FinishCheckpoint, Resume, OtherPage, Goto
  <2>3. ConnTypeOK'
    BY <1>36 DEF ConnTypeOK, FinishCheckpoint, Resume, OtherPage, Goto, Label
  <2>. QED BY <1>36, <2>1, <2>2, <2>3 DEF FinishCheckpoint
<1>37. ASSUME NEW c \in Conn, Die(c) PROVE TypeOK'
  <2>1. LockTypeOK'
    BY <1>37 DEF LockTypeOK, Die, ZeroSnapshot, EmptySnapshot, Goto
  <2>2. ConnTypeOK'
    BY <1>37, ZeroType DEF ConnTypeOK, Die, Goto, Label, TreeHdr
  <2>3. WorkTypeOK'
    BY <1>37 DEF WorkTypeOK, Die, ZeroSnapshot, EmptySnapshot, Goto
  <2>. QED BY <1>37, <2>1, <2>2, <2>3 DEF Die
<1>38. ASSUME Crash PROVE TypeOK'
  <2>1. ShmTypeOK'
    BY <1>38, RecoveredType DEF Crash, ShmTypeOK, ShmCopy, Snapshot, TreeHdr, SlotValue
  <2>2. LockTypeOK' /\ WorkTypeOK'
    BY <1>38 DEF Crash, LockTypeOK, WorkTypeOK
  <2>3. ConnTypeOK'
    BY <1>38, ZeroType DEF Crash, ConnTypeOK, TreeHdr, Label
  <2>4. FileTypeOK'
    BY <1>38, SMTT(30) DEF Crash, FileTypeOK
  <2>. QED BY <2>1, <2>2, <2>3, <2>4
<1>. QED
  BY <1>1, <1>2, <1>3, <1>4, <1>5, <1>6, <1>7, <1>8, <1>9, <1>10, <1>11, <1>12, <1>13, <1>14, <1>15, <1>16, <1>17, <1>18, <1>19, <1>20, <1>21, <1>22, <1>23, <1>24, <1>25, <1>26, <1>27, <1>28, <1>29, <1>30, <1>31, <1>32, <1>33, <1>34, <1>35, <1>36, <1>37, <1>38, <1>39
     DEF Next, ReadStep, LoadStep, WriteStep, SetLockStep, WorkStep, AllocStep, CheckpointStep

-----------------------------------------------------------------------------
(* Roles and locks *)

LEMMA RoleStep ==
  ASSUME TypeOK, RoleOK, Next
  PROVE  RoleOK'
<1>. USE ConnAssumption, BoundAssumption
<1>. USE DEF TypeOK, ConnTypeOK, LockTypeOK, RoleOK, BaseLabels, ScanLabels, SaveLabels, SetLabels, CkptLabels, LoadLabels, ReadLabels
<1>. USE DEF shmVars, lockVars, connVars, workVars, fileVars
<1>1. ASSUME NEW c \in Conn, LoadHeader(c) PROVE RoleOK'
  BY <1>1 DEF LoadHeader, Goto
<1>2. ASSUME NEW c \in Conn, LoadSnapshot(c) PROVE RoleOK'
  BY <1>2 DEF LoadSnapshot, Goto, FirstSlot, ClientCacheOk
<1>39. ASSUME NEW c \in Conn, LoadStep(c) PROVE RoleOK'
  <2>1. RoleOK
    OBVIOUS
  <2>. QED BY <1>39, <2>1, LoadFrame DEF Resume
<1>3. ASSUME NEW c \in Conn, ExactSlot(c) PROVE RoleOK'
  BY <1>3 DEF ExactSlot, FindSlot, FirstSlot, NextSlot, Goto
<1>4. ASSUME NEW c \in Conn, ExactSlotLock(c) PROVE RoleOK'
  BY <1>4, SMTT(30) DEF ExactSlotLock, ShareSlot, SetLock, NextSlot, NoSlot, Goto, Slot
<1>5. ASSUME NEW c \in Conn, ExclSlot(c) PROVE RoleOK'
  BY <1>5 DEF ExclSlot, FirstSlot, NextSlot, SetLock, Goto
<1>6. ASSUME NEW c \in Conn, ExclSlotSet(c) PROVE RoleOK'
  BY <1>6 DEF ExclSlotSet, WantedSlot, SetLock, NoSlot, Goto, Slot
<1>7. ASSUME NEW c \in Conn, UsableSlot(c) PROVE RoleOK'
  BY <1>7 DEF UsableSlot, FindSlot, FirstSlot, NextSlot, NoSlot, AttemptFailed, Goto
<1>8. ASSUME NEW c \in Conn, UsableSlotLock(c) PROVE RoleOK'
  BY <1>8, SMTT(30) DEF UsableSlotLock, ShareSlot, SetLock, NextSlot, NoSlot, Goto, Slot
<1>9. ASSUME NEW c \in Conn, CheckHeader(c) PROVE RoleOK'
  BY <1>9 DEF CheckHeader, ReleaseReadlock, AttemptFailed, SetLock, Goto
<1>10. ASSUME NEW c \in Conn, CheckSnapshot(c) PROVE RoleOK'
  BY <1>10 DEF CheckSnapshot, ReleaseReadlock, AttemptFailed, SetLock, Goto
<1>11. ASSUME NEW c \in Conn, FinishReadTrans(c) PROVE RoleOK'
  BY <1>11 DEF FinishReadTrans, ReleaseReadlock, SetLock
<1>12. ASSUME NEW c \in Conn, BeginWriteTrans(c) PROVE RoleOK'
  BY <1>12 DEF BeginWriteTrans, Goto
<1>13. ASSUME NEW c \in Conn, Commit(c) PROVE RoleOK'
  BY <1>13 DEF Commit, Goto
<1>14. ASSUME NEW c \in Conn, FinishWriteTrans(c) PROVE RoleOK'
  BY <1>14 DEF FinishWriteTrans, Goto
<1>15. ASSUME NEW c \in Conn, SetReadLock(c) PROVE RoleOK'
  BY <1>15 DEF SetReadLock, FirstSlot, Goto
<1>16. ASSUME NEW c \in Conn, SetReadLockTry(c) PROVE RoleOK'
  BY <1>16 DEF SetReadLockTry, NextSlot, NoSlot, SetLock, Goto
<1>17. ASSUME NEW c \in Conn, SetReadLockSet(c) PROVE RoleOK'
  BY <1>17 DEF SetReadLockSet, SetSlot, SetLock, NoSlot, Goto
<1>18. ASSUME NEW c \in Conn, BeginWork(c) PROVE RoleOK'
  BY <1>18, RepairedType DEF BeginWork, Goto
<1>19. ASSUME NEW c \in Conn, AllocateSynced(c) PROVE RoleOK'
  BY <1>19 DEF AllocateSynced, Goto
<1>20. ASSUME NEW c \in Conn, AllocateInUse(c) PROVE RoleOK'
  BY <1>20 DEF AllocateInUse, FirstSlot, Goto
<1>21. ASSUME NEW c \in Conn, ScanSlot(c) PROVE RoleOK'
  BY <1>21 DEF ScanSlot, NextSlot, Goto
<1>22. ASSUME NEW c \in Conn, ScanSlotLock(c) PROVE RoleOK'
  BY <1>22 DEF ScanSlotLock, SetLock, NextSlot, Goto
<1>23. ASSUME NEW c \in Conn, ScanSlotClear(c) PROVE RoleOK'
  BY <1>23 DEF ScanSlotClear, SetLock, NextSlot, Goto
<1>24. ASSUME NEW c \in Conn, Allocate(c) PROVE RoleOK'
  <2>1. wsnap' \in Snapshot
    BY <1>24, WorkedSnapshotType
  <2>2. /\ pc' = [pc EXCEPT ![c] = "work"] /\ pc[c] = "scan"
        /\ idx' = [idx EXCEPT ![c] = 0]
        /\ UNCHANGED <<inTrans, iReader, client, lockVars>>
    BY <1>24 DEF Allocate, NoSlot, Goto
  <2>. QED BY <2>1, <2>2
<1>25. ASSUME NEW c \in Conn, BlockFree(c) PROVE RoleOK'
  BY <1>25, WorkedSnapshotType DEF BlockFree
<1>26. ASSUME NEW c \in Conn, BlockRefree(c) PROVE RoleOK'
  BY <1>26, WorkedSnapshotType DEF BlockRefree
<1>27. ASSUME NEW c \in Conn, SaveWorker(c) PROVE RoleOK'
  <2>1. wsnap' \in Snapshot
    BY <1>27, WorkedSnapshotType
  <2>2. /\ pc' = [pc EXCEPT ![c] = "save2"] /\ pc[c] = "work"
        /\ UNCHANGED <<idx, inTrans, iReader, client, lockVars>>
    BY <1>27 DEF SaveWorker, Goto
  <2>. QED BY <2>1, <2>2
<1>28. ASSUME NEW c \in Conn, SaveSnap2(c) PROVE RoleOK'
  BY <1>28 DEF SaveSnap2, Goto
<1>29. ASSUME NEW c \in Conn, SaveBarrier(c) PROVE RoleOK'
  BY <1>29 DEF SaveBarrier, Overwritten, Goto
<1>30. ASSUME NEW c \in Conn, SaveSnap1(c) PROVE RoleOK'
  BY <1>30 DEF SaveSnap1, Goto
<1>31. ASSUME NEW c \in Conn, FinishWork(c) PROVE RoleOK'
  BY <1>31 DEF FinishWork, Resume, Goto
<1>32. ASSUME NEW c \in Conn, BeginCheckpoint(c) PROVE RoleOK'
  BY <1>32 DEF BeginCheckpoint, Goto
<1>33. ASSUME NEW c \in Conn, SyncDb(c) PROVE RoleOK'
  BY <1>33 DEF SyncDb, Goto
<1>34. ASSUME NEW c \in Conn, CheckpointStore(c) PROVE RoleOK'
  BY <1>34 DEF CheckpointStore, Goto
<1>35. ASSUME NEW c \in Conn, SyncMeta(c) PROVE RoleOK'
  BY <1>35 DEF SyncMeta, Goto
<1>36. ASSUME NEW c \in Conn, FinishCheckpoint(c) PROVE RoleOK'
  BY <1>36 DEF FinishCheckpoint, Resume, OtherPage, Goto
<1>37. ASSUME NEW c \in Conn, Die(c) PROVE RoleOK'
  BY <1>37 DEF Die, ZeroSnapshot, EmptySnapshot, Goto
<1>38. ASSUME Crash PROVE RoleOK'
  BY <1>38 DEF Crash
<1>. QED
  BY <1>1, <1>2, <1>3, <1>4, <1>5, <1>6, <1>7, <1>8, <1>9, <1>10, <1>11, <1>12, <1>13, <1>14, <1>15, <1>16, <1>17, <1>18, <1>19, <1>20, <1>21, <1>22, <1>23, <1>24, <1>25, <1>26, <1>27, <1>28, <1>29, <1>30, <1>31, <1>32, <1>33, <1>34, <1>35, <1>36, <1>37, <1>38, <1>39
     DEF Next, ReadStep, LoadStep, WriteStep, SetLockStep, WorkStep, AllocStep, CheckpointStep

LEMMA SetLockFields ==
  ASSUME TypeOK, NEW c \in Conn, NEW i \in Slot,
         NEW mode \in {"unlock", "shared", "excl"}, SetLock(c, i, mode)
  PROVE  /\ rlock'[i][c] = mode
         /\ \A j \in Slot, d \in Conn :
              j # i \/ d # c => rlock'[j][d] = rlock[j][d]
BY DEF TypeOK, LockTypeOK, SetLock

\* lsmShmLock() keeps exclusive locks exclusive.
LEMMA SetLockExclusion ==
  ASSUME TypeOK, LockOK, NEW c \in Conn, NEW i \in Slot,
         NEW mode \in {"unlock", "shared", "excl"}, SetLock(c, i, mode),
         mode = "shared" => CanShare(c, i),
         mode = "excl" => CanExcl(c, i)
  PROVE  Exclusion'
BY SetLockFields DEF TypeOK, LockTypeOK, LockOK, Exclusion, CanShare, CanExcl

LEMMA LockStep ==
  ASSUME TypeOK, RoleOK, LockOK, Next
  PROVE  LockOK'
<1>. USE ConnAssumption, BoundAssumption
<1>. USE DEF TypeOK, ConnTypeOK, LockTypeOK, RoleOK, LockOK, Exclusion, ExclHeld, BaseLabels, ScanLabels, SaveLabels, SetLabels, CkptLabels, ReadLabels, CanShare, CanExcl
<1>. USE DEF shmVars, lockVars, connVars, workVars, fileVars
<1>1. ASSUME NEW c \in Conn, LoadHeader(c) PROVE LockOK'
  BY <1>1 DEF LoadHeader, Goto
<1>2. ASSUME NEW c \in Conn, LoadSnapshot(c) PROVE LockOK'
  BY <1>2 DEF LoadSnapshot, Goto, FirstSlot, ClientCacheOk
<1>39. ASSUME NEW c \in Conn, LoadStep(c) PROVE LockOK'
  <2>1. UNCHANGED rlock /\ \A d \in Conn \ {c} : pc'[d] = pc[d] /\ idx'[d] = idx[d]
    BY <1>39, LoadFrame
  <2>2. pc'[c] \notin {"exclset", "setslot", "scanzero"}
    BY <1>39, LoadFrame DEF LoadLabels, Resume
  <2>. QED BY <2>1, <2>2
<1>3. ASSUME NEW c \in Conn, ExactSlot(c) PROVE LockOK'
  BY <1>3 DEF ExactSlot, FindSlot, FirstSlot, NextSlot, Goto
<1>4. ASSUME NEW c \in Conn, ExactSlotLock(c) PROVE LockOK'
  <2>1. Exclusion'
    BY <1>4, IdxInSlot, SetLockExclusion, SMTT(30) DEF ExactSlotLock, ShareSlot, NextSlot, NoSlot, Goto
  <2>2. ExclHeld'
    BY <1>4, IdxInSlot, SetLockFields DEF ExactSlotLock, ShareSlot, NextSlot, NoSlot, Goto
  <2>. QED BY <2>1, <2>2 DEF LockOK
<1>5. ASSUME NEW c \in Conn, ExclSlot(c) PROVE LockOK'
  <2>1. Exclusion'
    BY <1>5, SetLockExclusion DEF ExclSlot, FirstSlot, NextSlot, Goto
  <2>2. ExclHeld'
    BY <1>5, SetLockFields, SMTT(30) DEF ExclSlot, FirstSlot, NextSlot, Goto
  <2>. QED BY <2>1, <2>2 DEF LockOK
<1>6. ASSUME NEW c \in Conn, ExclSlotSet(c) PROVE LockOK'
  BY <1>6 DEF ExclSlotSet, WantedSlot, SetLock, NoSlot, Goto
<1>7. ASSUME NEW c \in Conn, UsableSlot(c) PROVE LockOK'
  BY <1>7 DEF UsableSlot, FindSlot, FirstSlot, NextSlot, NoSlot, AttemptFailed, Goto
<1>8. ASSUME NEW c \in Conn, UsableSlotLock(c) PROVE LockOK'
  <2>1. Exclusion'
    BY <1>8, IdxInSlot, SetLockExclusion, SMTT(30) DEF UsableSlotLock, ShareSlot, NextSlot, NoSlot, Goto
  <2>2. ExclHeld'
    BY <1>8, IdxInSlot, SetLockFields DEF UsableSlotLock, ShareSlot, NextSlot, NoSlot, Goto
  <2>. QED BY <2>1, <2>2 DEF LockOK
<1>9. ASSUME NEW c \in Conn, CheckHeader(c) PROVE LockOK'
  <2>1. Exclusion'
    BY <1>9, SetLockExclusion DEF CheckHeader, ReleaseReadlock, AttemptFailed, Goto
  <2>2. ExclHeld'
    BY <1>9, SetLockFields DEF CheckHeader, ReleaseReadlock, AttemptFailed, Goto
  <2>. QED BY <2>1, <2>2 DEF LockOK
<1>10. ASSUME NEW c \in Conn, CheckSnapshot(c) PROVE LockOK'
  <2>1. Exclusion'
    BY <1>10, SetLockExclusion DEF CheckSnapshot, ReleaseReadlock, AttemptFailed, Goto
  <2>2. ExclHeld'
    BY <1>10, SetLockFields DEF CheckSnapshot, ReleaseReadlock, AttemptFailed, Goto
  <2>. QED BY <2>1, <2>2 DEF LockOK
<1>11. ASSUME NEW c \in Conn, FinishReadTrans(c) PROVE LockOK'
  <2>1. Exclusion'
    BY <1>11, SetLockExclusion DEF FinishReadTrans, ReleaseReadlock
  <2>2. ExclHeld'
    BY <1>11, SetLockFields, SMTT(30) DEF FinishReadTrans, ReleaseReadlock
  <2>. QED BY <2>1, <2>2 DEF LockOK
<1>12. ASSUME NEW c \in Conn, BeginWriteTrans(c) PROVE LockOK'
  BY <1>12 DEF BeginWriteTrans, Goto
<1>13. ASSUME NEW c \in Conn, Commit(c) PROVE LockOK'
  BY <1>13 DEF Commit, Goto
<1>14. ASSUME NEW c \in Conn, FinishWriteTrans(c) PROVE LockOK'
  BY <1>14 DEF FinishWriteTrans, Goto
<1>15. ASSUME NEW c \in Conn, SetReadLock(c) PROVE LockOK'
  <2>1. /\ UNCHANGED rlock /\ pc[c] = "setlock"
        /\ pc'[c] \in {"locksset", "setexcl"}
        /\ \A d \in Conn \ {c} : pc'[d] = pc[d] /\ idx'[d] = idx[d]
    BY <1>15 DEF SetReadLock, FirstSlot, Goto
  <2>. QED BY <2>1
<1>16. ASSUME NEW c \in Conn, SetReadLockTry(c) PROVE LockOK'
  <2>1. Exclusion'
    BY <1>16, SetLockExclusion DEF SetReadLockTry, NextSlot, NoSlot, Goto
  <2>2. ExclHeld'
    BY <1>16, SetLockFields DEF SetReadLockTry, NextSlot, NoSlot, Goto
  <2>. QED BY <2>1, <2>2 DEF LockOK
<1>17. ASSUME NEW c \in Conn, SetReadLockSet(c) PROVE LockOK'
  BY <1>17 DEF SetReadLockSet, SetSlot, SetLock, NoSlot, Goto
<1>18. ASSUME NEW c \in Conn, BeginWork(c) PROVE LockOK'
  BY <1>18 DEF BeginWork, Repaired, Goto
<1>19. ASSUME NEW c \in Conn, AllocateSynced(c) PROVE LockOK'
  BY <1>19 DEF AllocateSynced, Goto
<1>20. ASSUME NEW c \in Conn, AllocateInUse(c) PROVE LockOK'
  BY <1>20 DEF AllocateInUse, FirstSlot, Goto
<1>21. ASSUME NEW c \in Conn, ScanSlot(c) PROVE LockOK'
  BY <1>21 DEF ScanSlot, NextSlot, Goto
<1>22. ASSUME NEW c \in Conn, ScanSlotLock(c) PROVE LockOK'
  <2>1. Exclusion'
    BY <1>22, IdxInSlot, SetLockExclusion, SMTT(30) DEF ScanSlotLock, NextSlot, Goto
  <2>2. ExclHeld'
    BY <1>22, IdxInSlot, SetLockFields DEF ScanSlotLock, NextSlot, Goto
  <2>. QED BY <2>1, <2>2 DEF LockOK
<1>23. ASSUME NEW c \in Conn, ScanSlotClear(c) PROVE LockOK'
  BY <1>23 DEF ScanSlotClear, SetLock, NextSlot, Goto
<1>24. ASSUME NEW c \in Conn, Allocate(c) PROVE LockOK'
  BY <1>24 DEF Allocate, NoSlot, Goto
<1>25. ASSUME NEW c \in Conn, BlockFree(c) PROVE LockOK'
  BY <1>25 DEF BlockFree
<1>26. ASSUME NEW c \in Conn, BlockRefree(c) PROVE LockOK'
  BY <1>26 DEF BlockRefree
<1>27. ASSUME NEW c \in Conn, SaveWorker(c) PROVE LockOK'
  BY <1>27 DEF SaveWorker, Overwritten, Goto
<1>28. ASSUME NEW c \in Conn, SaveSnap2(c) PROVE LockOK'
  BY <1>28 DEF SaveSnap2, Goto
<1>29. ASSUME NEW c \in Conn, SaveBarrier(c) PROVE LockOK'
  BY <1>29 DEF SaveBarrier, Overwritten, Goto
<1>30. ASSUME NEW c \in Conn, SaveSnap1(c) PROVE LockOK'
  BY <1>30 DEF SaveSnap1, Goto
<1>31. ASSUME NEW c \in Conn, FinishWork(c) PROVE LockOK'
  BY <1>31 DEF FinishWork, Resume, Goto
<1>32. ASSUME NEW c \in Conn, BeginCheckpoint(c) PROVE LockOK'
  BY <1>32 DEF BeginCheckpoint, Goto
<1>33. ASSUME NEW c \in Conn, SyncDb(c) PROVE LockOK'
  BY <1>33 DEF SyncDb, Goto
<1>34. ASSUME NEW c \in Conn, CheckpointStore(c) PROVE LockOK'
  BY <1>34 DEF CheckpointStore, Goto
<1>35. ASSUME NEW c \in Conn, SyncMeta(c) PROVE LockOK'
  BY <1>35 DEF SyncMeta, Goto
<1>36. ASSUME NEW c \in Conn, FinishCheckpoint(c) PROVE LockOK'
  BY <1>36 DEF FinishCheckpoint, Resume, OtherPage, Goto
<1>37. ASSUME NEW c \in Conn, Die(c) PROVE LockOK'
  BY <1>37 DEF Die, ZeroSnapshot, EmptySnapshot, Goto
<1>38. ASSUME Crash PROVE LockOK'
  BY <1>38 DEF Crash
<1>. QED
  BY <1>1, <1>2, <1>3, <1>4, <1>5, <1>6, <1>7, <1>8, <1>9, <1>10, <1>11, <1>12, <1>13, <1>14, <1>15, <1>16, <1>17, <1>18, <1>19, <1>20, <1>21, <1>22, <1>23, <1>24, <1>25, <1>26, <1>27, <1>28, <1>29, <1>30, <1>31, <1>32, <1>33, <1>34, <1>35, <1>36, <1>37, <1>38, <1>39
     DEF Next, ReadStep, LoadStep, WriteStep, SetLockStep, WorkStep, AllocStep, CheckpointStep

-----------------------------------------------------------------------------
(* The copies in shared memory *)

LEMMA SetBlockFields ==
  ASSUME NEW s \in Snapshot, NEW b \in Block, NEW v \in Nat, NEW f \in Int
  PROVE  /\ SetBlock(s, b, v, f).id = s.id
         /\ SetBlock(s, b, v, f).nBlock >= s.nBlock
         /\ SetBlock(s, b, v, f).nBlock >= b
         /\ SetBlock(s, b, v, f).blk[b] = v
         /\ SetBlock(s, b, v, f).free[b] = f
         /\ \A d \in Block \ {b} : /\ SetBlock(s, b, v, f).blk[d] = s.blk[d]
                                   /\ SetBlock(s, b, v, f).free[d] = s.free[d]
BY BoundAssumption DEF SetBlock, Snapshot, Block

LEMMA WellFormedSetBlock ==
  ASSUME NEW s \in Snapshot, NEW b \in Block, NEW v \in Nat, NEW f \in Int,
         NEW max \in Nat, WellFormed(s, max), v <= max, v # 0 => f < 0
  PROVE  WellFormed(SetBlock(s, b, v, f), max)
<1>. DEFINE t == SetBlock(s, b, v, f)
<1>1. t.nBlock >= s.nBlock /\ t.nBlock >= b /\ t.nBlock \in Int /\ s.nBlock \in Int
  BY BoundAssumption DEF SetBlock, Snapshot, Block
<1>2. /\ t.blk[b] <= max
      /\ t.blk[b] # 0 => t.free[b] < 0
      /\ ~(b > t.nBlock)
  BY <1>1, SetBlockFields DEF Block
<1>3. ASSUME NEW d \in Block \ {b}
      PROVE  /\ t.blk[d] <= max
             /\ t.blk[d] # 0 => t.free[d] < 0
             /\ d > t.nBlock => t.blk[d] = 0 /\ t.free[d] < 0
  <2>1. t.blk[d] = s.blk[d] /\ t.free[d] = s.free[d]
    BY SetBlockFields
  <2>2. d > t.nBlock => d > s.nBlock
    BY <1>1 DEF Block
  <2>. QED BY <2>1, <2>2 DEF WellFormed
<1>. HIDE DEF t
<1>4. WellFormed(t, max)
  BY <1>2, <1>3 DEF WellFormed
<1>. QED BY <1>4 DEF t

LEMMA WellFormedWeaken ==
  ASSUME NEW s \in Snapshot, NEW m \in Nat, NEW n \in Nat, m <= n, WellFormed(s, m)
  PROVE  WellFormed(s, n)
BY DEF WellFormed, Snapshot

LEMMA AllocateWsnap ==
  ASSUME TypeOK, RoleOK, NEW c \in Conn, Allocate(c)
  PROVE  /\ worker = c /\ wsnap \in Snapshot
         /\ wsnap.id \in Nat /\ wsnap.id + 1 \in Nat
         /\ -1 \in Int
         /\ \E b \in Block : wsnap' = SetBlock(wsnap, b, wsnap.id + 1, -1)
<1>1. worker = c /\ wsnap \in Snapshot
  BY WsnapType, SMTT(30) DEF Allocate, BaseLabels, ScanLabels
<1>. QED BY <1>1 DEF Allocate, Snapshot

LEMMA ShmStep ==
  ASSUME TypeOK, RoleOK, ShmOK, ~Crash, TypeOK', RoleOK', Next
  PROVE  ShmOK'
<1>. USE ConnAssumption, BoundAssumption
<1>. USE DEF ShmOK, TypeOK, ConnTypeOK, LockTypeOK, RoleOK, BaseLabels, ScanLabels, SaveLabels, SetLabels, CkptLabels, LoadLabels, ReadLabels
<1>. USE DEF shmVars, lockVars, connVars, workVars, fileVars
<1>1. ASSUME NEW c \in Conn, LoadHeader(c) PROVE ShmOK'
  BY <1>1 DEF LoadHeader, Goto
<1>2. ASSUME NEW c \in Conn, LoadSnapshot(c) PROVE ShmOK'
  BY <1>2 DEF LoadSnapshot, Goto, FirstSlot, ClientCacheOk
<1>39. ASSUME NEW c \in Conn, LoadStep(c) PROVE ShmOK'
  BY <1>39, LoadFrame DEF Resume
<1>3. ASSUME NEW c \in Conn, ExactSlot(c) PROVE ShmOK'
  BY <1>3 DEF ExactSlot, FindSlot, FirstSlot, NextSlot, Goto
<1>4. ASSUME NEW c \in Conn, ExactSlotLock(c) PROVE ShmOK'
  BY <1>4 DEF ExactSlotLock, ShareSlot, SetLock, NextSlot, NoSlot, Goto
<1>5. ASSUME NEW c \in Conn, ExclSlot(c) PROVE ShmOK'
  BY <1>5 DEF ExclSlot, FirstSlot, NextSlot, SetLock, Goto
<1>6. ASSUME NEW c \in Conn, ExclSlotSet(c) PROVE ShmOK'
  BY <1>6 DEF ExclSlotSet, WantedSlot, SetLock, NoSlot, Goto
<1>7. ASSUME NEW c \in Conn, UsableSlot(c) PROVE ShmOK'
  BY <1>7 DEF UsableSlot, FindSlot, FirstSlot, NextSlot, NoSlot, AttemptFailed, Goto
<1>8. ASSUME NEW c \in Conn, UsableSlotLock(c) PROVE ShmOK'
  BY <1>8 DEF UsableSlotLock, ShareSlot, SetLock, NextSlot, NoSlot, Goto
<1>9. ASSUME NEW c \in Conn, CheckHeader(c) PROVE ShmOK'
  BY <1>9 DEF CheckHeader, ReleaseReadlock, AttemptFailed, SetLock, Goto
<1>10. ASSUME NEW c \in Conn, CheckSnapshot(c) PROVE ShmOK'
  BY <1>10 DEF CheckSnapshot, ReleaseReadlock, AttemptFailed, SetLock, Goto
<1>11. ASSUME NEW c \in Conn, FinishReadTrans(c) PROVE ShmOK'
  BY <1>11 DEF FinishReadTrans, ReleaseReadlock, SetLock
<1>12. ASSUME NEW c \in Conn, BeginWriteTrans(c) PROVE ShmOK'
  BY <1>12 DEF BeginWriteTrans, Goto
<1>13. ASSUME NEW c \in Conn, Commit(c) PROVE ShmOK'
  BY <1>13 DEF Commit, Goto
<1>14. ASSUME NEW c \in Conn, FinishWriteTrans(c) PROVE ShmOK'
  BY <1>14 DEF FinishWriteTrans, Goto
<1>15. ASSUME NEW c \in Conn, SetReadLock(c) PROVE ShmOK'
  BY <1>15 DEF SetReadLock, FirstSlot, Goto
<1>16. ASSUME NEW c \in Conn, SetReadLockTry(c) PROVE ShmOK'
  BY <1>16 DEF SetReadLockTry, NextSlot, NoSlot, SetLock, Goto
<1>17. ASSUME NEW c \in Conn, SetReadLockSet(c) PROVE ShmOK'
  BY <1>17 DEF SetReadLockSet, SetSlot, SetLock, NoSlot, Goto
<1>18. ASSUME NEW c \in Conn, BeginWork(c) PROVE ShmOK'
  <2>1. Repaired \in Snapshot
    BY RepairedType
  <2>2. Repaired.id >= FirstId /\ WellFormed(Repaired, Repaired.id)
    BY DEF Repaired, ShmTypeOK, ShmCopy, Snapshot
  <2>3. WellFormed(Repaired, Repaired.id + 1)
    <3>1. Repaired.id \in Nat /\ Repaired.id + 1 \in Nat /\ Repaired.id <= Repaired.id + 1
      BY <2>1, SMTT(30) DEF Snapshot
    <3>. QED BY <2>1, <2>2, <3>1, WellFormedWeaken
  <2>4. /\ snap1' = [ok |-> TRUE, snap |-> Repaired]
        /\ snap2' = [ok |-> TRUE, snap |-> Repaired]
        /\ wsnap' = Repaired /\ worker' = c
        /\ pc' = [pc EXCEPT ![c] = "work"]
    BY <1>18 DEF BeginWork, Goto
  <2>. HIDE DEF RoleOK
  <2>. QED BY <2>2, <2>3, <2>4
<1>19. ASSUME NEW c \in Conn, AllocateSynced(c) PROVE ShmOK'
  BY <1>19 DEF AllocateSynced, Goto
<1>20. ASSUME NEW c \in Conn, AllocateInUse(c) PROVE ShmOK'
  BY <1>20 DEF AllocateInUse, FirstSlot, Goto
<1>21. ASSUME NEW c \in Conn, ScanSlot(c) PROVE ShmOK'
  BY <1>21 DEF ScanSlot, NextSlot, Goto
<1>22. ASSUME NEW c \in Conn, ScanSlotLock(c) PROVE ShmOK'
  BY <1>22 DEF ScanSlotLock, SetLock, NextSlot, Goto
<1>23. ASSUME NEW c \in Conn, ScanSlotClear(c) PROVE ShmOK'
  BY <1>23 DEF ScanSlotClear, SetLock, NextSlot, Goto
<1>24. ASSUME NEW c \in Conn, Allocate(c) PROVE ShmOK'
  <2>1. WellFormed(wsnap', wsnap'.id + 1) /\ wsnap'.id = wsnap.id
    <3>1. wsnap.id + 1 <= wsnap.id + 1 /\ -1 < 0 /\ WellFormed(wsnap, wsnap.id + 1)
      BY <1>24, AllocateWsnap
    <3>. HIDE DEF RoleOK, TypeOK, ShmOK
    <3>. QED BY <1>24, <3>1, AllocateWsnap, SetBlockFields, WellFormedSetBlock
  <2>2. /\ pc' = [pc EXCEPT ![c] = "work"] /\ pc[c] = "scan"
        /\ UNCHANGED <<shmVars, lockVars>>
    BY <1>24 DEF Allocate, Goto
  <2>. QED BY <2>1, <2>2
<1>25. ASSUME NEW c \in Conn, BlockFree(c) PROVE ShmOK'
  <2>1. worker = c /\ wsnap \in Snapshot
    BY <1>25, WsnapType DEF BlockFree
  <2>2. wsnap.id \in Nat /\ wsnap.id + 1 \in Nat /\ 0 \in Nat /\ 0 \in Int /\ wsnap.id \in Int
    BY <2>1 DEF Snapshot
  <2>3. WellFormed(wsnap', wsnap'.id + 1) /\ wsnap'.id = wsnap.id
    <3>1. 0 <= wsnap.id + 1 /\ WellFormed(wsnap, wsnap.id + 1)
      BY <2>1, <2>2
    <3>. HIDE DEF RoleOK, TypeOK, ShmOK
    <3>2. PICK b \in Block : wsnap' = SetBlock(wsnap, b, 0, wsnap.id)
      BY <1>25 DEF BlockFree
    <3>3. wsnap'.id = wsnap.id
      BY <2>1, <2>2, <3>2, SetBlockFields
    <3>4. WellFormed(wsnap', wsnap.id + 1)
      BY <2>1, <2>2, <3>1, <3>2, WellFormedSetBlock
    <3>. QED BY <3>3, <3>4
  <2>4. pc[c] = "work" /\ UNCHANGED <<shmVars, lockVars, connVars>>
    BY <1>25 DEF BlockFree
  <2>. QED BY <2>1, <2>3, <2>4
<1>26. ASSUME NEW c \in Conn, BlockRefree(c) PROVE ShmOK'
  <2>1. worker = c /\ wsnap \in Snapshot
    BY <1>26, WsnapType DEF BlockRefree
  <2>2. wsnap.id \in Nat /\ wsnap.id + 1 \in Nat /\ 0 \in Nat /\ 0 \in Int /\ wsnap.id \in Int
    BY <2>1 DEF Snapshot
  <2>3. WellFormed(wsnap', wsnap'.id + 1) /\ wsnap'.id = wsnap.id
    <3>1. 0 <= wsnap.id + 1 /\ WellFormed(wsnap, wsnap.id + 1)
      BY <2>1, <2>2
    <3>. HIDE DEF RoleOK, TypeOK, ShmOK
    <3>2. PICK b \in Block : wsnap' = SetBlock(wsnap, b, 0, 0)
      BY <1>26 DEF BlockRefree
    <3>3. wsnap'.id = wsnap.id
      BY <2>1, <2>2, <3>2, SetBlockFields
    <3>4. WellFormed(wsnap', wsnap.id + 1)
      BY <2>1, <2>2, <3>1, <3>2, WellFormedSetBlock
    <3>. QED BY <3>3, <3>4
  <2>4. pc[c] = "work" /\ UNCHANGED <<shmVars, lockVars, connVars>>
    BY <1>26 DEF BlockRefree
  <2>. QED BY <2>1, <2>3, <2>4
<1>27. ASSUME NEW c \in Conn, SaveWorker(c) PROVE ShmOK'
  <2>1. /\ worker = c /\ wsnap \in Snapshot /\ wsnap' \in Snapshot
        /\ wsnap'.id = wsnap.id + 1
        /\ wsnap'.nBlock = wsnap.nBlock
        /\ wsnap'.blk = wsnap.blk /\ wsnap'.free = wsnap.free
    BY <1>27, WsnapType, WorkedSnapshotType DEF SaveWorker, NextSnapshot, Snapshot
  <2>2. WellFormed(wsnap', wsnap'.id)
    BY <2>1 DEF WellFormed
  <2>3. WellFormed(wsnap', wsnap'.id + 1)
    <3>1. wsnap'.id \in Nat /\ wsnap'.id + 1 \in Nat /\ wsnap'.id <= wsnap'.id + 1
      BY <2>1 DEF Snapshot
    <3>. QED BY <2>1, <2>2, <3>1, WellFormedWeaken
  <2>4. /\ snap2'.ok = FALSE
        /\ snap2'.snap = snap2.snap \/ snap2'.snap = wsnap'
    <3>1. snap2 \in ShmCopy /\ snap2' \in Overwritten(snap2, wsnap')
      BY <1>27 DEF SaveWorker, ShmTypeOK
    <3>. HIDE DEF RoleOK, TypeOK, ShmOK
    <3>. QED BY <2>1, <3>1, OverwrittenFields, ZenonT(30)
  <2>5. /\ pc' = [pc EXCEPT ![c] = "save2"] /\ pc[c] = "work"
        /\ UNCHANGED <<snap1, worker>>
    BY <1>27 DEF SaveWorker, Goto
  <2>6. snap1.snap.id = wsnap.id /\ snap1.snap = snap2.snap /\ snap1.ok
    BY <2>1, <2>5
  <2>7. snap1.snap.id \in Nat /\ wsnap.id \in Nat
    BY <2>1, <2>6 DEF Snapshot
  <2>. QED BY <2>1, <2>2, <2>3, <2>4, <2>5, <2>6, <2>7
<1>28. ASSUME NEW c \in Conn, SaveSnap2(c) PROVE ShmOK'
  <2>1. worker = c /\ wsnap \in Snapshot
    BY <1>28, WsnapType DEF SaveSnap2
  <2>2. /\ snap2' = [ok |-> TRUE, snap |-> wsnap]
        /\ pc' = [pc EXCEPT ![c] = "barrier"] /\ pc[c] = "save2"
        /\ UNCHANGED <<snap1, worker, wsnap>>
    BY <1>28 DEF SaveSnap2, Goto
  <2>3. snap1.snap.id \in Nat /\ wsnap.id \in Nat
    BY <2>1 DEF ShmTypeOK, ShmCopy, Snapshot
  <2>. QED BY <2>1, <2>2, <2>3
<1>29. ASSUME NEW c \in Conn, SaveBarrier(c) PROVE ShmOK'
  <2>1. worker = c /\ wsnap \in Snapshot
    BY <1>29, WsnapType DEF SaveBarrier
  <2>2. /\ snap1'.ok = FALSE
        /\ snap1'.snap = snap1.snap \/ snap1'.snap = wsnap
    <3>1. snap1 \in ShmCopy /\ snap1' \in Overwritten(snap1, wsnap)
      BY <1>29 DEF SaveBarrier, ShmTypeOK
    <3>. HIDE DEF RoleOK, TypeOK, ShmOK
    <3>. QED BY <2>1, <3>1, OverwrittenFields
  <2>3. /\ pc' = [pc EXCEPT ![c] = "save1"] /\ pc[c] = "barrier"
        /\ UNCHANGED <<snap2, worker, wsnap>>
    BY <1>29 DEF SaveBarrier, Goto
  <2>4. snap1.snap.id \in Nat /\ wsnap.id \in Nat
    BY <2>1 DEF ShmTypeOK, ShmCopy, Snapshot
  <2>. QED BY <2>1, <2>2, <2>3, <2>4
<1>30. ASSUME NEW c \in Conn, SaveSnap1(c) PROVE ShmOK'
  <2>1. worker = c /\ wsnap \in Snapshot
    BY <1>30, WsnapType DEF SaveSnap1
  <2>2. /\ snap1' = [ok |-> TRUE, snap |-> wsnap]
        /\ pc[c] = "save1"
        /\ \/ pc' = [pc EXCEPT ![c] = "work"]
           \/ pc' = [pc EXCEPT ![c] = "setlock"]
        /\ UNCHANGED <<snap2, worker, wsnap>>
    BY <1>30 DEF SaveSnap1, Goto
  <2>3. snap2 = [ok |-> TRUE, snap |-> wsnap] /\ wsnap.id >= FirstId
    BY <2>1, <2>2 DEF ShmTypeOK, ShmCopy, Snapshot
  <2>. QED BY <2>1, <2>2, <2>3
<1>31. ASSUME NEW c \in Conn, FinishWork(c) PROVE ShmOK'
  BY <1>31 DEF FinishWork, Resume, Goto
<1>32. ASSUME NEW c \in Conn, BeginCheckpoint(c) PROVE ShmOK'
  BY <1>32 DEF BeginCheckpoint, Goto
<1>33. ASSUME NEW c \in Conn, SyncDb(c) PROVE ShmOK'
  BY <1>33 DEF SyncDb, Goto
<1>34. ASSUME NEW c \in Conn, CheckpointStore(c) PROVE ShmOK'
  BY <1>34 DEF CheckpointStore, Goto
<1>35. ASSUME NEW c \in Conn, SyncMeta(c) PROVE ShmOK'
  BY <1>35 DEF SyncMeta, Goto
<1>36. ASSUME NEW c \in Conn, FinishCheckpoint(c) PROVE ShmOK'
  BY <1>36 DEF FinishCheckpoint, Resume, OtherPage, Goto
<1>37. ASSUME NEW c \in Conn, Die(c) PROVE ShmOK'
  BY <1>37, SMTT(30) DEF Die, ZeroSnapshot, EmptySnapshot, Goto
<1>. QED
  BY <1>1, <1>2, <1>3, <1>4, <1>5, <1>6, <1>7, <1>8, <1>9, <1>10, <1>11, <1>12, <1>13, <1>14, <1>15, <1>16, <1>17, <1>18, <1>19, <1>20, <1>21, <1>22, <1>23, <1>24, <1>25, <1>26, <1>27, <1>28, <1>29, <1>30, <1>31, <1>32, <1>33, <1>34, <1>35, <1>36, <1>37, <1>39, ZenonT(30)
     DEF Next, ReadStep, LoadStep, WriteStep, SetLockStep, WorkStep, AllocStep, CheckpointStep

\* Only the worker's own steps change the snapshots in shared memory.
LEMMA ShmUntouched ==
  ASSUME Next, ~Crash,
         ~\E c \in Conn : \/ BeginWork(c) \/ SaveWorker(c) \/ SaveSnap2(c)
                          \/ SaveBarrier(c) \/ SaveSnap1(c)
  PROVE  UNCHANGED <<snap1, snap2>>
<1>. USE DEF shmVars
<1>1. ASSUME NEW c \in Conn, ReadStep(c) \/ FinishReadTrans(c)
      PROVE  UNCHANGED <<snap1, snap2>>
  BY <1>1
  DEF ReadStep, LoadHeader, LoadSnapshot, LoadFirst, LoadSecond, LoadCopy,
      LoadGivesUp, ExactSlot, ExactSlotLock, ExclSlot, ExclSlotSet, UsableSlot,
      UsableSlotLock, FindSlot, ShareSlot, CheckHeader,
      CheckSnapshot, FinishReadTrans
<1>2. ASSUME NEW c \in Conn, WriteStep(c) \/ SetLockStep(c)
      PROVE  UNCHANGED <<snap1, snap2>>
  BY <1>2
  DEF WriteStep, BeginWriteTrans, Commit, FinishWriteTrans,
      SetLockStep, SetReadLock, SetReadLockTry, SetReadLockSet
<1>3. ASSUME NEW c \in Conn, AllocStep(c) \/ BlockFree(c) \/ BlockRefree(c) \/ FinishWork(c)
      PROVE  UNCHANGED <<snap1, snap2>>
  BY <1>3
  DEF AllocStep, AllocateSynced, AllocateInUse, ScanSlot, ScanSlotLock,
      ScanSlotClear, Allocate, BlockFree, BlockRefree, FinishWork
<1>4. ASSUME NEW c \in Conn, CheckpointStep(c) \/ Die(c)
      PROVE  UNCHANGED <<snap1, snap2>>
  BY <1>4
  DEF CheckpointStep, BeginCheckpoint, SyncDb, CheckpointStore, SyncMeta,
      FinishCheckpoint, Die
<1>. QED BY <1>1, <1>2, <1>3, <1>4 DEF Next, WorkStep

\* No worker dies between the two copies.
NoOrphans == \A c \in Conn : Die(c) => pc[c] # "barrier"

\* A worker between the two copies stays there until it goes on or dies.
LEMMA BarrierKept ==
  ASSUME TypeOK, RoleOK, Next, ~Crash, NEW c \in Conn,
         worker = c, pc[c] = "barrier", ~SaveBarrier(c), ~Die(c)
  PROVE  worker' = c /\ pc'[c] = "barrier"
<1>. USE ConnAssumption
<1>. USE DEF TypeOK, ConnTypeOK, lockVars, connVars, Goto
<1>1. ASSUME NEW d \in Conn, LoadStep(d) PROVE worker' = c /\ pc'[c] = "barrier"
  BY <1>1, LoadFrame DEF LoadLabels
<1>2. ASSUME NEW d \in Conn,
             \/ LoadHeader(d) \/ LoadSnapshot(d) \/ ExactSlot(d) \/ ExactSlotLock(d)
             \/ ExclSlot(d) \/ ExclSlotSet(d) \/ UsableSlotLock(d) \/ FinishReadTrans(d)
      PROVE  worker' = c /\ pc'[c] = "barrier"
  BY <1>2
  DEF LoadHeader, LoadSnapshot, ExactSlot, ExactSlotLock, ExclSlot, ExclSlotSet,
      UsableSlotLock, FindSlot, ShareSlot, FinishReadTrans
<1>3. ASSUME NEW d \in Conn, UsableSlot(d) \/ CheckHeader(d) \/ CheckSnapshot(d)
      PROVE  worker' = c /\ pc'[c] = "barrier"
  BY <1>3 DEF UsableSlot, FindSlot, CheckHeader, CheckSnapshot, AttemptFailed
<1>4. ASSUME NEW d \in Conn, WriteStep(d) \/ SetLockStep(d)
      PROVE  worker' = c /\ pc'[c] = "barrier"
  BY <1>4
  DEF WriteStep, BeginWriteTrans, Commit, FinishWriteTrans,
      SetLockStep, SetReadLock, SetReadLockTry, SetReadLockSet
<1>5. ASSUME NEW d \in Conn, AllocStep(d) \/ BlockFree(d) \/ BlockRefree(d)
      PROVE  worker' = c /\ pc'[c] = "barrier"
  BY <1>5
  DEF AllocStep, AllocateSynced, AllocateInUse, ScanSlot, ScanSlotLock,
      ScanSlotClear, Allocate, BlockFree, BlockRefree
<1>6. ASSUME NEW d \in Conn, \/ BeginWork(d) \/ SaveWorker(d) \/ SaveSnap2(d)
                              \/ SaveBarrier(d) \/ SaveSnap1(d) \/ FinishWork(d)
      PROVE  worker' = c /\ pc'[c] = "barrier"
  <2>1. d = c \/ worker # d
    OBVIOUS
  <2>. QED
    BY <1>6, <2>1, WsnapType
    DEF BeginWork, SaveWorker, SaveSnap2, SaveBarrier, SaveSnap1, FinishWork,
        BaseLabels, SaveLabels
<1>7. ASSUME NEW d \in Conn, CheckpointStep(d) \/ Die(d)
      PROVE  worker' = c /\ pc'[c] = "barrier"
  BY <1>7
  DEF CheckpointStep, BeginCheckpoint, SyncDb, CheckpointStore, SyncMeta,
      FinishCheckpoint, Die
<1>. QED
  BY <1>1, <1>2, <1>3, <1>4, <1>5, <1>6, <1>7 DEF Next, ReadStep, LoadStep, WorkStep

LEMMA OrphanStep ==
  ASSUME TypeOK, RoleOK, ShmOK, OrphanFree, NoOrphans, Next, ~Crash
  PROVE  OrphanFree'
<1>1. ASSUME NEW c \in Conn, \/ BeginWork(c) \/ SaveWorker(c) \/ SaveBarrier(c)
                              \/ SaveSnap1(c)
      PROVE  ~(snap1'.ok /\ snap2'.ok /\ snap1'.snap # snap2'.snap)
  <2>1. CASE SaveWorker(c)
    BY <2>1, WorkedSnapshotType, OverwrittenFields DEF SaveWorker, TypeOK, ShmTypeOK
  <2>2. CASE SaveBarrier(c)
    <3>1. wsnap \in Snapshot /\ snap1 \in ShmCopy
      BY <2>2, WsnapType DEF SaveBarrier, SaveLabels, TypeOK, ShmTypeOK
    <3>. QED BY <2>2, <3>1, OverwrittenFields DEF SaveBarrier
  <2>3. CASE SaveSnap1(c)
    BY <2>3, WsnapType DEF SaveSnap1, ShmOK, SaveLabels
  <2>. QED BY <1>1, <2>1, <2>2, <2>3 DEF BeginWork
<1>2. ASSUME NEW c \in Conn, SaveSnap2(c) PROVE worker' = c /\ pc'[c] = "barrier"
  BY <1>2, WsnapType DEF SaveSnap2, Goto, SaveLabels, TypeOK, ConnTypeOK, lockVars
<1>3. CASE UNCHANGED <<snap1, snap2>> /\ ~\E c \in Conn : SaveBarrier(c)
  BY <1>3, BarrierKept DEF OrphanFree, NoOrphans
<1>. QED BY <1>1, <1>2, <1>3, ShmUntouched DEF OrphanFree

-----------------------------------------------------------------------------
(* Slots *)

LEMMA SlotStep ==
  ASSUME TypeOK, RoleOK, LockOK, ShmOK, SlotOK, ~Crash, TypeOK', RoleOK', Next
  PROVE  SlotOK'
<1>. USE ConnAssumption, BoundAssumption
<1>. USE DEF SlotOK, SlotOf, HoldsReadLock, LockOK, Exclusion, ExclHeld, TypeOK, ConnTypeOK, LockTypeOK, ShmTypeOK, SlotValue, RoleOK, BaseLabels, ScanLabels, SaveLabels, SetLabels, CkptLabels, LoadLabels, ReadLabels
<1>. USE DEF shmVars, lockVars, connVars, workVars, fileVars
<1>1. ASSUME NEW c \in Conn, LoadHeader(c) PROVE SlotOK'
  BY <1>1 DEF LoadHeader, Goto
<1>2. ASSUME NEW c \in Conn, LoadSnapshot(c) PROVE SlotOK'
  <2>1. ASSUME NEW d \in Conn \ {c} PROVE SlotOf(d)'
    BY <1>2, <2>1 DEF LoadSnapshot, Goto
  <2>2. snap1.snap.id \in Nat /\ snap1.snap.id > 0
    BY DEF ShmOK, ShmCopy, Snapshot
  <2>3. SlotOf(c)'
    BY <1>2, <2>2 DEF LoadSnapshot, Goto, ClientCacheOk
  <2>. QED BY <2>1, <2>3
<1>39. ASSUME NEW c \in Conn, LoadStep(c) PROVE SlotOK'
  <2>1. ASSUME NEW d \in Conn \ {c} PROVE SlotOf(d)'
    BY <1>39, <2>1, LoadFrame
  <2>2. LoadedGood(c) => buf'[c].id > 0
    BY DEF LoadedGood, ShmOK, ShmCopy, Snapshot
  <2>3. /\ UNCHANGED <<inTrans, iReader, client, rlock, slot>>
        /\ pc[c] \in LoadLabels
        /\ pc'[c] \in ReadLabels => pc'[c] = "exact" /\ ckptr # c /\ LoadedGood(c)
    <3>. HIDE DEF SlotOK, LockOK, RoleOK, TypeOK
    <3>. QED BY <1>39, LoadFrame DEF LoadLabels, Resume
  <2>4. pc'[c] \in ReadLabels => client[c] = None
    BY <2>3
  <2>5. HoldsReadLock(c)' => HoldsReadLock(c)
    BY <2>3
  <2>6. SlotOf(c)'
    <3>. HIDE DEF LockOK, RoleOK, TypeOK, HoldsReadLock
    <3>. QED BY <2>2, <2>3, <2>4, <2>5
  <2>. QED BY <2>1, <2>6
<1>3. ASSUME NEW c \in Conn, ExactSlot(c) PROVE SlotOK'
  BY <1>3 DEF ExactSlot, FindSlot, FirstSlot, NextSlot, Goto
<1>4. ASSUME NEW c \in Conn, ExactSlotLock(c) PROVE SlotOK'
  <2>1. ASSUME NEW d \in Conn \ {c} PROVE SlotOf(d)'
    BY <1>4, <2>1, IdxInSlot, SetLockFields DEF ExactSlotLock, ShareSlot, NextSlot, NoSlot, Goto
  <2>2. SlotOf(c)'
    BY <1>4, IdxInSlot, SetLockFields DEF ExactSlotLock, ShareSlot, NextSlot, NoSlot, Goto, ExactMatch, WantedSlot
  <2>. QED BY <2>1, <2>2
<1>5. ASSUME NEW c \in Conn, ExclSlot(c) PROVE SlotOK'
  <2>1. ASSUME NEW d \in Conn \ {c} PROVE SlotOf(d)'
    BY <1>5, <2>1, SetLockFields DEF ExclSlot, FirstSlot, NextSlot, Goto
  <2>2. SlotOf(c)'
    BY <1>5, SetLockFields DEF ExclSlot, FirstSlot, NextSlot, Goto
  <2>. QED BY <2>1, <2>2
<1>6. ASSUME NEW c \in Conn, ExclSlotSet(c) PROVE SlotOK'
  BY <1>6 DEF ExclSlotSet, WantedSlot, SetLock, NoSlot, Goto
<1>7. ASSUME NEW c \in Conn, UsableSlot(c) PROVE SlotOK'
  BY <1>7 DEF UsableSlot, FindSlot, FirstSlot, NextSlot, NoSlot, AttemptFailed, Goto
<1>8. ASSUME NEW c \in Conn, UsableSlotLock(c) PROVE SlotOK'
  <2>1. ASSUME NEW d \in Conn \ {c} PROVE SlotOf(d)'
    BY <1>8, <2>1, IdxInSlot, SetLockFields DEF UsableSlotLock, ShareSlot, NextSlot, NoSlot, Goto
  <2>2. SlotOf(c)'
    BY <1>8, IdxInSlot, SetLockFields DEF UsableSlotLock, ShareSlot, NextSlot, NoSlot, Goto, SlotIsUsable
  <2>. QED BY <2>1, <2>2
<1>9. ASSUME NEW c \in Conn, CheckHeader(c) PROVE SlotOK'
  <2>1. ASSUME NEW d \in Conn \ {c} PROVE SlotOf(d)'
    BY <1>9, <2>1, SetLockFields DEF CheckHeader, ReleaseReadlock, AttemptFailed, Goto
  <2>2. SlotOf(c)'
    BY <1>9, SetLockFields DEF CheckHeader, ReleaseReadlock, AttemptFailed, Goto
  <2>. QED BY <2>1, <2>2
<1>10. ASSUME NEW c \in Conn, CheckSnapshot(c) PROVE SlotOK'
  <2>1. ASSUME NEW d \in Conn \ {c} PROVE SlotOf(d)'
    BY <1>10, <2>1, SetLockFields DEF CheckSnapshot, ReleaseReadlock, AttemptFailed, Goto
  <2>2. SlotOf(c)'
    BY <1>10, SetLockFields DEF CheckSnapshot, ReleaseReadlock, AttemptFailed, Goto
  <2>. QED BY <2>1, <2>2
<1>11. ASSUME NEW c \in Conn, FinishReadTrans(c) PROVE SlotOK'
  <2>1. ASSUME NEW d \in Conn \ {c} PROVE SlotOf(d)'
    BY <1>11, <2>1, SetLockFields DEF FinishReadTrans, ReleaseReadlock
  <2>2. SlotOf(c)'
    BY <1>11, SetLockFields DEF FinishReadTrans, ReleaseReadlock
  <2>. QED BY <2>1, <2>2
<1>12. ASSUME NEW c \in Conn, BeginWriteTrans(c) PROVE SlotOK'
  BY <1>12 DEF BeginWriteTrans, Goto
<1>13. ASSUME NEW c \in Conn, Commit(c) PROVE SlotOK'
  BY <1>13 DEF Commit, Goto
<1>14. ASSUME NEW c \in Conn, FinishWriteTrans(c) PROVE SlotOK'
  BY <1>14 DEF FinishWriteTrans, Goto
<1>15. ASSUME NEW c \in Conn, SetReadLock(c) PROVE SlotOK'
  BY <1>15 DEF SetReadLock, FirstSlot, Goto
<1>16. ASSUME NEW c \in Conn, SetReadLockTry(c) PROVE SlotOK'
  <2>1. ASSUME NEW d \in Conn \ {c} PROVE SlotOf(d)'
    BY <1>16, <2>1, SetLockFields DEF SetReadLockTry, NextSlot, NoSlot, Goto
  <2>2. SlotOf(c)'
    <3>1. /\ pc[c] = "setexcl" /\ pc'[c] \in SetLabels
          /\ UNCHANGED <<inTrans, iReader, client, buf, slot>>
      BY <1>16 DEF SetReadLockTry, Goto
    <3>2. CASE idx[c] \in Slot /\ CanExcl(c, idx[c])
      <4>1. SetLock(c, idx[c], "excl")
        BY <1>16, <3>2 DEF SetReadLockTry
      <4>2. /\ rlock'[idx[c]][c] = "excl"
            /\ \A j \in Slot \ {idx[c]} : rlock'[j][c] = rlock[j][c]
        <5>. HIDE DEF TypeOK
        <5>. QED BY <3>2, <4>1, SetLockFields
      <4>3. HoldsReadLock(c)' => HoldsReadLock(c)
        <5>1. iReader[c] \in Slot \cup {0}
          OBVIOUS
        <5>. HIDE DEF TypeOK, RoleOK, LockOK, SlotOK
        <5>. QED BY <3>1, <4>2, <5>1
      <4>. QED BY <3>1, <4>3
    <3>3. CASE ~(idx[c] \in Slot /\ CanExcl(c, idx[c]))
      <4>1. UNCHANGED rlock
        BY <1>16, <3>3 DEF SetReadLockTry
      <4>. QED BY <3>1, <4>1
    <3>. QED BY <3>2, <3>3
  <2>. QED BY <2>1, <2>2
<1>17. ASSUME NEW c \in Conn, SetReadLockSet(c) PROVE SlotOK'
  BY <1>17 DEF SetReadLockSet, SetSlot, SetLock, NoSlot, Goto
<1>18. ASSUME NEW c \in Conn, BeginWork(c) PROVE SlotOK'
  BY <1>18 DEF BeginWork, Repaired, Goto
<1>19. ASSUME NEW c \in Conn, AllocateSynced(c) PROVE SlotOK'
  BY <1>19 DEF AllocateSynced, Goto
<1>20. ASSUME NEW c \in Conn, AllocateInUse(c) PROVE SlotOK'
  BY <1>20 DEF AllocateInUse, FirstSlot, Goto
<1>21. ASSUME NEW c \in Conn, ScanSlot(c) PROVE SlotOK'
  BY <1>21 DEF ScanSlot, NextSlot, Goto
<1>22. ASSUME NEW c \in Conn, ScanSlotLock(c) PROVE SlotOK'
  <2>1. ASSUME NEW d \in Conn \ {c} PROVE SlotOf(d)'
    BY <1>22, <2>1, IdxInSlot, SetLockFields DEF ScanSlotLock, NextSlot, Goto
  <2>2. SlotOf(c)'
    <3>1. /\ pc[c] = "scanlock" /\ idx[c] \in Slot /\ pc'[c] \in ScanLabels
          /\ UNCHANGED <<inTrans, iReader, client, buf, slot>>
      BY <1>22, IdxInSlot DEF ScanSlotLock, Goto
    <3>2. CASE CanExcl(c, idx[c])
      <4>1. SetLock(c, idx[c], "excl")
        BY <1>22, <3>2 DEF ScanSlotLock
      <4>2. /\ rlock'[idx[c]][c] = "excl"
            /\ \A j \in Slot \ {idx[c]} : rlock'[j][c] = rlock[j][c]
        <5>. HIDE DEF TypeOK
        <5>. QED BY <3>1, <4>1, SetLockFields
      <4>3. HoldsReadLock(c)' => HoldsReadLock(c)
        <5>1. iReader[c] \in Slot \cup {0}
          OBVIOUS
        <5>. HIDE DEF TypeOK, RoleOK, LockOK, SlotOK
        <5>. QED BY <3>1, <4>2, <5>1
      <4>. QED BY <3>1, <4>3
    <3>3. CASE ~CanExcl(c, idx[c])
      <4>1. UNCHANGED rlock
        BY <1>22, <3>3 DEF ScanSlotLock
      <4>. QED BY <3>1, <4>1
    <3>. QED BY <3>2, <3>3
  <2>. QED BY <2>1, <2>2
<1>23. ASSUME NEW c \in Conn, ScanSlotClear(c) PROVE SlotOK'
  BY <1>23 DEF ScanSlotClear, SetLock, NextSlot, Goto
<1>24. ASSUME NEW c \in Conn, Allocate(c) PROVE SlotOK'
  BY <1>24 DEF Allocate, NoSlot, Goto
<1>25. ASSUME NEW c \in Conn, BlockFree(c) PROVE SlotOK'
  BY <1>25 DEF BlockFree
<1>26. ASSUME NEW c \in Conn, BlockRefree(c) PROVE SlotOK'
  BY <1>26 DEF BlockRefree
<1>27. ASSUME NEW c \in Conn, SaveWorker(c) PROVE SlotOK'
  BY <1>27 DEF SaveWorker, Overwritten, Goto
<1>28. ASSUME NEW c \in Conn, SaveSnap2(c) PROVE SlotOK'
  BY <1>28 DEF SaveSnap2, Goto
<1>29. ASSUME NEW c \in Conn, SaveBarrier(c) PROVE SlotOK'
  BY <1>29 DEF SaveBarrier, Overwritten, Goto
<1>30. ASSUME NEW c \in Conn, SaveSnap1(c) PROVE SlotOK'
  BY <1>30 DEF SaveSnap1, Goto
<1>31. ASSUME NEW c \in Conn, FinishWork(c) PROVE SlotOK'
  BY <1>31 DEF FinishWork, Resume, Goto
<1>32. ASSUME NEW c \in Conn, BeginCheckpoint(c) PROVE SlotOK'
  BY <1>32 DEF BeginCheckpoint, Goto
<1>33. ASSUME NEW c \in Conn, SyncDb(c) PROVE SlotOK'
  BY <1>33 DEF SyncDb, Goto
<1>34. ASSUME NEW c \in Conn, CheckpointStore(c) PROVE SlotOK'
  BY <1>34 DEF CheckpointStore, Goto
<1>35. ASSUME NEW c \in Conn, SyncMeta(c) PROVE SlotOK'
  BY <1>35 DEF SyncMeta, Goto
<1>36. ASSUME NEW c \in Conn, FinishCheckpoint(c) PROVE SlotOK'
  BY <1>36 DEF FinishCheckpoint, Resume, OtherPage, Goto
<1>37. ASSUME NEW c \in Conn, Die(c) PROVE SlotOK'
  BY <1>37 DEF Die, ZeroSnapshot, EmptySnapshot, Goto
<1>. QED
  BY <1>1, <1>2, <1>3, <1>4, <1>5, <1>6, <1>7, <1>8, <1>9, <1>10, <1>11, <1>12, <1>13, <1>14, <1>15, <1>16, <1>17, <1>18, <1>19, <1>20, <1>21, <1>22, <1>23, <1>24, <1>25, <1>26, <1>27, <1>28, <1>29, <1>30, <1>31, <1>32, <1>33, <1>34, <1>35, <1>36, <1>37, <1>39
     DEF Next, ReadStep, LoadStep, WriteStep, SetLockStep, WorkStep, AllocStep, CheckpointStep

-----------------------------------------------------------------------------
(* Copies of snapshots *)

LEMMA NewestVersion ==
  ASSUME TypeOK, ShmOK
  PROVE  VersionOK(Newest) /\ Newest.id >= FirstId
<1>1. Newest \in Snapshot /\ snap1.snap \in Snapshot /\ snap2.snap \in Snapshot
  BY NewestType DEF TypeOK, ShmTypeOK, ShmCopy
<1>. QED BY <1>1, BoundAssumption DEF VersionOK, ShmOK, Newest, Snapshot

LEMMA Snap1Version ==
  ASSUME TypeOK, ShmOK
  PROVE  VersionOK(snap1.snap) /\ snap1.snap \in Snapshot
<1>1. snap1.snap \in Snapshot /\ snap2.snap \in Snapshot
  BY DEF TypeOK, ShmTypeOK, ShmCopy
<1>. QED BY <1>1 DEF VersionOK, ShmOK, Newest, Snapshot

\* Whichever copy lsmCheckpointLoad() found complete.
LEMMA GoodVersion ==
  ASSUME TypeOK, ShmOK, NEW copy \in {snap1, snap2}, copy.ok
  PROVE  VersionOK(copy.snap) /\ copy.snap.id >= FirstId
<1>1. copy.snap = snap1.snap \/ copy.snap = Newest
  BY DEF Newest
<1>. QED BY <1>1, Snap1Version, NewestVersion DEF ShmOK

\* How the published snapshots change when the worker loads or saves one.
LEMMA Publish ==
  ASSUME TypeOK, RoleOK, ShmOK, NEW c \in Conn
  PROVE  /\ BeginWork(c) => /\ Repaired' = Repaired /\ Newest' = Repaired
                            /\ snap1'.snap = Repaired /\ wsnap' = Repaired
         /\ SaveWorker(c) => /\ Repaired' = Repaired /\ Newest' = Newest
                             /\ snap1' = snap1
         /\ SaveSnap2(c) => /\ Repaired' = Repaired /\ snap1' = snap1
                            /\ Newest = snap1.snap /\ Newest' = wsnap
                            /\ snap1.snap.id + 1 = wsnap.id
         /\ SaveBarrier(c) => /\ Repaired = snap1.snap /\ Repaired' = wsnap
                              /\ Newest = wsnap /\ Newest' = wsnap
                              /\ snap1'.snap = snap1.snap \/ snap1'.snap = wsnap
                              /\ snap1.snap.id + 1 = wsnap.id
         /\ SaveSnap1(c) => /\ Repaired = wsnap /\ Repaired' = wsnap
                            /\ Newest = wsnap /\ Newest' = wsnap
                            /\ snap1'.snap = wsnap
<1>. USE DEF Repaired, Newest
<1>1. ASSUME BeginWork(c)
      PROVE  /\ Repaired' = Repaired /\ Newest' = Repaired
             /\ snap1'.snap = Repaired /\ wsnap' = Repaired
  BY <1>1 DEF BeginWork
<1>2. ASSUME SaveWorker(c)
      PROVE  Repaired' = Repaired /\ Newest' = Newest /\ snap1' = snap1
  <2>1. snap1.ok /\ snap1.snap = snap2.snap
    BY <1>2, WsnapType DEF SaveWorker, ShmOK, BaseLabels
  <2>2. snap2'.ok = FALSE
    BY <1>2, WorkedSnapshotType, OverwrittenFields DEF SaveWorker, TypeOK, ShmTypeOK
  <2>. QED BY <1>2, <2>1, <2>2 DEF SaveWorker
<1>3. ASSUME SaveSnap2(c)
      PROVE  /\ Repaired' = Repaired /\ snap1' = snap1
             /\ Newest = snap1.snap /\ Newest' = wsnap
             /\ snap1.snap.id + 1 = wsnap.id
  <2>1. ~snap2.ok /\ snap1.ok /\ snap1.snap.id + 1 = wsnap.id
    BY <1>3, WsnapType DEF SaveSnap2, ShmOK, SaveLabels
  <2>. QED BY <1>3, <2>1 DEF SaveSnap2
<1>4. ASSUME SaveBarrier(c)
      PROVE  /\ Repaired = snap1.snap /\ Repaired' = wsnap
             /\ Newest = wsnap /\ Newest' = wsnap
             /\ snap1'.snap = snap1.snap \/ snap1'.snap = wsnap
             /\ snap1.snap.id + 1 = wsnap.id
  <2>1. /\ snap1.ok /\ snap1.snap.id + 1 = wsnap.id
        /\ snap2.ok /\ snap2.snap = wsnap
    BY <1>4, WsnapType DEF SaveBarrier, ShmOK, SaveLabels
  <2>2. /\ snap1'.ok = FALSE
        /\ snap1'.snap = snap1.snap \/ snap1'.snap = wsnap
    <3>1. snap1 \in ShmCopy /\ snap1' \in Overwritten(snap1, wsnap)
      BY <1>4 DEF SaveBarrier, TypeOK, ShmTypeOK
    <3>2. wsnap \in Snapshot
      BY <1>4, WsnapType DEF SaveBarrier, SaveLabels
    <3>. QED BY <3>1, <3>2, OverwrittenFields
  <2>. QED BY <1>4, <2>1, <2>2 DEF SaveBarrier
<1>5. ASSUME SaveSnap1(c)
      PROVE  /\ Repaired = wsnap /\ Repaired' = wsnap
             /\ Newest = wsnap /\ Newest' = wsnap
             /\ snap1'.snap = wsnap
  <2>1. ~snap1.ok /\ snap2.ok /\ snap2.snap = wsnap
    BY <1>5, WsnapType DEF SaveSnap1, ShmOK, SaveLabels
  <2>. QED BY <1>5, <2>1 DEF SaveSnap1
<1>. QED BY <1>1, <1>2, <1>3, <1>4, <1>5

\* Without an orphan the next worker goes on from the newest snapshot.
LEMMA RepairedNewest ==
  ASSUME RoleOK, ShmOK, OrphanFree, worker = None
  PROVE  Repaired = Newest
BY ConnAssumption DEF ShmOK, OrphanFree, Repaired, Newest

\* Nothing that was current becomes ambiguous when a snapshot is published.
LEMMA VersionStep ==
  ASSUME TypeOK, RoleOK, ShmOK, OrphanFree, TypeOK', NEW c \in Conn,
         BeginWork(c) \/ SaveWorker(c) \/ SaveSnap2(c) \/ SaveBarrier(c) \/ SaveSnap1(c)
  PROVE  \A s \in Snapshot : VersionOK(s) => VersionOK(s)'
<1>1. /\ Newest \in Snapshot /\ Newest' \in Snapshot
      /\ snap1.snap \in Snapshot /\ snap2.snap \in Snapshot /\ snap1'.snap \in Snapshot
  BY DEF TypeOK, ShmTypeOK, ShmCopy, Newest
<1>2. /\ Newest.id \in Nat /\ Newest'.id \in Nat /\ snap1.snap.id \in Nat
      /\ snap1'.snap.id \in Nat /\ snap2.snap.id \in Nat
  BY <1>1 DEF Snapshot
<1>3. CASE SaveSnap2(c)
  BY <1>2, <1>3, Publish DEF VersionOK, Snapshot
<1>4. CASE BeginWork(c)
  <2>1. Repaired = Newest
    BY <1>4, RepairedNewest DEF BeginWork
  <2>. QED BY <1>2, <1>4, <2>1, Publish DEF VersionOK
<1>5. CASE SaveWorker(c) \/ SaveBarrier(c) \/ SaveSnap1(c)
  BY <1>2, <1>5, Publish DEF VersionOK
<1>. QED BY <1>3, <1>4, <1>5

\* The step takes nobody to where a copy is used.
SameUse(d) == /\ pc'[d] \in CkptLabels => pc[d] \in CkptLabels
              /\ pc'[d] \in ReadLabels => pc[d] \in ReadLabels

LEMMA CopyFrame ==
  ASSUME CopyOK, ConnTypeOK, NEW d \in Conn,
         \A s \in Snapshot : VersionOK(s) => VersionOK(s)',
         buf'[d] = buf[d], client'[d] = client[d], SameUse(d)
  PROVE  CopyOf(d)'
BY DEF CopyOK, CopyOf, ConnTypeOK, SameUse

LEMMA MetaFrame ==
  ASSUME CopyOK, FileTypeOK, NEW p \in {1, 2}, meta'[p] = meta[p],
         \A s \in Snapshot : VersionOK(s) => VersionOK(s)'
  PROVE  MetaOf(p)'
BY DEF CopyOK, MetaOf, FileTypeOK

LEMMA VersionSame ==
  ASSUME UNCHANGED <<snap1, snap2>>
  PROVE  /\ \A s \in Snapshot : VersionOK(s) => VersionOK(s)'
         /\ Newest' = Newest
<1>1. Newest' = Newest
  BY DEF Newest
<1>. QED BY <1>1 DEF VersionOK

LEMMA CopySame ==
  ASSUME TypeOK, TypeOK', CopyOK, UNCHANGED <<snap1, snap2, buf, client, meta>>,
         \A d \in Conn : SameUse(d)
  PROVE  CopyOK'
<1>1. \A d \in Conn : CopyOf(d)'
  BY VersionSame, CopyFrame DEF TypeOK
<1>2. \A p \in {1, 2} : MetaOf(p)'
  BY MetaFrame, VersionSame DEF TypeOK
<1>. QED BY <1>1, <1>2 DEF CopyOK

LEMMA CopyStep ==
  ASSUME TypeOK, RoleOK, ShmOK, OrphanFree, CopyOK, ~Crash, TypeOK', Next
  PROVE  CopyOK'
<1>. USE ConnAssumption
<1>. USE DEF CkptLabels, ReadLabels, SameUse
<1>. USE DEF TypeOK, ConnTypeOK, shmVars, lockVars, connVars, workVars, fileVars
<1>1. ASSUME NEW c \in Conn, LoadHeader(c) PROVE CopyOK'
  <2>1. UNCHANGED <<snap1, snap2, buf, client, meta>>
        /\ \A d \in Conn : SameUse(d)
    BY <1>1 DEF LoadHeader, Goto
  <2>. QED BY <2>1, CopySame
<1>2. ASSUME NEW c \in Conn, LoadSnapshot(c) PROVE CopyOK'
  <2>1. /\ \/ UNCHANGED client /\ client[c] # None /\ pc' = [pc EXCEPT ![c] = "exact"]
           \/ client' = [client EXCEPT ![c] = None] /\ pc' = [pc EXCEPT ![c] = "load1"]
        /\ UNCHANGED <<snap1, snap2, meta, buf>>
    BY <1>2 DEF LoadSnapshot, Goto, ClientCacheOk
  <2>2. CopyOf(c)'
    BY <2>1, VersionSame DEF CopyOK, CopyOf, TypeOK, ConnTypeOK
  <2>3. \A d \in Conn \ {c} : CopyOf(d)'
    BY <2>1, VersionSame, CopyFrame DEF TypeOK, ConnTypeOK
  <2>4. \A p \in {1, 2} : MetaOf(p)'
    BY <2>1, MetaFrame, VersionSame
  <2>. QED BY <2>2, <2>3, <2>4 DEF CopyOK
<1>39. ASSUME NEW c \in Conn, LoadStep(c) PROVE CopyOK'
  <2>1. /\ UNCHANGED <<snap1, snap2, meta, client>>
        /\ \A d \in Conn \ {c} : pc'[d] = pc[d] /\ buf'[d] = buf[d]
        /\ pc'[c] \in ReadLabels \cup CkptLabels => LoadedGood(c)
        /\ buf'[c] \in Snapshot
    BY <1>39, LoadFrame DEF LoadLabels, Resume
  <2>2. LoadedGood(c) => VersionOK(buf[c])' /\ buf'[c].id >= FirstId
    BY <2>1, GoodVersion, VersionSame DEF LoadedGood, VersionOK
  <2>3. CopyOf(c)'
    BY <2>1, <2>2, VersionSame DEF CopyOK, CopyOf, TypeOK, ConnTypeOK
  <2>4. \A d \in Conn \ {c} : CopyOf(d)'
    BY <2>1, VersionSame, CopyFrame DEF TypeOK, ConnTypeOK
  <2>5. \A p \in {1, 2} : MetaOf(p)'
    BY <2>1, MetaFrame, VersionSame
  <2>. QED BY <2>3, <2>4, <2>5 DEF CopyOK
<1>3. ASSUME NEW c \in Conn, ExactSlot(c) PROVE CopyOK'
  <2>1. UNCHANGED <<snap1, snap2, buf, client, meta>>
        /\ \A d \in Conn : SameUse(d)
    BY <1>3 DEF ExactSlot, FindSlot, FirstSlot, NextSlot, Goto
  <2>. QED BY <2>1, CopySame
<1>4. ASSUME NEW c \in Conn, ExactSlotLock(c) PROVE CopyOK'
  <2>1. UNCHANGED <<snap1, snap2, buf, client, meta>>
        /\ \A d \in Conn : SameUse(d)
    BY <1>4 DEF ExactSlotLock, ShareSlot, SetLock, NextSlot, NoSlot, Goto
  <2>. QED BY <2>1, CopySame
<1>5. ASSUME NEW c \in Conn, ExclSlot(c) PROVE CopyOK'
  <2>1. UNCHANGED <<snap1, snap2, buf, client, meta>>
        /\ \A d \in Conn : SameUse(d)
    BY <1>5 DEF ExclSlot, FirstSlot, NextSlot, SetLock, Goto
  <2>. QED BY <2>1, CopySame
<1>6. ASSUME NEW c \in Conn, ExclSlotSet(c) PROVE CopyOK'
  <2>1. UNCHANGED <<snap1, snap2, buf, client, meta>>
        /\ \A d \in Conn : SameUse(d)
    BY <1>6 DEF ExclSlotSet, WantedSlot, SetLock, NoSlot, Goto
  <2>. QED BY <2>1, CopySame
<1>7. ASSUME NEW c \in Conn, UsableSlot(c) PROVE CopyOK'
  <2>1. UNCHANGED <<snap1, snap2, buf, client, meta>>
        /\ \A d \in Conn : SameUse(d)
    BY <1>7 DEF UsableSlot, FindSlot, FirstSlot, NextSlot, NoSlot, AttemptFailed, Goto
  <2>. QED BY <2>1, CopySame
<1>8. ASSUME NEW c \in Conn, UsableSlotLock(c) PROVE CopyOK'
  <2>1. UNCHANGED <<snap1, snap2, buf, client, meta>>
        /\ \A d \in Conn : SameUse(d)
    BY <1>8 DEF UsableSlotLock, ShareSlot, SetLock, NextSlot, NoSlot, Goto
  <2>. QED BY <2>1, CopySame
<1>9. ASSUME NEW c \in Conn, CheckHeader(c) PROVE CopyOK'
  <2>1. UNCHANGED <<snap1, snap2, buf, client, meta>>
        /\ \A d \in Conn : SameUse(d)
    BY <1>9 DEF CheckHeader, ReleaseReadlock, AttemptFailed, SetLock, Goto
  <2>. QED BY <2>1, CopySame
<1>10. ASSUME NEW c \in Conn, CheckSnapshot(c) PROVE CopyOK'
  <2>1. /\ \/ UNCHANGED client
           \/ client' = [client EXCEPT ![c] = buf[c]]
        /\ UNCHANGED <<snap1, snap2, meta, buf>>
        /\ client[c] # None => UNCHANGED client
        /\ pc[c] = "checksnap"
        /\ pc' = [pc EXCEPT ![c] = "idle"] \/ pc' = [pc EXCEPT ![c] = "loadhdr"]
    BY <1>10 DEF CheckSnapshot, AttemptFailed, Goto, TypeOK, ConnTypeOK
  <2>2. CopyOf(c)'
    BY <2>1, VersionSame DEF CopyOK, CopyOf, TypeOK, ConnTypeOK
  <2>3. \A d \in Conn \ {c} : CopyOf(d)'
    BY <2>1, VersionSame, CopyFrame DEF TypeOK, ConnTypeOK
  <2>4. \A p \in {1, 2} : MetaOf(p)'
    BY <2>1, MetaFrame, VersionSame
  <2>. QED BY <2>2, <2>3, <2>4 DEF CopyOK
<1>11. ASSUME NEW c \in Conn, FinishReadTrans(c) PROVE CopyOK'
  <2>1. UNCHANGED <<snap1, snap2, buf, client, meta>>
        /\ \A d \in Conn : SameUse(d)
    BY <1>11 DEF FinishReadTrans, ReleaseReadlock, SetLock
  <2>. QED BY <2>1, CopySame
<1>12. ASSUME NEW c \in Conn, BeginWriteTrans(c) PROVE CopyOK'
  <2>1. UNCHANGED <<snap1, snap2, buf, client, meta>>
        /\ \A d \in Conn : SameUse(d)
    BY <1>12 DEF BeginWriteTrans, Goto
  <2>. QED BY <2>1, CopySame
<1>13. ASSUME NEW c \in Conn, Commit(c) PROVE CopyOK'
  <2>1. UNCHANGED <<snap1, snap2, buf, client, meta>>
        /\ \A d \in Conn : SameUse(d)
    BY <1>13 DEF Commit, Goto
  <2>. QED BY <2>1, CopySame
<1>14. ASSUME NEW c \in Conn, FinishWriteTrans(c) PROVE CopyOK'
  <2>1. UNCHANGED <<snap1, snap2, buf, client, meta>>
        /\ \A d \in Conn : SameUse(d)
    BY <1>14 DEF FinishWriteTrans, Goto
  <2>. QED BY <2>1, CopySame
<1>15. ASSUME NEW c \in Conn, SetReadLock(c) PROVE CopyOK'
  <2>1. UNCHANGED <<snap1, snap2, buf, client, meta>>
        /\ \A d \in Conn : SameUse(d)
    BY <1>15 DEF SetReadLock, FirstSlot, Goto
  <2>. QED BY <2>1, CopySame
<1>16. ASSUME NEW c \in Conn, SetReadLockTry(c) PROVE CopyOK'
  <2>1. UNCHANGED <<snap1, snap2, buf, client, meta>>
        /\ \A d \in Conn : SameUse(d)
    BY <1>16 DEF SetReadLockTry, NextSlot, NoSlot, SetLock, Goto
  <2>. QED BY <2>1, CopySame
<1>17. ASSUME NEW c \in Conn, SetReadLockSet(c) PROVE CopyOK'
  <2>1. UNCHANGED <<snap1, snap2, buf, client, meta>>
        /\ \A d \in Conn : SameUse(d)
    BY <1>17 DEF SetReadLockSet, SetSlot, SetLock, NoSlot, Goto
  <2>. QED BY <2>1, CopySame
<1>18. ASSUME NEW c \in Conn, BeginWork(c) PROVE CopyOK'
  <2>1. \A s \in Snapshot : VersionOK(s) => VersionOK(s)'
    BY <1>18, VersionStep
  <2>3. UNCHANGED <<buf, client, meta>> /\ pc'[c] \notin CkptLabels \cup ReadLabels
        /\ \A d \in Conn \ {c} : pc'[d] = pc[d]
    BY <1>18 DEF BeginWork, Goto
  <2>4. \A d \in Conn : CopyOf(d)'
    BY <2>1, <2>3, CopyFrame DEF TypeOK
  <2>5. \A p \in {1, 2} : MetaOf(p)'
    BY <2>1, <2>3, MetaFrame
  <2>. QED BY <2>4, <2>5 DEF CopyOK
<1>19. ASSUME NEW c \in Conn, AllocateSynced(c) PROVE CopyOK'
  <2>1. UNCHANGED <<snap1, snap2, buf, client, meta>>
        /\ \A d \in Conn : SameUse(d)
    BY <1>19 DEF AllocateSynced, Goto
  <2>. QED BY <2>1, CopySame
<1>20. ASSUME NEW c \in Conn, AllocateInUse(c) PROVE CopyOK'
  <2>1. UNCHANGED <<snap1, snap2, buf, client, meta>>
        /\ \A d \in Conn : SameUse(d)
    BY <1>20 DEF AllocateInUse, FirstSlot, Goto
  <2>. QED BY <2>1, CopySame
<1>21. ASSUME NEW c \in Conn, ScanSlot(c) PROVE CopyOK'
  <2>1. UNCHANGED <<snap1, snap2, buf, client, meta>>
        /\ \A d \in Conn : SameUse(d)
    BY <1>21 DEF ScanSlot, NextSlot, Goto
  <2>. QED BY <2>1, CopySame
<1>22. ASSUME NEW c \in Conn, ScanSlotLock(c) PROVE CopyOK'
  <2>1. UNCHANGED <<snap1, snap2, buf, client, meta>>
        /\ \A d \in Conn : SameUse(d)
    BY <1>22 DEF ScanSlotLock, SetLock, NextSlot, Goto
  <2>. QED BY <2>1, CopySame
<1>23. ASSUME NEW c \in Conn, ScanSlotClear(c) PROVE CopyOK'
  <2>1. UNCHANGED <<snap1, snap2, buf, client, meta>>
        /\ \A d \in Conn : SameUse(d)
    BY <1>23 DEF ScanSlotClear, SetLock, NextSlot, Goto
  <2>. QED BY <2>1, CopySame
<1>24. ASSUME NEW c \in Conn, Allocate(c) PROVE CopyOK'
  <2>1. UNCHANGED <<snap1, snap2, buf, client, meta>>
        /\ \A d \in Conn : SameUse(d)
    BY <1>24 DEF Allocate, NoSlot, Goto
  <2>. QED BY <2>1, CopySame
<1>25. ASSUME NEW c \in Conn, BlockFree(c) PROVE CopyOK'
  <2>1. UNCHANGED <<snap1, snap2, buf, client, meta>>
        /\ \A d \in Conn : SameUse(d)
    BY <1>25 DEF BlockFree
  <2>. QED BY <2>1, CopySame
<1>26. ASSUME NEW c \in Conn, BlockRefree(c) PROVE CopyOK'
  <2>1. UNCHANGED <<snap1, snap2, buf, client, meta>>
        /\ \A d \in Conn : SameUse(d)
    BY <1>26 DEF BlockRefree
  <2>. QED BY <2>1, CopySame
<1>27. ASSUME NEW c \in Conn, SaveWorker(c) PROVE CopyOK'
  <2>1. \A s \in Snapshot : VersionOK(s) => VersionOK(s)'
    BY <1>27, VersionStep
  <2>3. UNCHANGED <<buf, client, meta>> /\ pc'[c] \notin CkptLabels \cup ReadLabels
        /\ \A d \in Conn \ {c} : pc'[d] = pc[d]
    BY <1>27 DEF SaveWorker, Goto
  <2>4. \A d \in Conn : CopyOf(d)'
    BY <2>1, <2>3, CopyFrame DEF TypeOK
  <2>5. \A p \in {1, 2} : MetaOf(p)'
    BY <2>1, <2>3, MetaFrame
  <2>. QED BY <2>4, <2>5 DEF CopyOK
<1>28. ASSUME NEW c \in Conn, SaveSnap2(c) PROVE CopyOK'
  <2>1. \A s \in Snapshot : VersionOK(s) => VersionOK(s)'
    BY <1>28, VersionStep
  <2>3. UNCHANGED <<buf, client, meta>> /\ pc'[c] \notin CkptLabels \cup ReadLabels
        /\ \A d \in Conn \ {c} : pc'[d] = pc[d]
    BY <1>28 DEF SaveSnap2, Goto
  <2>4. \A d \in Conn : CopyOf(d)'
    BY <2>1, <2>3, CopyFrame DEF TypeOK
  <2>5. \A p \in {1, 2} : MetaOf(p)'
    BY <2>1, <2>3, MetaFrame
  <2>. QED BY <2>4, <2>5 DEF CopyOK
<1>29. ASSUME NEW c \in Conn, SaveBarrier(c) PROVE CopyOK'
  <2>1. \A s \in Snapshot : VersionOK(s) => VersionOK(s)'
    BY <1>29, VersionStep
  <2>3. UNCHANGED <<buf, client, meta>> /\ pc'[c] \notin CkptLabels \cup ReadLabels
        /\ \A d \in Conn \ {c} : pc'[d] = pc[d]
    BY <1>29 DEF SaveBarrier, Goto
  <2>4. \A d \in Conn : CopyOf(d)'
    BY <2>1, <2>3, CopyFrame DEF TypeOK
  <2>5. \A p \in {1, 2} : MetaOf(p)'
    BY <2>1, <2>3, MetaFrame
  <2>. QED BY <2>4, <2>5 DEF CopyOK
<1>30. ASSUME NEW c \in Conn, SaveSnap1(c) PROVE CopyOK'
  <2>1. \A s \in Snapshot : VersionOK(s) => VersionOK(s)'
    BY <1>30, VersionStep
  <2>3. UNCHANGED <<buf, client, meta>> /\ pc'[c] \notin CkptLabels \cup ReadLabels
        /\ \A d \in Conn \ {c} : pc'[d] = pc[d]
    BY <1>30 DEF SaveSnap1, Goto
  <2>4. \A d \in Conn : CopyOf(d)'
    BY <2>1, <2>3, CopyFrame DEF TypeOK
  <2>5. \A p \in {1, 2} : MetaOf(p)'
    BY <2>1, <2>3, MetaFrame
  <2>. QED BY <2>4, <2>5 DEF CopyOK
<1>31. ASSUME NEW c \in Conn, FinishWork(c) PROVE CopyOK'
  <2>1. UNCHANGED <<snap1, snap2, buf, client, meta>>
        /\ \A d \in Conn : SameUse(d)
    BY <1>31 DEF FinishWork, Resume, Goto
  <2>. QED BY <2>1, CopySame
<1>32. ASSUME NEW c \in Conn, BeginCheckpoint(c) PROVE CopyOK'
  <2>1. UNCHANGED <<snap1, snap2, buf, client, meta>>
        /\ \A d \in Conn : SameUse(d)
    BY <1>32 DEF BeginCheckpoint, Goto
  <2>. QED BY <2>1, CopySame
<1>33. ASSUME NEW c \in Conn, SyncDb(c) PROVE CopyOK'
  <2>1. UNCHANGED <<snap1, snap2, buf, client, meta>>
        /\ \A d \in Conn : SameUse(d)
    BY <1>33 DEF SyncDb, Goto
  <2>. QED BY <2>1, CopySame
<1>34. ASSUME NEW c \in Conn, CheckpointStore(c) PROVE CopyOK'
  <2>1. /\ \E page \in {None, buf[c]} :
             meta' = [meta EXCEPT ![OtherPage(iMetaPage)] = page]
        /\ UNCHANGED <<snap1, snap2, buf, client>>
        /\ pc[c] \in CkptLabels
        /\ \A d \in Conn : SameUse(d)
    BY <1>34 DEF CheckpointStore, Goto, CkptLabels, TypeOK, ConnTypeOK
  <2>2. \A d \in Conn : CopyOf(d)'
    BY <2>1, VersionSame, CopyFrame DEF TypeOK
  <2>3. \A p \in {1, 2} : MetaOf(p)'
    <3>1. SUFFICES ASSUME NEW p \in {1, 2} PROVE MetaOf(p)'
      OBVIOUS
    <3>2. CASE meta'[p] = meta[p]
      BY <2>1, <3>2, MetaFrame, VersionSame
    <3>3. CASE meta'[p] = None
      BY <2>1, <3>3, VersionSame DEF MetaOf, CopyOK, CopyOf, VersionOK
    <3>4. CASE meta'[p] = buf[c]
      BY <2>1, <3>4, VersionSame DEF MetaOf, CopyOK, CopyOf, VersionOK
    <3>. QED BY <2>1, <3>2, <3>3, <3>4 DEF TypeOK, FileTypeOK
  <2>. QED BY <2>2, <2>3 DEF CopyOK
<1>35. ASSUME NEW c \in Conn, SyncMeta(c) PROVE CopyOK'
  <2>1. /\ meta' = [meta EXCEPT ![OtherPage(iMetaPage)] = buf[c]]
        /\ UNCHANGED <<snap1, snap2, buf, client>>
        /\ pc[c] \in CkptLabels
        /\ \A d \in Conn : SameUse(d)
    BY <1>35 DEF SyncMeta, Goto, CkptLabels, TypeOK, ConnTypeOK
  <2>2. \A d \in Conn : CopyOf(d)'
    BY <2>1, VersionSame, CopyFrame DEF TypeOK
  <2>3. \A p \in {1, 2} : MetaOf(p)'
    <3>1. SUFFICES ASSUME NEW p \in {1, 2} PROVE MetaOf(p)'
      OBVIOUS
    <3>2. CASE meta'[p] = meta[p]
      BY <2>1, <3>2, MetaFrame, VersionSame
    <3>3. CASE meta'[p] = buf[c]
      BY <2>1, <3>3, VersionSame DEF MetaOf, CopyOK, CopyOf, VersionOK
    <3>. QED BY <2>1, <3>2, <3>3 DEF TypeOK, FileTypeOK
  <2>. QED BY <2>2, <2>3 DEF CopyOK
<1>36. ASSUME NEW c \in Conn, FinishCheckpoint(c) PROVE CopyOK'
  <2>1. UNCHANGED <<snap1, snap2, buf, client, meta>>
        /\ \A d \in Conn : SameUse(d)
    BY <1>36 DEF FinishCheckpoint, Resume, OtherPage, Goto
  <2>. QED BY <2>1, CopySame
<1>37. ASSUME NEW c \in Conn, Die(c) PROVE CopyOK'
  <2>1. /\ buf' = [buf EXCEPT ![c] = ZeroSnapshot]
        /\ client' = [client EXCEPT ![c] = None]
        /\ pc' = [pc EXCEPT ![c] = "idle"]
        /\ UNCHANGED <<snap1, snap2, meta>>
    BY <1>37 DEF Die, Goto
  <2>2. CopyOf(c)'
    BY <2>1 DEF CopyOf, TypeOK, ConnTypeOK
  <2>3. \A d \in Conn \ {c} : CopyOf(d)'
    BY <2>1, VersionSame, CopyFrame DEF TypeOK, ConnTypeOK
  <2>4. \A p \in {1, 2} : MetaOf(p)'
    BY <2>1, MetaFrame, VersionSame
  <2>. QED BY <2>2, <2>3, <2>4 DEF CopyOK
<1>. QED
  BY <1>1, <1>2, <1>3, <1>4, <1>5, <1>6, <1>7, <1>8, <1>9, <1>10, <1>11, <1>12, <1>13, <1>14, <1>15, <1>16, <1>17, <1>18, <1>19, <1>20, <1>21, <1>22, <1>23, <1>24, <1>25, <1>26, <1>27, <1>28, <1>29, <1>30, <1>31, <1>32, <1>33, <1>34, <1>35, <1>36, <1>37, <1>39
     DEF Next, ReadStep, LoadStep, WriteStep, SetLockStep, WorkStep, AllocStep, CheckpointStep

-----------------------------------------------------------------------------
(* Readers and the scan of the slots *)

\* The connections that hold a read-lock, after a step, are ...
OldReader(d) ==
  /\ HoldsReadLock(d)
  /\ UNCHANGED <<iReader[d], client[d]>>

\* ... or the one whose lsmBeginReadTrans() just succeeded.
NewReader(d) == CheckSnapshot(d) /\ LoadOk(d)

ReadersStep == \A d \in Conn : HoldsReadLock(d)' => OldReader(d) \/ NewReader(d)

LEMMA HoldsStep ==
  ASSUME TypeOK, RoleOK, ~Crash, TypeOK', RoleOK', Next
  PROVE  ReadersStep
<1>. USE ConnAssumption, BoundAssumption
<1>. USE DEF ReadersStep, OldReader, NewReader, HoldsReadLock, TypeOK, ConnTypeOK, LockTypeOK, RoleOK, BaseLabels, ScanLabels, SaveLabels, SetLabels, CkptLabels, LoadLabels, ReadLabels
<1>. USE DEF shmVars, lockVars, connVars, workVars, fileVars
<1>1. ASSUME NEW c \in Conn, LoadHeader(c) PROVE ReadersStep
  BY <1>1 DEF LoadHeader, Goto
<1>2. ASSUME NEW c \in Conn, LoadSnapshot(c) PROVE ReadersStep
  BY <1>2 DEF LoadSnapshot, Goto, FirstSlot, ClientCacheOk
<1>39. ASSUME NEW c \in Conn, LoadStep(c) PROVE ReadersStep
  <2>1. \A d \in Conn : HoldsReadLock(d)' => OldReader(d)
    BY <1>39, LoadFrame
  <2>. QED BY <2>1
<1>3. ASSUME NEW c \in Conn, ExactSlot(c) PROVE ReadersStep
  BY <1>3 DEF ExactSlot, FindSlot, FirstSlot, NextSlot, Goto
<1>4. ASSUME NEW c \in Conn, ExactSlotLock(c) PROVE ReadersStep
  <2>1. ASSUME NEW d \in Conn \ {c}, HoldsReadLock(d)' PROVE OldReader(d)
    BY <1>4, <2>1, IdxInSlot, SetLockFields DEF ExactSlotLock, ShareSlot
  <2>2. ~HoldsReadLock(c)'
    BY <1>4 DEF ExactSlotLock, ShareSlot
  <2>. QED BY <2>1, <2>2
<1>5. ASSUME NEW c \in Conn, ExclSlot(c) PROVE ReadersStep
  BY <1>5, SetLockFields DEF ExclSlot, FirstSlot, NextSlot, Goto
<1>6. ASSUME NEW c \in Conn, ExclSlotSet(c) PROVE ReadersStep
  BY <1>6, IdxInSlot, SetLockFields DEF ExclSlotSet, WantedSlot, NoSlot, Goto
<1>7. ASSUME NEW c \in Conn, UsableSlot(c) PROVE ReadersStep
  BY <1>7 DEF UsableSlot, FindSlot, FirstSlot, NextSlot, NoSlot, AttemptFailed, Goto
<1>8. ASSUME NEW c \in Conn, UsableSlotLock(c) PROVE ReadersStep
  <2>1. ASSUME NEW d \in Conn \ {c}, HoldsReadLock(d)' PROVE OldReader(d)
    BY <1>8, <2>1, IdxInSlot, SetLockFields DEF UsableSlotLock, ShareSlot
  <2>2. ~HoldsReadLock(c)'
    BY <1>8 DEF UsableSlotLock, ShareSlot
  <2>. QED BY <2>1, <2>2
<1>9. ASSUME NEW c \in Conn, CheckHeader(c) PROVE ReadersStep
  BY <1>9, SetLockFields DEF CheckHeader, ReleaseReadlock, AttemptFailed, Goto
<1>10. ASSUME NEW c \in Conn, CheckSnapshot(c) PROVE ReadersStep
  <2>1. ASSUME NEW d \in Conn \ {c}, HoldsReadLock(d)' PROVE OldReader(d)
    BY <1>10, <2>1, SetLockFields DEF CheckSnapshot, ReleaseReadlock, AttemptFailed
  <2>2. ~LoadOk(c) => ~HoldsReadLock(c)'
    BY <1>10 DEF CheckSnapshot, ReleaseReadlock
  <2>. QED BY <1>10, <2>1, <2>2
<1>11. ASSUME NEW c \in Conn, FinishReadTrans(c) PROVE ReadersStep
  BY <1>11, SetLockFields DEF FinishReadTrans, ReleaseReadlock
<1>12. ASSUME NEW c \in Conn, BeginWriteTrans(c) PROVE ReadersStep
  BY <1>12 DEF BeginWriteTrans, Goto
<1>13. ASSUME NEW c \in Conn, Commit(c) PROVE ReadersStep
  BY <1>13 DEF Commit, Goto
<1>14. ASSUME NEW c \in Conn, FinishWriteTrans(c) PROVE ReadersStep
  BY <1>14 DEF FinishWriteTrans, Goto
<1>15. ASSUME NEW c \in Conn, SetReadLock(c) PROVE ReadersStep
  BY <1>15 DEF SetReadLock, FirstSlot, Goto
<1>16. ASSUME NEW c \in Conn, SetReadLockTry(c) PROVE ReadersStep
  BY <1>16, SetLockFields, SMTT(30) DEF SetReadLockTry, NextSlot, NoSlot, Goto
<1>17. ASSUME NEW c \in Conn, SetReadLockSet(c) PROVE ReadersStep
  BY <1>17, IdxInSlot, SetLockFields DEF SetReadLockSet, SetSlot, NoSlot, Goto
<1>18. ASSUME NEW c \in Conn, BeginWork(c) PROVE ReadersStep
  BY <1>18 DEF BeginWork, Repaired, Goto
<1>19. ASSUME NEW c \in Conn, AllocateSynced(c) PROVE ReadersStep
  BY <1>19 DEF AllocateSynced, Goto
<1>20. ASSUME NEW c \in Conn, AllocateInUse(c) PROVE ReadersStep
  BY <1>20 DEF AllocateInUse, FirstSlot, Goto
<1>21. ASSUME NEW c \in Conn, ScanSlot(c) PROVE ReadersStep
  BY <1>21 DEF ScanSlot, NextSlot, Goto
<1>22. ASSUME NEW c \in Conn, ScanSlotLock(c) PROVE ReadersStep
  BY <1>22, IdxInSlot, SetLockFields, SMTT(60) DEF ScanSlotLock, NextSlot, Goto
<1>23. ASSUME NEW c \in Conn, ScanSlotClear(c) PROVE ReadersStep
  BY <1>23, IdxInSlot, SetLockFields, SMTT(30) DEF ScanSlotClear, NextSlot, Goto
<1>24. ASSUME NEW c \in Conn, Allocate(c) PROVE ReadersStep
  BY <1>24 DEF Allocate, NoSlot, Goto
<1>25. ASSUME NEW c \in Conn, BlockFree(c) PROVE ReadersStep
  BY <1>25 DEF BlockFree
<1>26. ASSUME NEW c \in Conn, BlockRefree(c) PROVE ReadersStep
  BY <1>26 DEF BlockRefree
<1>27. ASSUME NEW c \in Conn, SaveWorker(c) PROVE ReadersStep
  BY <1>27 DEF SaveWorker, Overwritten, Goto
<1>28. ASSUME NEW c \in Conn, SaveSnap2(c) PROVE ReadersStep
  BY <1>28 DEF SaveSnap2, Goto
<1>29. ASSUME NEW c \in Conn, SaveBarrier(c) PROVE ReadersStep
  BY <1>29 DEF SaveBarrier, Overwritten, Goto
<1>30. ASSUME NEW c \in Conn, SaveSnap1(c) PROVE ReadersStep
  BY <1>30 DEF SaveSnap1, Goto
<1>31. ASSUME NEW c \in Conn, FinishWork(c) PROVE ReadersStep
  BY <1>31 DEF FinishWork, Resume, Goto
<1>32. ASSUME NEW c \in Conn, BeginCheckpoint(c) PROVE ReadersStep
  BY <1>32 DEF BeginCheckpoint, Goto
<1>33. ASSUME NEW c \in Conn, SyncDb(c) PROVE ReadersStep
  BY <1>33 DEF SyncDb, Goto
<1>34. ASSUME NEW c \in Conn, CheckpointStore(c) PROVE ReadersStep
  BY <1>34 DEF CheckpointStore, Goto
<1>35. ASSUME NEW c \in Conn, SyncMeta(c) PROVE ReadersStep
  BY <1>35 DEF SyncMeta, Goto
<1>36. ASSUME NEW c \in Conn, FinishCheckpoint(c) PROVE ReadersStep
  BY <1>36 DEF FinishCheckpoint, Resume, OtherPage, Goto
<1>37. ASSUME NEW c \in Conn, Die(c) PROVE ReadersStep
  BY <1>37 DEF Die, ZeroSnapshot, EmptySnapshot, Goto
<1>. QED
  BY <1>1, <1>2, <1>3, <1>4, <1>5, <1>6, <1>7, <1>8, <1>9, <1>10, <1>11, <1>12, <1>13, <1>14, <1>15, <1>16, <1>17, <1>18, <1>19, <1>20, <1>21, <1>22, <1>23, <1>24, <1>25, <1>26, <1>27, <1>28, <1>29, <1>30, <1>31, <1>32, <1>33, <1>34, <1>35, <1>36, <1>37, <1>39
     DEF Next, ReadStep, LoadStep, WriteStep, SetLockStep, WorkStep, AllocStep, CheckpointStep

\* What a new reader got is in shared memory now, under its own id.
LEMMA NewReaderCurrent ==
  ASSUME TypeOK, RoleOK, SlotOK, ShmOK, CopyOK, NEW d \in Conn, NewReader(d)
  PROVE  /\ client'[d] \in Snapshot
         /\ client'[d] = snap1.snap \/ client'[d] = Newest
         /\ client'[d].id >= snap1.snap.id
         /\ UNCHANGED <<shmVars, workVars, fileVars, worker>>
<1>1. /\ pc[d] = "checksnap" /\ LoadOk(d)
      /\ client'[d] = IF client[d] = None THEN buf[d] ELSE client[d]
      /\ UNCHANGED <<shmVars, workVars, fileVars, worker>>
  BY DEF NewReader, CheckSnapshot, TypeOK, ConnTypeOK
<1>2. /\ client'[d] \in Snapshot /\ client'[d].id = buf[d].id /\ VersionOK(client'[d])
  BY <1>1 DEF SlotOK, SlotOf, ReadLabels, CopyOK, CopyOf, TypeOK, ConnTypeOK
<1>3. /\ snap1.snap \in Snapshot /\ snap2.snap \in Snapshot /\ Newest \in Snapshot
      /\ snap1.snap.id \in Nat /\ snap2.snap.id \in Nat /\ Newest.id \in Nat
      /\ client'[d].id \in Nat
  BY <1>2, NewestType DEF TypeOK, ShmTypeOK, ShmCopy, Snapshot
<1>4. client'[d].id = snap1.snap.id \/ client'[d].id = snap2.snap.id
  BY <1>1, <1>2 DEF LoadOk
<1>5. CASE client'[d].id = snap1.snap.id
  BY <1>1, <1>2, <1>3, <1>5 DEF VersionOK
<1>6. CASE client'[d].id = snap2.snap.id /\ snap1.snap.id < snap2.snap.id
  <2>1. client'[d].id <= Newest.id
    BY <1>2 DEF VersionOK
  <2>2. Newest = snap2.snap
    BY <1>3, <1>6, <2>1 DEF Newest
  <2>. QED BY <1>1, <1>2, <1>3, <1>6, <2>2 DEF VersionOK
<1>. QED BY <1>4, <1>5, <1>6 DEF ShmOK

LEMMA WorkerCurrent ==
  ASSUME TypeOK, RoleOK, ShmOK, NEW c \in Conn, pc[c] \in BaseLabels
  PROVE  /\ worker = c /\ wsnap \in Snapshot /\ wsnap.id \in Nat
         /\ Newest = snap1.snap /\ Newest.id = wsnap.id
BY WsnapType DEF ShmOK, Newest, Snapshot

\* A step that leaves the scan alone leaves what it has established alone.
LEMMA ScanSame ==
  ASSUME TypeOK, RoleOK, SlotOK, ShmOK, CopyOK, ScanOK, ReadersStep, NEW c \in Conn,
         pc'[c] \in ScanLabels \cup {"synced"} =>
           UNCHANGED <<pc[c], idx[c], iReader[c], client[c], inUse, iThis, wsnap>>
  PROVE  ScanOf(c)'
<1>1. CASE pc'[c] \notin ScanLabels \cup {"synced"}
  BY <1>1 DEF ScanOf, ScanLabels
<1>2. CASE pc'[c] \in ScanLabels \cup {"synced"}
  <2>1. /\ pc[c] \in BaseLabels /\ pc'[c] = pc[c] /\ idx'[c] = idx[c]
        /\ iReader'[c] = iReader[c] /\ client'[c] = client[c]
        /\ UNCHANGED <<inUse, iThis, wsnap>>
    BY <1>2 DEF BaseLabels
  <2>2. snap1.snap.id = wsnap.id /\ wsnap.id \in Nat
    BY <2>1, WorkerCurrent
  <2>3. \A d \in Conn : HoldsReadLock(d)' =>
          \/ HoldsReadLock(d) /\ iReader'[d] = iReader[d] /\ client'[d] = client[d]
          \/ client'[d].id >= wsnap.id /\ client'[d].id \in Nat
    BY <2>2, NewReaderCurrent DEF ReadersStep, OldReader, Snapshot
  <2>4. inUse \in Nat /\ iThis \in Nat
    BY DEF TypeOK, WorkTypeOK
  <2>. QED BY <1>2, <2>1, <2>2, <2>3, <2>4 DEF ScanOK, ScanOf, ScanLabels
<1>. QED BY <1>1, <1>2

LEMMA ScanStep ==
  ASSUME TypeOK, RoleOK, LockOK, SlotOK, ShmOK, CopyOK, ScanOK, ~Crash, TypeOK', RoleOK', ReadersStep, Next
  PROVE  ScanOK'
<1>. USE ConnAssumption
<1>. USE DEF TypeOK, RoleOK, ScanOK, ConnTypeOK, LockTypeOK, BaseLabels, ScanLabels, SaveLabels, SetLabels, CkptLabels, LoadLabels, ReadLabels
<1>. USE DEF shmVars, lockVars, connVars, workVars, fileVars
<1>1. ASSUME NEW c \in Conn, LoadHeader(c) PROVE ScanOK'
  <2>1. ASSUME NEW d \in Conn, pc'[d] \in ScanLabels \cup {"synced"}
        PROVE  UNCHANGED <<pc[d], idx[d], iReader[d], client[d], inUse, iThis, wsnap>>
    BY <1>1, <2>1 DEF LoadHeader, Goto
  <2>. QED BY <2>1, ScanSame
<1>2. ASSUME NEW c \in Conn, LoadSnapshot(c) PROVE ScanOK'
  <2>1. ASSUME NEW d \in Conn, pc'[d] \in ScanLabels \cup {"synced"}
        PROVE  UNCHANGED <<pc[d], idx[d], iReader[d], client[d], inUse, iThis, wsnap>>
    BY <1>2, <2>1 DEF LoadSnapshot, Goto, FirstSlot, ClientCacheOk
  <2>. QED BY <2>1, ScanSame
<1>39. ASSUME NEW c \in Conn, LoadStep(c) PROVE ScanOK'
  <2>1. ASSUME NEW d \in Conn, pc'[d] \in ScanLabels \cup {"synced"}
        PROVE  UNCHANGED <<pc[d], idx[d], iReader[d], client[d], inUse, iThis, wsnap>>
    BY <1>39, <2>1, LoadFrame DEF LoadLabels, Resume
  <2>. QED BY <2>1, ScanSame
<1>3. ASSUME NEW c \in Conn, ExactSlot(c) PROVE ScanOK'
  <2>1. ASSUME NEW d \in Conn, pc'[d] \in ScanLabels \cup {"synced"}
        PROVE  UNCHANGED <<pc[d], idx[d], iReader[d], client[d], inUse, iThis, wsnap>>
    BY <1>3, <2>1 DEF ExactSlot, FindSlot, FirstSlot, NextSlot, Goto
  <2>. QED BY <2>1, ScanSame
<1>4. ASSUME NEW c \in Conn, ExactSlotLock(c) PROVE ScanOK'
  <2>1. ASSUME NEW d \in Conn, pc'[d] \in ScanLabels \cup {"synced"}
        PROVE  UNCHANGED <<pc[d], idx[d], iReader[d], client[d], inUse, iThis, wsnap>>
    BY <1>4, <2>1 DEF ExactSlotLock, ShareSlot, SetLock, NextSlot, NoSlot, Goto
  <2>. QED BY <2>1, ScanSame
<1>5. ASSUME NEW c \in Conn, ExclSlot(c) PROVE ScanOK'
  <2>1. ASSUME NEW d \in Conn, pc'[d] \in ScanLabels \cup {"synced"}
        PROVE  UNCHANGED <<pc[d], idx[d], iReader[d], client[d], inUse, iThis, wsnap>>
    BY <1>5, <2>1 DEF ExclSlot, FirstSlot, NextSlot, SetLock, Goto
  <2>. QED BY <2>1, ScanSame
<1>6. ASSUME NEW c \in Conn, ExclSlotSet(c) PROVE ScanOK'
  <2>1. ASSUME NEW d \in Conn, pc'[d] \in ScanLabels \cup {"synced"}
        PROVE  UNCHANGED <<pc[d], idx[d], iReader[d], client[d], inUse, iThis, wsnap>>
    BY <1>6, <2>1 DEF ExclSlotSet, WantedSlot, SetLock, NoSlot, Goto
  <2>. QED BY <2>1, ScanSame
<1>7. ASSUME NEW c \in Conn, UsableSlot(c) PROVE ScanOK'
  <2>1. ASSUME NEW d \in Conn, pc'[d] \in ScanLabels \cup {"synced"}
        PROVE  UNCHANGED <<pc[d], idx[d], iReader[d], client[d], inUse, iThis, wsnap>>
    BY <1>7, <2>1 DEF UsableSlot, FindSlot, FirstSlot, NextSlot, NoSlot, AttemptFailed, Goto
  <2>. QED BY <2>1, ScanSame
<1>8. ASSUME NEW c \in Conn, UsableSlotLock(c) PROVE ScanOK'
  <2>1. ASSUME NEW d \in Conn, pc'[d] \in ScanLabels \cup {"synced"}
        PROVE  UNCHANGED <<pc[d], idx[d], iReader[d], client[d], inUse, iThis, wsnap>>
    BY <1>8, <2>1 DEF UsableSlotLock, ShareSlot, SetLock, NextSlot, NoSlot, Goto
  <2>. QED BY <2>1, ScanSame
<1>9. ASSUME NEW c \in Conn, CheckHeader(c) PROVE ScanOK'
  <2>1. ASSUME NEW d \in Conn, pc'[d] \in ScanLabels \cup {"synced"}
        PROVE  UNCHANGED <<pc[d], idx[d], iReader[d], client[d], inUse, iThis, wsnap>>
    BY <1>9, <2>1 DEF CheckHeader, ReleaseReadlock, AttemptFailed, SetLock, Goto
  <2>. QED BY <2>1, ScanSame
<1>10. ASSUME NEW c \in Conn, CheckSnapshot(c) PROVE ScanOK'
  <2>1. ASSUME NEW d \in Conn, pc'[d] \in ScanLabels \cup {"synced"}
        PROVE  UNCHANGED <<pc[d], idx[d], iReader[d], client[d], inUse, iThis, wsnap>>
    BY <1>10, <2>1 DEF CheckSnapshot, ReleaseReadlock, AttemptFailed, SetLock, Goto
  <2>. QED BY <2>1, ScanSame
<1>11. ASSUME NEW c \in Conn, FinishReadTrans(c) PROVE ScanOK'
  <2>1. ASSUME NEW d \in Conn, pc'[d] \in ScanLabels \cup {"synced"}
        PROVE  UNCHANGED <<pc[d], idx[d], iReader[d], client[d], inUse, iThis, wsnap>>
    BY <1>11, <2>1 DEF FinishReadTrans, ReleaseReadlock, SetLock
  <2>. QED BY <2>1, ScanSame
<1>12. ASSUME NEW c \in Conn, BeginWriteTrans(c) PROVE ScanOK'
  <2>1. ASSUME NEW d \in Conn, pc'[d] \in ScanLabels \cup {"synced"}
        PROVE  UNCHANGED <<pc[d], idx[d], iReader[d], client[d], inUse, iThis, wsnap>>
    BY <1>12, <2>1 DEF BeginWriteTrans, Goto
  <2>. QED BY <2>1, ScanSame
<1>13. ASSUME NEW c \in Conn, Commit(c) PROVE ScanOK'
  <2>1. ASSUME NEW d \in Conn, pc'[d] \in ScanLabels \cup {"synced"}
        PROVE  UNCHANGED <<pc[d], idx[d], iReader[d], client[d], inUse, iThis, wsnap>>
    BY <1>13, <2>1 DEF Commit, Goto
  <2>. QED BY <2>1, ScanSame
<1>14. ASSUME NEW c \in Conn, FinishWriteTrans(c) PROVE ScanOK'
  <2>1. ASSUME NEW d \in Conn, pc'[d] \in ScanLabels \cup {"synced"}
        PROVE  UNCHANGED <<pc[d], idx[d], iReader[d], client[d], inUse, iThis, wsnap>>
    BY <1>14, <2>1 DEF FinishWriteTrans, Goto
  <2>. QED BY <2>1, ScanSame
<1>15. ASSUME NEW c \in Conn, SetReadLock(c) PROVE ScanOK'
  <2>1. ASSUME NEW d \in Conn, pc'[d] \in ScanLabels \cup {"synced"}
        PROVE  UNCHANGED <<pc[d], idx[d], iReader[d], client[d], inUse, iThis, wsnap>>
    BY <1>15, <2>1 DEF SetReadLock, FirstSlot, Goto
  <2>. QED BY <2>1, ScanSame
<1>16. ASSUME NEW c \in Conn, SetReadLockTry(c) PROVE ScanOK'
  <2>1. ASSUME NEW d \in Conn, pc'[d] \in ScanLabels \cup {"synced"}
        PROVE  UNCHANGED <<pc[d], idx[d], iReader[d], client[d], inUse, iThis, wsnap>>
    BY <1>16, <2>1 DEF SetReadLockTry, NextSlot, NoSlot, SetLock, Goto
  <2>. QED BY <2>1, ScanSame
<1>17. ASSUME NEW c \in Conn, SetReadLockSet(c) PROVE ScanOK'
  <2>1. ASSUME NEW d \in Conn, pc'[d] \in ScanLabels \cup {"synced"}
        PROVE  UNCHANGED <<pc[d], idx[d], iReader[d], client[d], inUse, iThis, wsnap>>
    BY <1>17, <2>1 DEF SetReadLockSet, SetSlot, SetLock, NoSlot, Goto
  <2>. QED BY <2>1, ScanSame
<1>18. ASSUME NEW c \in Conn, BeginWork(c) PROVE ScanOK'
  <2>1. ASSUME NEW d \in Conn, pc'[d] \in ScanLabels \cup {"synced"}
        PROVE  UNCHANGED <<pc[d], idx[d], iReader[d], client[d], inUse, iThis, wsnap>>
    BY <1>18, <2>1 DEF BeginWork, Repaired, Goto
  <2>. QED BY <2>1, ScanSame
<1>19. ASSUME NEW c \in Conn, AllocateSynced(c) PROVE ScanOK'
  <2>1. ASSUME NEW d \in Conn \ {c} PROVE ScanOf(d)'
    BY <1>19, <2>1, ScanSame DEF AllocateSynced, Goto
  <2>2. /\ worker = c /\ wsnap \in Snapshot /\ wsnap.id \in Nat
        /\ Newest = snap1.snap /\ Newest.id = wsnap.id
    BY <1>19, WorkerCurrent DEF AllocateSynced
  <2>3. ScanOf(c)'
    <3>1. pc'[c] = "synced" /\ UNCHANGED wsnap
      BY <1>19 DEF AllocateSynced, Goto
    <3>2. inUse' = 0 \/ inUse' <= Newest.id
      BY <1>19 DEF AllocateSynced, CopyOK, MetaOf, VersionOK, ShmTypeOK
    <3>. QED BY <2>2, <3>1, <3>2 DEF ScanOf
  <2>. QED BY <2>1, <2>3
<1>20. ASSUME NEW c \in Conn, AllocateInUse(c) PROVE ScanOK'
  <2>1. ASSUME NEW d \in Conn \ {c} PROVE ScanOf(d)'
    BY <1>20, <2>1, ScanSame DEF AllocateInUse, Goto
  <2>2. /\ worker = c /\ wsnap \in Snapshot /\ wsnap.id \in Nat
        /\ Newest = snap1.snap /\ Newest.id = wsnap.id
    BY <1>20, WorkerCurrent DEF AllocateInUse
  <2>3. \A d \in Conn \ {c} :
          /\ HoldsReadLock(d)' => HoldsReadLock(d)
          /\ iReader'[d] = iReader[d] /\ client'[d] = client[d]
    BY <1>20 DEF AllocateInUse, HoldsReadLock
  <2>4. \A d \in Conn : HoldsReadLock(d) =>
          /\ iReader[d] \in Slot /\ client[d].id \in Nat
          /\ slot[iReader[d]].id \in Nat
          /\ slot[iReader[d]].id > 0 /\ slot[iReader[d]].id <= client[d].id
    BY DEF HoldsReadLock, SlotOK, SlotOf, ShmTypeOK, SlotValue, Snapshot
  <2>5. inUse \in Nat /\ iThis \in Nat /\ idx[c] \in Nat
    BY DEF WorkTypeOK
  <2>6. ScanOf(c)'
    <3>1. /\ pc[c] = "synced" /\ pc'[c] = "scan" /\ idx'[c] = 1
          /\ UNCHANGED <<wsnap, iReader, client>>
      BY <1>20 DEF AllocateInUse, Goto, FirstSlot
    <3>2. inUse <= wsnap.id
      BY <3>1 DEF ScanOf
    <3>3. iReader[c] # 0 => client[c].id \in Nat
      BY <3>1 DEF Snapshot
    <3>4. inUse' <= wsnap.id /\ (iReader[c] # 0 => inUse' <= client[c].id)
      BY <1>20, <2>2, <2>5, <3>2, <3>3 DEF AllocateInUse
    <3>5. \A d \in Conn \ {c} : HoldsReadLock(d)' => ~(iReader'[d] < idx'[c])
      BY <2>3, <2>4, <3>1 DEF Slot
    <3>. QED BY <3>1, <3>4, <3>5 DEF ScanOf
  <2>. QED BY <2>1, <2>6
<1>21. ASSUME NEW c \in Conn, ScanSlot(c) PROVE ScanOK'
  <2>1. ASSUME NEW d \in Conn \ {c} PROVE ScanOf(d)'
    BY <1>21, <2>1, ScanSame DEF ScanSlot, Goto
  <2>2. /\ worker = c /\ wsnap \in Snapshot /\ wsnap.id \in Nat
        /\ Newest = snap1.snap /\ Newest.id = wsnap.id
    BY <1>21, WorkerCurrent DEF ScanSlot
  <2>3. \A d \in Conn \ {c} :
          /\ HoldsReadLock(d)' => HoldsReadLock(d)
          /\ iReader'[d] = iReader[d] /\ client'[d] = client[d]
    BY <1>21 DEF ScanSlot, HoldsReadLock
  <2>4. \A d \in Conn : HoldsReadLock(d) =>
          /\ iReader[d] \in Slot /\ client[d].id \in Nat
          /\ slot[iReader[d]].id \in Nat
          /\ slot[iReader[d]].id > 0 /\ slot[iReader[d]].id <= client[d].id
    BY DEF HoldsReadLock, SlotOK, SlotOf, ShmTypeOK, SlotValue, Snapshot
  <2>5. inUse \in Nat /\ iThis \in Nat /\ idx[c] \in Nat
    BY DEF WorkTypeOK
  <2>6. ScanOf(c)'
    <3>. DEFINE v == slot[idx[c]].id
    <3>1. /\ pc[c] = "scan" /\ idx[c] \in Slot /\ v \in Nat
          /\ UNCHANGED <<wsnap, iReader, client, inUse>>
      BY <1>21 DEF ScanSlot, ShmTypeOK, SlotValue
    <3>2. CASE v # 0 /\ inUse > v
      <4>1. iThis' = v /\ pc'[c] = "scanlock" /\ idx'[c] = idx[c]
        BY <1>21, <3>2 DEF ScanSlot, Goto
      <4>. QED BY <2>3, <2>4, <2>5, <3>1, <3>2, <4>1 DEF ScanOf
    <3>3. CASE ~(v # 0 /\ inUse > v)
      <4>1. pc'[c] = "scan" /\ idx'[c] = idx[c] + 1
        BY <1>21, <3>3 DEF ScanSlot, NextSlot
      <4>2. ASSUME NEW d \in Conn \ {c}, HoldsReadLock(d)', iReader[d] < idx'[c]
            PROVE  inUse <= client[d].id
        <5>1. CASE iReader[d] < idx[c]
          BY <2>3, <3>1, <4>2, <5>1 DEF ScanOf
        <5>2. CASE iReader[d] = idx[c]
          BY <2>3, <2>4, <2>5, <3>1, <3>3, <4>2, <5>2
        <5>. QED BY <2>3, <2>4, <2>5, <4>1, <4>2, <5>1, <5>2 DEF Slot
      <4>. QED BY <2>3, <3>1, <4>1, <4>2 DEF ScanOf
    <3>. QED BY <3>2, <3>3
  <2>. QED BY <2>1, <2>6
<1>22. ASSUME NEW c \in Conn, ScanSlotLock(c) PROVE ScanOK'
  <2>1. ASSUME NEW d \in Conn \ {c} PROVE ScanOf(d)'
    BY <1>22, <2>1, ScanSame DEF ScanSlotLock, Goto
  <2>2. /\ worker = c /\ wsnap \in Snapshot /\ wsnap.id \in Nat
        /\ Newest = snap1.snap /\ Newest.id = wsnap.id
    BY <1>22, WorkerCurrent DEF ScanSlotLock
  <2>3. \A d \in Conn \ {c} :
          /\ HoldsReadLock(d)' => HoldsReadLock(d)
          /\ iReader'[d] = iReader[d] /\ client'[d] = client[d]
    BY <1>22, IdxInSlot, SetLockFields DEF ScanSlotLock, HoldsReadLock
  <2>4. \A d \in Conn : HoldsReadLock(d) =>
          /\ iReader[d] \in Slot /\ client[d].id \in Nat
          /\ slot[iReader[d]].id \in Nat
          /\ slot[iReader[d]].id > 0 /\ slot[iReader[d]].id <= client[d].id
    BY DEF HoldsReadLock, SlotOK, SlotOf, ShmTypeOK, SlotValue, Snapshot
  <2>5. inUse \in Nat /\ iThis \in Nat /\ idx[c] \in Nat
    BY DEF WorkTypeOK
  <2>6. ScanOf(c)'
    <3>1. /\ pc[c] = "scanlock" /\ idx[c] \in Slot
          /\ UNCHANGED <<wsnap, iReader, client>>
      BY <1>22, IdxInSlot DEF ScanSlotLock
    <3>2. CASE CanExcl(c, idx[c])
      <4>1. UNCHANGED inUse /\ pc'[c] = "scanzero" /\ idx'[c] = idx[c]
        BY <1>22, <3>2 DEF ScanSlotLock, Goto
      <4>. QED BY <2>3, <3>1, <4>1 DEF ScanOf
    <3>3. CASE ~CanExcl(c, idx[c])
      <4>1. inUse' = iThis /\ pc'[c] = "scan" /\ idx'[c] = idx[c] + 1
        BY <1>22, <3>3 DEF ScanSlotLock, Goto, NextSlot
      <4>2. iThis <= inUse
        BY <3>1 DEF ScanOf
      <4>3. ASSUME NEW d \in Conn \ {c}, HoldsReadLock(d)', iReader[d] < idx'[c]
            PROVE  iThis <= client[d].id
        <5>1. CASE iReader[d] < idx[c]
          BY <2>3, <2>4, <2>5, <3>1, <4>2, <4>3, <5>1 DEF ScanOf
        <5>2. CASE iReader[d] = idx[c]
          BY <2>3, <3>1, <4>3, <5>2 DEF ScanOf
        <5>. QED BY <2>3, <2>4, <2>5, <4>1, <4>3, <5>1, <5>2 DEF Slot
      <4>4. iThis <= wsnap.id /\ (iReader[c] # 0 => iThis <= client[c].id)
        <5>1. inUse <= wsnap.id /\ (iReader[c] # 0 => inUse <= client[c].id)
          BY <3>1 DEF ScanOf
        <5>2. iReader[c] # 0 => client[c].id \in Nat
          BY <3>1 DEF Snapshot
        <5>. HIDE DEF TypeOK, RoleOK, ScanOK
        <5>. QED BY <2>2, <2>5, <4>2, <5>1, <5>2
      <4>. QED BY <2>3, <3>1, <4>1, <4>3, <4>4 DEF ScanOf
    <3>. QED BY <3>2, <3>3
  <2>. QED BY <2>1, <2>6
<1>23. ASSUME NEW c \in Conn, ScanSlotClear(c) PROVE ScanOK'
  <2>1. ASSUME NEW d \in Conn \ {c} PROVE ScanOf(d)'
    BY <1>23, <2>1, ScanSame DEF ScanSlotClear, Goto
  <2>2. /\ worker = c /\ wsnap \in Snapshot /\ wsnap.id \in Nat
        /\ Newest = snap1.snap /\ Newest.id = wsnap.id
    BY <1>23, WorkerCurrent DEF ScanSlotClear
  <2>3. \A d \in Conn \ {c} :
          /\ HoldsReadLock(d)' => HoldsReadLock(d)
          /\ iReader'[d] = iReader[d] /\ client'[d] = client[d]
    BY <1>23, IdxInSlot, SetLockFields DEF ScanSlotClear, HoldsReadLock
  <2>4. \A d \in Conn : HoldsReadLock(d) =>
          /\ iReader[d] \in Slot /\ client[d].id \in Nat
          /\ slot[iReader[d]].id \in Nat
          /\ slot[iReader[d]].id > 0 /\ slot[iReader[d]].id <= client[d].id
    BY DEF HoldsReadLock, SlotOK, SlotOf, ShmTypeOK, SlotValue, Snapshot
  <2>5. inUse \in Nat /\ iThis \in Nat /\ idx[c] \in Nat
    BY DEF WorkTypeOK
  <2>6. ScanOf(c)'
    <3>1. /\ pc[c] = "scanzero" /\ idx[c] \in Slot
          /\ pc'[c] = "scan" /\ idx'[c] = idx[c] + 1
          /\ UNCHANGED <<wsnap, iReader, client, inUse>>
      BY <1>23, IdxInSlot DEF ScanSlotClear, Goto, NextSlot
    <3>2. \A d \in Conn \ {c} : HoldsReadLock(d) => iReader[d] # idx[c]
      BY <3>1 DEF HoldsReadLock, LockOK, Exclusion, ExclHeld
    <3>3. ASSUME NEW d \in Conn \ {c}, HoldsReadLock(d)', iReader[d] < idx'[c]
          PROVE  iReader[d] < idx[c]
      BY <2>3, <2>4, <2>5, <3>1, <3>2, <3>3 DEF Slot
    <3>. QED BY <2>3, <3>1, <3>3 DEF ScanOf
  <2>. QED BY <2>1, <2>6
<1>24. ASSUME NEW c \in Conn, Allocate(c) PROVE ScanOK'
  <2>1. ASSUME NEW d \in Conn, pc'[d] \in ScanLabels \cup {"synced"}
        PROVE  UNCHANGED <<pc[d], idx[d], iReader[d], client[d], inUse, iThis, wsnap>>
    BY <1>24, <2>1 DEF Allocate, NoSlot, Goto
  <2>. QED BY <2>1, ScanSame
<1>25. ASSUME NEW c \in Conn, BlockFree(c) PROVE ScanOK'
  <2>1. ASSUME NEW d \in Conn, pc'[d] \in ScanLabels \cup {"synced"}
        PROVE  UNCHANGED <<pc[d], idx[d], iReader[d], client[d], inUse, iThis, wsnap>>
    BY <1>25, <2>1 DEF BlockFree
  <2>. QED BY <2>1, ScanSame
<1>26. ASSUME NEW c \in Conn, BlockRefree(c) PROVE ScanOK'
  <2>1. ASSUME NEW d \in Conn, pc'[d] \in ScanLabels \cup {"synced"}
        PROVE  UNCHANGED <<pc[d], idx[d], iReader[d], client[d], inUse, iThis, wsnap>>
    BY <1>26, <2>1 DEF BlockRefree
  <2>. QED BY <2>1, ScanSame
<1>27. ASSUME NEW c \in Conn, SaveWorker(c) PROVE ScanOK'
  <2>1. ASSUME NEW d \in Conn, pc'[d] \in ScanLabels \cup {"synced"}
        PROVE  UNCHANGED <<pc[d], idx[d], iReader[d], client[d], inUse, iThis, wsnap>>
    BY <1>27, <2>1 DEF SaveWorker, Overwritten, Goto
  <2>. QED BY <2>1, ScanSame
<1>28. ASSUME NEW c \in Conn, SaveSnap2(c) PROVE ScanOK'
  <2>1. ASSUME NEW d \in Conn, pc'[d] \in ScanLabels \cup {"synced"}
        PROVE  UNCHANGED <<pc[d], idx[d], iReader[d], client[d], inUse, iThis, wsnap>>
    BY <1>28, <2>1 DEF SaveSnap2, Goto
  <2>. QED BY <2>1, ScanSame
<1>29. ASSUME NEW c \in Conn, SaveBarrier(c) PROVE ScanOK'
  <2>1. ASSUME NEW d \in Conn, pc'[d] \in ScanLabels \cup {"synced"}
        PROVE  UNCHANGED <<pc[d], idx[d], iReader[d], client[d], inUse, iThis, wsnap>>
    BY <1>29, <2>1 DEF SaveBarrier, Overwritten, Goto
  <2>. QED BY <2>1, ScanSame
<1>30. ASSUME NEW c \in Conn, SaveSnap1(c) PROVE ScanOK'
  <2>1. ASSUME NEW d \in Conn, pc'[d] \in ScanLabels \cup {"synced"}
        PROVE  UNCHANGED <<pc[d], idx[d], iReader[d], client[d], inUse, iThis, wsnap>>
    BY <1>30, <2>1 DEF SaveSnap1, Goto
  <2>. QED BY <2>1, ScanSame
<1>31. ASSUME NEW c \in Conn, FinishWork(c) PROVE ScanOK'
  <2>1. ASSUME NEW d \in Conn, pc'[d] \in ScanLabels \cup {"synced"}
        PROVE  UNCHANGED <<pc[d], idx[d], iReader[d], client[d], inUse, iThis, wsnap>>
    BY <1>31, <2>1 DEF FinishWork, Resume, Goto
  <2>. QED BY <2>1, ScanSame
<1>32. ASSUME NEW c \in Conn, BeginCheckpoint(c) PROVE ScanOK'
  <2>1. ASSUME NEW d \in Conn, pc'[d] \in ScanLabels \cup {"synced"}
        PROVE  UNCHANGED <<pc[d], idx[d], iReader[d], client[d], inUse, iThis, wsnap>>
    BY <1>32, <2>1 DEF BeginCheckpoint, Goto
  <2>. QED BY <2>1, ScanSame
<1>33. ASSUME NEW c \in Conn, SyncDb(c) PROVE ScanOK'
  <2>1. ASSUME NEW d \in Conn, pc'[d] \in ScanLabels \cup {"synced"}
        PROVE  UNCHANGED <<pc[d], idx[d], iReader[d], client[d], inUse, iThis, wsnap>>
    BY <1>33, <2>1 DEF SyncDb, Goto
  <2>. QED BY <2>1, ScanSame
<1>34. ASSUME NEW c \in Conn, CheckpointStore(c) PROVE ScanOK'
  <2>1. ASSUME NEW d \in Conn, pc'[d] \in ScanLabels \cup {"synced"}
        PROVE  UNCHANGED <<pc[d], idx[d], iReader[d], client[d], inUse, iThis, wsnap>>
    BY <1>34, <2>1 DEF CheckpointStore, Goto
  <2>. QED BY <2>1, ScanSame
<1>35. ASSUME NEW c \in Conn, SyncMeta(c) PROVE ScanOK'
  <2>1. ASSUME NEW d \in Conn, pc'[d] \in ScanLabels \cup {"synced"}
        PROVE  UNCHANGED <<pc[d], idx[d], iReader[d], client[d], inUse, iThis, wsnap>>
    BY <1>35, <2>1 DEF SyncMeta, Goto
  <2>. QED BY <2>1, ScanSame
<1>36. ASSUME NEW c \in Conn, FinishCheckpoint(c) PROVE ScanOK'
  <2>1. ASSUME NEW d \in Conn, pc'[d] \in ScanLabels \cup {"synced"}
        PROVE  UNCHANGED <<pc[d], idx[d], iReader[d], client[d], inUse, iThis, wsnap>>
    BY <1>36, <2>1 DEF FinishCheckpoint, Resume, OtherPage, Goto
  <2>. QED BY <2>1, ScanSame
<1>37. ASSUME NEW c \in Conn, Die(c) PROVE ScanOK'
  <2>1. ASSUME NEW d \in Conn, pc'[d] \in ScanLabels \cup {"synced"}
        PROVE  UNCHANGED <<pc[d], idx[d], iReader[d], client[d], inUse, iThis, wsnap>>
    BY <1>37, <2>1 DEF Die, ZeroSnapshot, EmptySnapshot, Goto
  <2>. QED BY <2>1, ScanSame
<1>. QED
  BY <1>1, <1>2, <1>3, <1>4, <1>5, <1>6, <1>7, <1>8, <1>9, <1>10, <1>11, <1>12, <1>13, <1>14, <1>15, <1>16, <1>17, <1>18, <1>19, <1>20, <1>21, <1>22, <1>23, <1>24, <1>25, <1>26, <1>27, <1>28, <1>29, <1>30, <1>31, <1>32, <1>33, <1>34, <1>35, <1>36, <1>37, <1>39
     DEF Next, ReadStep, LoadStep, WriteStep, SetLockStep, WorkStep, AllocStep, CheckpointStep

-----------------------------------------------------------------------------
(* Blocks *)

\* A snapshot no allocation under way may take a block from.
Spared(s) == \A c \in Conn : Allocate(c) => inUse <= s.id

\* firstSnapshotInUse() has been past every reader's slot.
LEMMA AllSpared ==
  ASSUME TypeOK, RoleOK, ShmOK, ScanOK
  PROVE  /\ Spared(snap1.snap) /\ Spared(Newest)
         /\ \A d \in Conn : HoldsReadLock(d) => Spared(client[d])
<1>1. SUFFICES ASSUME NEW c \in Conn, Allocate(c)
               PROVE  /\ inUse <= snap1.snap.id /\ inUse <= Newest.id
                      /\ \A d \in Conn : HoldsReadLock(d) => inUse <= client[d].id
  BY DEF Spared
<1>2. /\ pc[c] = "scan" /\ pc[c] \in BaseLabels /\ pc[c] \in ScanLabels
      /\ idx[c] \notin Slot /\ idx[c] \in Nat /\ idx[c] > 0
  BY <1>1 DEF Allocate, BaseLabels, ScanLabels, RoleOK, TypeOK, ConnTypeOK
<1>3. inUse <= snap1.snap.id /\ inUse <= Newest.id
  BY <1>2, WorkerCurrent DEF ScanOK, ScanOf
<1>4. ASSUME NEW d \in Conn, HoldsReadLock(d) PROVE inUse <= client[d].id
  <2>1. iReader[d] \in Slot
    BY <1>4 DEF HoldsReadLock, TypeOK, ConnTypeOK
  <2>2. iReader[d] # 0 /\ iReader[d] < idx[c]
    BY <1>2, <2>1, BoundAssumption DEF Slot
  <2>. QED BY <1>2, <1>4, <2>2 DEF ScanOK, ScanOf
<1>. QED BY <1>3, <1>4

LEMMA SafeSame ==
  ASSUME NEW s \in Snapshot, Safe(s), UNCHANGED <<snap1, snap2, disk>>,
         worker' # None => worker # None /\ wsnap' = wsnap
  PROVE  Safe(s)'
BY DEF Safe, Intact, Kept, Newest

\* What one step owes: safe snapshots stay safe, and so do the worker's and
\* the published ones.
StaysSafe == \A s \in Snapshot : VersionOK(s) /\ Safe(s) /\ Spared(s) => Safe(s)'

BlockStep ==
  /\ StaysSafe
  /\ worker' # None => Intact(wsnap)'
  /\ Safe(snap1.snap)'
  /\ Safe(Newest)'

LEMMA BlockSame ==
  ASSUME TypeOK, RoleOK, ShmOK, ScanOK, DataOK, UNCHANGED <<snap1, snap2, disk>>,
         worker' # None => worker # None /\ wsnap' = wsnap
  PROVE  BlockStep
<1>1. StaysSafe
  BY SafeSame DEF StaysSafe
<1>2. worker' # None => Intact(wsnap)'
  BY DEF DataOK, Intact
<1>3. Safe(snap1.snap)' /\ Safe(Newest)'
  BY SafeSame, Snap1Version, NewestType DEF DataOK, Newest
<1>. QED BY <1>1, <1>2, <1>3 DEF BlockStep

LEMMA KeptSetBlock ==
  ASSUME NEW s \in Snapshot, NEW t \in Snapshot, NEW b \in Block,
         NEW v \in Nat, NEW f \in Int,
         Kept(s, t), s.blk[b] = 0 \/ f >= s.id
  PROVE  Kept(s, SetBlock(t, b, v, f))
<1>. DEFINE u == SetBlock(t, b, v, f)
<1>1. u.free[b] = f /\ \A d \in Block \ {b} : u.blk[d] = t.blk[d] /\ u.free[d] = t.free[d]
  BY SetBlockFields
<1>. HIDE DEF u
<1>2. Kept(s, u)
  BY <1>1 DEF Kept
<1>. QED BY <1>2 DEF u

\* findFreeblock() or a longer file: the block is used by no spared snapshot.
LEMMA NextBlockUnused ==
  ASSUME TypeOK, RoleOK, ShmOK, NEW c \in Conn, Allocate(c),
         NEW b \in Block, IsNextBlock(b),
         NEW s \in Snapshot, Kept(s, wsnap), Spared(s)
  PROVE  s.blk[b] = 0
<1>1. /\ wsnap \in Snapshot /\ wsnap.free[b] \in Int /\ wsnap.blk[b] \in Nat
      /\ wsnap.nBlock \in Nat
      /\ s.blk[b] \in Nat /\ s.id \in Nat /\ b \in Nat /\ inUse \in Nat
  <2>1. wsnap \in Snapshot
    BY AllocateWsnap
  <2>. QED BY <2>1, BoundAssumption, SMTT(30) DEF Snapshot, Block, TypeOK, WorkTypeOK
<1>2. WellFormed(wsnap, wsnap.id + 1)
  BY AllocateWsnap, ConnAssumption DEF ShmOK
<1>3. inUse <= s.id
  BY DEF Spared
<1>4. CASE b > wsnap.nBlock
  BY <1>1, <1>2, <1>4 DEF WellFormed, Kept
<1>5. CASE wsnap.free[b] >= 0 /\ wsnap.free[b] < inUse
  BY <1>1, <1>2, <1>3, <1>5 DEF WellFormed, Kept
<1>. QED BY <1>1, <1>4, <1>5 DEF IsNextBlock, Recyclable

LEMMA BlocksStep ==
  ASSUME TypeOK, RoleOK, ShmOK, OrphanFree, CopyOK, ScanOK, DataOK, ~Crash, TypeOK', Next
  PROVE  BlockStep
<1>. USE ConnAssumption
<1>. USE DEF TypeOK, LockTypeOK
<1>. USE DEF shmVars, lockVars, connVars, workVars, fileVars
<1>1. ASSUME NEW c \in Conn, LoadHeader(c) PROVE BlockStep
  <2>1. UNCHANGED <<snap1, snap2, disk>> /\ (worker' # None => worker # None /\ wsnap' = wsnap)
    BY <1>1 DEF LoadHeader, Goto
  <2>. QED BY <2>1, BlockSame
<1>2. ASSUME NEW c \in Conn, LoadSnapshot(c) PROVE BlockStep
  <2>1. UNCHANGED <<snap1, snap2, disk>> /\ (worker' # None => worker # None /\ wsnap' = wsnap)
    BY <1>2 DEF LoadSnapshot, Goto, FirstSlot, ClientCacheOk
  <2>. QED BY <2>1, BlockSame
<1>39. ASSUME NEW c \in Conn, LoadStep(c) PROVE BlockStep
  <2>1. UNCHANGED <<snap1, snap2, disk>> /\ (worker' # None => worker # None /\ wsnap' = wsnap)
    BY <1>39, LoadFrame
  <2>. QED BY <2>1, BlockSame
<1>3. ASSUME NEW c \in Conn, ExactSlot(c) PROVE BlockStep
  <2>1. UNCHANGED <<snap1, snap2, disk>> /\ (worker' # None => worker # None /\ wsnap' = wsnap)
    BY <1>3 DEF ExactSlot, FindSlot, FirstSlot, NextSlot, Goto
  <2>. QED BY <2>1, BlockSame
<1>4. ASSUME NEW c \in Conn, ExactSlotLock(c) PROVE BlockStep
  <2>1. UNCHANGED <<snap1, snap2, disk>> /\ (worker' # None => worker # None /\ wsnap' = wsnap)
    BY <1>4 DEF ExactSlotLock, ShareSlot, SetLock, NextSlot, NoSlot, Goto
  <2>. QED BY <2>1, BlockSame
<1>5. ASSUME NEW c \in Conn, ExclSlot(c) PROVE BlockStep
  <2>1. UNCHANGED <<snap1, snap2, disk>> /\ (worker' # None => worker # None /\ wsnap' = wsnap)
    BY <1>5 DEF ExclSlot, FirstSlot, NextSlot, SetLock, Goto
  <2>. QED BY <2>1, BlockSame
<1>6. ASSUME NEW c \in Conn, ExclSlotSet(c) PROVE BlockStep
  <2>1. UNCHANGED <<snap1, snap2, disk>> /\ (worker' # None => worker # None /\ wsnap' = wsnap)
    BY <1>6 DEF ExclSlotSet, WantedSlot, SetLock, NoSlot, Goto
  <2>. QED BY <2>1, BlockSame
<1>7. ASSUME NEW c \in Conn, UsableSlot(c) PROVE BlockStep
  <2>1. UNCHANGED <<snap1, snap2, disk>> /\ (worker' # None => worker # None /\ wsnap' = wsnap)
    BY <1>7 DEF UsableSlot, FindSlot, FirstSlot, NextSlot, NoSlot, AttemptFailed, Goto
  <2>. QED BY <2>1, BlockSame
<1>8. ASSUME NEW c \in Conn, UsableSlotLock(c) PROVE BlockStep
  <2>1. UNCHANGED <<snap1, snap2, disk>> /\ (worker' # None => worker # None /\ wsnap' = wsnap)
    BY <1>8 DEF UsableSlotLock, ShareSlot, SetLock, NextSlot, NoSlot, Goto
  <2>. QED BY <2>1, BlockSame
<1>9. ASSUME NEW c \in Conn, CheckHeader(c) PROVE BlockStep
  <2>1. UNCHANGED <<snap1, snap2, disk>> /\ (worker' # None => worker # None /\ wsnap' = wsnap)
    BY <1>9 DEF CheckHeader, ReleaseReadlock, AttemptFailed, SetLock, Goto
  <2>. QED BY <2>1, BlockSame
<1>10. ASSUME NEW c \in Conn, CheckSnapshot(c) PROVE BlockStep
  <2>1. UNCHANGED <<snap1, snap2, disk>> /\ (worker' # None => worker # None /\ wsnap' = wsnap)
    BY <1>10 DEF CheckSnapshot, ReleaseReadlock, AttemptFailed, SetLock, Goto
  <2>. QED BY <2>1, BlockSame
<1>11. ASSUME NEW c \in Conn, FinishReadTrans(c) PROVE BlockStep
  <2>1. UNCHANGED <<snap1, snap2, disk>> /\ (worker' # None => worker # None /\ wsnap' = wsnap)
    BY <1>11 DEF FinishReadTrans, ReleaseReadlock, SetLock
  <2>. QED BY <2>1, BlockSame
<1>12. ASSUME NEW c \in Conn, BeginWriteTrans(c) PROVE BlockStep
  <2>1. UNCHANGED <<snap1, snap2, disk>> /\ (worker' # None => worker # None /\ wsnap' = wsnap)
    BY <1>12 DEF BeginWriteTrans, Goto
  <2>. QED BY <2>1, BlockSame
<1>13. ASSUME NEW c \in Conn, Commit(c) PROVE BlockStep
  <2>1. UNCHANGED <<snap1, snap2, disk>> /\ (worker' # None => worker # None /\ wsnap' = wsnap)
    BY <1>13 DEF Commit, Goto
  <2>. QED BY <2>1, BlockSame
<1>14. ASSUME NEW c \in Conn, FinishWriteTrans(c) PROVE BlockStep
  <2>1. UNCHANGED <<snap1, snap2, disk>> /\ (worker' # None => worker # None /\ wsnap' = wsnap)
    BY <1>14 DEF FinishWriteTrans, Goto
  <2>. QED BY <2>1, BlockSame
<1>15. ASSUME NEW c \in Conn, SetReadLock(c) PROVE BlockStep
  <2>1. UNCHANGED <<snap1, snap2, disk>> /\ (worker' # None => worker # None /\ wsnap' = wsnap)
    BY <1>15 DEF SetReadLock, FirstSlot, Goto
  <2>. QED BY <2>1, BlockSame
<1>16. ASSUME NEW c \in Conn, SetReadLockTry(c) PROVE BlockStep
  <2>1. UNCHANGED <<snap1, snap2, disk>> /\ (worker' # None => worker # None /\ wsnap' = wsnap)
    BY <1>16 DEF SetReadLockTry, NextSlot, NoSlot, SetLock, Goto
  <2>. QED BY <2>1, BlockSame
<1>17. ASSUME NEW c \in Conn, SetReadLockSet(c) PROVE BlockStep
  <2>1. UNCHANGED <<snap1, snap2, disk>> /\ (worker' # None => worker # None /\ wsnap' = wsnap)
    BY <1>17 DEF SetReadLockSet, SetSlot, SetLock, NoSlot, Goto
  <2>. QED BY <2>1, BlockSame
<1>18. ASSUME NEW c \in Conn, BeginWork(c) PROVE BlockStep
  <2>1. /\ Newest' = Newest /\ snap1'.snap = Newest /\ wsnap' = Newest /\ disk' = disk
    BY <1>18, Publish, RepairedNewest DEF BeginWork
  <2>2. StaysSafe
    BY <2>1 DEF StaysSafe, Safe, Intact, Kept
  <2>3. Intact(Newest)' /\ Safe(Newest)'
    BY <2>1 DEF DataOK, Safe, Intact, Kept
  <2>. QED BY <2>1, <2>2, <2>3 DEF BlockStep, Intact, Safe, Kept
<1>19. ASSUME NEW c \in Conn, AllocateSynced(c) PROVE BlockStep
  <2>1. UNCHANGED <<snap1, snap2, disk>> /\ (worker' # None => worker # None /\ wsnap' = wsnap)
    BY <1>19 DEF AllocateSynced, Goto
  <2>. QED BY <2>1, BlockSame
<1>20. ASSUME NEW c \in Conn, AllocateInUse(c) PROVE BlockStep
  <2>1. UNCHANGED <<snap1, snap2, disk>> /\ (worker' # None => worker # None /\ wsnap' = wsnap)
    BY <1>20 DEF AllocateInUse, FirstSlot, Goto
  <2>. QED BY <2>1, BlockSame
<1>21. ASSUME NEW c \in Conn, ScanSlot(c) PROVE BlockStep
  <2>1. UNCHANGED <<snap1, snap2, disk>> /\ (worker' # None => worker # None /\ wsnap' = wsnap)
    BY <1>21 DEF ScanSlot, NextSlot, Goto
  <2>. QED BY <2>1, BlockSame
<1>22. ASSUME NEW c \in Conn, ScanSlotLock(c) PROVE BlockStep
  <2>1. UNCHANGED <<snap1, snap2, disk>> /\ (worker' # None => worker # None /\ wsnap' = wsnap)
    BY <1>22 DEF ScanSlotLock, SetLock, NextSlot, Goto
  <2>. QED BY <2>1, BlockSame
<1>23. ASSUME NEW c \in Conn, ScanSlotClear(c) PROVE BlockStep
  <2>1. UNCHANGED <<snap1, snap2, disk>> /\ (worker' # None => worker # None /\ wsnap' = wsnap)
    BY <1>23 DEF ScanSlotClear, SetLock, NextSlot, Goto
  <2>. QED BY <2>1, BlockSame
<1>24. ASSUME NEW c \in Conn, Allocate(c) PROVE BlockStep
  <2>1. PICK b \in Block : /\ IsNextBlock(b)
                            /\ wsnap' = SetBlock(wsnap, b, wsnap.id + 1, -1)
                            /\ disk' = [disk EXCEPT ![b] = wsnap.id + 1]
    BY <1>24 DEF Allocate
  <2>2. /\ worker = c /\ wsnap \in Snapshot /\ wsnap.id + 1 \in Nat /\ -1 \in Int
    BY <1>24, AllocateWsnap
  <2>3. UNCHANGED <<snap1, snap2, worker>> /\ Newest' = Newest
    BY <1>24 DEF Allocate, Newest
  <2>4. ASSUME NEW s \in Snapshot, Safe(s), Spared(s) PROVE Safe(s)'
    <3>1. Kept(s, wsnap) /\ Kept(s, Newest) /\ Intact(s)
      BY <2>2, <2>4 DEF Safe
    <3>2. s.blk[b] = 0
      BY <1>24, <2>1, <2>4, <3>1, NextBlockUnused
    <3>3. Kept(s, wsnap')
      BY <2>1, <2>2, <3>1, <3>2, KeptSetBlock
    <3>4. \A d \in Block : s.blk[d] # 0 => disk'[d] = s.blk[d]
      BY <2>1, <3>1, <3>2 DEF Intact, FileTypeOK
    <3>. QED BY <2>3, <3>1, <3>3, <3>4 DEF Safe, Intact, Kept
  <2>5. Intact(wsnap)'
    <3>1. /\ wsnap'.blk[b] = wsnap.id + 1
          /\ \A d \in Block \ {b} : wsnap'.blk[d] = wsnap.blk[d]
      BY <2>1, <2>2, SetBlockFields
    <3>2. Intact(wsnap)
      BY <2>2 DEF DataOK
    <3>. QED BY <2>1, <3>1, <3>2 DEF Intact, FileTypeOK
  <2>6. Safe(snap1.snap)' /\ Safe(Newest)'
    BY <2>3, <2>4, AllSpared, Snap1Version, NewestType DEF DataOK
  <2>. QED BY <2>4, <2>5, <2>6 DEF BlockStep, StaysSafe
<1>25. ASSUME NEW c \in Conn, BlockFree(c) PROVE BlockStep
  <2>1. PICK b \in Block : wsnap' = SetBlock(wsnap, b, 0, wsnap.id) /\ wsnap.blk[b] # 0
    BY <1>25 DEF BlockFree
  <2>2. /\ worker = c /\ wsnap \in Snapshot /\ wsnap.id \in Nat /\ wsnap.id \in Int
        /\ 0 \in Nat /\ 0 \in Int /\ Newest.id = wsnap.id
    BY <1>25, WorkerCurrent DEF BlockFree, BaseLabels
  <2>3. UNCHANGED <<snap1, snap2, worker, disk>> /\ Newest' = Newest
    BY <1>25 DEF BlockFree, Newest
  <2>4. ASSUME NEW s \in Snapshot, Safe(s), VersionOK(s) PROVE Safe(s)'
    <3>1. Kept(s, wsnap) /\ Kept(s, Newest) /\ Intact(s)
      BY <2>2, <2>4 DEF Safe
    <3>2. wsnap.id >= s.id
      BY <2>2, <2>4 DEF VersionOK, Snapshot
    <3>3. Kept(s, wsnap')
      BY <2>1, <2>2, <3>1, <3>2, KeptSetBlock
    <3>. QED BY <2>3, <3>1, <3>3 DEF Safe, Intact, Kept
  <2>5. Intact(wsnap)'
    <3>1. /\ wsnap'.blk[b] = 0
          /\ \A d \in Block \ {b} : wsnap'.blk[d] = wsnap.blk[d]
      BY <2>1, <2>2, SetBlockFields
    <3>2. Intact(wsnap)
      BY <2>2 DEF DataOK
    <3>. QED BY <2>3, <3>1, <3>2 DEF Intact
  <2>6. Safe(snap1.snap)' /\ Safe(Newest)'
    BY <2>3, <2>4, Snap1Version, NewestVersion, NewestType DEF DataOK
  <2>. QED BY <2>4, <2>5, <2>6 DEF BlockStep, StaysSafe
<1>26. ASSUME NEW c \in Conn, BlockRefree(c) PROVE BlockStep
  <2>1. PICK b \in Block : wsnap' = SetBlock(wsnap, b, 0, 0) /\ wsnap.blk[b] = wsnap.id + 1
    BY <1>26 DEF BlockRefree
  <2>2. /\ worker = c /\ wsnap \in Snapshot /\ wsnap.id \in Nat /\ wsnap.id \in Int
        /\ 0 \in Nat /\ 0 \in Int /\ Newest.id = wsnap.id
    BY <1>26, WorkerCurrent DEF BlockRefree, BaseLabels
  <2>3. UNCHANGED <<snap1, snap2, worker, disk>> /\ Newest' = Newest
    BY <1>26 DEF BlockRefree, Newest
  <2>4. ASSUME NEW s \in Snapshot, Safe(s), VersionOK(s) PROVE Safe(s)'
    <3>1. Kept(s, wsnap) /\ Kept(s, Newest) /\ Intact(s)
      BY <2>2, <2>4 DEF Safe
    <3>2. s.blk[b] = 0
      <4>1. s.blk[b] \in Nat /\ s.id \in Nat /\ wsnap.free[b] \in Int
        BY <2>2 DEF Snapshot
      <4>2. s.blk[b] <= s.id /\ s.id <= wsnap.id
        BY <2>2, <2>4 DEF VersionOK, WellFormed
      <4>3. wsnap.free[b] < 0
        BY <2>1, <2>2 DEF ShmOK, WellFormed
      <4>. QED BY <2>1, <2>2, <3>1, <4>1, <4>2, <4>3 DEF Kept
    <3>3. Kept(s, wsnap')
      BY <2>1, <2>2, <3>1, <3>2, KeptSetBlock
    <3>. QED BY <2>3, <3>1, <3>3 DEF Safe, Intact, Kept
  <2>5. Intact(wsnap)'
    <3>1. /\ wsnap'.blk[b] = 0
          /\ \A d \in Block \ {b} : wsnap'.blk[d] = wsnap.blk[d]
      BY <2>1, <2>2, SetBlockFields
    <3>2. Intact(wsnap)
      BY <2>2 DEF DataOK
    <3>. QED BY <2>3, <3>1, <3>2 DEF Intact
  <2>6. Safe(snap1.snap)' /\ Safe(Newest)'
    BY <2>3, <2>4, Snap1Version, NewestVersion, NewestType DEF DataOK
  <2>. QED BY <2>4, <2>5, <2>6 DEF BlockStep, StaysSafe
<1>27. ASSUME NEW c \in Conn, SaveWorker(c) PROVE BlockStep
  <2>1. /\ Newest' = Newest /\ snap1' = snap1 /\ UNCHANGED <<disk, worker>>
    BY <1>27, Publish DEF SaveWorker
  <2>2. worker = c /\ wsnap'.blk = wsnap.blk /\ wsnap'.free = wsnap.free
    BY <1>27, WsnapType DEF SaveWorker, NextSnapshot, Snapshot, BaseLabels
  <2>3. StaysSafe
    BY <2>1, <2>2 DEF StaysSafe, Safe, Intact, Kept
  <2>4. Intact(wsnap)'
    BY <2>1, <2>2 DEF DataOK, Intact
  <2>5. Safe(snap1.snap)' /\ Safe(Newest)'
    BY <2>1, <2>2 DEF DataOK, Safe, Intact, Kept
  <2>. QED BY <2>3, <2>4, <2>5 DEF BlockStep
<1>28. ASSUME NEW c \in Conn, SaveSnap2(c) PROVE BlockStep
  <2>1. /\ Newest' = wsnap /\ snap1' = snap1 /\ UNCHANGED <<disk, worker, wsnap>>
    BY <1>28, Publish DEF SaveSnap2
  <2>2. worker = c
    BY <1>28, WsnapType DEF SaveSnap2, SaveLabels
  <2>3. StaysSafe
    BY <2>1, <2>2 DEF StaysSafe, Safe, Intact, Kept
  <2>4. Intact(wsnap)' /\ Safe(wsnap)'
    BY <2>1, <2>2 DEF DataOK, Safe, Intact, Kept
  <2>5. Safe(snap1.snap)'
    BY <2>1, <2>2 DEF DataOK, Safe, Intact, Kept
  <2>. QED BY <2>1, <2>3, <2>4, <2>5 DEF BlockStep, Safe, Intact, Kept
<1>29. ASSUME NEW c \in Conn, SaveBarrier(c) PROVE BlockStep
  <2>1. /\ Newest = wsnap /\ Newest' = wsnap /\ UNCHANGED <<disk, worker, wsnap>>
        /\ snap1'.snap = snap1.snap \/ snap1'.snap = wsnap
    BY <1>29, Publish DEF SaveBarrier
  <2>2. worker = c
    BY <1>29, WsnapType DEF SaveBarrier, SaveLabels
  <2>3. StaysSafe
    BY <2>1, <2>2 DEF StaysSafe, Safe, Intact, Kept
  <2>4. Intact(wsnap)' /\ Safe(wsnap)'
    BY <2>1, <2>2 DEF DataOK, Safe, Intact, Kept
  <2>5. Safe(snap1.snap)'
    BY <2>1, <2>2, <2>4 DEF DataOK, Safe, Intact, Kept
  <2>. QED BY <2>1, <2>3, <2>4, <2>5 DEF BlockStep, Safe, Intact, Kept
<1>30. ASSUME NEW c \in Conn, SaveSnap1(c) PROVE BlockStep
  <2>1. /\ Newest = wsnap /\ Newest' = wsnap /\ snap1'.snap = wsnap
        /\ UNCHANGED <<disk, worker, wsnap>>
    BY <1>30, Publish DEF SaveSnap1
  <2>. QED BY <2>1 DEF BlockStep, StaysSafe, DataOK, Safe, Intact, Kept
<1>31. ASSUME NEW c \in Conn, FinishWork(c) PROVE BlockStep
  <2>1. UNCHANGED <<snap1, snap2, disk>> /\ (worker' # None => worker # None /\ wsnap' = wsnap)
    BY <1>31 DEF FinishWork, Resume, Goto
  <2>. QED BY <2>1, BlockSame
<1>32. ASSUME NEW c \in Conn, BeginCheckpoint(c) PROVE BlockStep
  <2>1. UNCHANGED <<snap1, snap2, disk>> /\ (worker' # None => worker # None /\ wsnap' = wsnap)
    BY <1>32 DEF BeginCheckpoint, Goto
  <2>. QED BY <2>1, BlockSame
<1>33. ASSUME NEW c \in Conn, SyncDb(c) PROVE BlockStep
  <2>1. UNCHANGED <<snap1, snap2, disk>> /\ (worker' # None => worker # None /\ wsnap' = wsnap)
    BY <1>33 DEF SyncDb, Goto
  <2>. QED BY <2>1, BlockSame
<1>34. ASSUME NEW c \in Conn, CheckpointStore(c) PROVE BlockStep
  <2>1. UNCHANGED <<snap1, snap2, disk>> /\ (worker' # None => worker # None /\ wsnap' = wsnap)
    BY <1>34 DEF CheckpointStore, Goto
  <2>. QED BY <2>1, BlockSame
<1>35. ASSUME NEW c \in Conn, SyncMeta(c) PROVE BlockStep
  <2>1. UNCHANGED <<snap1, snap2, disk>> /\ (worker' # None => worker # None /\ wsnap' = wsnap)
    BY <1>35 DEF SyncMeta, Goto
  <2>. QED BY <2>1, BlockSame
<1>36. ASSUME NEW c \in Conn, FinishCheckpoint(c) PROVE BlockStep
  <2>1. UNCHANGED <<snap1, snap2, disk>> /\ (worker' # None => worker # None /\ wsnap' = wsnap)
    BY <1>36 DEF FinishCheckpoint, Resume, OtherPage, Goto
  <2>. QED BY <2>1, BlockSame
<1>37. ASSUME NEW c \in Conn, Die(c) PROVE BlockStep
  <2>1. UNCHANGED <<snap1, snap2, disk>> /\ (worker' # None => worker # None /\ wsnap' = wsnap)
    BY <1>37 DEF Die, ZeroSnapshot, EmptySnapshot, Goto
  <2>. QED BY <2>1, BlockSame
<1>. QED
  BY <1>1, <1>2, <1>3, <1>4, <1>5, <1>6, <1>7, <1>8, <1>9, <1>10, <1>11, <1>12, <1>13, <1>14, <1>15, <1>16, <1>17, <1>18, <1>19, <1>20, <1>21, <1>22, <1>23, <1>24, <1>25, <1>26, <1>27, <1>28, <1>29, <1>30, <1>31, <1>32, <1>33, <1>34, <1>35, <1>36, <1>37, <1>39
     DEF Next, ReadStep, LoadStep, WriteStep, SetLockStep, WorkStep, AllocStep, CheckpointStep

LEMMA DataStep ==
  ASSUME TypeOK, RoleOK, SlotOK, ShmOK, CopyOK, ScanOK, DataOK, BlockStep, ReadersStep
  PROVE  DataOK'
<1>1. ASSUME NEW d \in Conn, HoldsReadLock(d)' PROVE Safe(client[d])'
  <2>1. CASE OldReader(d)
    <3>1. /\ client'[d] = client[d] /\ HoldsReadLock(d)
          /\ client[d] \in Snapshot /\ Safe(client[d])
      BY <2>1 DEF OldReader, DataOK, HoldsReadLock, RoleOK
    <3>2. VersionOK(client[d])
      BY <3>1, NoneAssumption DEF CopyOK, CopyOf
    <3>3. Spared(client[d])
      BY <3>1, AllSpared
    <3>4. \A s \in Snapshot : s = client[d] => Safe(s)'
      BY <3>1, <3>2, <3>3 DEF BlockStep, StaysSafe
    <3>. QED BY <3>1, <3>4
  <2>2. CASE NewReader(d)
    <3>1. /\ client'[d] = snap1.snap \/ client'[d] = Newest
          /\ UNCHANGED <<snap1, snap2>>
      BY <2>2, NewReaderCurrent DEF shmVars
    <3>. QED BY <3>1 DEF BlockStep, Newest
  <2>. QED BY <1>1, <2>1, <2>2 DEF ReadersStep
<1>. QED BY <1>1 DEF DataOK, BlockStep

-----------------------------------------------------------------------------
(* The theorems *)

LEMMA InitType == Init => TypeOK
<1>. SUFFICES ASSUME Init PROVE TypeOK
  OBVIOUS
<1>. USE ConnAssumption, BoundAssumption
<1>1. FileTypeOK
  BY DEF Init, FileTypeOK
<1>2. Recovered \in Snapshot /\ RecoveredPage \in 0..2
  BY ZeroType DEF Init, Recovered, RecoveredPage, PageId
<1>3. ShmTypeOK
  BY <1>2 DEF Init, ShmTypeOK, ShmCopy, Snapshot, TreeHdr, SlotValue
<1>4. LockTypeOK /\ WorkTypeOK
  BY DEF Init, LockTypeOK, WorkTypeOK
<1>5. ConnTypeOK
  BY ZeroType DEF Init, ConnTypeOK, TreeHdr, Label
<1>. QED BY <1>1, <1>3, <1>4, <1>5 DEF TypeOK

LEMMA InitRole == Init => RoleOK /\ LockOK
BY ConnAssumption
DEF Init, RoleOK, LockOK, Exclusion, ExclHeld, BaseLabels, ScanLabels, SaveLabels,
    SetLabels, CkptLabels, LoadLabels, ReadLabels

LEMMA RoleSame ==
  ASSUME UNCHANGED vars, TypeOK, RoleOK, LockOK
  PROVE  TypeOK' /\ RoleOK' /\ LockOK'
<1>. USE DEF vars, shmVars, lockVars, connVars, workVars, fileVars
<1>1. TypeOK'
  BY TypeFrame DEF TypeOK
<1>2. RoleOK'
  BY DEF RoleOK
<1>3. LockOK'
  BY DEF LockOK, Exclusion, ExclHeld
<1>. QED BY <1>1, <1>2, <1>3

\* Every variable keeps its type, whatever fails: in particular iMetaPage is
\* 0, 1 or 2 and a slot index in use is the index of a slot.
THEOREM TypeCorrect == Spec => []TypeOK
<1>1. Init => TypeOK /\ RoleOK /\ LockOK
  BY InitType, InitRole
<1>2. TypeOK /\ RoleOK /\ LockOK /\ [Next]_vars => (TypeOK /\ RoleOK /\ LockOK)'
  BY TypeStep, RoleStep, LockStep, RoleSame
<1>. QED BY <1>1, <1>2, PTL DEF Spec

LEMMA InitReader == Init => ReaderInv
<1>. SUFFICES ASSUME Init PROVE ReaderInv
  OBVIOUS
<1>. USE ConnAssumption, BoundAssumption
<1>1. Recovered = EmptySnapshot /\ snap1 = [ok |-> TRUE, snap |-> EmptySnapshot] /\ snap2 = snap1
  BY DEF Init, Recovered, RecoveredPage, PageId
<1>2. /\ EmptySnapshot.id = FirstId
      /\ \A b \in Block : EmptySnapshot.blk[b] = 0 /\ EmptySnapshot.free[b] = -1
  BY DEF EmptySnapshot
<1>3. TypeOK /\ RoleOK /\ LockOK
  BY InitType, InitRole
<1>4. SlotOK /\ ScanOK
  BY DEF Init, SlotOK, SlotOf, ScanOK, ScanOf, HoldsReadLock, ReadLabels, ScanLabels
<1>5. ShmOK
  <2>1. WellFormed(EmptySnapshot, FirstId)
    BY <1>2 DEF WellFormed
  <2>. QED BY <1>1, <1>2, <2>1 DEF Init, ShmOK
<1>6. CopyOK
  BY DEF Init, CopyOK, CopyOf, MetaOf, CkptLabels, ReadLabels
<1>7. DataOK
  BY <1>1, <1>2 DEF Init, DataOK, Safe, Intact, Kept, Newest, HoldsReadLock
<1>8. OrphanFree
  BY <1>1 DEF OrphanFree
<1>. QED BY <1>3, <1>4, <1>5, <1>6, <1>7, <1>8 DEF ReaderInv

LEMMA ReaderStep ==
  ASSUME ReaderInv, Next, ~Crash, NoOrphans
  PROVE  ReaderInv' /\ ReadersStep
<1>1. TypeOK' /\ RoleOK' /\ LockOK'
  BY TypeStep, RoleStep, LockStep DEF ReaderInv
<1>2. SlotOK' /\ ShmOK' /\ OrphanFree' /\ CopyOK' /\ ReadersStep
  BY <1>1, SlotStep, ShmStep, OrphanStep, CopyStep, HoldsStep DEF ReaderInv
<1>3. ScanOK' /\ DataOK'
  BY <1>1, <1>2, ScanStep, BlocksStep, DataStep DEF ReaderInv
<1>. QED BY <1>1, <1>2, <1>3 DEF ReaderInv

LEMMA ReaderSame ==
  ASSUME ReaderInv, UNCHANGED vars
  PROVE  ReaderInv'
<1>1. TypeOK' /\ RoleOK' /\ LockOK'
  BY RoleSame DEF ReaderInv
<1>. USE DEF vars, shmVars, lockVars, connVars, workVars, fileVars
<1>2. SlotOK' /\ ScanOK'
  BY DEF ReaderInv, SlotOK, SlotOf, ScanOK, ScanOf, HoldsReadLock
<1>3. ShmOK'
  BY DEF ReaderInv, ShmOK, WellFormed
<1>4. CopyOK' /\ OrphanFree'
  BY DEF ReaderInv, OrphanFree, CopyOK, CopyOf, MetaOf, VersionOK, WellFormed, Newest
<1>5. DataOK'
  BY DEF ReaderInv, DataOK, Safe, Intact, Kept, Newest, HoldsReadLock
<1>. QED BY <1>1, <1>2, <1>3, <1>4, <1>5 DEF ReaderInv

LEMMA ReaderInvariant ==
  ASSUME ~MachineFails, ~OrphanDeaths
  PROVE  Spec => []ReaderInv
<1>1. Init => ReaderInv
  BY InitReader
<1>2. NoOrphans
  BY DEF NoOrphans, Die
<1>3. ReaderInv /\ [Next]_vars => ReaderInv'
  BY <1>2, ReaderStep, ReaderSame DEF Crash
<1>. QED BY <1>1, <1>3, PTL DEF Spec

\* For any number of connections, slots and blocks: while processes may die, but
\* not between the two copies of lsmCheckpointSaveWorker(), and the machine does
\* not fail, lsmBlockAllocate() never hands out a block of a snapshot whose reader
\* still holds its slot lock, whatever happens between the two unlocked reads of
\* lsmCheckpointLoad().
THEOREM LockedReaderSafe ==
  ASSUME ~MachineFails, ~OrphanDeaths
  PROVE  Spec => []LockedReaderIntact
<1>1. ReaderInv => LockedReaderIntact
  BY DEF ReaderInv, DataOK, Safe, LockedReaderIntact
<1>. QED BY <1>1, ReaderInvariant, PTL

\* What the worker's side needs, wherever workers die.
WorkerInv == TypeOK /\ RoleOK /\ LockOK /\ ShmOK

LEMMA WorkerInvariant ==
  ASSUME ~MachineFails
  PROVE  Spec => []WorkerInv
<1>1. Init => WorkerInv
  BY InitReader DEF ReaderInv, WorkerInv
<1>2. WorkerInv /\ Next => WorkerInv'
  BY TypeStep, RoleStep, LockStep, ShmStep DEF WorkerInv, Crash
<1>3. WorkerInv /\ UNCHANGED vars => WorkerInv'
  BY RoleSame DEF WorkerInv, ShmOK, WellFormed, vars, shmVars, lockVars, connVars, workVars
<1>. QED BY <1>1, <1>2, <1>3, PTL DEF Spec

\* What lsmCheckpointLoadWorker() makes of the two copies, and every worker goes
\* on from, never goes back to an older snapshot and never changes under one id,
\* however many workers die at whatever point of lsmCheckpointSaveWorker().
THEOREM PublishedOnlyGrows ==
  ASSUME ~MachineFails
  PROVE  Spec => PublishedMonotone
<1>1. ASSUME WorkerInv, [Next]_vars
      PROVE  Repaired' = Repaired \/ Repaired'.id > Repaired.id \/ Crash
  <2>1. CASE UNCHANGED <<snap1, snap2>>
    BY <2>1 DEF Repaired
  <2>2. ASSUME NEW c \in Conn, \/ BeginWork(c) \/ SaveWorker(c) \/ SaveSnap2(c)
                               \/ SaveBarrier(c) \/ SaveSnap1(c)
        PROVE  Repaired' = Repaired \/ Repaired'.id > Repaired.id
    <3>1. snap1.snap.id \in Nat
      BY <1>1 DEF WorkerInv, TypeOK, ShmTypeOK, ShmCopy, Snapshot
    <3>. QED BY <1>1, <2>2, <3>1, Publish DEF WorkerInv
  <2>3. ~Crash
    BY DEF Crash
  <2>. QED BY <1>1, <2>1, <2>2, <2>3, ShmUntouched DEF vars, shmVars
<1>2. WorkerInv /\ [Next]_vars =>
        [Repaired' = Repaired \/ Repaired'.id > Repaired.id \/ Crash]_vars
  BY <1>1
<1>. QED BY <1>2, WorkerInvariant, PTL DEF Spec, PublishedMonotone

\* Only a successful lsmBeginReadTrans() opens a read transaction with a lock.
Starts(c) == ~inTrans[c] /\ inTrans'[c] /\ iReader'[c] # 0

LEMMA StartStep ==
  ASSUME TypeOK, RoleOK, Next, ~Crash, NEW d \in Conn, Starts(d)
  PROVE  NewReader(d)
<1>. USE DEF Starts, TypeOK, ConnTypeOK, connVars
<1>1. ASSUME NEW c \in Conn, CheckSnapshot(c) PROVE NewReader(d)
  <2>1. ~LoadOk(c) => iReader'[c] = 0
    BY <1>1 DEF CheckSnapshot, ReleaseReadlock
  <2>2. d = c
    BY <1>1 DEF CheckSnapshot, AttemptFailed
  <2>. QED BY <1>1, <2>1, <2>2 DEF NewReader
<1>2. ASSUME NEW c \in Conn, CheckHeader(c) PROVE FALSE
  BY <1>2 DEF CheckHeader, ReleaseReadlock, AttemptFailed
<1>3. ASSUME NEW c \in Conn, UsableSlot(c) PROVE FALSE
  BY <1>3 DEF UsableSlot, FindSlot, AttemptFailed, RoleOK
<1>4. ASSUME NEW c \in Conn,
             \/ LoadHeader(c) \/ LoadSnapshot(c) \/ LoadFirst(c) \/ LoadSecond(c)
             \/ LoadGivesUp(c) \/ ExactSlot(c) \/ ExactSlotLock(c)
             \/ ExclSlot(c) \/ ExclSlotSet(c) \/ UsableSlotLock(c) \/ FinishReadTrans(c)
      PROVE  FALSE
  BY <1>4
  DEF LoadHeader, LoadSnapshot, LoadFirst, LoadSecond, LoadCopy, LoadGivesUp, ExactSlot, ExactSlotLock, ExclSlot, ExclSlotSet,
      UsableSlotLock, FindSlot, ShareSlot, FinishReadTrans
<1>5. ASSUME NEW c \in Conn, WriteStep(c) \/ SetLockStep(c) PROVE FALSE
  BY <1>5
  DEF WriteStep, BeginWriteTrans, Commit, FinishWriteTrans,
      SetLockStep, SetReadLock, SetReadLockTry, SetReadLockSet
<1>6. ASSUME NEW c \in Conn, WorkStep(c) PROVE FALSE
  BY <1>6
  DEF WorkStep, BeginWork, AllocStep, AllocateSynced, AllocateInUse, ScanSlot,
      ScanSlotLock, ScanSlotClear, Allocate, BlockFree, BlockRefree, SaveWorker,
      SaveSnap2, SaveBarrier, SaveSnap1, FinishWork
<1>7. ASSUME NEW c \in Conn, CheckpointStep(c) \/ Die(c) PROVE FALSE
  BY <1>7
  DEF CheckpointStep, BeginCheckpoint, SyncDb, CheckpointStore, SyncMeta,
      FinishCheckpoint, Die
<1>. QED BY <1>1, <1>2, <1>3, <1>4, <1>5, <1>6, <1>7 DEF Next, ReadStep

\* A read transaction that starts with a lock starts on what is in shared memory
\* at that moment, unless a worker died between the two copies: neither
\* lsmCheckpointClientCacheOk(), nor a copy taken at any earlier moment of
\* lsmCheckpointLoad(), lets another snapshot of that id through.
THEOREM ReadsStartCurrent ==
  ASSUME ~MachineFails, ~OrphanDeaths
  PROVE  Spec => ReadsCurrentSnapshot
<1>1. ASSUME ReaderInv, [Next]_vars, NEW c \in Conn, Starts(c)
      PROVE  client'[c] \in {snap1.snap, snap2.snap}
  <2>1. Next /\ ~Crash
    BY <1>1 DEF Crash, Starts, vars, connVars
  <2>2. NewReader(c)
    BY <1>1, <2>1, StartStep DEF ReaderInv
  <2>. QED BY <1>1, <2>2, NewReaderCurrent DEF ReaderInv, Newest
<1>2. ReaderInv /\ [Next]_vars =>
        [\A c \in Conn : ~inTrans[c] /\ inTrans'[c] /\ iReader'[c] # 0
                           => client'[c] \in {snap1.snap, snap2.snap}]_vars
  BY <1>1 DEF Starts
<1>. QED BY <1>2, ReaderInvariant, PTL DEF Spec, ReadsCurrentSnapshot

=============================================================================
