---------------------------- MODULE LsmSnapshot ----------------------------
(***************************************************************************)
(* Snapshots, read-locks, database blocks and checkpoints of the LSM       *)
(* engine (LSMoVe/src/lsm_shared.c and lsm_ckpt.c).                        *)
(*                                                                         *)
(* A snapshot describes the database file: the blocks it uses and the      *)
(* blocks it has free.  The current snapshot lives in shared memory, in    *)
(* two copies; at most one worker at a time builds the next one; at most   *)
(* one checkpointer at a time copies the current one to the meta page that *)
(* does not hold the last checkpoint.  A reader protects its snapshot by a *)
(* shared lock on one of NReader slots, and the worker recycles a free     *)
(* block only when neither a slot nor the last checkpoint needs it.        *)
(*                                                                         *)
(* Every lsmShmLock() call, every read of a slot outside its lock, every   *)
(* copy into shared memory and every fsync() is a step of its own.         *)
(* A connection is one thread, so it has one program counter.              *)
(***************************************************************************)
EXTENDS Integers, FiniteSets

CONSTANTS
  Conn,            \* database connections (lsm_db handles)
  Readers,         \* those that open read transactions
  Writers,         \* those that run write transactions
  Workers,         \* those that call lsm_work() or do automatic work
  Checkpointers,   \* those that call lsm_checkpoint() or do it automatically
  Mortal,          \* those whose process may die on its own
  OrphanDeaths,    \* whether a worker may die between the two copies
  MachineFails,    \* whether the machine may crash
  None,            \* no connection, or no snapshot
  NReader,         \* LSM_LOCK_NREADER
  MaxAttempt,      \* MAX_READLOCK_ATTEMPTS
  FirstId,         \* id of the empty snapshot
  MaxId,           \* bound: largest snapshot id
  MaxBlock,        \* bound: largest database file, in blocks
  MaxTrans         \* bound: committed write transactions

ASSUME ConnAssumption ==
  /\ Readers \subseteq Conn
  /\ Writers \subseteq Readers
  /\ Workers \subseteq Conn
  /\ Checkpointers \subseteq Conn
  /\ Mortal \subseteq Conn
  /\ None \notin Conn
  /\ OrphanDeaths \in BOOLEAN
  /\ MachineFails \in BOOLEAN

ASSUME BoundAssumption ==
  /\ NReader \in Nat \ {0}
  /\ MaxAttempt \in Nat \ {0}
  /\ FirstId \in Nat \ {0}
  /\ MaxId \in Nat /\ MaxId >= FirstId
  /\ MaxBlock \in Nat
  /\ MaxTrans \in Nat

Slot  == 1..NReader
Block == 1..MaxBlock

\* A snapshot: blk[b] is 0 for a block it does not use, otherwise the id of
\* the snapshot that block b was written for; free[b] is the id recorded by
\* the free-list entry of b, -1 when there is none.
Snapshot ==
  [id: Nat, nBlock: 0..MaxBlock, blk: [Block -> Nat], free: [Block -> Int]]

ASSUME NoneAssumption == None \notin Snapshot

\* ckptLoadEmpty(): the snapshot of a database without a checkpoint.
EmptySnapshot ==
  [id |-> FirstId, nBlock |-> 0,
   blk |-> [b \in Block |-> 0], free |-> [b \in Block |-> -1]]

\* lsm_db.aSnapshot[] before anything was loaded into it.
ZeroSnapshot == [EmptySnapshot EXCEPT !.id = 0]

\* What ckptChecksumOk() is asked about: a copy of a snapshot and whether it
\* is complete.  The header of an incomplete copy is the old or the new one.
ShmCopy == [ok: BOOLEAN, snap: Snapshot]

\* The places a connection can be at.
Label ==
  {"idle", "loadhdr", "loadsnap", "load1", "load2", "exact", "exactlock", "excl", "exclset",
   "usable", "usablelock", "checkhdr", "checksnap",
   "setlock", "setexcl", "setslot", "locksset", "write", "autowork",
   "work", "synced", "scan", "scanlock", "scanzero",
   "save2", "barrier", "save1",
   "syncdb", "store", "syncmeta", "setmeta"}

TreeHdr == [trans: Nat, used: Nat]
SlotValue == [id: Nat, tree: Nat]

VARIABLES
  snap1, snap2,    \* ShmHeader.aSnap1, aSnap2
  shmhdr,          \* ShmHeader.hdr1: the in-memory tree version
  slot,            \* ShmHeader.aReader
  iMetaPage,       \* ShmHeader.iMetaPage
  rlock,           \* the READER locks, by slot and connection
  worker,          \* holder of the WORKER lock
  writer,          \* holder of the WRITER lock
  ckptr,           \* holder of the CHECKPOINTER lock
  pc,              \* where each connection is
  inTrans,         \* the connection has a read transaction open
  iReader,         \* lsm_db.iReader, 0 for none
  client,          \* lsm_db.pClient
  buf,             \* lsm_db.aSnapshot
  hdr,             \* lsm_db.treehdr
  idx,             \* the slot a loop over the slots is at
  att,             \* attempts made by lsmBeginReadTrans()
  iSnap,           \* which copy lsmCheckpointLoad() read
  wsnap,           \* lsm_db.pWorker of the worker
  inUse,           \* lsmBlockAllocate(): smallest snapshot id in use
  iThis,           \* firstSnapshotInUse(): the slot's id before it is locked
  wMeta,           \* lsmCheckpointSynced(): iMetaPage when it was read
  meta,            \* the two meta pages of the file; None is a bad checksum
  disk,            \* the snapshot id each block of the file was written for
  synced           \* blocks whose content is on stable storage

shmVars  == <<snap1, snap2, shmhdr, slot, iMetaPage>>
lockVars == <<rlock, worker, writer, ckptr>>
connVars == <<pc, inTrans, iReader, client, buf, hdr, idx, att, iSnap>>
workVars == <<wsnap, inUse, iThis, wMeta>>
fileVars == <<meta, disk, synced>>
vars == <<shmVars, lockVars, connVars, workVars, fileVars>>

-----------------------------------------------------------------------------
(* Locks: lsmShmLock() looks only at the locks of the other connections. *)

CanShare(c, i) == \A d \in Conn \ {c} : rlock[i][d] # "excl"
CanExclIfNoExcl(c, i) == \A d \in Conn \ {c} : rlock[i][d] # "excl"
CanExcl(c, i)  == \A d \in Conn \ {c} : rlock[i][d] = "unlock"

SetLock(c, i, mode) == rlock' = [rlock EXCEPT ![i][c] = mode]

Goto(c, label) == pc' = [pc EXCEPT ![c] = label]
NextSlot(c)    == idx' = [idx EXCEPT ![c] = @ + 1]
FirstSlot(c)   == idx' = [idx EXCEPT ![c] = 1]
NoSlot(c)      == idx' = [idx EXCEPT ![c] = 0]

\* Where a connection goes on after work or a checkpoint: automatic work runs
\* inside lsmFinishWriteTrans(), with the WRITER lock held.
Resume(c) == IF writer = c THEN "autowork" ELSE "idle"

-----------------------------------------------------------------------------
(* lsmBeginReadTrans() and lsmFinishReadTrans() *)

\* lsmCheckpointClientCacheOk()
ClientCacheOk(c) ==
  /\ client[c] # None
  /\ client[c].id = buf[c].id
  /\ client[c].id = snap1.snap.id
  /\ client[c].id = snap2.snap.id

\* lsmCheckpointLoadOk()
LoadOkUnchecked(c) == TRUE
LoadOk(c) == buf[c].id = (IF iSnap[c] = 1 THEN snap1 ELSE snap2).snap.id

\* An attempt failed.  After the last one the call returns LSM_OK, without a
\* lock, when a client snapshot is cached, and LSM_BUSY otherwise.
AttemptFailedUnbounded(c) ==
  Goto(c, "loadhdr") /\ att' = [att EXCEPT ![c] = 0] /\ UNCHANGED inTrans
AttemptFailed(c) ==
  IF att[c] < MaxAttempt
  THEN Goto(c, "loadhdr") /\ UNCHANGED <<att, inTrans>>
  ELSE /\ Goto(c, "idle")
       /\ att' = [att EXCEPT ![c] = 0]
       /\ inTrans' = [inTrans EXCEPT ![c] = client[c] # None]

\* The start of an attempt: load the tree header.
LoadHeader(c) ==
  /\ \/ pc[c] = "idle" /\ ~inTrans[c] /\ c \in Readers
     \/ pc[c] = "loadhdr"
  /\ hdr' = [hdr EXCEPT ![c] = shmhdr]
  /\ att' = [att EXCEPT ![c] = @ + 1]
  /\ Goto(c, "loadsnap")
  /\ UNCHANGED <<inTrans, iReader, client, buf, idx, iSnap>>
  /\ UNCHANGED <<shmVars, lockVars, workVars, fileVars>>

\* ... then the snapshot, unless the cached one is the current one.
LoadSnapshot(c) ==
  /\ pc[c] = "loadsnap"
  /\ IF ClientCacheOk(c)
     THEN /\ iSnap' = [iSnap EXCEPT ![c] = 1]
          /\ FirstSlot(c)
          /\ Goto(c, "exact")
          /\ UNCHANGED client
     ELSE /\ client' = [client EXCEPT ![c] = None]
          /\ Goto(c, "load1")
          /\ UNCHANGED <<idx, iSnap>>
  /\ UNCHANGED <<inTrans, iReader, buf, hdr, att>>
  /\ UNCHANGED <<shmVars, lockVars, workVars, fileVars>>

\* The file already holds the snapshot loaded for a checkpoint.
CheckpointDone(s) == iMetaPage # 0 /\ meta[iMetaPage].id >= s.id

\* The caller of lsmCheckpointLoad(), with snapshot s from copy n: the
\* checkpointer, which leaves when there is nothing to do, or a reader.
AfterLoad(c, s, n) ==
  IF ckptr = c
  THEN /\ IF CheckpointDone(s)
          THEN ckptr' = None /\ Goto(c, Resume(c))
          ELSE Goto(c, "syncdb") /\ UNCHANGED ckptr
       /\ UNCHANGED <<idx, iSnap>>
  ELSE /\ iSnap' = [iSnap EXCEPT ![c] = n]
       /\ FirstSlot(c)
       /\ Goto(c, "exact")
       /\ UNCHANGED ckptr

\* lsmCheckpointLoad() holds no lock that keeps a worker away: it copies one
\* of the two copies and checks its checksum, and only later the other one.
LoadCopy(c, here, copy, n, retry) ==
  /\ pc[c] = here
  /\ buf' = [buf EXCEPT ![c] = copy.snap]
  /\ IF copy.ok
     THEN AfterLoad(c, copy.snap, n)
     ELSE Goto(c, retry) /\ UNCHANGED <<idx, iSnap, ckptr>>
  /\ UNCHANGED <<inTrans, iReader, client, hdr, att>>
  /\ UNCHANGED <<rlock, worker, writer, shmVars, workVars, fileVars>>

LoadFirst(c)  == LoadCopy(c, "load1", snap1, 1, "load2")
LoadSecond(c) == LoadCopy(c, "load2", snap2, 2, "load1")

\* LSM_PROTOCOL after LSM_ATTEMPTS_BEFORE_PROTOCOL rounds, which are not
\* counted: neither a transaction nor a checkpoint begins.
LoadGivesUp(c) ==
  /\ pc[c] = "load2"
  /\ ~snap2.ok
  /\ buf' = [buf EXCEPT ![c] = snap2.snap]
  /\ IF ckptr = c
     THEN ckptr' = None /\ Goto(c, Resume(c)) /\ UNCHANGED att
     ELSE att' = [att EXCEPT ![c] = 0] /\ Goto(c, "idle") /\ UNCHANGED ckptr
  /\ UNCHANGED <<inTrans, iReader, client, hdr, idx, iSnap>>
  /\ UNCHANGED <<rlock, worker, writer, shmVars, workVars, fileVars>>

\* The lock values a slot must have to match exactly.
WantedSlot(c) == [id |-> buf[c].id, tree |-> hdr[c].used]

ExactMatch(c) == slot[idx[c]] = WantedSlot(c)

\* slotIsUsable(), the shared-memory sequence wrapping apart.
SlotIsUsable(c) ==
  /\ slot[idx[c]].id # 0
  /\ slot[idx[c]].id <= buf[c].id
  /\ slot[idx[c]].tree <= hdr[c].used

\* The first and the third loop of lsmReadlock(): look for a slot, ...
FindSlot(c, here, there, after, match) ==
  /\ pc[c] = here
  /\ IF idx[c] \notin Slot
     THEN IF after = "busy"
          THEN NoSlot(c) /\ AttemptFailed(c)
          ELSE FirstSlot(c) /\ Goto(c, after) /\ UNCHANGED <<att, inTrans>>
     ELSE /\ IF match
             THEN Goto(c, there) /\ UNCHANGED idx
             ELSE NextSlot(c) /\ UNCHANGED pc
          /\ UNCHANGED <<att, inTrans>>
  /\ UNCHANGED <<iReader, client, buf, hdr, iSnap>>
  /\ UNCHANGED <<shmVars, lockVars, workVars, fileVars>>

\* ... lock it, and keep it if it still matches.  When it does not, the loop
\* goes on and the lock just taken stays.
ShareSlot(c, here, back, match) ==
  /\ pc[c] = here
  /\ IF CanShare(c, idx[c])
     THEN /\ SetLock(c, idx[c], "shared")
          /\ IF match
             THEN /\ iReader' = [iReader EXCEPT ![c] = idx[c]]
                  /\ NoSlot(c)
                  /\ Goto(c, "checkhdr")
             ELSE NextSlot(c) /\ Goto(c, back) /\ UNCHANGED iReader
     ELSE NextSlot(c) /\ Goto(c, back) /\ UNCHANGED <<rlock, iReader>>
  /\ UNCHANGED <<inTrans, client, buf, hdr, att, iSnap>>
  /\ UNCHANGED <<worker, writer, ckptr, shmVars, workVars, fileVars>>

ExactSlot(c)      == FindSlot(c, "exact", "exactlock", "excl", ExactMatch(c))
ExactSlotLock(c)  == ShareSlot(c, "exactlock", "exact", ExactMatch(c))
UsableSlot(c)     == FindSlot(c, "usable", "usablelock", "busy", SlotIsUsable(c))
UsableSlotLock(c) == ShareSlot(c, "usablelock", "usable", SlotIsUsable(c))

\* The second loop of lsmReadlock(): take a slot nobody else holds, ...
ExclSlot(c) ==
  /\ pc[c] = "excl"
  /\ IF idx[c] \notin Slot
     THEN FirstSlot(c) /\ Goto(c, "usable") /\ UNCHANGED rlock
     ELSE IF CanExcl(c, idx[c])
          THEN SetLock(c, idx[c], "excl") /\ Goto(c, "exclset") /\ UNCHANGED idx
          ELSE NextSlot(c) /\ UNCHANGED <<pc, rlock>>
  /\ UNCHANGED <<inTrans, iReader, client, buf, hdr, att, iSnap>>
  /\ UNCHANGED <<worker, writer, ckptr, shmVars, workVars, fileVars>>

\* ... write the wanted values into it and keep a shared lock.
ExclSlotSet(c) ==
  /\ pc[c] = "exclset"
  /\ slot' = [slot EXCEPT ![idx[c]] = WantedSlot(c)]
  /\ SetLock(c, idx[c], "shared")
  /\ iReader' = [iReader EXCEPT ![c] = idx[c]]
  /\ NoSlot(c)
  /\ Goto(c, "checkhdr")
  /\ UNCHANGED <<inTrans, client, buf, hdr, att, iSnap>>
  /\ UNCHANGED <<snap1, snap2, shmhdr, iMetaPage, worker, writer, ckptr>>
  /\ UNCHANGED <<workVars, fileVars>>

\* dbReleaseReadlock()
ReleaseReadlock(c) ==
  /\ SetLock(c, iReader[c], "unlock")
  /\ iReader' = [iReader EXCEPT ![c] = 0]

\* lsmTreeLoadHeaderOk(): the tree header is still the one loaded.
CheckHeader(c) ==
  /\ pc[c] = "checkhdr"
  /\ IF hdr[c] = shmhdr
     THEN Goto(c, "checksnap") /\ UNCHANGED <<rlock, iReader, att, inTrans>>
     ELSE ReleaseReadlock(c) /\ AttemptFailed(c)
  /\ UNCHANGED <<client, buf, hdr, idx, iSnap>>
  /\ UNCHANGED <<worker, writer, ckptr, shmVars, workVars, fileVars>>

\* lsmCheckpointLoadOk(): so is the snapshot, which is now protected.
CheckSnapshot(c) ==
  /\ pc[c] = "checksnap"
  /\ IF LoadOk(c)
     THEN /\ client' = [client EXCEPT ![c] = IF @ = None THEN buf[c] ELSE @]
          /\ inTrans' = [inTrans EXCEPT ![c] = TRUE]
          /\ att' = [att EXCEPT ![c] = 0]
          /\ Goto(c, "idle")
          /\ UNCHANGED <<rlock, iReader>>
     ELSE ReleaseReadlock(c) /\ AttemptFailed(c) /\ UNCHANGED client
  /\ UNCHANGED <<buf, hdr, idx, iSnap>>
  /\ UNCHANGED <<worker, writer, ckptr, shmVars, workVars, fileVars>>

\* lsmFinishReadTrans(); the client snapshot stays cached.
FinishReadTrans(c) ==
  /\ pc[c] = "idle" /\ inTrans[c]
  /\ inTrans' = [inTrans EXCEPT ![c] = FALSE]
  /\ IF iReader[c] # 0 THEN ReleaseReadlock(c) ELSE UNCHANGED <<rlock, iReader>>
  /\ UNCHANGED <<pc, client, buf, hdr, idx, att, iSnap>>
  /\ UNCHANGED <<worker, writer, ckptr, shmVars, workVars, fileVars>>

-----------------------------------------------------------------------------
(* dbSetReadLock(): make sure some slot holds the new values.  Called by    *)
(* lsmFinishWork() and, after the old tree was dropped, by                  *)
(* lsmFinishWriteTrans().                                                   *)

SetSlot(c, h) ==
  [id |-> IF worker = c THEN wsnap.id ELSE client[c].id, tree |-> h.used]

\* lsmFinishWork() first reloads the tree header if it holds no read-lock.
SetReadLock(c) ==
  /\ pc[c] = "setlock"
  /\ LET h == IF worker = c /\ iReader[c] = 0 THEN shmhdr ELSE hdr[c]
     IN  /\ hdr' = [hdr EXCEPT ![c] = h]
         /\ IF \E i \in Slot : slot[i] = SetSlot(c, h)
            THEN Goto(c, "locksset") /\ UNCHANGED idx
            ELSE Goto(c, "setexcl") /\ FirstSlot(c)
  /\ UNCHANGED <<inTrans, iReader, client, buf, att, iSnap>>
  /\ UNCHANGED <<shmVars, lockVars, workVars, fileVars>>

SetReadLockTry(c) ==
  /\ pc[c] = "setexcl"
  /\ IF idx[c] \notin Slot
     THEN Goto(c, "locksset") /\ NoSlot(c) /\ UNCHANGED rlock
     ELSE IF CanExcl(c, idx[c])
          THEN SetLock(c, idx[c], "excl") /\ Goto(c, "setslot") /\ UNCHANGED idx
          ELSE NextSlot(c) /\ UNCHANGED <<pc, rlock>>
  /\ UNCHANGED <<inTrans, iReader, client, buf, hdr, att, iSnap>>
  /\ UNCHANGED <<worker, writer, ckptr, shmVars, workVars, fileVars>>

\* The unlock also drops a shared lock the connection had on this slot.
SetReadLockSet(c) ==
  /\ pc[c] = "setslot"
  /\ slot' = [slot EXCEPT ![idx[c]] = SetSlot(c, hdr[c])]
  /\ SetLock(c, idx[c], "unlock")
  /\ NoSlot(c)
  /\ Goto(c, "locksset")
  /\ UNCHANGED <<inTrans, iReader, client, buf, hdr, att, iSnap>>
  /\ UNCHANGED <<snap1, snap2, shmhdr, iMetaPage, worker, writer, ckptr>>
  /\ UNCHANGED <<workVars, fileVars>>

-----------------------------------------------------------------------------
(* Write transactions, as far as they change what readers check: the tree   *)
(* header.  (The tree and the log are other modules.)                       *)

\* lsmBeginWriteTrans(): LSM_BUSY unless the reader has the newest header.
BeginWriteTrans(c) ==
  /\ c \in Writers
  /\ pc[c] = "idle" /\ inTrans[c]
  /\ writer = None
  /\ hdr[c] = shmhdr
  /\ writer' = c
  /\ Goto(c, "write")
  /\ UNCHANGED <<inTrans, iReader, client, buf, hdr, idx, att, iSnap>>
  /\ UNCHANGED <<rlock, worker, ckptr, shmVars, workVars, fileVars>>

\* lsm_commit() up to lsmTreeEndTransaction().  used grows when the
\* transaction dropped the old tree; then a slot is set, unless the tree is
\* flushed, which is automatic work.
Commit(c) ==
  /\ pc[c] = "write"
  /\ shmhdr.trans < MaxTrans
  /\ \E flush, discard \in BOOLEAN :
       LET h == [trans |-> shmhdr.trans + 1,
                 used |-> shmhdr.used + IF discard THEN 1 ELSE 0]
       IN  /\ shmhdr' = h
           /\ hdr' = [hdr EXCEPT ![c] = h]
           /\ Goto(c, IF ~flush /\ discard THEN "setlock" ELSE "autowork")
  /\ UNCHANGED <<inTrans, iReader, client, buf, idx, att, iSnap>>
  /\ UNCHANGED <<snap1, snap2, slot, iMetaPage, lockVars, workVars, fileVars>>

\* lsmFinishWriteTrans() releases the WRITER lock, after a commit with all its
\* work done or after a rollback.  The read transaction stays open.
FinishWriteTrans(c) ==
  /\ pc[c] \in {"write", "autowork"}
  /\ writer' = None
  /\ Goto(c, "idle")
  /\ UNCHANGED <<inTrans, iReader, client, buf, hdr, idx, att, iSnap>>
  /\ UNCHANGED <<rlock, worker, ckptr, shmVars, workVars, fileVars>>

-----------------------------------------------------------------------------
(* The worker: lsmBeginWork() to lsmFinishWork() *)

\* lsmCheckpointLoadWorker(): what the copies a dead worker left are repaired to.
Repaired == IF snap1.ok THEN snap1.snap ELSE snap2.snap

\* lsmBeginWork(): take the WORKER lock and load the repaired snapshot.
\* lsm_work() refuses a connection with an open transaction.
BeginWork(c) ==
  /\ c \in Workers
  /\ \/ pc[c] = "idle" /\ ~inTrans[c]
     \/ pc[c] = "autowork"
  /\ worker = None
  /\ snap1.ok \/ snap2.ok
  /\ worker' = c
  /\ wsnap' = Repaired
  /\ snap1' = [ok |-> TRUE, snap |-> Repaired]
  /\ snap2' = [ok |-> TRUE, snap |-> Repaired]
  /\ Goto(c, "work")
  /\ UNCHANGED <<inTrans, iReader, client, buf, hdr, idx, att, iSnap>>
  /\ UNCHANGED <<shmhdr, slot, iMetaPage, rlock, writer, ckptr>>
  /\ UNCHANGED <<inUse, iThis, wMeta, fileVars>>

\* lsmBlockAllocate(), 1: lsmCheckpointSynced() reads iMetaPage and the id of
\* the checkpoint on that page, ...
AllocateSynced(c) ==
  /\ pc[c] = "work"
  /\ wMeta' = iMetaPage
  /\ inUse' = IF iMetaPage = 0 \/ meta[iMetaPage] = None
              THEN 0 ELSE meta[iMetaPage].id
  /\ Goto(c, "synced")
  /\ UNCHANGED <<inTrans, iReader, client, buf, hdr, idx, att, iSnap>>
  /\ UNCHANGED <<wsnap, iThis, shmVars, lockVars, fileVars>>

\* ... and returns 0 if iMetaPage has changed since.  Without a checkpoint the
\* worker's own id is used; the worker's own snapshot counts as well.
AllocateInUse(c) ==
  /\ pc[c] = "synced"
  /\ LET iSynced == IF iMetaPage = wMeta THEN inUse ELSE 0
         iBase   == IF iSynced = 0 THEN wsnap.id ELSE iSynced
     IN  inUse' = IF iReader[c] # 0 /\ client[c].id < iBase
                  THEN client[c].id ELSE iBase
  /\ wMeta' = 0
  /\ FirstSlot(c)
  /\ Goto(c, "scan")
  /\ UNCHANGED <<inTrans, iReader, client, buf, hdr, att, iSnap>>
  /\ UNCHANGED <<wsnap, iThis, shmVars, lockVars, fileVars>>

\* lsmBlockAllocate(), 2: firstSnapshotInUse() reads a slot, ...
ScanSlot(c) ==
  /\ pc[c] = "scan"
  /\ idx[c] \in Slot
  /\ LET v == slot[idx[c]].id
     IN  IF v # 0 /\ inUse > v
         THEN iThis' = v /\ Goto(c, "scanlock") /\ UNCHANGED idx
         ELSE NextSlot(c) /\ UNCHANGED <<iThis, pc>>
  /\ UNCHANGED <<inTrans, iReader, client, buf, hdr, att, iSnap>>
  /\ UNCHANGED <<wsnap, inUse, wMeta, shmVars, lockVars, fileVars>>

\* ... tries to lock it, ...
ScanSlotLock(c) ==
  /\ pc[c] = "scanlock"
  /\ IF CanExcl(c, idx[c])
     THEN /\ SetLock(c, idx[c], "excl")
          /\ Goto(c, "scanzero")
          /\ UNCHANGED <<inUse, idx>>
     ELSE /\ inUse' = iThis
          /\ NextSlot(c)
          /\ Goto(c, "scan")
          /\ UNCHANGED rlock
  /\ iThis' = 0
  /\ UNCHANGED <<inTrans, iReader, client, buf, hdr, att, iSnap>>
  /\ UNCHANGED <<wsnap, wMeta, worker, writer, ckptr, shmVars, fileVars>>

\* ... and clears it when nobody else holds it.
ScanSlotClear(c) ==
  /\ pc[c] = "scanzero"
  /\ slot' = [slot EXCEPT ![idx[c]].id = 0]
  /\ SetLock(c, idx[c], "unlock")
  /\ NextSlot(c)
  /\ Goto(c, "scan")
  /\ UNCHANGED <<inTrans, iReader, client, buf, hdr, att, iSnap>>
  /\ UNCHANGED <<snap1, snap2, shmhdr, iMetaPage, worker, writer, ckptr>>
  /\ UNCHANGED <<workVars, fileVars>>

\* findFreeblock(): free-list entries no snapshot in use can need.
RecyclableAtInUse ==
  {b \in 1..wsnap.nBlock : wsnap.free[b] >= 0 /\ wsnap.free[b] <= inUse}
Recyclable ==
  {b \in 1..wsnap.nBlock : wsnap.free[b] >= 0 /\ wsnap.free[b] < inUse}

\* The first of them in block order, or a block at the end of the file.
IsNextBlock(b) ==
  IF Recyclable = {} THEN b = wsnap.nBlock + 1
  ELSE b \in Recyclable /\ \A d \in Recyclable : b <= d

\* Snapshot s with a new stamp and free-list entry for block b.
SetBlock(s, b, stamp, free) ==
  [id     |-> s.id,
   nBlock |-> IF b > s.nBlock THEN b ELSE s.nBlock,
   blk    |-> [s.blk EXCEPT ![b] = stamp],
   free   |-> [s.free EXCEPT ![b] = free]]

\* lsmBlockAllocate(), 3: take the block off the free-list, or extend the
\* file; the caller then writes to it.
Allocate(c) ==
  /\ pc[c] = "scan"
  /\ idx[c] \notin Slot
  /\ \E b \in Block :
       /\ IsNextBlock(b)
       /\ wsnap' = SetBlock(wsnap, b, wsnap.id + 1, -1)
       /\ disk' = [disk EXCEPT ![b] = wsnap.id + 1]
       /\ synced' = synced \ {b}
  /\ inUse' = 0
  /\ NoSlot(c)
  /\ Goto(c, "work")
  /\ UNCHANGED <<inTrans, iReader, client, buf, hdr, att, iSnap>>
  /\ UNCHANGED <<iThis, wMeta, meta, shmVars, lockVars>>

\* lsmBlockFree(): freed during the work on snapshot wsnap.id, which uses it.
BlockFree(c) ==
  /\ pc[c] = "work"
  /\ \E b \in Block :
       /\ wsnap.blk[b] # 0
       /\ wsnap' = SetBlock(wsnap, b, 0, wsnap.id)
  /\ UNCHANGED <<inUse, iThis, wMeta>>
  /\ UNCHANGED <<shmVars, lockVars, connVars, fileVars>>

\* lsmBlockRefree(): a block allocated by this work and not needed after all.
BlockRefreeLost(c) ==
  /\ pc[c] = "work"
  /\ \E b \in Block :
       /\ wsnap.blk[b] = wsnap.id + 1
       /\ wsnap' = SetBlock(wsnap, b, 0, -1)
  /\ UNCHANGED <<inUse, iThis, wMeta>>
  /\ UNCHANGED <<shmVars, lockVars, connVars, fileVars>>
BlockRefree(c) ==
  /\ pc[c] = "work"
  /\ \E b \in Block :
       /\ wsnap.blk[b] = wsnap.id + 1
       /\ wsnap' = SetBlock(wsnap, b, 0, 0)
  /\ UNCHANGED <<inUse, iThis, wMeta>>
  /\ UNCHANGED <<shmVars, lockVars, connVars, fileVars>>

\* The worker's snapshot under the id it is saved with.
NextSnapshotSameId == wsnap
NextSnapshot == [wsnap EXCEPT !.id = @ + 1]

\* A copy being written over: its header is the old or the new one.
Overwritten(old, new) ==
  {[ok |-> FALSE, snap |-> old.snap], [ok |-> FALSE, snap |-> new]}

\* lsmCheckpointSaveWorker(): the next id; write aSnap2, barrier, aSnap1.
SaveWorker(c) ==
  /\ pc[c] = "work"
  /\ wsnap.id < MaxId
  /\ wsnap' = NextSnapshot
  /\ snap2' \in Overwritten(snap2, NextSnapshot)
  /\ Goto(c, "save2")
  /\ UNCHANGED <<inTrans, iReader, client, buf, hdr, idx, att, iSnap>>
  /\ UNCHANGED <<inUse, iThis, wMeta>>
  /\ UNCHANGED <<snap1, shmhdr, slot, iMetaPage, lockVars, fileVars>>

SaveSnap2(c) ==
  /\ pc[c] = "save2"
  /\ snap2' = [ok |-> TRUE, snap |-> wsnap]
  /\ Goto(c, "barrier")
  /\ UNCHANGED <<inTrans, iReader, client, buf, hdr, idx, att, iSnap>>
  /\ UNCHANGED <<snap1, shmhdr, slot, iMetaPage, lockVars, workVars, fileVars>>

SaveBarrier(c) ==
  /\ pc[c] = "barrier"
  /\ snap1' \in Overwritten(snap1, wsnap)
  /\ Goto(c, "save1")
  /\ UNCHANGED <<inTrans, iReader, client, buf, hdr, idx, att, iSnap>>
  /\ UNCHANGED <<snap2, shmhdr, slot, iMetaPage, lockVars, workVars, fileVars>>

\* doLsmSingleWork() saves after flushing a tree and goes on working;
\* lsmFinishWork() saves and then updates a slot.
SaveSnap1(c) ==
  /\ pc[c] = "save1"
  /\ snap1' = [ok |-> TRUE, snap |-> wsnap]
  /\ \E next \in {"work", "setlock"} : Goto(c, next)
  /\ UNCHANGED <<inTrans, iReader, client, buf, hdr, idx, att, iSnap>>
  /\ UNCHANGED <<snap2, shmhdr, slot, iMetaPage, lockVars, workVars, fileVars>>

\* lsmFinishWork(): drop the worker snapshot (unsaved, after an error or when
\* nothing was done) and the WORKER lock.  A connection that was not the
\* worker comes here from dbSetReadLock() in lsmFinishWriteTrans().
FinishWork(c) ==
  /\ \/ pc[c] = "work"
     \/ pc[c] = "locksset"
  /\ IF worker = c THEN worker' = None /\ wsnap' = None
                   ELSE UNCHANGED <<worker, wsnap>>
  /\ Goto(c, Resume(c))
  /\ UNCHANGED <<inTrans, iReader, client, buf, hdr, idx, att, iSnap>>
  /\ UNCHANGED <<inUse, iThis, wMeta, rlock, writer, ckptr, shmVars, fileVars>>

-----------------------------------------------------------------------------
(* lsmCheckpointWrite() *)

OtherPageOfThree(p) == (p % 3) + 1
OtherPageSame(p) == IF p = 0 THEN 1 ELSE p
OtherPage(p) == (p % 2) + 1

\* Take the CHECKPOINTER lock, then load the current snapshot.
BeginCheckpoint(c) ==
  /\ c \in Checkpointers
  /\ pc[c] = "autowork" \/ pc[c] = "idle"
  /\ ckptr = None
  /\ ckptr' = c
  /\ Goto(c, "load1")
  /\ UNCHANGED <<inTrans, iReader, client, buf, hdr, idx, att, iSnap>>
  /\ UNCHANGED <<rlock, worker, writer, shmVars, workVars, fileVars>>

\* lsmFsSyncDb(nBlock): all that was written to the file is stable.
SyncDb(c) ==
  /\ pc[c] = "syncdb"
  /\ synced' = Block
  /\ Goto(c, "store")
  /\ UNCHANGED <<inTrans, iReader, client, buf, hdr, idx, att, iSnap>>
  /\ UNCHANGED <<meta, disk, shmVars, lockVars, workVars>>

\* lsmCheckpointStore(): until the next sync a failure may leave the page torn
\* or complete.
CheckpointStore(c) ==
  /\ pc[c] = "store"
  /\ \E page \in {None, buf[c]} :
       meta' = [meta EXCEPT ![OtherPage(iMetaPage)] = page]
  /\ Goto(c, "syncmeta")
  /\ UNCHANGED <<inTrans, iReader, client, buf, hdr, idx, att, iSnap>>
  /\ UNCHANGED <<disk, synced, shmVars, lockVars, workVars>>

SyncMeta(c) ==
  /\ pc[c] = "syncmeta"
  /\ meta' = [meta EXCEPT ![OtherPage(iMetaPage)] = buf[c]]
  /\ synced' = Block
  /\ Goto(c, "setmeta")
  /\ UNCHANGED <<inTrans, iReader, client, buf, hdr, idx, att, iSnap>>
  /\ UNCHANGED <<disk, shmVars, lockVars, workVars>>

\* The page is announced in shared memory and the lock released.
FinishCheckpoint(c) ==
  /\ pc[c] = "setmeta"
  /\ iMetaPage' = OtherPage(iMetaPage)
  /\ ckptr' = None
  /\ Goto(c, Resume(c))
  /\ UNCHANGED <<inTrans, iReader, client, buf, hdr, idx, att, iSnap>>
  /\ UNCHANGED <<snap1, snap2, shmhdr, slot, rlock, worker, writer>>
  /\ UNCHANGED <<workVars, fileVars>>

-----------------------------------------------------------------------------
(* Failures *)

\* lsmCheckpointRecover(): the page with the larger id, if its checksum is
\* good, else the other one, else the empty snapshot.
PageId(p) == IF meta[p] = None THEN 0 ELSE meta[p].id
RecoveredPage ==
  IF PageId(1) = 0 /\ PageId(2) = 0 THEN 0
  ELSE IF PageId(2) > PageId(1) THEN 2 ELSE 1
Recovered ==
  IF RecoveredPage = 0 THEN EmptySnapshot ELSE meta[RecoveredPage]

\* One process dies: the operating system drops its locks, the shared memory
\* stays as it is, and a new process takes the connection's place.  A death
\* between the two copies leaves the next snapshot in aSnap2 only, and the next
\* worker takes it back.
Die(c) ==
  /\ c \in Mortal
  /\ pc[c] = "barrier" => OrphanDeaths
  /\ pc[c] # "idle" \/ inTrans[c]
  /\ rlock' = [i \in Slot |-> [rlock[i] EXCEPT ![c] = "unlock"]]
  /\ IF worker = c
     THEN worker' = None /\ wsnap' = None /\ inUse' = 0 /\ iThis' = 0 /\ wMeta' = 0
     ELSE UNCHANGED <<worker, workVars>>
  /\ writer' = IF writer = c THEN None ELSE writer
  /\ ckptr' = IF ckptr = c THEN None ELSE ckptr
  /\ Goto(c, "idle")
  /\ inTrans' = [inTrans EXCEPT ![c] = FALSE]
  /\ iReader' = [iReader EXCEPT ![c] = 0]
  /\ client' = [client EXCEPT ![c] = None]
  /\ buf' = [buf EXCEPT ![c] = ZeroSnapshot]
  /\ hdr' = [hdr EXCEPT ![c] = [trans |-> 0, used |-> 0]]
  /\ idx' = [idx EXCEPT ![c] = 0]
  /\ att' = [att EXCEPT ![c] = 0]
  /\ iSnap' = [iSnap EXCEPT ![c] = 1]
  /\ UNCHANGED <<shmVars, fileVars>>

\* The machine fails: what was not synced is lost, and the first connection
\* to come back recovers (doDbConnect()).
Crash ==
  /\ MachineFails
  /\ disk' = [b \in Block |-> IF b \in synced THEN disk[b] ELSE 0]
  /\ synced' = Block
  /\ meta' = meta
  /\ snap1' = [ok |-> TRUE, snap |-> Recovered]
  /\ snap2' = [ok |-> TRUE, snap |-> Recovered]
  /\ shmhdr' = [trans |-> 0, used |-> 0]
  /\ slot' = [i \in Slot |-> [id |-> IF i = 1 THEN Recovered.id ELSE 0, tree |-> 0]]
  /\ iMetaPage' = RecoveredPage
  /\ rlock' = [i \in Slot |-> [c \in Conn |-> "unlock"]]
  /\ worker' = None /\ writer' = None /\ ckptr' = None
  /\ pc' = [c \in Conn |-> "idle"]
  /\ inTrans' = [c \in Conn |-> FALSE]
  /\ iReader' = [c \in Conn |-> 0]
  /\ client' = [c \in Conn |-> None]
  /\ buf' = [c \in Conn |-> ZeroSnapshot]
  /\ hdr' = [c \in Conn |-> [trans |-> 0, used |-> 0]]
  /\ idx' = [c \in Conn |-> 0]
  /\ att' = [c \in Conn |-> 0]
  /\ iSnap' = [c \in Conn |-> 1]
  /\ wsnap' = None /\ inUse' = 0 /\ iThis' = 0 /\ wMeta' = 0

-----------------------------------------------------------------------------

Init ==
  /\ meta = [p \in {1, 2} |-> None]
  /\ disk = [b \in Block |-> 0]
  /\ synced = Block
  /\ snap1 = [ok |-> TRUE, snap |-> Recovered]
  /\ snap2 = [ok |-> TRUE, snap |-> Recovered]
  /\ shmhdr = [trans |-> 0, used |-> 0]
  /\ slot = [i \in Slot |-> [id |-> IF i = 1 THEN Recovered.id ELSE 0, tree |-> 0]]
  /\ iMetaPage = RecoveredPage
  /\ rlock = [i \in Slot |-> [c \in Conn |-> "unlock"]]
  /\ worker = None /\ writer = None /\ ckptr = None
  /\ pc = [c \in Conn |-> "idle"]
  /\ inTrans = [c \in Conn |-> FALSE]
  /\ iReader = [c \in Conn |-> 0]
  /\ client = [c \in Conn |-> None]
  /\ buf = [c \in Conn |-> ZeroSnapshot]
  /\ hdr = [c \in Conn |-> [trans |-> 0, used |-> 0]]
  /\ idx = [c \in Conn |-> 0]
  /\ att = [c \in Conn |-> 0]
  /\ iSnap = [c \in Conn |-> 1]
  /\ wsnap = None /\ inUse = 0 /\ iThis = 0 /\ wMeta = 0

ReadStep(c) ==
  \/ LoadHeader(c) \/ LoadSnapshot(c)
  \/ LoadFirst(c) \/ LoadSecond(c) \/ LoadGivesUp(c)
  \/ ExactSlot(c) \/ ExactSlotLock(c)
  \/ ExclSlot(c) \/ ExclSlotSet(c)
  \/ UsableSlot(c) \/ UsableSlotLock(c)
  \/ CheckHeader(c) \/ CheckSnapshot(c)

SetLockStep(c) == SetReadLock(c) \/ SetReadLockTry(c) \/ SetReadLockSet(c)

WriteStep(c) == BeginWriteTrans(c) \/ Commit(c) \/ FinishWriteTrans(c)

AllocStep(c) ==
  \/ AllocateSynced(c) \/ AllocateInUse(c)
  \/ ScanSlot(c) \/ ScanSlotLock(c) \/ ScanSlotClear(c)
  \/ Allocate(c)

WorkStep(c) ==
  \/ BeginWork(c) \/ AllocStep(c) \/ BlockFree(c) \/ BlockRefree(c)
  \/ SaveWorker(c) \/ SaveSnap2(c) \/ SaveBarrier(c) \/ SaveSnap1(c)
  \/ FinishWork(c)

CheckpointStep(c) ==
  \/ BeginCheckpoint(c) \/ SyncDb(c) \/ CheckpointStore(c) \/ SyncMeta(c)
  \/ FinishCheckpoint(c)

Next ==
  \/ \E c \in Conn :
       \/ ReadStep(c) \/ FinishReadTrans(c)
       \/ WriteStep(c) \/ SetLockStep(c)
       \/ WorkStep(c)
       \/ CheckpointStep(c)
       \/ Die(c)
  \/ Crash

Spec == Init /\ [][Next]_vars

\* A thread inside lsmBeginReadTrans() or lsmCheckpointLoad() waits for nobody
\* and keeps running.
FairSpec == Spec /\ \A c \in Readers \cup Checkpointers : WF_vars(ReadStep(c))

-----------------------------------------------------------------------------
(* Properties *)

ShmTypeOK ==
  /\ snap1 \in ShmCopy
  /\ snap2 \in ShmCopy
  /\ shmhdr \in TreeHdr
  /\ slot \in [Slot -> SlotValue]
  /\ iMetaPage \in 0..2

LockTypeOK ==
  /\ rlock \in [Slot -> [Conn -> {"unlock", "shared", "excl"}]]
  /\ worker \in Conn \cup {None}
  /\ writer \in Conn \cup {None}
  /\ ckptr \in Conn \cup {None}

ConnTypeOK ==
  /\ pc \in [Conn -> Label]
  /\ inTrans \in [Conn -> BOOLEAN]
  /\ iReader \in [Conn -> Slot \cup {0}]
  /\ client \in [Conn -> Snapshot \cup {None}]
  /\ buf \in [Conn -> Snapshot]
  /\ hdr \in [Conn -> TreeHdr]
  /\ idx \in [Conn -> Nat]
  /\ att \in [Conn -> Nat]
  /\ iSnap \in [Conn -> {1, 2}]

WorkTypeOK ==
  /\ wsnap \in Snapshot \cup {None}
  /\ inUse \in Nat
  /\ iThis \in Nat
  /\ wMeta \in 0..2

FileTypeOK ==
  /\ meta \in [{1, 2} -> Snapshot \cup {None}]
  /\ disk \in [Block -> Nat]
  /\ synced \in SUBSET Block

\* Every variable keeps its type.
TypeOK == ShmTypeOK /\ LockTypeOK /\ ConnTypeOK /\ WorkTypeOK /\ FileTypeOK

\* Every block the snapshot uses still holds what was written for it.
Intact(s) == \A b \in Block : s.blk[b] # 0 => disk[b] = s.blk[b]

\* The connection has a read transaction open and its lock is still the shared
\* one that lsmReadlock() took.
HoldsReadLock(c) ==
  /\ inTrans[c]
  /\ iReader[c] # 0
  /\ rlock[iReader[c]][c] = "shared"

\* lsmBlockAllocate() never recycles a block of a snapshot that is "currently
\* in use by a database client": one that a reader has protected by a slot lock
\* and then found to be still current.
LockedReaderIntact == \A c \in Conn : HoldsReadLock(c) => Intact(client[c])

\* Whenever the machine fails, the checkpoint recovered from the meta pages
\* describes blocks that are on stable storage and have not been recycled.
CheckpointIntact ==
  /\ Intact(Recovered)
  /\ \A b \in Block : Recovered.blk[b] # 0 => b \in synced

\* The checkpoint that lsmCheckpointWrite() announced in iMetaPage, which is what
\* allows blocks to be recycled, is neither lost nor replaced by an older one:
\* not by a torn write of the next one, nor by a failure of the machine.
CheckpointMonotone ==
  [][iMetaPage # 0 => iMetaPage' # 0 /\ PageId(iMetaPage)' >= PageId(iMetaPage)]_vars

\* freelistAppend() and lsmBlockAllocate() account for every block of the file:
\* in a complete copy of a snapshot a block is in use or free, never both or
\* neither.
FreelistComplete ==
  \A copy \in {snap1, snap2} : copy.ok =>
    \A b \in Block :
      IF b <= copy.snap.nBlock
      THEN (copy.snap.blk[b] # 0) # (copy.snap.free[b] >= 0)
      ELSE copy.snap.blk[b] = 0 /\ copy.snap.free[b] < 0

\* A reader that got its slot starts on a snapshot that is in shared memory at
\* that moment, contents and not only id: neither the client cache, nor a copy
\* read before the lock was taken, lets an older version through.
ReadsCurrentSnapshot ==
  [][\A c \in Conn :
       ~inTrans[c] /\ inTrans'[c] /\ iReader'[c] # 0
         => client'[c] \in {snap1.snap, snap2.snap}]_vars

\* What lsmCheckpointLoadWorker() makes of the two copies, which the next worker
\* goes on from, only moves forward, to snapshots with larger ids, wherever in
\* lsmCheckpointSaveWorker() the last one died.
PublishedMonotone ==
  [][Repaired' = Repaired \/ Repaired'.id > Repaired.id \/ Crash]_vars

\* lsmBeginReadTrans() always returns, however often writers and workers make
\* it start again.
ReadTransReturns == \A c \in Readers : (pc[c] = "loadsnap" ~> pc[c] = "idle")

=============================================================================
