# Verification of the LSM storage engine of MoVeBench

MoVeBench measures DiskANN vector search on two storage engines: `libSQL/`, a
vendored fork of SQLite, and `LSMoVe/`, SQLite4 with its LSM key-value engine
and a ported DiskANN index. This project models the part with the hard
behaviour, the LSM engine in `LSMoVe/src/lsm_*.c`: several processes share one
database through a memory-mapped file and byte-range locks, without a server,
and each of them, or the machine, may die at any moment.

Contents: [inventory](#inventory), [modules](#modules), [runs](#runs),
[findings](#what-was-found), [proofs](#proofs),
[abstractions](#abstractions-and-limits), [plan](#plan).

## Inventory

| component | source | state | operations | properties that make it correct |
|---|---|---|---|---|
| snapshots and read locks | `lsm_shared.c`, `lsm_ckpt.c` | `aSnap1`, `aSnap2`, `aReader[]` slots, READER/WORKER/WRITER locks, `pClient`, `pWorker`, free list | begin/finish read transaction, begin/finish work, allocate/free/refree block, save worker snapshot | no block of a snapshot in use is recycled; a reader starts on the current snapshot; the published snapshot only moves forward; opening a transaction ends |
| checkpoints | `lsm_ckpt.c`, `lsm_shared.c` | two meta pages, `iMetaPage`, CHECKPOINTER lock | sync, store, sync, announce; recover | what recovery finds is complete, stable and not recycled |
| log | `lsm_log.c` | three regions, running checksum, write buffer, jump region | begin, write, commit, end, tell, seek, reclaim, recover | committed transactions survive failures, whole and in order; regions never overlap |
| in-memory tree | `lsm_tree.c` | live and old tree, `iOldLog`, shared-memory chunks, header in two copies | insert, delete, mark, rollback, make old, discard, repair | a tree is discarded only when a snapshot holds it; rollback and repair restore it |
| sorted runs, merging, work scheduling | `lsm_sorted.c` | levels, merges in progress, cursors | flush a tree, merge, automatic work, `lsm_work`, `lsm_flush`, `lsm_reclaim` | merging keeps the newest value of every key; work stops at its budget and before the checkpoint limit |
| file layer | `lsm_file.c` | pages, blocks, redirects, page cache, log file | read/write pages, allocate, move blocks, truncate, write/sync/delete the log | a redirected block is found under its old number by every snapshot |
| connections and locks | `lsm_shared.c`, `lsm_unix.c` | DMS1, DMS2, DMS3, RWCLIENT, ROTRANS locks, list of `Database` objects | open, close, connect, disconnect, `lsmShmLock` | exactly one connection recovers; the log is deleted only by the last one |
| transactions API | `lsm_main.c` | nesting level, marks, cursors | `lsm_begin`, `lsm_commit`, `lsm_rollback`, `lsm_info`, `lsm_config` | nesting is atomic and all-or-nothing |
| environment | `lsm_unix.c`, `lsm_mem.c`, `lsm_mutex.c`, `lsm_str.c`, `lsm_varint.c` | file handles, mutexes | system calls, utilities | |
| SQLite4 interface | `kvlsm.c` | level of open savepoints | maps SQL transactions and pragmas to `lsm_*` | |
| DiskANN | `vectordiskann.c`, `vectorIndex.c`, `vectorvtab.c`, `vector*.c` | graph nodes in key-value records | insert, delete, search | edges lead to existing nodes |
| `compact_db.c` | | | drives work, flush and checkpoint | |
| benchmark drivers | `benchmark.py`, `pixel_benchmark.py` | | start engines, parse output | |
| SQLite4 front end, libSQL | | | third-party SQL engines | |

How they interact. A write transaction goes to the live tree and to the log.
A commit over the size limit makes the live tree old. A worker flushes the old
tree to a sorted run in newly allocated blocks and publishes a snapshot, whose
log position is where that tree ended. A checkpointer copies the snapshot to
the meta page not in use, after which the log before that position and the
blocks freed since the last checkpoint can be used again. A reader needs a tree
version and a snapshot that fit together; it protects both by one shared lock on
one of a few slots. Nobody waits for readers: the lock only tells the block
allocator and the tree what is still needed.

What is hard here: interleavings of unsynchronised reads with lock calls (the
code looks, locks and looks again), death of a process in every one of those
places, failure of the machine between writes and syncs, decisions made by
comparing ids and offsets that may repeat, and long legal sequences (wrap, then
jump, then savepoint, then rollback). `PROJECT.json` lists each at its line
under `hazards`.

## Modules

| module | about | uses |
|---|---|---|
| `LsmSnapshot` | snapshots, read-lock slots, blocks, checkpoints | |
| `LsmSnapshotProofs` | theorems about its snapshots and readers | `LsmSnapshot` |
| `LsmCheckpointProofs` | theorems about its free list and checkpoints | `LsmSnapshotProofs` |
| `LsmDurable` | what a durable store promises | |
| `LsmLog` | log, checkpoints, recovery; implements `LsmDurable` | `LsmDurable` |
| `LsmLogProofs` | theorems about its trees and regions | `LsmLog` |
| `LsmDurableProofs` | theorems: it implements `LsmDurable`, checkpoints are covered | `LsmLog` |
| `LsmConnect` | processes, locks, connect and disconnect, read-only clients | |
| `LsmConnectProofs` | theorems about its locks | `LsmConnect` |
| `LsmCommitProofs` | theorems about the commits it counts | `LsmConnectProofs` |
| `LsmTree` | shared-memory chunks, tree versions, rollback and repair | |
| `LsmTreeProofs` | theorems about its list of chunks | `LsmTree` |
| `LsmTreeReadProofs` | theorems about the trees in its memory | `LsmTreeProofs` |
| `LsmBtree`, `MCBtree` | the B-tree algorithms, and the instance that is checked | |
| `LsmSorted` | flush, incremental merge, cursors over tree and runs | |

The modules meet where the parts of the engine do. Tree ids and snapshot ids
share the slots of `aReader[]`: `LsmSnapshot` has the snapshot side with tree
versions as numbers, `LsmTree` has the tree side with snapshots as numbers.
`LsmConnect` takes from `LsmLog` only how many commits the checkpoint and the
log hold. `LsmTree` has one interior node over a leaf for each subtree and all
the steps of the memory allocator, `LsmBtree` has the shapes of the tree and an
allocator that never recycles. `LsmSorted` sees a tree as one more run.

### LsmSnapshot: snapshots, read locks, blocks, checkpoints

The module has a program counter for each connection, and every `lsmShmLock()`
call, every unlocked read of a slot, every copy into shared memory and every
`fsync()` is a step. A block holds the id of the snapshot it was written for, so
"the reader's blocks were not overwritten" is a comparison of ids.
`lsmCheckpointLoad()` has no lock that keeps a worker away, so its reads of the
two copies are two steps, and a worker may die, and its successor repair the
copies and publish, between them.

| state | code |
|---|---|
| `snap1`, `snap2` (with a completeness flag for the checksum) | `ShmHeader.aSnap1/aSnap2` |
| `shmhdr`, `slot`, `iMetaPage` | `ShmHeader.hdr1`, `aReader`, `iMetaPage` |
| `rlock`, `worker`, `writer`, `ckptr` | `lsm_db.mLock` with the rules of `lsmShmLock()` |
| `inTrans`, `iReader`, `client`, `buf`, `hdr` | the fields of `lsm_db` |
| `wsnap`, `inUse`, `iThis`, `wMeta` | `pWorker` and locals of `lsmBlockAllocate()` |
| `meta`, `disk`, `synced` | the database file and what of it is stable |

| actions | code |
|---|---|
| `LoadHeader`, `LoadSnapshot`, `Exact*`, `Excl*`, `Usable*`, `CheckHeader`, `CheckSnapshot` | `lsmBeginReadTrans()`, `lsmReadlock()` |
| `LoadFirst`, `LoadSecond`, `LoadGivesUp` | `lsmCheckpointLoad()`: `aSnap1`, and later `aSnap2` if that was torn, then again; for a reader and for `lsmCheckpointWrite()` |
| `BeginWriteTrans`, `Commit`, `SetReadLock*`, `FinishWriteTrans` | `lsmBeginWriteTrans()`, `lsmFinishWriteTrans()`, `dbSetReadLock()` |
| `BeginWork`, `Allocate*`, `ScanSlot*`, `Block(Re)free`, `Save*`, `FinishWork` | `lsmBeginWork()`, `lsmBlockAllocate()`, `firstSnapshotInUse()`, `findFreeblock()`, `lsmCheckpointSaveWorker()`, `lsmFinishWork()` |
| `BeginCheckpoint` ... `FinishCheckpoint` | `lsmCheckpointWrite()` |
| `Die(c)`, `Crash` | a process ends and the system drops its locks; the machine fails and `doDbConnect()` recovers |

### LsmDurable and LsmLog: what the log promises, and the log

`LsmDurable` is the promise of lsmusr.wiki, section 4, in five variables: the
committed transactions, how many of them a failure of the machine must leave,
the open transaction, the transactions "in doubt", whose commit never returned,
and a count of the machine's failures, so that what a failure of the processes
loses cannot be explained as lost by the machine. `LsmLog` is the code: the log file cell by cell, its regions, wraps
and jumps, the buffer and running checksum of the writer, savepoints, the old
tree with its log position and toggled bit, snapshots, checkpoints, and the
recovery that reads the log back. `DurableSpec` says that every behaviour of
`LsmLog` is one of `LsmDurable`.

| actions | code |
|---|---|
| `BeginReadTrans`, `BeginWriteTrans` | `lsmBeginReadTrans()`; `lsmBeginWriteTrans()` with `lsmLogBegin()`, `logReclaimSpace()`, `lsmTreeDiscardOld()` |
| `Savepoint`, `Release`, `RollbackTo`, `Rollback` | `lsm_begin()`, `lsm_commit()`, `lsm_rollback()` with `lsmLogTell()`, `lsmLogSeek()` |
| `LogWrite`, `LogCommit`, `LogSync`, `FinishCommit` | `lsmLogWrite()`, `logFlush()`, `lsmFsSyncLog()`, `lsmFinishWriteTrans()` with `lsmLogEnd()`, `lsmTreeMakeOld()` |
| `Flush` | `lsm_flush()` |
| `FlushOld`, `Checkpoint` | `doLsmSingleWork()`, `lsmCheckpointWrite()` (in one step) |
| `Die`, `Kill`, `Crash`, `Close`, `DeleteLog` | one process dies; all do; the machine fails; the last `lsm_close()`; each but `Die` and `Close` with `lsmLogRecover()`. The connection that closes last is alone, so its death is a `Kill` |

`versions` keeps for each cell of the file what it held at the last sync and
everything written to it since; after `Crash` each cell holds any one of these.

The operators with a comment "Mutant" (and `OtherPageSame`, `LoadOkUnchecked`
and the like in LsmSnapshot) are wrong variants of the definition after them.
They are in no specification; `PROJECT.json` says which property fails when one
takes the place of the original.

### LsmConnect: processes, locks, connect and disconnect

A process is a set of connections. Its POSIX locks belong to the process;
`lsmShmLock()` looks at the other connections of the process first. Each lock
call, each test, the mapping of shared memory, the checkpoint, the deletion of
the log and the unlinking of the "-shm" file are steps. The contents of the
database are counted in commits.

| state | code |
|---|---|
| `mLock`, `flock` | `lsm_db.mLock`; the POSIX locks of each process |
| `path`, `shm`, `chunk`, `mapped`, `ptr` | what the name of the "-shm" file leads to, the contents of each file, the chunk a process has mapped, `lsm_db.apShm[]` |
| `ckpt`, `log`, `oldest`, `logFrom`, `acked` | what the checkpoint and the log hold, what is not yet overwritten, how much was committed |
| `roCkpt`, `roData`, `roBegan`, `roAlone` | what a read-only client has read, and whether the system was dead when it began |

| actions | code |
|---|---|
| `Open`, `Connect*` | `lsmDbDatabaseConnect()`, `doDbConnect()` |
| `Commit`, `Checkpoint`, `BlockDetect`/`BlockReuse`, `LogDetect`/`LogReclaim` | `lsm_commit()`, `lsmCheckpointWrite()`, `lsmBlockAllocate()`, `logReclaimSpace()`, the last two in two steps: look for read-only transactions, then overwrite |
| `Close`, `Disconnect*` | `lsmDbDatabaseRelease()`, `doDbDisconnect()` |
| `RoBegin`, `RoTest`, `RoTrans*`, `RoLive*`, `RoClose` | `lsmBeginRoTrans()`, `lsmFinishReadTrans()` |
| `Die`, `Fault` | a process is killed; a process touches memory that was unmapped under it |

`LockOk`, `FileAfter`, `TestLock` and `TestRange` are `lsmShmLock()`,
`lsmShmTestLock()` and the range arithmetic of `lsmPosixOsTestLock()`.

### LsmTree: the memory of the in-memory tree

Chunks with their ids and links, the writer's allocation from the front of the
list or from new memory, the copy-on-write of nodes and the one "v2" pointer of
each, marks and rollback, the two copies of the tree header, making trees old,
flushing and discarding them, and `lsmTreeRepair()` after a dead writer.

| state | code |
|---|---|
| `chunk`, `mem` | `ShmChunk.iShmid/iNext` and the cells of each chunk |
| `hdr1`, `hdr2`, `bWriter`, `slot`, `snap` | `ShmHeader` |
| `hdr`, `iReader`, `rlock`, `client`, `writer` | the fields and locks of each `lsm_db` |
| `stale` | not in the code: the readers whose slot named no chunk of the list any more when they locked it (see [below](#what-was-found)) |
| `marks`, `rollback`, `pend`, `bDiscardOld` | `aTrans[]`, the rollback list, what is allocated and not linked yet |

| actions | code |
|---|---|
| `LoadHeader`, `Readlock`, `FinishReadTrans` | `lsmTreeLoadHeader()`, `lsmReadlock()`, `lsmFinishReadTrans()` |
| `Repair` | `lsmTreeRepair()`: `treeRepairPtrs()`, `treeRepairList()`, `treeCheckLinkedList()` |
| `BeginWriteTrans`, `BeginNested` | `lsmBeginWriteTrans()`, `lsmTreeMark()` |
| `ShmallocChunk`, `ShmallocLink` | `treeShmalloc()` with `lsmTreeInUse()`, `isInUse()` |
| `InsertV2`, `InsertLeaf`, `InsertCopy` | `treeInsert()`, `treeUpdatePtr()` |
| `RollbackPtrs`, `RollbackFree`, `RollbackNested`, `RollbackAll` | `lsmTreeRollback()` and the `lsm_rollback()` around it |
| `CommitNested`, `Commit`, `EndHdr1`, `EndTransaction` | `lsm_commit()`, `lsmTreeMakeOld()`, `lsmTreeEndTransaction()`, one header copy at a time |
| `FlushOld`, `Die` | a worker publishes the old tree; a writer is killed |

A header carries the contents its transaction gave the trees (`cur`,
`oldcur`); no action reads them. The memory seen through a header is compared
with them. A repair that uses an outdated header, or stores behind its array,
puts every connection in the state "lost" and ends the behaviour (see below).

### LsmBtree: the algorithms of the in-memory tree

Nodes of one to three keys, `treeInsert()` with splits up to a new root,
`treeDeleteEntry()` with redistribution and merges, `treeInsertEntry()` with the
flags of range deletes, `treeDeleteKeys()`, the versions of child pointers,
marks, rollback and repair. The ordered `map` is changed beside the tree by what
`lsm_insert()`, `lsm_delete()` and `lsm_delete_range()` promise; `Contents`
reads the tree back as a reader of a version does.

### LsmSorted: levels, merges and cursors

`levels` are those of the snapshot, each with a left run, and, while it is
being merged, a split key and right runs. `Flush` writes the tree as a new
level; `Work` is one call of `sortedWork()`, which selects levels and merges a
number of entries (`sortedSelectLevel()`, `mergeWorkerStep()`,
`sortedMergeSetup()`), also none or all. The multi-cursor is made of operators
with the code's names: `lsmMCursorSeek()`, `multiCursorEnd()`,
`multiCursorAdvance()`, `mcursorLocationOk()`, `seekInLevel()`. The properties
run complete scans and seeks in every state and compare them with `map`.

### LsmSnapshotProofs, LsmCheckpointProofs, LsmLogProofs, LsmDurableProofs, LsmConnectProofs, LsmCommitProofs, LsmTreeProofs, LsmTreeReadProofs

The theorems about LsmSnapshot, LsmLog, LsmConnect and LsmTree, see [Proofs](#proofs).
Every invariant that the runs check of LsmSnapshot, LsmLog, LsmConnect and LsmTree is
proved,
some under the hypotheses named there.

## Runs

`tlc -config X.cfg M` with the module and configuration of `PROJECT.json`.

| run | shows |
|---|---|
| `snapshot_writers` | a writer that commits, discards trees and sets slots, beside a worker: a transaction starts on a snapshot in shared memory, and opening one ends while the writer commits |
| `snapshot_deaths` | a client that reads and writes and a worker, which die anywhere but between the two copies of a snapshot, up to the id with which a block of a published snapshot can be recycled: a locked snapshot keeps its blocks, a transaction starts on a snapshot in shared memory, and what the next worker takes over only moves forward |
| `snapshot_checkpoint` | one connection works and checkpoints, the machine fails anywhere: what is recovered is complete and not recycled, an announced checkpoint is not lost, and neither is a block |
| `log_wrap` | FULL, a log that wraps, jumps, is reclaimed and is deleted by the last close; writer, all processes or machine fail anywhere: the promise is kept, regions are in order, checkpoints are in the log, and what recovery finds has the shape and covers the checkpoint as [LsmLogProofs](#the-log-lsmlogproofs) needs it |
| `log_nested` | NORMAL, nested transactions and rollbacks; any part of the unsynced log is on the disk after a failure of the machine. The log does not wrap here: with a wrap, a rollback breaks the promise (see below) |
| `log_unlogged` | no log, with `lsm_flush()` and rollbacks: only the toggled bit distinguishes flushed trees |
| `connect_locks` | two connections of one process that may be killed, one of another, and one of a process in single-process mode: what a connection holds is held in the file, connects and disconnects exclude each other, and shared memory is not cleared under a connected client |
| `connect_data` | two connections of one process that may be killed, and a read-only one whose test of locks may fail: commits stay recoverable and visible, a read-only transaction begun on a dead system keeps what it reads, and DMS1 is given up, but by a client whose test failed |
| `tree_shm` | a writer that may be killed anywhere, and a reader: the versions of reader and header are never overwritten, and the chunk list is in order whenever no transaction is open |
| `btree` | operations on trees of one to three levels, with savepoints, rollbacks, commits and deaths: every version is the map it should be, balanced and in order |
| `sorted_runs` | writes, flushes and merges that stop anywhere: scans both ways and seeks of a new cursor agree with the map |
| `cursor_reseek` | (violation) a cursor used twice while a level is merged |

Bounds, and why they are enough to reach the cases that matter:

- LsmSnapshot. Connections: two in different roles. Slots: one, for which all
  compete. Attempts of `lsmBeginReadTrans()`: two in `snapshot_writers`, where
  the retry matters, one elsewhere, so that it fails and is called again.
  Snapshot ids run from 10 (`ckptLoadEmpty()`) to 12. A block that a published
  snapshot uses is freed with id 11 at the earliest, and recycled when every
  snapshot in use is at least 12: so 12 is the least bound for the run that asks
  whether the slots protect blocks. In `snapshot_deaths` the locks matter, which was
  confirmed by a variant of `lsmShmLock()` that grants an exclusive lock beside
  shared ones (`CanExclIfNoExcl`) and breaks the property. There `w` reads and
  writes, and `m` works but does not read. With `m` reading too and nobody
  dying, `LockedReaderIntact` holds as well (5.6 million states); it
  is not a run of its own. `snapshot_writers` has two connections that read, so that
  the header changes under a reader; it asks nothing of blocks, and stops at 11,
  since its liveness check takes long.
  One block is enough for a block to be used, freed and recycled; the two of
  `snapshot_checkpoint` let the free list hold one while another is in use.
  `OrphanDeaths` says whether a worker may die when `aSnap2` is complete and `aSnap1`
  untouched (`lsm_ckpt.c:1097`). It is FALSE in the runs: what the code does
  with such a death is [below](#what-was-found), and what still holds is proved
  for every death.
- LsmLog. A wrap after offset 2, nine cells and five records. The runs reach
  region 1 in use, a wrap while the old tree is not flushed, a recovery through
  two jumps, and one that starts again from 0; this was confirmed by checking
  that the negations of these are violated. Checksums are due every two
  records (`MaxData`), so a transaction of three has one inside. `log_nested`
  has seven cells, four records and two levels: a savepoint rolled back and
  written over, then committed, and a second transaction after it.
  The reader's block is two cells (`ReadSize`), so that region 1 ends one cell
  late after recovery, and no region 0 is shorter than that (see below).
  Failures: one in each log run. A second failure after a recovery was checked
  for `log_wrap` with four records, and NORMAL with wraps for eight cells and
  four records; both pass.
- LsmConnect. `connect_locks` has the three ways two connections can be related
  (same process, other process, process that shares no locks) and one RWCLIENT
  lock, so that connections run out of them. `connect_data` has one commit: a
  commit that is lost, or a log that is deleted with it, shows at the first. It has
  one process of read-write connections, since with two the code does lose
  commits (see below).
- LsmTree. One subtree, three chunks of two cells, three values: the first two
  make a node and set its "v2" pointer, the third copies it, and a transaction
  needs a second chunk. Behaviours begin with a new tree, or late in the life of
  the database, when the first of two chunks is free and the 32-bit ids are about
  to wrap (they are taken modulo 64). So chunks are recycled, rolled back and
  repaired with ids on both sides of the wrap, while a reader holds an id before
  it; that these cases occur was confirmed as for the log. Two slots, one for the
  reader and one for the writer; two transactions, a savepoint, a death anywhere.
- LsmBtree. The tree begins with 0, 3, 4, 7 or 10 keys, which are a full root,
  a root just split, and two and three levels; three operations on keys
  in the tree, between them and beyond the last, and ranges that meet, overlap
  and nest.
- LsmSorted. Three keys, three write operations, up to three levels of which two
  are merged at a time. Three operations give a key, a range delete over it and
  a key within the range, each in a level of its own. A merge may stop after
  any number of entries.

Fairness appears in two runs. In `snapshot_writers`, `FairSpec` lets a thread
inside `lsmBeginReadTrans()` or `lsmCheckpointLoad()` go on. The functions never
block (their locks are tried, not waited for), so this only says that the thread
is scheduled; nothing is assumed of writers, workers or checkpointers. The rounds
of `lsmCheckpointLoad()` are not counted: after any of them it may give up with
LSM_PROTOCOL, as it does after `LSM_ATTEMPTS_BEFORE_PROTOCOL`, and it starts
another only if a copy is torn, of which there are as many as snapshots are saved.
In `connect_data`, a thread
inside a library call goes on (weak fairness for the steps of each connection's
connect, disconnect, work and read-only begin), and a fault takes place once the
memory is gone. No fairness is assumed of the calls themselves: nobody need
open, close, commit or finish a transaction. The wait for DMS1 in
`doDbConnect()` sleeps and tries again, so it is a step that is sometimes
disabled, and `DMS1Released` speaks of those who have the lock, not of those who
wait. Nor does it speak of a read-only client that is at the test of
`lsmBeginRoTrans()` or whose test failed, which does keep the lock.

Deadlock is checked in all runs but `sorted_runs` and `cursor_reseek`, where
the operations are used up and nothing is left to merge.

## What was found

`cursor_reseek`: `seekInLevel()` (`lsm_sorted.c:1927`) searches one side of a
level that is being merged and leaves the pointers of the other side where an
earlier seek put them. After GE 10, GE 400 on the same cursor stands on 10. For
the same reason LSM_SEEK_EQ of a deleted key on a used cursor may leave
`lsm_csr_valid()` true. A small program linked with the engine shows both.

The following were met while modelling and have no run of their own. Where an
instance is given, it is that module with these constants (the others as in the
run named), and the property named is violated.

LsmSnapshot:

- Orphan snapshots. `lsmCheckpointLoad()` (`lsm_ckpt.c:875-891`) copies and checks
  `aSnap1`, and only later `aSnap2`. A reader finds `aSnap1` torn while a worker saves
  snapshot 11. The worker finishes, starts to save 12, and dies between the two
  copies; the reader now copies this 12 from `aSnap2`. The next worker takes it back
  (line 941: both copies are 11 again) and publishes another 12, which frees a block
  the first one used. `lsmCheckpointLoadOk()` (line 910) compares the id only, so the
  reader starts on the orphan 12 with a good lock on its slot. The block was freed
  with id 11, older than the reader's 12, and is recycled under the lock.
  `snapshot_deaths` with `OrphanDeaths = TRUE` violates `ReadsCurrentSnapshot`, and,
  when that is not asked, `LockedReaderIntact`. `PublishedMonotone` holds.
  What follows from the same two reads, and was only read: the orphan stays in the
  reader's cache, since `lsmCheckpointClientCacheOk()` compares ids too; a connection
  may go from the orphan 12 back to 11 in its next transaction; a checkpointer may
  store the orphan, and then skip the other 12 because its id is not larger.
- A connection that commits and must record a slot may take, and so release,
  the slot it reads under (`lsm_shared.c:1592`, `1044`); then a worker recycles
  blocks it reads. In the instance of `snapshot_deaths`,
  `\A c \in Conn : inTrans[c] => Intact(client[c])` is violated.
  `LockedReaderIntact` is about readers that hold their lock.
- A worker that finds no synced id uses its own, and recycles a block of the
  checkpoint being written by another connection (`lsm_shared.c:803`).
  `Conn = {m, k}`, `Readers = {}`, `Workers = {m}`, `Checkpointers = {k}`,
  `MaxBlock = 1` (others as `snapshot_checkpoint`): `CheckpointIntact`.
- `lsmBeginReadTrans()` returns success without a lock when its attempts run out
  and a cached snapshot is there (`lsm_shared.c:1231`).
- `lsmReadlock()` forgets a lock on a slot that changed (`lsm_shared.c:1488`). The
  model keeps the lock, as the code does.

LsmLog (others as `log_wrap` with `Closes = FALSE`):

- At the JUMP that ends region 1, `lsmLogRecover()` takes the end of the 512-byte
  block in memory for the region's end (`lsm_log.c:1063`; for region 0, four
  lines below, it subtracts what was not read yet). If region 0 is shorter than
  the rest of the block (a log that wraps right after a checkpoint and jumps over
  region 0), region 1 then ends after the start of region 2, against the
  assertion of `lsmLogBegin()` (`lsm_log.c:454`). With safety FULL a commit fills
  the log to whole sectors, and region 0 is no shorter than a block. `Full =
  FALSE`, `ReadSize = 6`: `RegionsOrdered`.
- Rolling back the transaction that wrapped the log keeps the wrap and loses
  the checksum of its JUMP (`lsm_log.c:489`); later commits are not recovered.
  `Rollbacks = TRUE`: `DurableSpec`.
- A savepoint rolled back after a jump forgets the jump; the conditions in
  `lsmLogSeek()` are the wrong way round (`lsm_log.c:773`). `Levels = 2`,
  `MaxFail = 0`: `RegionsOrdered`.
- `lsm_flush()` drops the trees when the flush failed (`lsm_sorted.c:5465`).
  `MaxFlush = 1`, `Contended = TRUE`, `MaxFail = 0`, `MinLogWrap = 99`,
  `MaxOff = 6`, `MaxRecord = 2`: `NothingDropped`.
- `lsm_flush()` with the log on stores the log position of an earlier tree, or
  none (`lsm_ckpt.c:370`), so a recovery may replay what the snapshot holds.
  Runs with `MaxFlush > 0` do not check `DurableSpec` for this reason.
- In NORMAL, a failure of the machine during the last close can put an older
  transaction on top of newer ones (`lsm_shared.c:272`); the close is checked in
  FULL.

LsmConnect:

- `doDbConnect()` maps the "-shm" file (`lsm_shared.c:338`) before it waits for
  DMS1. If the last disconnect unlinks the file meanwhile, the new client and
  the next one use different memory and overwrite each other's log.
  `Procs = {{a}, {b}}`, `RO = {}`, `Mortal = {}`, `MaxCommit = 2` (others as
  `connect_data`): `CommitsRecoverable`.
- In one process the same race leaves pointers into unmapped memory in
  `apShmChunk[]`, or a zeroed file, for which transactions return LSM_PROTOCOL.
  `ConnectedSeesCommits` is about connections with a valid header, and `Fault`
  ends the process that touches the memory.
- The test of DMS2 and DMS3 is one of DMS2 and DMS1 (`lsm_unix.c:356`: the range
  of n locks begins n - 1 before the first), so shared memory is set up again
  under a connected read-only client, and the test of the RWCLIENT locks in
  `lsmBeginRoTrans()` misses clients. `NoRecoveryWhileConnected` is about
  read-write clients, and `RoTransIntact` about transactions that began when
  none was connected.
- `logReclaimSpace()` looks for read-only transactions before it reads the
  checkpoint (`lsm_log.c:313`); one that begins in between loses the log.
- A single-process client may open, commit and close between the recovery of
  another and its lock on DMS2; the other's view is then outdated. Mixing the
  modes is the user's error, and `connect_data` has none.
- `doDbDisconnect()` tries DMS1 once, though its comment says that it blocks.
- `lsmBeginRoTrans()` takes DMS1 and tests the RWCLIENT locks. If the test itself
  fails (`lsmShmTestLock()` returns neither LSM_OK nor LSM_BUSY), neither branch of
  `lsm_shared.c:1280-1313` runs, and the call returns with DMS1 locked SHARED. The
  connection is not in a transaction, so nothing gives the lock up until it calls
  again or closes, and nobody can connect or leave. `RoTest` with `TestFails = TRUE`
  does this, and `connect_data` has it; there
  `mLock[r][DMS1] # Unlock ~> mLock[r][DMS1] = Unlock` is violated.

LsmTree and LsmBtree:

- `lsmTreeRepair()` works on the caller's header, which may be older than the
  published one (`lsm_tree.c:1337`, `1359`): it zeroes pointers of committed
  transactions, and the call then returns LSM_BUSY. `Conn = Writers = {w, x}`,
  `Room = 1`, `MaxChunk = 4`, `Levels = 1`, `MaxWrite = 3` reaches it ("lost").
- A reader that starts while a write transaction that discarded the flushed old
  tree is open records in its slot the published `iUsedShmid`, the first chunk
  of that old tree. The writer may have recycled that chunk already, and
  the id then names no chunk. `isInUse()` spares a chunk only for slots of its id
  or a newer one (`lsm_shared.c:1543`), so when the tree that is live now has been
  made old, flushed and discarded, its chunks are recycled under the reader's
  lock. `Conn = {w, r}`, `Writers = {w}`, `Mortal = {}`, `Room = 1`, `MaxChunk =
  6`, `Levels = 1`, `MaxWrite = 5`, `MaxTrans = 4`, `MaxDeath = 0`:
  `TreeReaderIntact` without its condition `c \notin stale`, after 7.7 million
  states. The property is about readers whose slot names a chunk.
- `treeRepairList()` stores behind its array when the number of chunks is one
  more than a power of two and nothing was recycled (`lsm_tree.c:1313`).
- A writer that dies after a rollback of two or more recycled chunks leaves ids
  in reversed order; the check of the list then gives LSM_CORRUPT.
- `isInUse()` may lock, clear and unlock the writer's own slot.
- An old tree made when the last id is 0 has `iOldShmid` 0, which stands for "no
  old tree" (`lsm_tree.c:1087`): it is forgotten. The model reaches this, after
  2^32 chunks.
- `lsmTreeCursorPrev()` writes `aiCell[-1]` at the end of the tree; the value
  is not used.

LsmSorted:

- LSM_SEEK_GE for a key between the last merged key and the split key misses
  keys (`lsm_sorted.c:1958`); a small program linked with the engine shows it.
  `SeeksMatchMap` leaves this gap out (`InGap`).
- LSM_SEEK_LE whose search in a right run ends on the start of a range delete
  below the split key drops it, and may stop at a deleted key;
  `SeeksMatchMap` has the searches that end above the key (seen in the model
  only).
- `mcursorRestore()` (`lsm_sorted.c:2936`) finds its place after a write by a GE
  seek, whatever the direction of the cursor (read, not modelled).

## Proofs

The theorems hold for any number of connections, processes, slots, blocks, ids
and attempts; they assume no more of the constants than the named assumptions of
the modules (`ConnAssumption`, `BoundAssumption`, `NoneAssumption`,
`ConnectAssumption`, `LogAssumption`, `TreeAssumption`).

### Snapshots: LsmSnapshotProofs

| theorem | statement | hypotheses |
|---|---|---|
| `TypeCorrect` | `Spec => []TypeOK` | none |
| `LockedReaderSafe` | `Spec => []LockedReaderIntact`: a lock on a slot protects the snapshot's blocks | `~MachineFails`, `~OrphanDeaths` |
| `ReadsStartCurrent` | `Spec => ReadsCurrentSnapshot`: contents, and not only the id | the same |
| `PublishedOnlyGrows` | `Spec => PublishedMonotone`: what `lsmCheckpointLoadWorker()` makes of the two copies only moves forward | `~MachineFails` |

`~MachineFails`: processes die, the machine does not. What
it takes to get past a failure of the machine is the next section's subject.
`~OrphanDeaths`: no process dies between the two copies of
`lsmCheckpointSaveWorker()`, where both statements are false ([above](#what-was-found)).
Processes die at all other places, and the two unlocked reads of
`lsmCheckpointLoad()` are as far apart as one likes. `PublishedOnlyGrows` needs no
such hypothesis: it is about those who have the WORKER lock, not about what a reader
may come back with, which does go back.

`LockedReaderIntact` is not inductive. Its strengthening `ReaderInv` has nine
parts:

- `TypeOK`, `RoleOK`: types; who holds which lock at which label.
- `LockOK`: an exclusive lock excludes all others, and the places that write a
  slot hold one.
- `SlotOK`: a slot that is locked and not zero has an id no larger than the
  snapshot it was locked for. This is why the second look in `lsmReadlock()` is
  needed, and why a smaller id in a slot is good enough.
- `ShmOK`: the copy the worker is not writing is complete, the second copy is
  equal or newer, and the worker's snapshot continues the published one.
- `OrphanFree`: two complete copies that differ are the work of a worker that is
  alive, between the one and the other.
- `CopyOK`: every copy of a snapshot that somebody may use, or that is on a meta page,
  is no newer than `Newest` (`aSnap2` if complete, else `aSnap1`), and equal to the
  one in shared memory with its id. `Newest` is the most `lsmCheckpointLoad()` can
  come back with, whatever it saw of `aSnap1` and when. With `OrphanFree` it only
  moves forward, so an id somebody has seen is never used for another
  snapshot. This is what a death between the two copies destroys.
- `DataOK`: for a locked snapshot, every block is still used by `Newest`
  and the worker's snapshot, or was freed no earlier than it.
- `ScanOK`: what the scan over the slots has found so far bounds the ids of all
  readers it has passed. A reader that locks a slot behind the scan is safe since
  it re-checks that its snapshot is current, and `inUse` never exceeds the id of
  the worker's snapshot.

The proof has one lemma per part (`TypeStep`, `RoleStep`, `LockStep`,
`ShmStep`, `OrphanStep`, `SlotStep`, `CopyStep`, `ScanStep`, `BlocksStep`) with one
step per action. `PublishedOnlyGrows` needs only `TypeOK`, `RoleOK`, `LockOK` and
`ShmOK` (`WorkerInv`), which hold wherever workers die.

### Checkpoints: LsmCheckpointProofs

| theorem | statement | hypotheses |
|---|---|---|
| `FreelistAccounted` | `Spec => []FreelistComplete` | none |
| `CheckpointOnlyGrows` | `Spec => CheckpointMonotone` | none |
| `CheckpointSafe` | `Spec => []CheckpointIntact` | one maintainer |
| `LockedReaderSurvives` | `Spec => []LockedReaderIntact` | one maintainer |

The machine may fail in all four. The first two are about any number of workers
and checkpointers, all of which may die anywhere. Their invariant `FileInv` says
that both copies in shared memory, and every snapshot that is being built, being
copied to a page or on a page, have a positive id and a complete free list
(`ListsOK`), orphans included, that the announced
page is complete, that a checkpoint under way is newer than it, and that it is on
the other page once synced (`AnnouncedOK`).

"One maintainer" (`OneMaintainer`) is: one connection does all the work and writes
all the checkpoints, and does not die alone. It cannot be dropped. Where the first
checkpoint is complete on its page and not yet announced, or `iMetaPage` changes
between the two reads of `lsmCheckpointSynced()`, a worker in another connection
(or the successor of a dead one) takes its own id for `inUse` and recycles blocks of
that checkpoint: see [above](#what-was-found).

`MaintInv` adds to `ReaderInv` and `FileInv` that

- the page that is not announced is older, or is the copy about to be announced
  (`PagesOK`), so recovery finds the announced checkpoint or that copy, and the
  ids of the pages differ;
- the checkpoint under way is a copy of the current snapshot, and its blocks are
  synced before its page is written (`CopyingOK`);
- the announced checkpoint is intact, synced, and each of its blocks is still used
  or was freed no earlier than it (`AnnouncedHeld`);
- while the worker scans, `inUse` is at most the id of the announced checkpoint
  (`InUseOK`).

The last two theorems need no `~OrphanDeaths`: the maintainer does not die alone, and
nobody else saves snapshots.

With this `ReaderInv`, which `LsmSnapshotProofs` proves between failures, holds
again after recovery (`CrashMaint`), which is the fourth theorem.

### The log: LsmLogProofs

| theorem | statement | hypotheses |
|---|---|---|
| `TreesStayUntilFlushed` | `Spec => []NothingDropped` | `FlushAlone`, `[]CheckpointCovered` |
| `LogRegionsOrdered` | `Spec => []RegionsOrdered` | `LogConfig`, `[]CheckpointCovered`, `RecoveryShape` |
| `CheckpointsInLog` | `Spec => []CheckpointInLog` | the same |

They hold for any number of transactions, wraps, jumps, flushes, checkpoints and
failures, any log size and block size of the reader, in FULL and NORMAL. Two
kinds of hypotheses are left.

What recovery finds. `lsmLogRecover()` is a recursive function that reads a file
of any length twice, and what such a function computes is out of the prover's reach.
So the theorems take two facts about it, which `log_wrap` checks on its instance:
`CheckpointCovered` (what a checkpoint holds is a part of the database, so
recovery never finds less) and `RecoveryShape` (recovery leaves the regions in
order). The second fails in the code for a region 0 shorter than a read block, which was
met in the search for the invariant ([above](#what-was-found)): where the
assertion does not hold, it is recovery that broke it, and the theorem says that
nothing else does.

Which configurations. `FlushAlone`: `lsm_flush()` does not meet another worker,
since it drops the trees though its flush failed. `LogConfig`: the log is on,
transactions are not nested, and there is no `lsm_flush()`, which stores wrong
offsets, while the rollback of a savepoint loses a jump (see
[above](#what-was-found)). With `lsm_flush()` and nested transactions, the first
theorem still holds.

`NothingDropped` is not inductive: the code recognises a flushed tree by the
offset and the toggled bit that it shares with the snapshot. `DropInv` adds that
the counts of what has left memory fit (`TreeCounts`), that an old tree that
carries the snapshot's offset and bit is in it (`OldIdentified`), that a writer's
copy of the tree has this too, through `lsm_flush()` and rollback (`WriterTree`),
and that a writer's client snapshot, which may be an earlier one, has the current
bit as long as there is no old tree, so that the next old tree gets the other one
(`ClientBit`).

`RegionInv` says where the four offsets that matter lie: that of the checkpoint
the log was last cut at, of the newest checkpoint, of the snapshot, and of the old
tree. In the order of the regions they follow one another, each in one of the
regions, as far as the log has not been cut beyond them (`LogChain`). A cut at one
of them keeps the later ones, which is `CheckpointInLog` for the next cut.
`WriterAhead` says that the writer appends to region 2, before region 0 or after a
jump behind it, and `HasCommit` that a transaction that ends has written something,
so that the offset of an old tree is never that of its predecessor. After the last
`lsm_close()`, when the old tree stays behind while the log is cut, the
weaker `ClosedLog` takes the place of `LogChain` until the log is deleted.

### The log implements LsmDurable: LsmDurableProofs

| theorem | statement | hypotheses |
|---|---|---|
| `LogImplementsDurable` | `Spec => DurableSpec` | `Full => UseLog`, `RecoveryDurable` |
| `CheckpointsCovered` | `Spec => []CheckpointCovered` | `RecoveryKeeps` |

The refinement mapping is the identity on `db`, `stored`, `pend`, `doubt` and
`outages`. Records of the log, savepoints and their rollback are `Change`,
`lsmFinishWriteTrans()` is `Commit`, a writer that dies between its COMMIT record
and the published header is `Abandon`, `lsmCheckpointWrite()` and the last
`lsm_close()` are `Checkpoint`, and reading, flushing and `lsm_work()` stutter. They
hold for transactions nested to any depth, with `lsm_flush()`, in FULL and NORMAL;
only in FULL without a log is a commit not what `LsmDurable` promises.

What a recovery step does is a hypothesis again. `RecoveryDurable` says that it is
a step of `LsmDurable`; it is the part of `DurableSpec` that stays with the runs
`log_wrap` and `log_nested`. `RecoveryKeeps`, that it finds transactions and at
least `stored` of them, is weaker (`DurableKeeps`) and holds without a log
too, when recovery goes back to the checkpoint. With the second theorem, the
hypothesis `[]CheckpointCovered` of the theorems of LsmLogProofs comes down to
`RecoveryKeeps`.

`CheckpointCovered` is not inductive: a checkpoint takes its count from the snapshot,
the snapshot from the old tree or from the writer's copy of it. `DurInv` follows the
counts back: `ckpt.upto <= stored <= Len(db)`, and the snapshot, the published
tree and the tree of a connection in a transaction hold no more than is committed
(`Covered`). `MarksOk` says that each mark leaves a part of the transaction, so
that a rollback to it does, and a transaction past `lsmLogCommit()` is not empty,
so that `Abandon` and `Commit` may happen. TLC checked `Covered` and both
hypotheses on the instances of `log_wrap` and `log_nested`, and `Covered` and
`RecoveryKeeps` on that of `log_unlogged`.

### Locks: LsmConnectProofs

All of this section and the next is under the hypothesis `~TestFails`: the lock test of
`lsmBeginRoTrans()` does not fail with an I/O error. If it does, a read-only
connection keeps DMS1 where the code has no use for it ([above](#what-was-found)),
and the invariant's account of who holds what (`HeldOK`) does not hold.
`connect_data` checks the properties of the next section with such errors too.

| theorem | statement |
|---|---|
| `ConnectTypeOK` | `Spec => []TypeOK` |
| `LockManagerCorrect` | `Spec => []LocksBacked`: the POSIX lock of a process is the strongest of its connections' locks, and no two connections hold conflicting ones |
| `ConnectOneAtATime` | `Spec => []ConnectSerialized`: one connection at a time is inside `doDbConnect()` or `doDbDisconnect()` |
| `RecoveryComesFirst` | `Spec => NoRecoveryWhileConnected`: shared memory in use is not cleared |

`LocksBacked` is not inductive: whether a lock may be dropped depends on where
the connection is. The strengthening `ConnectInv` has six parts:

- `TypeOK`, `CountsOK`: types; no checkpoint, log or shared memory is ahead of
  the commits. The type of `path` needs that there is always a file number left,
  by a count of the processes (`FreshInodeOf`, a pigeonhole argument, for which
  `Conn` is assumed finite).
- `HeldOK`: which locks a connection holds at each place, and how.
- `LocksOK`: the lock of a process covers those of its connections; a process in
  single-process mode has only DMS2, exclusively, from its first `lsm_open()`
  on; processes do not conflict in the file, connections of one process do not
  conflict in the list. The first is what the rule of `nShared` in
  `lsmShmLock()` is for.
- `MemoryOK`: a connection uses the memory of its process, and no other process
  has the heap memory of one in single-process mode.
- `RecoverAlone`: while a connection recovers, no other has DMS2; the exception,
  a single-process client, has memory of its own.

`HeldOK` is proved with the lemma `RoLocksGranted`: the model lets
`lsmBeginRoTrans()` take ROTRANS and DMS3 without a test, and the lemma says that
nobody ever has a lock that would refuse them.

### Commits: LsmCommitProofs

| theorem | statement |
|---|---|
| `CommitsSurvive` | `Spec => []CommitsRecoverable` |
| `ConnectedUpToDate` | `Spec => []ConnectedSeesCommits` |
| `RoTransProtected` | `Spec => []RoTransIntact` |

Here all writers are connections of one process `W` (`RW \subseteq W`), beside any
number of processes with read-only connections. With writers in two processes
the code does lose commits (see [above](#what-was-found)). The third theorem also
assumes that `W` is not in single-process mode, or has the read-only connections
too: otherwise no lock of the file tells the two apart.

`CommitInv`, on top of `ConnectInv`, says that the memory of `W` is the file that
the path names, as long as it is mapped, and is either cleared or has every commit
(`SeesOK`); that checkpoint or log have every commit, and that no block or part of
the log the last checkpoint needs was given up (`KeptOK`); and that the last
connection, once it flushes, is the only one with DMS2 and with the log open
(`LastOK`). The last is what makes it safe to delete the log: `OneInside` excludes
clients that connect, the test of DMS2 those that are still leaving.
`RoOK` says for each read-only transaction that no writer is between looking
for ROTRANS and overwriting, since there was none when the lock was taken and
`RoSeen` lets no writer pass the test later.

### The list of chunks: LsmTreeProofs

| theorem | statement |
|---|---|
| `TreeTypes` | `Spec => []TypeOK`: the writer never passes the chunk the trees begin in, so its list is never empty |
| `TreeChunksLinked` | `Spec => []ChunksLinked`: whenever no transaction is open the chunks form one list in the order of their ids |

They hold for any number of connections, writers and mortal processes, nested
transactions, inserts, chunks and cells of a chunk, and with ids that wrap any
number of times. `TreeAssumption` has the code's proportion of the ids (2^32) to
`LSM_MAX_SHMCHUNKS` (2^30), and takes the chunks in memory (`MaxChunk`) to be at
most half of the latter, so that ids in use together are compared the right way
round.

`Inv` measures every id by its signed distance (`Rel`) from the `iNextShmid` of
the header that recovery would take (`Good`): the committed trees use negative
distances, the open transaction the others. It says

- of the published header (`Committed`): it writes to the chunk with distance -1,
  and `iUsedShmid` is the id of one of its chunks. More cannot be said while a
  transaction is open, nor after its writer has died;
- of the open transaction (`Writable`): the chunks have all the ids from the
  first one's to `iNextShmid` - 1, each once (`Places1`), and are linked in that
  order (`Chain`) except, for one step, in front of the newest; the first is not
  passed by `iUsedShmid`;
- of a mark (`MarkAbove`): the chunks with smaller ids are those it counts;
- of a rollback (`RollingBack`): the rest of the list, from the mark on, is still
  linked, and as many chunks have gone to the front as ids are missing there. That
  the list fills the ids again when the rest is used up is a pigeonhole argument
  (`RestoreList`);
- of a repair: a writer that died leaves `Committed` and nothing else. That
  `treeRepairList()` links every chunk is checked by the code itself, in
  `treeCheckLinkedList()`, which does not look at `iNextShmid`; the proof shows
  (`RepairPasses`) that a list that passes ends at the id before it.

The proof has lemmas about the wrapping arithmetic (`RelAdd`, `RelSequence`, ...),
one about the list for each way it changes (`RecycleList`, `AppendList`,
`LinkList`, `CutList`, `FreeList`, ...), and one for each action.

### The trees in memory: LsmTreeReadProofs

| theorem | statement |
|---|---|
| `TreeCommittedIntact` | `Spec => []CommittedIntact`: the published header describes memory that holds its trees, through the next transaction, its rollback, the death of its writer and the repair |
| `TreeReadersIntact` | `Spec => []TreeReaderIntact`: a reader that holds the lock on its slot reads its version of the trees for as long as it likes |

They hold for the same constants as those about the list, and rest on its
invariant `Inv`. `CommittedIntact` and `TreeReaderIntact` are not inductive: they
say what is seen through a header, and nothing of where it is, nor of what the
writer is about to change. `MemInv` adds that, with four ideas:

- `Region(ch, n, L, w)`: the cells written in the chunks from tree id `L` on up to
  the write position `w`. A tree (`Tree`) of version `t` has its node, and all
  leaves that version reaches, in a region. The published header's tree is in the
  region from the id where its live tree begins (`LiveUsed`), that of a reader in
  the region from the id of its slot. `isInUse()` and the test of `iUsedShmid`
  in `treeShmalloc()` recycle only a chunk that is in neither (`CommittedTree`,
  `ShmallocChunkMem`), and what the writer allocates is beyond both (`AllocNew`).
- `Clear(r, t)`: the v2 pointers that can still be set in node `r`, cleared or
  repaired are newer than version `t`. These are the pointers in the nodes the
  open transaction, its marks and its rollback list name (`WorkRoots`), and, after
  a death, in the root of the published header. Since `getChildPtr()` looks at a
  v2 pointer only from its version on, version `t` does not change (`SameVersion`).
- `MarkMem(k)`: the node of mark `k`, with the v2 pointers set since the mark
  taken out (`MarkCell`), shows what the mark's transaction had written. So
  `lsmTreeRollback()` finds every tree it returns to as it was, at any level. It
  needs that a node is on the rollback list at most once (`RollbackInv`).
- `SnapInv`: headers are published in the order of (`iOldLog`, `trans`), so that a
  reader that finds its header unchanged (the test after `lsmReadlock()`) has the
  newest one, and the slot it locked protects all of it (`GoodSeen`).

While a commit publishes its header in two copies, both trees are described
(`EndMem`). A repair (`RepairMem`) clears a v2 pointer newer than the header, and
gives new ids to chunks: those a dead writer took, and sometimes the first of the
list. `RepairKeeps` shows that the chunks with committed trees keep theirs when
the list passes `treeCheckLinkedList()`: an id that was given to the first chunk
although it had one would be missing from the list, by another pigeonhole
argument (`PlaceTaken`).

`Inv` and `MemInv` were checked with TLC on the instance of `tree_shm` first.

### What is only model-checked

- Liveness (`ReadTransReturns`, `DMS1Released`), which is out of the prover's
  reach.
- What recovery finds (`RecoveryDurable`, `RecoveryKeeps`, `RecoveryShape`), which
  rests on the recursive functions that read the log back.
- LsmBtree and LsmSorted, whose algorithms are recursive operators, for which
  the prover has no induction.

## Abstractions and limits

- LsmSnapshot: tree versions are numbers. An incomplete copy of a snapshot has
  the old or the new contents and a bad checksum. Redirects, `lsm_reclaim` and
  truncation are left out.
- LsmLog: records are cells and all different; bytes, padding to 8 and to
  sectors, and record sizes are left out, so `nReq + 17` becomes "a record and a
  JUMP". A checksum is the sequence of what it covers, so collisions are out of
  scope. One connection writes at a time (WRITER), snapshots are replaced one at
  a time (WORKER), a checkpoint is one step here. I/O errors are left out, and
  so are transactions without a record.
- A transaction whose commit did not return may appear after a failure, even
  after a second one, as long as its records are in the log: that is why
  `LsmDurable` keeps the set `doubt`.
- The operating system may write any part of unsynced data, cell by cell; a
  torn cell counts as not written, since its checksum does not hold.
- LsmConnect: commits are counted, and a commit is one step; the machine does
  not fail here (LsmLog has that). The only call that may fail with an I/O error is
  the lock test of `lsmBeginRoTrans()`; how connect and disconnect clean up after
  one is not modelled. Threads of one process take turns at the
  mutexes `pGlobal` and `pClientMutex`, which make each locked region a step.
- LsmTree: a leaf or a node fills one cell; keys and the shape of the tree are
  LsmBtree's. Loading a header and locking a slot are two steps; the steps within
  `lsmReadlock()` are LsmSnapshot's.
- LsmSorted: pages, the b-tree of a run, separators, free-list entries and
  pointers between runs are left out, since they only find the page. Seeks are
  checked on new cursors; writes under an open cursor are not modelled.

Not modelled, and why:

- libSQL and the SQLite4 front end (parser, code generator, virtual machine) are
  third-party SQL engines. They are by far most of the lines of the repository;
  the models cover the storage engine that the repository is about, and so only
  a small share of all lines.
- DiskANN (`vector*.c`): the search is floating-point distances over a graph,
  which TLC cannot represent faithfully. The bookkeeping of edges in key-value
  records could be modelled.
- The page cache, redirects and block moves of `lsm_file.c`, the page budget of
  `doLsmSingleWork()`, `lsm_info`, `lsm_config`.
- `lsm_mem.c`, `lsm_mutex.c`, `lsm_str.c`, `lsm_varint.c`: utilities without
  state that outlives a call. The benchmark drivers and `compact_db.c` are
  sequences of calls.

## Plan

1. LsmLog: errors of log writes and syncs in `lsm_commit()`; a byte-count model
   of where checksums are written and required.
2. Redirects and `lsm_reclaim`; cursors that are restored after a write; the
   edge bookkeeping of DiskANN.
