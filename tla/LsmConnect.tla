----------------------------- MODULE LsmConnect -----------------------------
(***************************************************************************)
(* Connecting to an LSM database and disconnecting from it (lsm_open() and *)
(* lsm_close(), LSMoVe/src/lsm_shared.c), the read transactions of         *)
(* read-only connections, and the lock manager underneath: lsmShmLock()    *)
(* with a list of connections for each process and one POSIX lock for each *)
(* process on each byte of the database file (LSMoVe/src/lsm_unix.c).      *)
(*                                                                         *)
(* A process is the set of its connections.  The first to connect sets the *)
(* shared memory up from the last checkpoint and the log; the last to      *)
(* disconnect writes a checkpoint and deletes the log and the file of the  *)
(* shared memory.  The contents of the database are counted in commits:    *)
(* the checkpoint holds the first ckpt of them, the log those up to log.   *)
(* What the files hold is LsmLog's and LsmSnapshot's matter.               *)
(***************************************************************************)
EXTENDS Integers, FiniteSets, FiniteSetsExt

CONSTANTS
  RW,              \* read-write connections
  RO,              \* read-only connections (LSM_CONFIG_READONLY)
  Procs,           \* processes: each the set of its connections
  Single,          \* processes with LSM_CONFIG_MULTIPLE_PROCESSES off
  Mortal,          \* processes that may be killed
  TestFails,       \* whether the lock test of lsmBeginRoTrans() may fail with
                   \* an I/O error
  NRwclient,       \* LSM_LOCK_NRWCLIENT
  MaxCommit        \* bound: commits

Conn == RW \cup RO

ASSUME ConnectAssumption ==
  /\ IsFiniteSet(Conn)
  /\ RW \cap RO = {}
  /\ UNION Procs = Conn
  /\ \A P, Q \in Procs : P # Q => P \cap Q = {}
  /\ {} \notin Procs
  /\ Single \subseteq Procs
  /\ Mortal \subseteq Procs
  /\ TestFails \in BOOLEAN
  /\ NRwclient \in Nat \ {0}
  /\ MaxCommit \in Nat

Proc(c) == CHOOSE P \in Procs : c \in P
MultiProc(P) == P \notin Single

\* lsmInt.h: lock numbers.  RWCLIENT(0) follows the six READER locks.
DMS1 == 1
DMS2 == 2
DMS3 == 3
ROTRANS == 7
NReader == 6
RWCLIENT(i) == ROTRANS + 1 + NReader + i
Rwclients == {RWCLIENT(i) : i \in 0..(NRwclient - 1)}
Locks == {DMS1, DMS2, DMS3, ROTRANS} \cup Rwclients

Unlock == 0
Shared == 1
Excl   == 2
Modes == {Unlock, Shared, Excl}

\* Files of the shared memory: the one the path names, and those that were
\* unlinked while a process had them mapped.
Inodes == 1..(Cardinality(Procs) + 1)
None == 0
Zeroed == -1       \* contents: no valid header

VARIABLES
  mLock,           \* lsm_db.mLock: the lock a connection has on each byte
  flock,           \* the POSIX lock a process has on each byte
  pc,              \* what a connection is doing
  path,            \* the file "-shm" names, or None
  shm,             \* contents of each such file: the commits in its tree
  chunk,           \* Database.apShmChunk[0] of a process, or None
  mapped,          \* whether that memory is still mapped
  ptr,             \* lsm_db.apShm[0] and pShmhdr of a connection, or None
  logfd,           \* FileSystem.fdLog of a connection: "none", "linked" or
                   \* "unlinked"
  ckpt,            \* commits in the last checkpoint
  log,             \* the last commit in the log; 0 when there is no log
  oldest,          \* the oldest checkpoint whose blocks are intact
  logFrom,         \* the oldest one whose part of the log is
  iSynced,         \* lsmBlockAllocate(): the checkpoint a connection goes by
  bReadonly,       \* doDbDisconnect(): DMS3 was busy
  roCkpt, roData,  \* a rotrans transaction: the checkpoint read, the commits
  roBegan,         \* and the commits there were when it took ROTRANS
  roAlone,         \* those that took it with no read-write client connected
  acked            \* commits acknowledged to clients

lockVars == <<mLock, flock>>
shmVars  == <<path, shm, chunk, mapped>>
dbVars   == <<ckpt, log, oldest, logFrom, acked>>
roVars   == <<roCkpt, roData, roBegan, roAlone>>
connVars == <<ptr, logfd, bReadonly, iSynced>>
vars == <<lockVars, shmVars, dbVars, roVars, connVars, pc>>

-----------------------------------------------------------------------------
(* The lock manager *)

\* The connections of the process of c on Database.pConn, without c.
Others(c) == {d \in Proc(c) \ {c} : pc[d] # "closed"}

Conflict(m, e) == m # Unlock /\ e # Unlock /\ Excl \in {m, e}

\* lsmPosixOsLock(): no other process has a conflicting lock on byte l.
FileFree(P, l, e) == \A Q \in Procs \ {P} : ~Conflict(flock[Q][l], e)

\* Mutant: what lsmPosixOsLock() returns is not looked at.
LockOkInProcess(c, l, e) ==
  \A d \in {x \in Others(c) : mLock[x][l] # Unlock} : ~Conflict(mLock[d][l], e)

\* lsmShmLock(): whether it returns LSM_OK.
LockOk(c, l, e) ==
  LET P == Proc(c)
      held == {d \in Others(c) : mLock[d][l] # Unlock}
  IN  /\ \A d \in held : ~Conflict(mLock[d][l], e)
      /\ MultiProc(P) /\ (e = Excl \/ held = {}) => FileFree(P, l, e)

\* Mutant: a connection drops the lock of the process with its own.
FileAfterAlone(c, l, e) ==
  IF ~MultiProc(Proc(c)) \/ e = mLock[c][l] THEN flock[Proc(c)][l] ELSE e

\* lsmShmLock(): the lock of the process once c has lock e on l.
FileAfter(c, l, e) ==
  LET P == Proc(c)
      nShared == Cardinality({d \in Others(c) : mLock[d][l] = Shared})
  IN  IF \/ ~MultiProc(P)
         \/ e = mLock[c][l]
         \/ e # Excl /\ nShared > 0
      THEN flock[P][l] ELSE e

\* lsmShmLock(): c takes (or drops) the locks of change, a function from
\* lock numbers to modes.
ShmLock(c, change) ==
  /\ mLock' = [mLock EXCEPT ![c] = [l \in Locks |->
                 IF l \in DOMAIN change THEN change[l] ELSE @[l]]]
  /\ flock' = [flock EXCEPT ![Proc(c)] = [l \in Locks |->
                 IF l \in DOMAIN change THEN FileAfter(c, l, change[l]) ELSE @[l]]]

Take(c, l, e) == ShmLock(c, [k \in {l} |-> e])
Drop(c, S) == ShmLock(c, [k \in S |-> Unlock])

\* lsmPosixOsTestLock(): the n bytes tested start at 4096-i, the byte of
\* lock i, and go on to the bytes of the locks below it.
TestRange(i, n) == {l \in Locks : i - n < l /\ l <= i}

\* Mutant: the connections of the same process, whose POSIX locks are the
\* caller's own, are forgotten.
TestLockFile(c, i, n, e) ==
  MultiProc(Proc(c)) => \A l \in TestRange(i, n) : FileFree(Proc(c), l, e)

\* lsmShmTestLock(): within the process, only lock i is looked at.
TestLock(c, i, n, e) ==
  /\ \A d \in Others(c) : ~Conflict(mLock[d][i], e)
  /\ MultiProc(Proc(c)) => \A l \in TestRange(i, n) : FileFree(Proc(c), l, e)

\* Mutant: only transactions of the same process are seen.
DetectRoTransHere(c) == \E d \in Others(c) : mLock[d][ROTRANS] # Unlock

\* lsmDetectRoTrans()
DetectRoTrans(c) == ~TestLock(c, ROTRANS, 1, Excl)

-----------------------------------------------------------------------------
(* Shared memory *)

\* A file that no path names and nobody has mapped.
FreshInode ==
  CHOOSE i \in Inodes : i # path /\ \A P \in Procs : chunk[P] # i

\* The memory that c uses is there, and holds a valid header.
Usable(c) == ptr[c] # None /\ mapped[Proc(c)]
HeaderOk(c) == Usable(c) /\ shm[ptr[c]] # Zeroed

\* lsmShmCacheChunks(1): the first connection of a process to ask maps the
\* file, and creates it if need be; the others take the pointer it left in
\* apShmChunk.  In single-process mode it is memory from the heap.
CacheChunks(c) ==
  LET P == Proc(c)
      i == IF chunk[P] # None THEN chunk[P]
           ELSE IF MultiProc(P) /\ path # None THEN path
           ELSE FreshInode
  IN  /\ ptr' = [ptr EXCEPT ![c] = i]
      /\ chunk' = [chunk EXCEPT ![P] = i]
      /\ mapped' = [mapped EXCEPT ![P] = chunk[P] # None => @]
      /\ shm' = IF i = chunk[P] \/ i = path THEN shm ELSE [shm EXCEPT ![i] = Zeroed]
      /\ path' = IF MultiProc(P) /\ chunk[P] = None THEN i ELSE path

\* The memory of everything the connections in S kept.
Reset(S) ==
  /\ ptr' = [c \in Conn |-> IF c \in S THEN None ELSE ptr[c]]
  /\ logfd' = [c \in Conn |-> IF c \in S THEN "none" ELSE logfd[c]]
  /\ bReadonly' = [c \in Conn |-> c \notin S /\ bReadonly[c]]
  /\ iSynced' = [c \in Conn |-> IF c \in S THEN 0 ELSE iSynced[c]]
  /\ roCkpt' = [c \in Conn |-> IF c \in S THEN 0 ELSE roCkpt[c]]
  /\ roData' = [c \in Conn |-> IF c \in S THEN 0 ELSE roData[c]]
  /\ roBegan' = [c \in Conn |-> IF c \in S THEN 0 ELSE roBegan[c]]
  /\ roAlone' = roAlone \ S

\* lsmDbDatabaseRelease(): c gives up the locks in S and leaves the list; any
\* other lock it had stays with the process.  The last connection of a process
\* closes the files, which drops the POSIX locks, and unmaps the memory.
Release(c, S) ==
  LET P == Proc(c)
      last == Others(c) = {}
  IN  /\ pc' = [pc EXCEPT ![c] = "closed"]
      /\ mLock' = [mLock EXCEPT ![c] = [l \in Locks |-> Unlock]]
      /\ flock' = [flock EXCEPT ![P] = [l \in Locks |->
                     IF last THEN Unlock
                     ELSE IF l \in S THEN FileAfter(c, l, Unlock) ELSE @[l]]]
      /\ chunk' = [chunk EXCEPT ![P] = IF last THEN None ELSE @]
      /\ mapped' = [mapped EXCEPT ![P] = ~last /\ @]
      /\ Reset({c})
      /\ UNCHANGED <<path, shm, dbVars>>

Goto(c, l) == pc' = [pc EXCEPT ![c] = l]

-----------------------------------------------------------------------------
(* lsm_open() of a read-write connection: lsmDbDatabaseConnect() and       *)
(* doDbConnect()                                                           *)

\* The first connection of a single-process process locks the others out.
Open(c) ==
  LET P == Proc(c)
      locks == Others(c) = {} /\ ~MultiProc(P)
  IN  /\ pc[c] = "closed"
      /\ locks => FileFree(P, DMS2, Excl)
      /\ flock' = [flock EXCEPT ![P][DMS2] = IF locks THEN Excl ELSE @]
      /\ Goto(c, IF c \in RW THEN "cache" ELSE "idle")
      /\ UNCHANGED <<mLock, shmVars, dbVars, roVars, connVars>>

ConnectCache(c) ==
  /\ pc[c] = "cache"
  /\ CacheChunks(c)
  /\ Goto(c, "dms1")
  /\ UNCHANGED <<lockVars, dbVars, roVars, logfd, bReadonly, iSynced>>

\* Until the lock is free, the loop sleeps and tries again.
ConnectLock(c) ==
  /\ pc[c] = "dms1"
  /\ LockOk(c, DMS1, Excl)
  /\ Take(c, DMS1, Excl)
  /\ Goto(c, "test")
  /\ UNCHANGED <<shmVars, dbVars, roVars, connVars>>

\* "Try an exclusive lock on DMS2/DMS3": the first connection clears the
\* shared memory and goes on to recovery.
ConnectTest(c) ==
  LET first == TestLock(c, DMS2, 2, Excl)
  IN  /\ pc[c] = "test"
      /\ first => Usable(c)
      /\ shm' = IF first THEN [shm EXCEPT ![ptr[c]] = Zeroed] ELSE shm
      /\ Goto(c, IF first THEN "recover" ELSE "dms2")
      /\ UNCHANGED <<lockVars, path, chunk, mapped, dbVars, roVars, connVars>>

\* Mutants: the log is not read, or is replayed over a checkpoint that holds it.
RecoveredCkpt == ckpt
RecoveredTwice == ckpt + log

\* lsmCheckpointRecover() and lsmLogRecover()
Recovered == Max({ckpt, log})

ConnectRecover(c) ==
  /\ pc[c] = "recover"
  /\ Usable(c)
  /\ shm' = [shm EXCEPT ![ptr[c]] = Recovered]
  /\ logfd' = [logfd EXCEPT ![c] = "linked"]
  /\ Goto(c, "dms2")
  /\ UNCHANGED <<lockVars, path, chunk, mapped, dbVars, roVars, ptr, bReadonly, iSynced>>

\* The lock on DMS2, and the first free RWCLIENT lock if there is one.
FreeRwclients(c) == {l \in Rwclients : LockOk(c, l, Excl)}
ConnectLocks(c) ==
  IF FreeRwclients(c) = {} THEN [l \in {DMS2} |-> Shared]
  ELSE [l \in {DMS2, Min(FreeRwclients(c))} |-> IF l = DMS2 THEN Shared ELSE Excl]

ConnectDms2(c) ==
  /\ pc[c] = "dms2"
  /\ IF LockOk(c, DMS2, Shared)
     THEN ShmLock(c, ConnectLocks(c)) /\ Goto(c, "connected")
     ELSE UNCHANGED lockVars /\ Goto(c, "fail")
  /\ UNCHANGED <<shmVars, dbVars, roVars, connVars>>

ConnectUnlock(c) ==
  /\ pc[c] = "connected"
  /\ Drop(c, {DMS1})
  /\ Goto(c, "open")
  /\ UNCHANGED <<shmVars, dbVars, roVars, connVars>>

\* Single-process mode elsewhere: lsm_open() fails, and the handle is closed.
ConnectFail(c) ==
  /\ pc[c] = "fail"
  /\ Release(c, {DMS1})

-----------------------------------------------------------------------------
(* What an open read-write connection does *)

\* A write transaction.  lsmLogBegin() opens the log file if it is not open.
Commit(c) ==
  /\ pc[c] = "open"
  /\ HeaderOk(c)
  /\ acked < MaxCommit
  /\ LET n == shm[ptr[c]] + 1
     IN  /\ shm' = [shm EXCEPT ![ptr[c]] = n]
         /\ log' = IF logfd[c] = "unlinked" THEN log ELSE n
  /\ logfd' = [logfd EXCEPT ![c] = IF @ = "none" THEN "linked" ELSE @]
  /\ acked' = acked + 1
  /\ UNCHANGED <<lockVars, path, chunk, mapped, ckpt, oldest, logFrom, roVars, pc, ptr, bReadonly, iSynced>>

\* The tree is flushed and a checkpoint written.
Checkpoint(c) ==
  /\ pc[c] = "open"
  /\ HeaderOk(c)
  /\ ckpt' = shm[ptr[c]]
  /\ UNCHANGED <<lockVars, shmVars, log, oldest, logFrom, acked, roVars, pc, connVars>>

\* lsmBlockAllocate(): the last checkpoint is read first; then, unless a
\* rotrans transaction is found, a block that it does not need ...
BlockDetect(c) ==
  /\ pc[c] = "open"
  /\ HeaderOk(c)
  /\ ~DetectRoTrans(c)
  /\ iSynced' = [iSynced EXCEPT ![c] = ckpt]
  /\ Goto(c, "reuse")
  /\ UNCHANGED <<lockVars, shmVars, dbVars, roVars, ptr, logfd, bReadonly>>

\* ... is taken from the freelist and written to.
BlockReuse(c) ==
  /\ pc[c] = "reuse"
  /\ Usable(c)
  /\ oldest' = Max({oldest, iSynced[c]})
  /\ iSynced' = [iSynced EXCEPT ![c] = 0]
  /\ Goto(c, "open")
  /\ UNCHANGED <<lockVars, shmVars, ckpt, log, logFrom, acked, roVars, ptr, logfd, bReadonly>>

\* logReclaimSpace(): a rotrans transaction is looked for first ...
LogDetect(c) ==
  /\ pc[c] = "open"
  /\ HeaderOk(c)
  /\ ~DetectRoTrans(c)
  /\ Goto(c, "reclaim")
  /\ UNCHANGED <<lockVars, shmVars, dbVars, roVars, connVars>>

\* ... then the last checkpoint is read, and the log before its position may
\* be overwritten.
LogReclaim(c) ==
  /\ pc[c] = "reclaim"
  /\ Usable(c)
  /\ logFrom' = ckpt
  /\ Goto(c, "open")
  /\ UNCHANGED <<lockVars, shmVars, ckpt, log, oldest, acked, roVars, connVars>>

-----------------------------------------------------------------------------
(* lsm_close() of a read-write connection: doDbDisconnect() *)

\* DMS1 is tried once: if it is busy, c only gives its locks up.
Close(c) ==
  /\ pc[c] = "open"
  /\ IF LockOk(c, DMS1, Excl)
     THEN Take(c, DMS1, Excl) /\ Goto(c, "last")
     ELSE UNCHANGED lockVars /\ Goto(c, "release")
  /\ UNCHANGED <<shmVars, dbVars, roVars, connVars>>

DisconnectTest(c) ==
  /\ pc[c] = "last"
  /\ Goto(c, IF TestLock(c, DMS2, 1, Excl) THEN "flush" ELSE "release")
  /\ UNCHANGED <<lockVars, shmVars, dbVars, roVars, connVars>>

\* Mutant: the tree is not flushed before the log is deleted.
DisconnectNoFlush(c) ==
  /\ pc[c] = "flush"
  /\ Usable(c)
  /\ bReadonly' = [bReadonly EXCEPT ![c] = ~TestLock(c, DMS3, 1, Excl)]
  /\ Goto(c, IF HeaderOk(c) THEN "delete" ELSE "release")
  /\ UNCHANGED <<lockVars, shmVars, dbVars, roVars, ptr, logfd, iSynced>>

\* The last connection flushes the tree and writes a checkpoint; without a
\* valid header it cannot.
DisconnectFlush(c) ==
  /\ pc[c] = "flush"
  /\ Usable(c)
  /\ IF HeaderOk(c)
     THEN /\ ckpt' = shm[ptr[c]]
          /\ bReadonly' = [bReadonly EXCEPT ![c] = ~TestLock(c, DMS3, 1, Excl)]
          /\ Goto(c, "delete")
     ELSE /\ Goto(c, "release")
          /\ UNCHANGED <<ckpt, bReadonly>>
  /\ UNCHANGED <<lockVars, shmVars, log, oldest, logFrom, acked, roVars, ptr, logfd, iSynced>>

\* lsmFsCloseAndDeleteLog(), unless a rotrans transaction may read the log.
DisconnectDelete(c) ==
  LET rotrans == DetectRoTrans(c)
  IN  /\ pc[c] = "delete"
      /\ log' = IF rotrans THEN log ELSE 0
      /\ logfd' = IF rotrans THEN logfd
                  ELSE [d \in Conn |-> IF d = c THEN "none"
                                       ELSE IF logfd[d] = "linked" THEN "unlinked"
                                       ELSE logfd[d]]
      /\ Goto(c, IF rotrans \/ bReadonly[c] THEN "release" ELSE "unlink")
      /\ UNCHANGED <<lockVars, shmVars, ckpt, oldest, logFrom, acked, roVars, ptr, bReadonly, iSynced>>

\* dbTruncateFile() and lsmEnvShmUnmap(): the file is cut, the memory of the
\* process unmapped, and the shared-memory file removed.  apShmChunk[] keeps
\* the pointers.
DisconnectUnlink(c) ==
  /\ pc[c] = "unlink"
  /\ oldest' = ckpt
  /\ IF MultiProc(Proc(c))
     THEN path' = None /\ mapped' = [mapped EXCEPT ![Proc(c)] = FALSE]
     ELSE UNCHANGED <<path, mapped>>
  /\ Goto(c, "release")
  /\ UNCHANGED <<lockVars, shm, chunk, ckpt, log, logFrom, acked, roVars, connVars>>

DisconnectRwclient(c) ==
  /\ pc[c] = "release"
  /\ Drop(c, {l \in Rwclients : mLock[c][l] # Unlock})
  /\ Goto(c, "leave")
  /\ UNCHANGED <<shmVars, dbVars, roVars, connVars>>

DisconnectRelease(c) ==
  /\ pc[c] = "leave"
  /\ Release(c, {DMS1, DMS2})

-----------------------------------------------------------------------------
(* Read-only connections: lsmBeginRoTrans() and lsmFinishReadTrans() *)

\* If DMS1 is busy, LSM_BUSY is returned and nothing changes.
RoBegin(c) ==
  /\ pc[c] = "idle"
  /\ LockOk(c, DMS1, Shared)
  /\ Take(c, DMS1, Shared)
  /\ Goto(c, "roTest")
  /\ UNCHANGED <<shmVars, dbVars, roVars, connVars>>

\* "System is live!" if there is an exclusive lock in the tested range.  If
\* the test itself fails the call returns, with the lock on DMS1.
RoTest(c) ==
  /\ pc[c] = "roTest"
  /\ \/ Goto(c, IF TestLock(c, RWCLIENT(0), NReader, Shared) THEN "roDead" ELSE "roLive")
     \/ TestFails /\ Goto(c, "idle")
  /\ UNCHANGED <<lockVars, shmVars, dbVars, roVars, connVars>>

\* ROTRANS tells read-write clients not to recycle disk space.
RoTransLock(c) ==
  /\ pc[c] = "roDead"
  /\ ShmLock(c, [l \in {DMS1, ROTRANS} |-> IF l = DMS1 THEN Unlock ELSE Shared])
  /\ roBegan' = [roBegan EXCEPT ![c] = acked]
  /\ roAlone' = IF \A d \in RW : mLock[d][DMS2] = Unlock THEN roAlone \cup {c} ELSE roAlone
  /\ Goto(c, "roCkpt")
  /\ UNCHANGED <<shmVars, dbVars, roCkpt, roData, connVars>>

\* Into private memory: lsmCheckpointRecover() ...
RoTransCkpt(c) ==
  /\ pc[c] = "roCkpt"
  /\ roCkpt' = [roCkpt EXCEPT ![c] = ckpt]
  /\ Goto(c, "roLog")
  /\ UNCHANGED <<lockVars, shmVars, dbVars, roData, roBegan, roAlone, connVars>>

\* ... and lsmLogRecover(): a log that was overwritten where the checkpoint
\* points gives nothing.
RoTransLog(c) ==
  /\ pc[c] = "roLog"
  /\ roData' = [roData EXCEPT ![c] =
                 IF roCkpt[c] >= logFrom THEN Max({roCkpt[c], log}) ELSE roCkpt[c]]
  /\ Goto(c, "rotrans")
  /\ UNCHANGED <<lockVars, shmVars, dbVars, roCkpt, roBegan, roAlone, connVars>>

RoTransFinish(c) ==
  /\ pc[c] = "rotrans"
  /\ Drop(c, {ROTRANS})
  /\ Reset({c})
  /\ Goto(c, "idle")
  /\ UNCHANGED <<shmVars, dbVars>>

\* Mutant: DMS1 is kept when the system is live.
RoLiveLockKept(c) ==
  /\ pc[c] = "roLive"
  /\ Take(c, DMS3, Shared)
  /\ Goto(c, "roMap")
  /\ UNCHANGED <<shmVars, dbVars, roVars, connVars>>

RoLiveLock(c) ==
  /\ pc[c] = "roLive"
  /\ ShmLock(c, [l \in {DMS1, DMS3} |-> IF l = DMS1 THEN Unlock ELSE Shared])
  /\ Goto(c, "roMap")
  /\ UNCHANGED <<shmVars, dbVars, roVars, connVars>>

\* From here on the connection reads like a read-write one.
RoLiveMap(c) ==
  /\ pc[c] = "roMap"
  /\ CacheChunks(c)
  /\ Goto(c, "live")
  /\ UNCHANGED <<lockVars, dbVars, roVars, logfd, bReadonly, iSynced>>

\* lsm_close()
RoClose(c) ==
  /\ pc[c] \in {"idle", "live"}
  /\ Release(c, {DMS3})

-----------------------------------------------------------------------------
(* The end of a process: its locks and its memory go; files stay *)

Crash(P) ==
  /\ pc' = [c \in Conn |-> IF c \in P THEN "closed" ELSE pc[c]]
  /\ mLock' = [c \in Conn |-> IF c \in P THEN [l \in Locks |-> Unlock] ELSE mLock[c]]
  /\ flock' = [flock EXCEPT ![P] = [l \in Locks |-> Unlock]]
  /\ chunk' = [chunk EXCEPT ![P] = None]
  /\ mapped' = [mapped EXCEPT ![P] = FALSE]
  /\ Reset(P)
  /\ UNCHANGED <<path, shm, dbVars>>

Die(P) ==
  /\ P \in Mortal
  /\ \E c \in P : pc[c] # "closed"
  /\ Crash(P)

\* A connection is about to use shared memory that is not mapped.
Faulting(c) ==
  /\ ptr[c] # None
  /\ ~mapped[Proc(c)]
  /\ \/ pc[c] = "test" /\ TestLock(c, DMS2, 2, Excl)
     \/ pc[c] \in {"recover", "open", "reuse", "reclaim", "flush", "live"}

Fault(P) ==
  /\ \E c \in P : Faulting(c)
  /\ Crash(P)

-----------------------------------------------------------------------------
Init ==
  /\ mLock = [c \in Conn |-> [l \in Locks |-> Unlock]]
  /\ flock = [P \in Procs |-> [l \in Locks |-> Unlock]]
  /\ pc = [c \in Conn |-> "closed"]
  /\ path = None
  /\ shm = [i \in Inodes |-> Zeroed]
  /\ chunk = [P \in Procs |-> None]
  /\ mapped = [P \in Procs |-> FALSE]
  /\ ptr = [c \in Conn |-> None]
  /\ logfd = [c \in Conn |-> "none"]
  /\ bReadonly = [c \in Conn |-> FALSE]
  /\ ckpt = 0 /\ log = 0 /\ oldest = 0 /\ logFrom = 0 /\ acked = 0
  /\ iSynced = [c \in Conn |-> 0]
  /\ roCkpt = [c \in Conn |-> 0]
  /\ roData = [c \in Conn |-> 0]
  /\ roBegan = [c \in Conn |-> 0]
  /\ roAlone = {}

\* The steps of a call of the library, and those with which one begins.
Connect(c) ==
  \/ ConnectCache(c) \/ ConnectLock(c) \/ ConnectTest(c) \/ ConnectRecover(c)
  \/ ConnectDms2(c) \/ ConnectUnlock(c) \/ ConnectFail(c)
Disconnect(c) ==
  \/ DisconnectTest(c) \/ DisconnectFlush(c) \/ DisconnectDelete(c)
  \/ DisconnectUnlink(c) \/ DisconnectRwclient(c) \/ DisconnectRelease(c)
Work(c) ==
  \/ Commit(c) \/ Checkpoint(c)
  \/ BlockDetect(c) \/ BlockReuse(c) \/ LogDetect(c) \/ LogReclaim(c)
RoStep(c) ==
  \/ RoTest(c) \/ RoTransLock(c) \/ RoTransCkpt(c) \/ RoTransLog(c)
  \/ RoLiveLock(c) \/ RoLiveMap(c)

Next ==
  \/ \E c \in RW : Connect(c) \/ Work(c) \/ Close(c) \/ Disconnect(c)
  \/ \E c \in RO : RoBegin(c) \/ RoStep(c) \/ RoTransFinish(c) \/ RoClose(c)
  \/ \E c \in Conn : Open(c)
  \/ \E P \in Procs : Die(P) \/ Fault(P)

Spec == Init /\ [][Next]_vars

\* A call of the library goes on by itself: it never waits but for DMS1 in
\* doDbConnect(), where it sleeps and tries again; a fault is not put off.
Fairness ==
  /\ \A c \in RW : WF_vars(Connect(c) \/ BlockReuse(c) \/ LogReclaim(c) \/ Disconnect(c))
  /\ \A c \in RO : WF_vars(RoStep(c))
  /\ \A P \in Procs : WF_vars(Fault(P))
FairSpec == Spec /\ Fairness

-----------------------------------------------------------------------------
(* Properties *)

PcValues ==
  {"closed", "cache", "dms1", "test", "recover", "dms2", "connected", "fail",
   "open", "reuse", "reclaim", "last", "flush", "delete", "unlink", "release", "leave",
   "idle", "roTest", "roDead", "roCkpt", "roLog", "rotrans", "roLive", "roMap",
   "live"}

\* Types; no checkpoint, log, shared memory or reader holds more than the
\* commits there can be: recovery (Recovered) counts none twice.
TypeOK ==
  /\ mLock \in [Conn -> [Locks -> Modes]]
  /\ flock \in [Procs -> [Locks -> Modes]]
  /\ pc \in [Conn -> PcValues]
  /\ path \in Inodes \cup {None}
  /\ shm \in [Inodes -> 0..MaxCommit \cup {Zeroed}]
  /\ chunk \in [Procs -> Inodes \cup {None}]
  /\ mapped \in [Procs -> BOOLEAN]
  /\ ptr \in [Conn -> Inodes \cup {None}]
  /\ logfd \in [Conn -> {"none", "linked", "unlinked"}]
  /\ bReadonly \in [Conn -> BOOLEAN]
  /\ {ckpt, log, oldest, logFrom, acked} \subseteq 0..MaxCommit
  /\ {iSynced, roCkpt, roData, roBegan} \subseteq [Conn -> 0..MaxCommit]
  /\ roAlone \subseteq Conn

\* The connections that share locks through the database file.
Sharers == {c \in Conn : MultiProc(Proc(c))}

\* lsmShmLock(): what the connections of a process hold, its POSIX lock
\* backs: no more and no less.  So no two connections, in one process or in
\* two, hold conflicting locks, although a process has only one POSIX lock on
\* a byte and any of its connections may drop it.
LocksBacked ==
  /\ \A P \in Procs, l \in Locks :
       MultiProc(P) => flock[P][l] = Max({mLock[c][l] : c \in P})
  /\ \A c, d \in Sharers, l \in Locks :
       c # d => ~Conflict(mLock[c][l], mLock[d][l])

\* Where DMS1 is held: inside doDbConnect(), doDbDisconnect() and
\* lsmBeginRoTrans().
Connecting(c) == pc[c] \in {"test", "recover", "dms2", "connected", "fail"}
Leaving(c) == pc[c] \in {"last", "flush", "delete", "unlink"}
RoConnecting(c) == pc[c] \in {"roTest", "roDead", "roLive"}

\* "This lock serializes all calls to doDbConnect() and doDbDisconnect()
\* across all processes": while one is at work no other is, and no read-only
\* client decides whether the system is live.
ConnectSerialized ==
  \A c, d \in Sharers :
    /\ c # d
    /\ Connecting(c) \/ Leaving(c)
    => ~(Connecting(d) \/ Leaving(d) \/ RoConnecting(d))

\* A read-write connection between lsm_open() and lsm_close().
Connected(c) == pc[c] \in {"connected", "open", "reuse", "reclaim"}

\* Whatever the order of connects and disconnects, and wherever processes
\* die, the last checkpoint and the log together hold every commit: the log
\* is deleted only after a checkpoint of all it holds, and never under a
\* connection that goes on writing to it.
CommitsRecoverable == acked <= Recovered

\* A connection whose shared memory has a valid header sees every commit,
\* the ones of all other connections included.
ConnectedSeesCommits ==
  \A c \in RW : Connected(c) /\ HeaderOk(c) => shm[ptr[c]] = acked

\* "There are no circumstances (including the unexpected failure of a writer
\* process) that may cause recovery to take place after the first client has
\* successfully connected": the shared memory of a connected read-write
\* client is not cleared.
NoRecoveryWhileConnected ==
  [][\A c \in RW : Connected(c) /\ Connected(c)' /\ Usable(c)
                     => shm[ptr[c]]' >= shm[ptr[c]]]_vars

\* A rotrans transaction finds all that was committed when it began, and
\* what it reads is not overwritten while it lasts.
RoReads(c) ==
  /\ pc[c] \in {"roLog", "rotrans"} => roCkpt[c] >= oldest
  /\ pc[c] = "rotrans" => roData[c] >= roBegan[c]

\* "Holding the lock on ROTRANS guarantees that no read-write client will
\* overwrite any existing data in the database file or log file" for a
\* client that found the system dead when it was, whoever connects, writes,
\* dies and disconnects while it reads.
RoTransIntact == \A c \in roAlone : RoReads(c)

\* "unlock(DMS1)" ends doDbConnect(), doDbDisconnect() and lsmBeginRoTrans(),
\* on every path but the one where the lock test of lsmBeginRoTrans() fails:
\* whoever has DMS1 for anything but that test gives it up, whatever others do
\* who were left with a lock on it.
DMS1Released ==
  \A c \in Conn :
    mLock[c][DMS1] # Unlock /\ pc[c] \notin {"roTest", "idle"}
      ~> mLock[c][DMS1] = Unlock
=============================================================================
