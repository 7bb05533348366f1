-------------------------- MODULE LsmCommitProofs --------------------------
(***************************************************************************)
(* Why the last checkpoint and the log hold every commit while connections *)
(* come and go, and why a lock on ROTRANS protects what a read-only client *)
(* reads: inductive invariants of LsmConnect for read-write connections of *)
(* one process.  Of two such processes, one may wait for DMS1 with a       *)
(* "-shm" file mapped that the other then unlinks, and both write.         *)
(***************************************************************************)
EXTENDS LsmConnectProofs

LastLabels == {"flush", "delete", "unlink"}
HaveLog == HaveDms2 \cup {"dms2", "fail"}
Overwriting == {"reuse", "reclaim", "unlink"}

\* All writers are in W, and no read-only client is out of reach of its locks.
OneWriter(W) == RW \subseteq W /\ (MultiProc(W) \/ RO \subseteq W)

-----------------------------------------------------------------------------
(* The invariant, in named parts; W is the process of all writers *)

\* Shared memory of the writers is the file the name leads to while it is
\* mapped; it is cleared, or has every commit.
SeesOK(W) ==
  /\ mapped[W] => chunk[W] # None /\ (MultiProc(W) => path = chunk[W])
  /\ chunk[W] # None => shm[chunk[W]] \in {Zeroed, acked}
  /\ MultiProc(W) /\ path # None => shm[path] \in {Zeroed, acked}

\* Checkpoint and log have every commit; nothing is overwritten that the last
\* checkpoint needs.
KeptOK ==
  /\ acked <= ckpt \/ acked <= log
  /\ oldest <= ckpt /\ logFrom <= ckpt
  /\ \A c \in RW : iSynced[c] <= ckpt

\* The last connection is alone, with a log that no other has open, and
\* deletes it after a checkpoint of every commit.
LastOK ==
  /\ \A c \in RW : logfd[c] # "unlinked"
  /\ \A c \in RW : logfd[c] = "linked" => pc[c] \in HaveLog
  /\ \A c, d \in RW : c # d /\ pc[c] \in LastLabels => pc[d] \notin HaveDms2
  /\ \A c \in RW : pc[c] = "delete" => ckpt = acked

CommitInv(W) == SeesOK(W) /\ KeptOK /\ LastOK

\* A rotrans transaction that began alone: no writer is about to overwrite.
RoOf(c) ==
  /\ c \in RO /\ pc[c] \in HaveTrans
  /\ roBegan[c] <= acked
  /\ pc[c] \in {"roLog", "rotrans"} => oldest <= roCkpt[c] /\ logFrom <= roCkpt[c]
  /\ pc[c] = "roLog" => roBegan[c] <= roCkpt[c] \/ roBegan[c] <= log
  /\ pc[c] = "rotrans" => roBegan[c] <= roData[c]
  /\ \A d \in RW : pc[d] \notin Overwriting

RoOK == \A c \in roAlone : RoOf(c)

-----------------------------------------------------------------------------
(* Shared memory of the writers *)

LEMMA WriterOf ==
  ASSUME NEW W \in Procs, RW \subseteq W, NEW c \in RW
  PROVE  /\ c \in Conn /\ c \in W /\ Proc(c) = W
         /\ MemoryOK /\ ptr[c] # None => ptr[c] = chunk[W]
<1>1. c \in Conn /\ Proc(c) = W
  BY ProcOf DEF Conn
<1>. QED BY <1>1 DEF MemoryOK

LEMMA SeesFrame ==
  ASSUME NEW W \in Procs, SeesOK(W), UNCHANGED <<shmVars, acked>>
  PROVE  SeesOK(W)'
BY DEF SeesOK, shmVars, MultiProc

\* One connection writes to the shared memory of the writers.
LEMMA SeesWrite ==
  ASSUME NEW W \in Procs, RW \subseteq W, TypeOK, MemoryOK, SeesOK(W),
         NEW c \in RW, Usable(c), NEW v, shm' = [shm EXCEPT ![ptr[c]] = v],
         UNCHANGED <<path, chunk, mapped>>,
         v = Zeroed \/ v = acked', v = Zeroed => acked' = acked
  PROVE  SeesOK(W)'
<1>1. ptr[c] = chunk[W] /\ mapped[W] /\ ptr[c] \in Inodes
  BY WriterOf DEF Usable, TypeOK
<1>2. /\ shm'[chunk[W]] = v
      /\ \A i \in Inodes \ {chunk[W]} : shm'[i] = shm[i]
  BY <1>1 DEF TypeOK
<1>. QED BY <1>1, <1>2 DEF SeesOK, MultiProc

LEMMA SeesCache ==
  ASSUME NEW W \in Procs, TypeOK, MemoryOK, SeesOK(W), NEW c \in Conn, CacheChunks(c),
         UNCHANGED acked
  PROVE  SeesOK(W)'
<1>. DEFINE P == Proc(c)
<1>1. P \in Procs
  BY ProcOf
<1>2. PICK i \in Inodes :
           /\ chunk' = [chunk EXCEPT ![P] = i]
           /\ mapped' = [mapped EXCEPT ![P] = chunk[P] # None => @]
           /\ chunk[P] # None => i = chunk[P] /\ shm' = shm /\ path' = path
           /\ chunk[P] = None =>
                \/ MultiProc(P) /\ i = path /\ shm' = shm /\ path' = path
                \/ /\ i # path /\ \A Q \in Procs : chunk[Q] # i
                   /\ shm' = [shm EXCEPT ![i] = Zeroed]
                   /\ MultiProc(P) => path = None /\ path' = i
                   /\ ~MultiProc(P) => path' = path
  BY ChunkOf
<1>. HIDE DEF P
<1>3. /\ chunk'[P] = i /\ (chunk[P] # None /\ mapped'[P] => mapped[P])
      /\ \A Q \in Procs \ {P} : chunk'[Q] = chunk[Q] /\ mapped'[Q] = mapped[Q]
      /\ i # None
  BY <1>1, <1>2 DEF TypeOK, Inodes, None
<1>4. path \in Inodes \cup {None} /\ chunk[W] \in Inodes \cup {None}
  BY DEF TypeOK
<1>5. CASE chunk[P] # None
  <2>1. shm' = shm /\ path' = path /\ chunk'[W] = chunk[W] /\ (mapped'[W] => mapped[W])
    BY <1>2, <1>3, <1>5
  <2>. QED BY <2>1 DEF SeesOK, MultiProc
<1>6. CASE chunk[P] = None /\ MultiProc(P) /\ i = path /\ shm' = shm /\ path' = path
  <2>1. CASE W = P
    BY <1>2, <1>3, <1>6, <2>1 DEF SeesOK, MultiProc
  <2>2. CASE W # P
    BY <1>3, <1>6, <2>2 DEF SeesOK, MultiProc
  <2>. QED BY <2>1, <2>2
<1>7. CASE /\ chunk[P] = None
           /\ i # path /\ \A Q \in Procs : chunk[Q] # i
           /\ shm' = [shm EXCEPT ![i] = Zeroed]
           /\ MultiProc(P) => path = None /\ path' = i
           /\ ~MultiProc(P) => path' = path
  <2>1. shm'[i] = Zeroed /\ \A j \in Inodes \ {i} : shm'[j] = shm[j]
    BY <1>7 DEF TypeOK
  <2>2. CASE W = P
    BY <1>2, <1>3, <1>4, <1>7, <2>1, <2>2 DEF SeesOK, MultiProc
  <2>3. CASE W # P
    <3>1. chunk'[W] = chunk[W] /\ mapped'[W] = mapped[W] /\ chunk[W] # i
      BY <1>3, <1>7, <2>3
    <3>2. mapped[W] /\ MultiProc(W) => path' = path
      BY <1>7 DEF SeesOK
    <3>. QED BY <1>4, <1>7, <2>1, <3>1, <3>2 DEF SeesOK, MultiProc
  <2>. QED BY <2>2, <2>3
<1>. QED BY <1>2, <1>5, <1>6, <1>7

\* A process that unmaps its memory, or gives it up.
LEMMA SeesGone ==
  ASSUME NEW W \in Procs, SeesOK(W), TypeOK, UNCHANGED <<shm, acked>>,
         path' = path \/ (path' = None /\ ~mapped'[W]),
         mapped'[W] => mapped[W] /\ chunk'[W] = chunk[W],
         chunk'[W] = chunk[W] \/ chunk'[W] = None
  PROVE  SeesOK(W)'
BY DEF SeesOK, MultiProc

LEMMA SeesRelease ==
  ASSUME NEW W \in Procs, SeesOK(W), TypeOK, NEW c \in Conn, NEW S, Release(c, S)
  PROVE  SeesOK(W)'
<1>. DEFINE P == Proc(c)
            last == Others(c) = {}
<1>1. /\ UNCHANGED <<shm, acked, path>>
      /\ chunk' = [chunk EXCEPT ![P] = IF last THEN None ELSE chunk[P]]
      /\ mapped' = [mapped EXCEPT ![P] = ~last /\ mapped[P]]
  BY DEF Release, dbVars
<1>. HIDE DEF P, last
<1>2. /\ mapped'[W] => mapped[W] /\ chunk'[W] = chunk[W]
      /\ chunk'[W] = chunk[W] \/ chunk'[W] = None
  BY <1>1 DEF TypeOK
<1>. QED BY <1>1, <1>2, SeesGone

LEMMA SeesCrash ==
  ASSUME NEW W \in Procs, SeesOK(W), TypeOK, NEW P \in Procs, Crash(P)
  PROVE  SeesOK(W)'
<1>1. /\ UNCHANGED <<shm, acked, path>>
      /\ mapped'[W] => mapped[W] /\ chunk'[W] = chunk[W]
      /\ chunk'[W] = chunk[W] \/ chunk'[W] = None
  BY DEF Crash, TypeOK, dbVars
<1>. QED BY <1>1, SeesGone

LEMMA SeesAll ==
  ASSUME NEW W \in Procs, RW \subseteq W, MemoryOK, SeesOK(W), NEW c \in RW, HeaderOk(c)
  PROVE  shm[ptr[c]] = acked
BY WriterOf DEF HeaderOk, Usable, SeesOK

LEMMA SeesStep ==
  ASSUME NEW W \in Procs, RW \subseteq W, ConnectInv, CommitInv(W), Next
  PROVE  SeesOK(W)'
<1>. USE DEF ConnectInv, CommitInv, shmVars, dbVars
<1>1. ASSUME NEW c \in RW, Connect(c) PROVE SeesOK(W)'
  <2>0. c \in Conn
    BY WriterOf
  <2>1. CASE ConnectCache(c)
    BY <2>0, <2>1, SeesCache DEF ConnectCache
  <2>2. CASE ConnectLock(c) \/ ConnectDms2(c) \/ ConnectUnlock(c)
    BY <2>2, SeesFrame DEF ConnectLock, ConnectDms2, ConnectUnlock
  <2>3. CASE ConnectTest(c)
    <3>1. CASE TestLock(c, DMS2, 2, Excl)
      BY <2>3, <3>1, SeesWrite DEF ConnectTest
    <3>2. CASE ~TestLock(c, DMS2, 2, Excl)
      BY <2>3, <3>2, SeesFrame DEF ConnectTest
    <3>. QED BY <3>1, <3>2
  <2>4. CASE ConnectRecover(c)
    <3>1. Recovered = acked
      BY MaxOf, CountValues DEF KeptOK, CountsOK, Recovered
    <3>. QED BY <2>4, <3>1, SeesWrite DEF ConnectRecover
  <2>5. CASE ConnectFail(c)
    BY <2>0, <2>5, SeesRelease DEF ConnectFail
  <2>. QED BY <1>1, <2>1, <2>2, <2>3, <2>4, <2>5 DEF Connect
<1>2. ASSUME NEW c \in RW, Work(c) PROVE SeesOK(W)'
  <2>1. CASE Commit(c)
    <3>1. shm[ptr[c]] = acked
      BY <2>1, SeesAll DEF Commit
    <3>2. acked' = acked + 1 /\ acked \in Int /\ Zeroed # acked'
      BY <2>1, CountValues DEF Commit, Zeroed
    <3>. QED BY <2>1, <3>1, <3>2, SeesWrite DEF Commit, HeaderOk
  <2>2. CASE Checkpoint(c) \/ BlockDetect(c) \/ BlockReuse(c) \/ LogDetect(c) \/ LogReclaim(c)
    BY <2>2, SeesFrame DEF Checkpoint, BlockDetect, BlockReuse, LogDetect, LogReclaim
  <2>. QED BY <1>2, <2>1, <2>2 DEF Work
<1>3. ASSUME NEW c \in RW, Close(c) \/ Disconnect(c) PROVE SeesOK(W)'
  <2>0. c \in Conn
    BY WriterOf
  <2>1. CASE Close(c) \/ DisconnectTest(c) \/ DisconnectFlush(c)
             \/ DisconnectDelete(c) \/ DisconnectRwclient(c)
    BY <2>1, SeesFrame
    DEF Close, DisconnectTest, DisconnectFlush, DisconnectDelete, DisconnectRwclient
  <2>2. CASE DisconnectUnlink(c)
    <3>1. Proc(c) = W
      BY WriterOf
    <3>2. /\ UNCHANGED <<shm, acked, chunk>>
          /\ path' = path \/ (path' = None /\ ~mapped'[W])
          /\ mapped'[W] => mapped[W]
      BY <2>2, <3>1 DEF DisconnectUnlink, TypeOK
    <3>. QED BY <3>2, SeesGone
  <2>3. CASE DisconnectRelease(c)
    BY <2>0, <2>3, SeesRelease DEF DisconnectRelease
  <2>. QED BY <1>3, <2>1, <2>2, <2>3 DEF Disconnect
<1>4. ASSUME NEW c \in RO, RoBegin(c) \/ RoStep(c) \/ RoTransFinish(c) \/ RoClose(c)
      PROVE  SeesOK(W)'
  <2>0. c \in Conn
    BY DEF Conn
  <2>1. CASE RoBegin(c) \/ RoTest(c) \/ RoTransLock(c) \/ RoTransCkpt(c)
             \/ RoTransLog(c) \/ RoLiveLock(c) \/ RoTransFinish(c)
    BY <2>1, SeesFrame
    DEF RoBegin, RoTest, RoTransLock, RoTransCkpt, RoTransLog, RoLiveLock, RoTransFinish
  <2>2. CASE RoLiveMap(c)
    BY <2>0, <2>2, SeesCache DEF RoLiveMap
  <2>3. CASE RoClose(c)
    BY <2>0, <2>3, SeesRelease DEF RoClose
  <2>. QED BY <1>4, <2>1, <2>2, <2>3 DEF RoStep
<1>5. ASSUME NEW c \in Conn, Open(c) PROVE SeesOK(W)'
  BY <1>5, SeesFrame DEF Open
<1>. QED BY <1>1, <1>2, <1>3, <1>4, <1>5, SeesCrash DEF Next, Die, Fault

-----------------------------------------------------------------------------
(* Checkpoint and log *)

LEMMA KeptFrame ==
  ASSUME TypeOK, KeptOK, UNCHANGED dbVars,
         \A c \in RW : iSynced'[c] = iSynced[c] \/ iSynced'[c] = 0
  PROVE  KeptOK'
<1>1. 0 <= ckpt
  BY CountValues
<1>. QED BY <1>1 DEF KeptOK, dbVars

LEMMA KeptReset ==
  ASSUME TypeOK, KeptOK, UNCHANGED dbVars, NEW S, Reset(S)
  PROVE  KeptOK'
<1>1. \A c \in RW : iSynced'[c] = iSynced[c] \/ iSynced'[c] = 0
  BY DEF Reset, Conn
<1>. QED BY <1>1, KeptFrame

LEMMA KeptStep ==
  ASSUME NEW W \in Procs, RW \subseteq W, ConnectInv, CommitInv(W), Next
  PROVE  KeptOK'
<1>. USE DEF ConnectInv, CommitInv, connVars, dbVars
<1>0. /\ ckpt \in Nat /\ log \in Nat /\ oldest \in Nat /\ logFrom \in Nat /\ acked \in Nat
      /\ \A c \in RW : iSynced[c] \in Nat
      /\ ckpt <= acked /\ log <= acked
  BY CountValues DEF CountsOK, Conn
<1>1. ASSUME NEW c \in RW, Connect(c) PROVE KeptOK'
  <2>1. CASE ConnectCache(c) \/ ConnectLock(c) \/ ConnectTest(c) \/ ConnectRecover(c)
             \/ ConnectDms2(c) \/ ConnectUnlock(c)
    BY <2>1, KeptFrame
    DEF ConnectCache, ConnectLock, ConnectTest, ConnectRecover, ConnectDms2, ConnectUnlock
  <2>2. CASE ConnectFail(c)
    BY <2>2, KeptReset DEF ConnectFail, Release
  <2>. QED BY <1>1, <2>1, <2>2 DEF Connect
<1>2. ASSUME NEW c \in RW, Work(c) PROVE KeptOK'
  <2>1. CASE Commit(c)
    <3>1. shm[ptr[c]] = acked
      BY <2>1, SeesAll DEF Commit
    <3>2. /\ log' = acked' /\ ckpt' = ckpt /\ oldest' = oldest /\ logFrom' = logFrom
          /\ iSynced' = iSynced
      BY <2>1, <3>1 DEF Commit, LastOK
    <3>3. acked' \in Int
      BY <1>0, <2>1 DEF Commit
    <3>. QED BY <3>2, <3>3 DEF KeptOK
  <2>2. CASE Checkpoint(c)
    <3>1. ckpt' = acked
      BY <2>2, SeesAll DEF Checkpoint
    <3>2. /\ acked' = acked /\ oldest' = oldest /\ logFrom' = logFrom
          /\ iSynced' = iSynced
      BY <2>2 DEF Checkpoint
    <3>. QED BY <1>0, <3>1, <3>2 DEF KeptOK
  <2>3. CASE BlockDetect(c)
    <3>1. \A d \in RW : iSynced'[d] = iSynced[d] \/ iSynced'[d] = ckpt
      BY <2>3 DEF BlockDetect, TypeOK, Conn
    <3>. QED BY <1>0, <2>3, <3>1 DEF BlockDetect, KeptOK
  <2>4. CASE BlockReuse(c)
    <3>1. oldest' = oldest \/ oldest' = iSynced[c]
      BY <1>0, <2>4, MaxOf DEF BlockReuse
    <3>2. \A d \in RW : iSynced'[d] = iSynced[d] \/ iSynced'[d] = 0
      BY <2>4 DEF BlockReuse, TypeOK, Conn
    <3>. QED BY <1>0, <2>4, <3>1, <3>2 DEF BlockReuse, KeptOK
  <2>5. CASE LogDetect(c)
    BY <2>5, KeptFrame DEF LogDetect
  <2>6. CASE LogReclaim(c)
    BY <1>0, <2>6 DEF LogReclaim, KeptOK
  <2>. QED BY <1>2, <2>1, <2>2, <2>3, <2>4, <2>5, <2>6 DEF Work
<1>3. ASSUME NEW c \in RW, Close(c) \/ Disconnect(c) PROVE KeptOK'
  <2>1. CASE Close(c) \/ DisconnectTest(c) \/ DisconnectRwclient(c)
    BY <2>1, KeptFrame DEF Close, DisconnectTest, DisconnectRwclient
  <2>2. CASE DisconnectFlush(c)
    <3>1. CASE HeaderOk(c)
      <4>1. ckpt' = acked
        BY <2>2, <3>1, SeesAll DEF DisconnectFlush
      <4>2. /\ acked' = acked /\ oldest' = oldest /\ logFrom' = logFrom
            /\ iSynced' = iSynced
        BY <2>2 DEF DisconnectFlush
      <4>. QED BY <1>0, <4>1, <4>2 DEF KeptOK
    <3>2. CASE ~HeaderOk(c)
      BY <2>2, <3>2, KeptFrame DEF DisconnectFlush
    <3>. QED BY <3>1, <3>2
  <2>3. CASE DisconnectDelete(c)
    <3>1. ckpt = acked
      BY <2>3 DEF DisconnectDelete, LastOK
    <3>. QED BY <1>0, <2>3, <3>1 DEF DisconnectDelete, KeptOK
  <2>4. CASE DisconnectUnlink(c)
    BY <1>0, <2>4 DEF DisconnectUnlink, KeptOK
  <2>5. CASE DisconnectRelease(c)
    BY <2>5, KeptReset DEF DisconnectRelease, Release
  <2>. QED BY <1>3, <2>1, <2>2, <2>3, <2>4, <2>5 DEF Disconnect
<1>4. ASSUME NEW c \in RO, RoBegin(c) \/ RoStep(c) \/ RoTransFinish(c) \/ RoClose(c)
      PROVE  KeptOK'
  <2>1. CASE RoBegin(c) \/ RoStep(c)
    BY <2>1, KeptFrame
    DEF RoBegin, RoStep, RoTest, RoTransLock, RoTransCkpt, RoTransLog, RoLiveLock, RoLiveMap
  <2>2. CASE RoTransFinish(c) \/ RoClose(c)
    BY <2>2, KeptReset DEF RoTransFinish, RoClose, Release
  <2>. QED BY <1>4, <2>1, <2>2
<1>5. ASSUME NEW c \in Conn, Open(c) PROVE KeptOK'
  BY <1>5, KeptFrame DEF Open
<1>6. ASSUME NEW P, Crash(P) PROVE KeptOK'
  BY <1>6, KeptReset DEF Crash
<1>. QED BY <1>1, <1>2, <1>3, <1>4, <1>5, <1>6 DEF Next, Die, Fault

-----------------------------------------------------------------------------
(* The last connection *)

\* Some connections move, neither towards the last steps of doDbDisconnect()
\* nor to DMS2, and others end.
LEMMA LastFrame ==
  ASSUME LastOK, UNCHANGED <<ckpt, acked>>,
         \A c \in RW :
           \/ pc'[c] = pc[c] /\ logfd'[c] = logfd[c]
           \/ pc'[c] = "closed" /\ logfd'[c] = "none"
           \/ /\ logfd'[c] = logfd[c]
              /\ pc'[c] \in LastLabels \ {"delete"} => pc[c] \in LastLabels
              /\ pc'[c] \in HaveDms2 => pc[c] \in HaveDms2
              /\ pc[c] \in HaveLog => pc'[c] \in HaveLog
              /\ pc'[c] # "delete"
  PROVE  LastOK'
BY DEF LastOK, LastLabels, HaveLog, HaveDms2

LEMMA LastGoto ==
  ASSUME TypeOK, LastOK, UNCHANGED <<ckpt, acked, logfd>>, NEW c \in Conn, NEW l, Goto(c, l),
         c \in RW =>
           /\ l \in LastLabels => pc[c] \in LastLabels /\ l # "delete"
           /\ l \in HaveDms2 => pc[c] \in HaveDms2
           /\ pc[c] \in HaveLog => l \in HaveLog
  PROVE  LastOK'
<1>1. pc'[c] = l /\ \A d \in Conn \ {c} : pc'[d] = pc[d]
  BY GotoPc
<1>2. \A d \in RW : d \in Conn /\ logfd'[d] = logfd[d]
  BY DEF Conn
<1>3. "delete" \in LastLabels
  BY DEF LastLabels
<1>. QED BY <1>1, <1>2, <1>3, LastFrame

LEMMA LastRelease ==
  ASSUME TypeOK, LastOK, NEW c \in Conn, NEW S, Release(c, S)
  PROVE  LastOK'
<1>1. \A d \in RW : \/ pc'[d] = pc[d] /\ logfd'[d] = logfd[d]
                    \/ pc'[d] = "closed" /\ logfd'[d] = "none"
  BY DEF Release, Reset, TypeOK, Conn
<1>2. UNCHANGED <<ckpt, acked>>
  BY DEF Release, dbVars
<1>. QED BY <1>1, <1>2, LastFrame

LEMMA LastCrash ==
  ASSUME TypeOK, LastOK, NEW P \in Procs, Crash(P)
  PROVE  LastOK'
<1>1. \A d \in RW : \/ pc'[d] = pc[d] /\ logfd'[d] = logfd[d]
                    \/ pc'[d] = "closed" /\ logfd'[d] = "none"
  BY DEF Crash, Reset, Conn
<1>2. UNCHANGED <<ckpt, acked>>
  BY DEF Crash, dbVars
<1>. QED BY <1>1, <1>2, LastFrame

\* doDbConnect() and doDbDisconnect() hold DMS1: one writer at a time.
LEMMA OneInside ==
  ASSUME NEW W \in Procs, RW \subseteq W, TypeOK, HeldOK, LocksOK,
         NEW c \in RW, NEW d \in RW \ {c}, pc[c] \in ExclDms1
  PROVE  pc[d] \notin ExclDms1
<1>1. c \in Conn /\ d \in Conn \ {c} /\ Proc(c) = Proc(d)
  BY WriterOf
<1>2. ~Conflict(mLock[c][DMS1], mLock[d][DMS1])
  BY <1>1, NoConflict, LockNumbers
<1>3. mLock[c][DMS1] = Excl /\ (pc[d] \in ExclDms1 => mLock[d][DMS1] = Excl)
  BY <1>1 DEF HeldOK, HeldBy
<1>. QED BY <1>2, <1>3 DEF Conflict, Unlock, Excl

LEMMA LastConnect ==
  ASSUME NEW W \in Procs, RW \subseteq W, ConnectInv, CommitInv(W),
         NEW c \in RW, Connect(c)
  PROVE  LastOK'
<1>. USE DEF ConnectInv, CommitInv, dbVars, connVars
<1>0. c \in Conn
  BY DEF Conn
<1>1. CASE ConnectCache(c) \/ ConnectLock(c) \/ ConnectTest(c) \/ ConnectUnlock(c)
  BY <1>0, <1>1, LastGoto
  DEF ConnectCache, ConnectLock, ConnectTest, ConnectUnlock, LastLabels, HaveDms2, HaveLog
<1>2. CASE ConnectRecover(c)
  <2>1. /\ pc'[c] = "dms2" /\ \A d \in Conn \ {c} : pc'[d] = pc[d]
        /\ logfd'[c] = "linked" /\ \A d \in Conn \ {c} : logfd'[d] = logfd[d]
        /\ UNCHANGED <<ckpt, acked>>
    BY <1>0, <1>2, GotoPc DEF ConnectRecover, TypeOK
  <2>2. \A d \in RW \ {c} : pc'[d] = pc[d] /\ logfd'[d] = logfd[d]
    BY <2>1 DEF Conn
  <2>. QED BY <2>1, <2>2 DEF LastOK, LastLabels, HaveDms2, HaveLog
<1>3. CASE ConnectDms2(c)
  <2>1. /\ pc'[c] \in {"connected", "fail"} /\ \A d \in Conn \ {c} : pc'[d] = pc[d]
        /\ logfd' = logfd
        /\ UNCHANGED <<ckpt, acked>>
    BY <1>0, <1>3, GotoPc DEF ConnectDms2
  <2>2. \A d \in RW \ {c} : pc'[d] = pc[d] /\ pc[d] \notin LastLabels
    BY <1>3, <2>1, OneInside DEF ConnectDms2, ExclDms1, LastLabels, Conn
  <2>. QED BY <2>1, <2>2 DEF LastOK, LastLabels, HaveDms2, HaveLog
<1>4. CASE ConnectFail(c)
  BY <1>0, <1>4, LastRelease DEF ConnectFail
<1>. QED BY <1>1, <1>2, <1>3, <1>4 DEF Connect

LEMMA LastWork ==
  ASSUME NEW W \in Procs, RW \subseteq W, ConnectInv, CommitInv(W),
         NEW c \in RW, Work(c)
  PROVE  LastOK'
<1>. USE DEF ConnectInv, CommitInv, dbVars, connVars
<1>0. c \in Conn
  BY DEF Conn
<1>1. CASE Commit(c)
  <2>1. /\ pc' = pc /\ pc[c] = "open" /\ ckpt' = ckpt
        /\ \A d \in RW : \/ logfd'[d] = logfd[d]
                         \/ d = c /\ logfd'[d] = "linked"
    BY <1>1 DEF Commit, TypeOK, Conn
  <2>2. \A d \in RW : pc[d] \notin LastLabels
    BY <2>1 DEF LastOK, LastLabels, HaveDms2, HaveLog
  <2>. QED BY <2>1, <2>2 DEF LastOK, LastLabels, HaveDms2, HaveLog
<1>2. CASE Checkpoint(c)
  <2>1. UNCHANGED <<pc, logfd, acked>> /\ ckpt' = acked
    BY <1>2, SeesAll DEF Checkpoint
  <2>. QED BY <2>1 DEF LastOK
<1>3. CASE BlockDetect(c) \/ BlockReuse(c) \/ LogDetect(c) \/ LogReclaim(c)
  BY <1>0, <1>3, LastGoto
  DEF BlockDetect, BlockReuse, LogDetect, LogReclaim, LastLabels, HaveDms2, HaveLog
<1>. QED BY <1>1, <1>2, <1>3 DEF Work

LEMMA LastLeave ==
  ASSUME NEW W \in Procs, RW \subseteq W, ConnectInv, CommitInv(W),
         NEW c \in RW, Close(c) \/ Disconnect(c)
  PROVE  LastOK'
<1>. USE DEF ConnectInv, CommitInv, dbVars, connVars
<1>0. c \in Conn /\ Proc(c) = W
  BY WriterOf
<1>1. CASE Close(c) \/ DisconnectUnlink(c) \/ DisconnectRwclient(c)
  BY <1>0, <1>1, LastGoto
  DEF Close, DisconnectUnlink, DisconnectRwclient, LastLabels, HaveDms2, HaveLog
<1>2. CASE DisconnectTest(c)
  <2>1. CASE TestLock(c, DMS2, 1, Excl)
    <3>1. /\ pc'[c] = "flush" /\ \A d \in RW \ {c} : pc'[d] = pc[d]
          /\ pc[c] = "last" /\ UNCHANGED <<ckpt, acked, logfd>>
      BY <1>0, <1>2, <2>1, GotoPc DEF DisconnectTest, Conn
    <3>2. ASSUME NEW d \in RW \ {c} PROVE pc[d] \notin HaveDms2
      <4>1. d \in Proc(c) \ {c} /\ d \in Conn /\ DMS2 \in Locks
        BY <1>0, LockNumbers, WriterOf
      <4>2. CASE d \in Others(c)
        <5>1. ~Conflict(mLock[d][DMS2], Excl)
          BY <2>1, <4>2 DEF TestLock
        <5>. QED BY <4>1, <5>1 DEF Conflict, HeldOK, HeldBy, Unlock, Shared, Excl
      <4>3. CASE d \notin Others(c)
        <5>1. mLock[d][DMS2] = Unlock
          BY <1>0, <4>1, <4>3, HoldersListed
        <5>. QED BY <4>1, <5>1 DEF HeldOK, HeldBy, Unlock, Shared
      <4>. QED BY <4>2, <4>3
    <3>. QED BY <3>1, <3>2 DEF LastOK, LastLabels, HaveDms2, HaveLog
  <2>2. CASE ~TestLock(c, DMS2, 1, Excl)
    <3>1. Goto(c, "release") /\ pc[c] = "last" /\ UNCHANGED <<ckpt, acked, logfd>>
      BY <1>2, <2>2 DEF DisconnectTest
    <3>. QED BY <1>0, <3>1, LastGoto DEF LastLabels, HaveDms2, HaveLog
  <2>. QED BY <2>1, <2>2
<1>3. CASE DisconnectFlush(c)
  <2>1. CASE HeaderOk(c)
    <3>1. ckpt' = acked
      BY <1>3, <2>1, SeesAll DEF DisconnectFlush
    <3>2. /\ pc'[c] = "delete" /\ \A d \in RW \ {c} : pc'[d] = pc[d]
          /\ pc[c] = "flush" /\ UNCHANGED <<acked, logfd>>
      BY <1>0, <1>3, <2>1, GotoPc DEF DisconnectFlush, Conn
    <3>. QED BY <3>1, <3>2 DEF LastOK, LastLabels, HaveDms2, HaveLog
  <2>2. CASE ~HeaderOk(c)
    <3>1. Goto(c, "release") /\ pc[c] = "flush" /\ UNCHANGED <<ckpt, acked, logfd>>
      BY <1>3, <2>2 DEF DisconnectFlush
    <3>. QED BY <1>0, <3>1, LastGoto DEF LastLabels, HaveDms2, HaveLog
  <2>. QED BY <2>1, <2>2
<1>4. CASE DisconnectDelete(c)
  <2>1. /\ pc'[c] \in {"release", "unlink"} /\ \A d \in RW \ {c} : pc'[d] = pc[d]
        /\ pc[c] = "delete" /\ UNCHANGED <<ckpt, acked>>
    BY <1>0, <1>4, GotoPc DEF DisconnectDelete, Conn
  <2>2. \A d \in RW \ {c} : logfd[d] = "none"
    <3>1. ASSUME NEW d \in RW \ {c} PROVE pc[d] \notin HaveDms2 \cup {"dms2", "fail"}
      <4>1. pc[d] \notin HaveDms2
        BY <2>1 DEF LastOK, LastLabels
      <4>2. pc[d] \notin ExclDms1
        BY <2>1, OneInside DEF ExclDms1
      <4>. QED BY <4>1, <4>2 DEF ExclDms1
    <3>2. \A d \in RW : logfd[d] \in {"none", "linked", "unlinked"}
      BY DEF TypeOK, Conn
    <3>. QED BY <3>1, <3>2 DEF LastOK, HaveLog
  <2>3. \A d \in RW : logfd'[d] = logfd[d] \/ logfd'[d] = "none"
    BY <1>4, <2>2 DEF DisconnectDelete, Conn
  <2>. QED BY <2>1, <2>2, <2>3 DEF LastOK, LastLabels, HaveDms2, HaveLog
<1>5. CASE DisconnectRelease(c)
  BY <1>0, <1>5, LastRelease DEF DisconnectRelease
<1>. QED BY <1>1, <1>2, <1>3, <1>4, <1>5 DEF Disconnect

LEMMA LastStep ==
  ASSUME NEW W \in Procs, RW \subseteq W, ConnectInv, CommitInv(W), Next
  PROVE  LastOK'
<1>. USE DEF ConnectInv, CommitInv, dbVars, connVars
<1>1. ASSUME NEW c \in RO, RoBegin(c) \/ RoStep(c) \/ RoTransFinish(c) \/ RoClose(c)
      PROVE  LastOK'
  <2>0. c \in Conn /\ c \notin RW
    BY ConnectAssumption DEF Conn
  <2>1. CASE RoBegin(c) \/ RoStep(c)
    BY <2>0, <2>1, LastGoto
    DEF RoBegin, RoStep, RoTest, RoTransLock, RoTransCkpt, RoTransLog, RoLiveLock, RoLiveMap
  <2>2. CASE RoTransFinish(c)
    <3>1. \A d \in RW : pc'[d] = pc[d] /\ logfd'[d] = logfd[d]
      BY <2>0, <2>2, GotoPc DEF RoTransFinish, Reset, Conn
    <3>2. UNCHANGED <<ckpt, acked>>
      BY <2>2 DEF RoTransFinish
    <3>. QED BY <3>1, <3>2, LastFrame
  <2>3. CASE RoClose(c)
    BY <2>0, <2>3, LastRelease DEF RoClose
  <2>. QED BY <1>1, <2>1, <2>2, <2>3
<1>2. ASSUME NEW c \in Conn, Open(c) PROVE LastOK'
  <2>1. CASE c \in RW
    BY <1>2, <2>1, LastGoto DEF Open, LastLabels, HaveDms2, HaveLog
  <2>2. CASE c \notin RW
    BY <1>2, <2>2, LastGoto DEF Open
  <2>. QED BY <2>1, <2>2
<1>. QED BY <1>1, <1>2, LastConnect, LastWork, LastLeave, LastCrash DEF Next, Die, Fault

-----------------------------------------------------------------------------
(* Read-only transactions *)

\* A connected writer finds every lock on ROTRANS.
LEMMA RoSeen ==
  ASSUME NEW W \in Procs, RW \subseteq W, MultiProc(W) \/ RO \subseteq W,
         TypeOK, HeldOK, LocksOK,
         NEW c \in RO, pc[c] \in HaveTrans, NEW d \in RW, pc[d] \in HaveDms2
  PROVE  DetectRoTrans(d)
<1>1. /\ c \in Conn /\ d \in Conn /\ c # d /\ Proc(d) = W /\ Proc(c) \in Procs
      /\ ROTRANS \in Locks /\ DMS2 \in Locks
  BY WriterOf, ProcOf, LockNumbers, ConnectAssumption DEF Conn
<1>2. mLock[c][ROTRANS] = Shared /\ mLock[d][DMS2] = Shared /\ pc[c] # "closed"
  BY <1>1 DEF HeldOK, HeldBy, HaveTrans
<1>3. CASE Proc(c) = W
  <2>1. c \in Others(d)
    BY <1>1, <1>2, <1>3, ProcOf DEF Others
  <2>. QED BY <1>2, <2>1 DEF DetectRoTrans, TestLock, Conflict, Unlock, Shared, Excl
<1>4. CASE Proc(c) # W
  <2>1. MultiProc(W)
    BY <1>1, <1>4, ProcOf
  <2>2. flock[Proc(c)][ROTRANS] # Unlock
    <3>1. CASE MultiProc(Proc(c))
      <4>1. Shared <= flock[Proc(c)][ROTRANS]
        BY <1>1, <1>2, <3>1, FileHas
      <4>. QED BY <4>1 DEF Unlock, Shared
    <3>2. CASE ~MultiProc(Proc(c))
      <4>1. flock[Proc(c)][DMS2] = Excl
        BY <1>1, <1>2, <3>2, FileHas
      <4>2. flock[W][DMS2] # Unlock
        BY <1>1, <1>2, FileHas DEF Unlock, Shared
      <4>3. ~Conflict(flock[W][DMS2], flock[Proc(c)][DMS2])
        BY <1>1, <1>4 DEF LocksOK, FileExclusion
      <4>. QED BY <4>1, <4>2, <4>3 DEF Conflict, Unlock, Excl
    <3>. QED BY <3>1, <3>2
  <2>3. ROTRANS \in TestRange(ROTRANS, 1)
    BY <1>1 DEF TestRange, ROTRANS
  <2>4. ~FileFree(W, ROTRANS, Excl)
    BY <1>1, <1>4, <2>2 DEF FileFree, Conflict, Unlock, Excl
  <2>. QED BY <1>1, <2>1, <2>3, <2>4 DEF DetectRoTrans, TestLock
<1>. QED BY <1>3, <1>4

\* Steps that leave a transaction alone.
LEMMA RoFrame ==
  ASSUME NEW c \in roAlone, RoOf(c), pc'[c] = pc[c],
         roCkpt'[c] = roCkpt[c], roData'[c] = roData[c], roBegan'[c] = roBegan[c],
         UNCHANGED <<oldest, logFrom>>, acked' = acked \/ acked' > acked,
         log' = log \/ log' > log,
         roBegan[c] \in Nat, acked \in Nat, acked' \in Nat, log \in Nat, log' \in Nat,
         \A d \in RW : pc'[d] \in Overwriting => pc[d] \in Overwriting
  PROVE  RoOf(c)'
BY DEF RoOf, Overwriting

LEMMA RoGoto ==
  ASSUME TypeOK, RoOK, NEW d \in Conn, NEW l, Goto(d, l), d \notin roAlone,
         UNCHANGED <<oldest, logFrom, acked, log, roVars>>,
         l \in Overwriting => pc[d] \in Overwriting \/ d \notin RW
  PROVE  RoOK'
<1>. SUFFICES ASSUME NEW c \in roAlone PROVE RoOf(c)'
  BY DEF RoOK, roVars
<1>1. pc'[d] = l /\ \A x \in Conn \ {d} : pc'[x] = pc[x]
  BY GotoPc
<1>2. c \in Conn /\ c # d /\ roBegan[c] \in Nat /\ acked \in Nat /\ log \in Nat
  BY DEF TypeOK
<1>3. \A x \in RW : pc'[x] \in Overwriting => pc[x] \in Overwriting
  BY <1>1 DEF Conn
<1>. QED BY <1>1, <1>2, <1>3, RoFrame DEF RoOK, roVars

\* Connections that end or finish their transaction.
LEMMA RoReset ==
  ASSUME TypeOK, RoOK, NEW S, Reset(S), UNCHANGED dbVars,
         \A c \in Conn \ S : pc'[c] = pc[c],
         \A c \in Conn \cap S : pc'[c] \notin Overwriting
  PROVE  RoOK'
<1>. SUFFICES ASSUME NEW c \in roAlone \ S PROVE RoOf(c)'
  BY DEF RoOK, Reset
<1>1. c \in Conn /\ roBegan[c] \in Nat /\ acked \in Nat /\ log \in Nat /\ RoOf(c)
  BY DEF TypeOK, RoOK
<1>2. roCkpt'[c] = roCkpt[c] /\ roData'[c] = roData[c] /\ roBegan'[c] = roBegan[c]
  BY <1>1 DEF Reset
<1>3. \A d \in RW : pc'[d] \in Overwriting => pc[d] \in Overwriting
  BY DEF Conn
<1>. QED BY <1>1, <1>2, <1>3, RoFrame DEF dbVars

LEMMA RoRelease ==
  ASSUME TypeOK, RoOK, NEW c \in Conn, NEW S, Release(c, S)
  PROVE  RoOK'
<1>1. pc'[c] = "closed" /\ \A d \in Conn \ {c} : pc'[d] = pc[d]
  BY DEF Release, TypeOK
<1>2. \A d \in Conn \cap {c} : pc'[d] \notin Overwriting
  BY <1>1 DEF Overwriting
<1>. QED BY <1>1, <1>2, RoReset DEF Release

LEMMA RoCrash ==
  ASSUME TypeOK, RoOK, NEW P \in Procs, Crash(P)
  PROVE  RoOK'
<1>1. /\ \A d \in Conn \ P : pc'[d] = pc[d]
      /\ \A d \in Conn \cap P : pc'[d] \notin Overwriting
  BY DEF Crash, Overwriting
<1>. QED BY <1>1, RoReset DEF Crash

\* A writer is never at a place where it overwrites.
LEMMA RoWriter ==
  ASSUME NEW W \in Procs, OneWriter(W), ConnectInv, CommitInv(W), RoOK,
         NEW d \in RW, Connect(d) \/ Work(d) \/ Close(d) \/ Disconnect(d)
  PROVE  RoOK'
<1>. USE DEF ConnectInv, CommitInv, dbVars, connVars
<1>0. d \in Conn /\ d \notin RO /\ d \notin roAlone /\ RW \subseteq W
  BY ConnectAssumption DEF Conn, RoOK, RoOf, OneWriter
<1>a. roAlone # {} =>
        /\ pc[d] \notin Overwriting
        /\ pc[d] \in HaveDms2 => DetectRoTrans(d)
  <2>. SUFFICES ASSUME NEW c \in roAlone
                PROVE  /\ pc[d] \notin Overwriting
                       /\ pc[d] \in HaveDms2 => DetectRoTrans(d)
    OBVIOUS
  <2>1. RoOf(c)
    BY DEF RoOK
  <2>. QED BY <2>1, RoSeen DEF RoOf, OneWriter, Overwriting
<1>1. CASE \/ ConnectCache(d) \/ ConnectLock(d) \/ ConnectTest(d) \/ ConnectRecover(d)
           \/ ConnectDms2(d) \/ ConnectUnlock(d)
  BY <1>0, <1>1, RoGoto
  DEF ConnectCache, ConnectLock, ConnectTest, ConnectRecover, ConnectDms2, ConnectUnlock,
      Overwriting
<1>2. CASE ConnectFail(d) \/ DisconnectRelease(d)
  BY <1>0, <1>2, RoRelease DEF ConnectFail, DisconnectRelease
<1>3. CASE Commit(d) \/ Checkpoint(d)
  <2>. SUFFICES ASSUME NEW c \in roAlone PROVE RoOf(c)'
    BY <1>3 DEF RoOK, Commit, Checkpoint, roVars
  <2>1. /\ pc' = pc /\ UNCHANGED <<oldest, logFrom, roVars>>
        /\ acked' = acked \/ acked' = acked + 1
        /\ log' = log \/ log' = acked + 1
    <3>1. CASE Commit(d)
      <4>1. shm[ptr[d]] = acked
        BY <1>0, <3>1, SeesAll DEF Commit
      <4>. QED BY <3>1, <4>1 DEF Commit
    <3>2. CASE Checkpoint(d)
      BY <3>2 DEF Checkpoint
    <3>. QED BY <1>3, <3>1, <3>2
  <2>2. c \in Conn /\ roBegan[c] \in Nat /\ acked \in Nat /\ log \in Nat /\ log <= acked
    BY CountValues DEF TypeOK, CountsOK
  <2>. QED BY <2>1, <2>2, RoFrame DEF RoOK, roVars
<1>4. CASE BlockDetect(d) \/ LogDetect(d) \/ BlockReuse(d) \/ LogReclaim(d)
  <2>1. roAlone = {}
    BY <1>a, <1>4
    DEF BlockDetect, LogDetect, BlockReuse, LogReclaim, Overwriting, HaveDms2
  <2>2. roAlone' = roAlone
    BY <1>4 DEF BlockDetect, LogDetect, BlockReuse, LogReclaim, roVars
  <2>. QED BY <2>1, <2>2 DEF RoOK
<1>5. CASE Close(d) \/ DisconnectTest(d) \/ DisconnectFlush(d) \/ DisconnectRwclient(d)
  <2>1. /\ UNCHANGED <<oldest, logFrom, acked, log, roVars>>
        /\ \E l \in {"last", "release", "flush", "delete", "leave"} : Goto(d, l)
    BY <1>5 DEF Close, DisconnectTest, DisconnectFlush, DisconnectRwclient
  <2>. QED BY <1>0, <2>1, RoGoto DEF Overwriting
<1>6. CASE DisconnectDelete(d)
  <2>1. CASE roAlone = {}
    BY <1>6, <2>1 DEF DisconnectDelete, RoOK, roVars
  <2>2. CASE roAlone # {}
    <3>1. DetectRoTrans(d)
      BY <1>a, <1>6, <2>2 DEF DisconnectDelete, HaveDms2
    <3>2. Goto(d, "release") /\ UNCHANGED <<oldest, logFrom, acked, log, roVars>>
      BY <1>6, <3>1 DEF DisconnectDelete
    <3>. QED BY <1>0, <3>2, RoGoto DEF Overwriting
  <2>. QED BY <2>1, <2>2
<1>7. CASE DisconnectUnlink(d)
  <2>1. roAlone = {}
    BY <1>a, <1>7 DEF DisconnectUnlink, Overwriting
  <2>. QED BY <1>7, <2>1 DEF DisconnectUnlink, RoOK, roVars
<1>. QED BY <1>1, <1>2, <1>3, <1>4, <1>5, <1>6, <1>7 DEF Connect, Work, Disconnect

LEMMA RoReader ==
  ASSUME NEW W \in Procs, OneWriter(W), ConnectInv, CommitInv(W), RoOK,
         NEW c \in RO, RoBegin(c) \/ RoStep(c) \/ RoTransFinish(c) \/ RoClose(c)
  PROVE  RoOK'
<1>. USE DEF ConnectInv, CommitInv, dbVars, connVars
<1>0. /\ c \in Conn /\ c \notin RW /\ acked \in Nat /\ log \in Nat
      /\ ckpt \in Nat /\ oldest \in Nat /\ logFrom \in Nat
      /\ \A x \in Conn : roCkpt[x] \in Nat /\ roBegan[x] \in Nat
      /\ roAlone \subseteq Conn
  BY ConnectAssumption DEF Conn, TypeOK
<1>1. CASE RoBegin(c) \/ RoTest(c) \/ RoLiveLock(c) \/ RoLiveMap(c)
  <2>1. c \notin roAlone
    BY <1>1 DEF RoBegin, RoTest, RoLiveLock, RoLiveMap, RoOK, RoOf, HaveTrans
  <2>. QED BY <1>0, <1>1, <2>1, RoGoto DEF RoBegin, RoTest, RoLiveLock, RoLiveMap
<1>2. CASE RoTransLock(c)
  <2>1. /\ pc'[c] = "roCkpt" /\ \A d \in Conn \ {c} : pc'[d] = pc[d]
        /\ roBegan'[c] = acked /\ \A d \in Conn \ {c} : roBegan'[d] = roBegan[d]
        /\ UNCHANGED <<ckpt, acked, log, oldest, logFrom, roCkpt, roData>>
        /\ pc[c] = "roDead"
    <3>1. roBegan' = [roBegan EXCEPT ![c] = acked] /\ Goto(c, "roCkpt")
      BY <1>2 DEF RoTransLock
    <3>2. UNCHANGED <<ckpt, acked, log, oldest, logFrom, roCkpt, roData>> /\ pc[c] = "roDead"
      BY <1>2 DEF RoTransLock
    <3>. QED BY <1>0, <3>1, <3>2, GotoPc DEF TypeOK
  <2>2. \/ roAlone' = roAlone
        \/ roAlone' = roAlone \cup {c} /\ \A d \in RW : mLock[d][DMS2] = Unlock
    BY <1>2 DEF RoTransLock
  <2>3. ASSUME NEW x \in roAlone PROVE RoOf(x)'
    <3>1. x # c
      BY <2>1 DEF RoOK, RoOf, HaveTrans
    <3>2. \A d \in RW : d \in Conn \ {c}
      BY <1>0 DEF Conn
    <3>. QED BY <1>0, <2>1, <3>1, <3>2, RoFrame DEF RoOK
  <2>4. ASSUME \A d \in RW : mLock[d][DMS2] = Unlock PROVE RoOf(c)'
    <3>1. \A d \in RW : d \in Conn \ {c} /\ pc[d] \notin HaveDms2
      BY <1>0, <2>4 DEF Conn, HeldOK, HeldBy, Unlock, Shared
    <3>. QED BY <1>0, <2>1, <3>1 DEF RoOf, HaveTrans, HaveDms2, Overwriting
  <2>. QED BY <2>3, <2>4, <2>2 DEF RoOK
<1>3. CASE RoTransCkpt(c)
  <2>1. /\ pc'[c] = "roLog" /\ \A d \in Conn \ {c} : pc'[d] = pc[d]
        /\ roCkpt'[c] = ckpt /\ \A d \in Conn \ {c} : roCkpt'[d] = roCkpt[d]
        /\ UNCHANGED <<ckpt, acked, log, oldest, logFrom, roBegan, roData, roAlone>>
    BY <1>0, <1>3, GotoPc DEF RoTransCkpt, TypeOK
  <2>2. ASSUME NEW x \in roAlone PROVE RoOf(x)'
    <3>1. \A d \in RW : d \in Conn \ {c}
      BY <1>0 DEF Conn
    <3>2. RoOf(x)
      BY DEF RoOK
    <3>3. CASE x = c
      BY <1>0, <2>1, <3>1, <3>2, <3>3 DEF RoOf, KeptOK, HaveTrans
    <3>4. CASE x # c
      BY <1>0, <2>1, <3>1, <3>2, <3>4, RoFrame
    <3>. QED BY <3>3, <3>4
  <2>. QED BY <2>1, <2>2 DEF RoOK
<1>4. CASE RoTransLog(c)
  <2>1. /\ pc'[c] = "rotrans" /\ \A d \in Conn \ {c} : pc'[d] = pc[d]
        /\ pc[c] = "roLog"
        /\ roCkpt[c] >= logFrom => roData'[c] = Max({roCkpt[c], log})
        /\ \A d \in Conn \ {c} : roData'[d] = roData[d]
        /\ UNCHANGED <<ckpt, acked, log, oldest, logFrom, roBegan, roCkpt, roAlone>>
    BY <1>0, <1>4, GotoPc DEF RoTransLog, TypeOK
  <2>2. ASSUME NEW x \in roAlone PROVE RoOf(x)'
    <3>1. \A d \in RW : d \in Conn \ {c}
      BY <1>0 DEF Conn
    <3>2. RoOf(x)
      BY DEF RoOK
    <3>3. CASE x = c
      <4>1. logFrom <= roCkpt[c] /\ (roBegan[c] <= roCkpt[c] \/ roBegan[c] <= log)
        BY <2>1, <3>2, <3>3 DEF RoOf
      <4>2. roBegan[c] <= roData'[c]
        BY <1>0, <2>1, <4>1, MaxOf
      <4>. QED BY <1>0, <2>1, <3>1, <3>2, <3>3, <4>2 DEF RoOf, HaveTrans
    <3>4. CASE x # c
      BY <1>0, <2>1, <3>1, <3>2, <3>4, RoFrame
    <3>. QED BY <3>3, <3>4
  <2>. QED BY <2>1, <2>2 DEF RoOK
<1>5. CASE RoTransFinish(c)
  <2>1. /\ pc'[c] = "idle" /\ \A d \in Conn \ {c} : pc'[d] = pc[d]
        /\ Reset({c}) /\ UNCHANGED dbVars
    BY <1>0, <1>5, GotoPc DEF RoTransFinish
  <2>2. \A d \in Conn \cap {c} : pc'[d] \notin Overwriting
    BY <2>1 DEF Overwriting
  <2>. QED BY <2>1, <2>2, RoReset
<1>6. CASE RoClose(c)
  BY <1>0, <1>6, RoRelease DEF RoClose
<1>. QED BY <1>1, <1>2, <1>3, <1>4, <1>5, <1>6 DEF RoStep

-----------------------------------------------------------------------------
(* The theorems *)

LEMMA InitCommit ==
  ASSUME NEW W \in Procs, Init
  PROVE  CommitInv(W) /\ RoOK
BY DEF Init, CommitInv, SeesOK, KeptOK, LastOK, LastLabels, RoOK, Conn

LEMMA CommitSame ==
  ASSUME NEW W \in Procs, UNCHANGED vars
  PROVE  /\ CommitInv(W) => CommitInv(W)'
         /\ RoOK => RoOK'
<1>. USE DEF vars, shmVars, dbVars, roVars, connVars
<1>1. CommitInv(W) => CommitInv(W)'
  BY DEF CommitInv, SeesOK, KeptOK, LastOK, MultiProc
<1>2. RoOK => RoOK'
  BY DEF RoOK, RoOf
<1>. QED BY <1>1, <1>2

LEMMA CommitInvariant ==
  ASSUME ~TestFails, NEW W \in Procs, RW \subseteq W
  PROVE  Spec => [](ConnectInv /\ CommitInv(W))
<1>1. ConnectInv /\ CommitInv(W) /\ Next => CommitInv(W)'
  BY SeesStep, KeptStep, LastStep DEF CommitInv
<1>2. Init => CommitInv(W)
  BY InitCommit
<1>3. CommitInv(W) /\ UNCHANGED vars => CommitInv(W)'
  BY CommitSame
<1>. QED BY <1>1, <1>2, <1>3, ConnectInvariant, PTL DEF Spec

\* However the connections of one process open and close the database, beside
\* any number of read-only processes, and wherever processes die, the last
\* checkpoint and the log hold every commit: lsmFsCloseAndDeleteLog() comes
\* after a checkpoint of all of them, with nobody left who has the log open.
THEOREM CommitsSurvive ==
  ASSUME ~TestFails, NEW W \in Procs, RW \subseteq W
  PROVE  Spec => []CommitsRecoverable
<1>1. ConnectInv /\ CommitInv(W) => CommitsRecoverable
  BY MaxOf, CountValues DEF ConnectInv, CommitInv, KeptOK, CommitsRecoverable, Recovered
<1>. QED BY <1>1, CommitInvariant, PTL

\* A connected writer of that process, whose shared memory has been set up,
\* sees all commits in it.
THEOREM ConnectedUpToDate ==
  ASSUME ~TestFails, NEW W \in Procs, RW \subseteq W
  PROVE  Spec => []ConnectedSeesCommits
<1>1. ConnectInv /\ CommitInv(W) => ConnectedSeesCommits
  BY SeesAll DEF ConnectInv, CommitInv, ConnectedSeesCommits
<1>. QED BY <1>1, CommitInvariant, PTL

\* A read-only client that found the system dead keeps, under its lock on
\* ROTRANS, the blocks and the part of the log it reads, and finds all that was
\* committed, whatever the writers do: lsmDetectRoTrans() sees it if the
\* writers use the file's locks, or live in the same process.
THEOREM RoTransProtected ==
  ASSUME ~TestFails, NEW W \in Procs, OneWriter(W)
  PROVE  Spec => []RoTransIntact
<1>0. RW \subseteq W
  BY DEF OneWriter
<1>1. ConnectInv /\ CommitInv(W) /\ RoOK /\ Next => RoOK'
  <2>. SUFFICES ASSUME ConnectInv, CommitInv(W), RoOK, Next PROVE RoOK'
    OBVIOUS
  <2>1. ASSUME NEW c \in Conn, Open(c) PROVE RoOK'
    <3>1. c \notin roAlone
      BY <2>1 DEF Open, RoOK, RoOf, HaveTrans
    <3>. QED BY <2>1, <3>1, RoGoto DEF Open, ConnectInv, Overwriting, dbVars
  <2>2. ASSUME NEW P \in Procs, Crash(P) PROVE RoOK'
    BY <2>2, RoCrash DEF ConnectInv
  <2>. QED BY <2>1, <2>2, RoWriter, RoReader DEF Next, Die, Fault
<1>2. Init => RoOK
  BY InitCommit
<1>3. RoOK /\ UNCHANGED vars => RoOK'
  BY CommitSame
<1>4. ConnectInv /\ RoOK => RoTransIntact
  <2>. SUFFICES ASSUME ConnectInv, RoOK, NEW c \in roAlone PROVE RoReads(c)
    BY DEF RoTransIntact
  <2>1. RoOf(c) /\ c \in Conn
    BY DEF RoOK, ConnectInv, TypeOK
  <2>. QED BY <2>1, CountValues DEF RoOf, RoReads, ConnectInv, TypeOK
<1>5. Spec => [](ConnectInv /\ CommitInv(W))
  BY <1>0, CommitInvariant
<1>. QED BY <1>1, <1>2, <1>3, <1>4, <1>5, PTL DEF Spec
=============================================================================
