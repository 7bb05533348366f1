------------------------------- MODULE LsmLog -------------------------------
(***************************************************************************)
(* The log file of the LSM engine (LSMoVe/src/lsm_log.c) with what decides *)
(* how much of it recovery needs: the in-memory tree that becomes old, is  *)
(* flushed and dropped (lsm_shared.c, lsm_tree.c, lsm_sorted.c) and the    *)
(* log position that snapshots and checkpoints carry (lsm_ckpt.c).         *)
(*                                                                         *)
(* The log consists of the regions 0, 1 and 2, read in that order.         *)
(* Records are appended to region 2; a wrap renames it to region 0 and     *)
(* starts again at offset 0; before region 2 runs into region 0 it jumps   *)
(* over it and becomes region 1.  Checkpoints make regions shrink.         *)
(*                                                                         *)
(* The file is an array of cells, one for each record, so offsets count    *)
(* records.  A checksum is the sequence of everything it covers: different *)
(* contents have different checksums, and no two writes are the same.      *)
(* There is one write transaction at a time (the WRITER lock), the snapshot*)
(* is replaced by one worker at a time (the WORKER lock), and a checkpoint *)
(* is one step (its steps are those of LsmSnapshot).                       *)
(***************************************************************************)
EXTENDS Integers, Sequences, SequencesExt

CONSTANTS
  Full,            \* safety mode FULL: commits are synced
  UseLog,          \* LSM_CONFIG_USE_LOG
  Rollbacks,       \* whether transactions are rolled back as a whole
  Levels,          \* how deep transactions are nested
  MaxFlush,        \* bound: lsm_flush() is called up to this snapshot
  Contended,       \* whether another connection may hold the WORKER lock then
  Closes,          \* whether the last connection closes the database
  MinLogWrap,      \* LSM_MIN_LOGWRAP
  MaxData,         \* LSM_CKSUM_MAXDATA: records between two checksums
  ReadSize,        \* LOG_READ_SIZE
  MaxOff,          \* bound: size of the log file
  MaxRecord,       \* bound: records written
  MaxFail          \* bound: failures and closes

ASSUME LogAssumption ==
  /\ {Full, UseLog, Rollbacks, Contended, Closes} \subseteq BOOLEAN
  /\ {Levels, MinLogWrap, MaxData, ReadSize} \subseteq Nat \ {0}
  /\ {MaxFlush, MaxOff, MaxRecord, MaxFail} \subseteq Nat

Off == 0..MaxOff

VARIABLES
  file,            \* the log file, as a process reads it
  versions,        \* what each cell may hold on the disk: its contents when
                   \* the file was last synced, and all since
  hdr,             \* ShmHeader.hdr1: the published TreeHeader
  snap,            \* the current snapshot, in shared memory
  ckpt,            \* the last checkpoint, on a meta page
  pc,              \* where the connection that writes is
  tree,            \* its lsm_db.treehdr
  client,          \* its lsm_db.pClient
  log,             \* its LogWriter
  marks,           \* its lsm_db.aTrans: one mark for each open level
  pend,            \* the records of its transaction
  db,              \* the committed transactions, as clients see them
  stored,          \* how many of them a failure of the machine must leave
  doubt,           \* transactions that did not get into db, and may be in
                   \* the log
  outages,         \* failures of the machine so far
  nrec, nfail      \* records and failures so far

diskVars   == <<file, versions, ckpt>>
sharedVars == <<hdr, snap>>
writerVars == <<pc, tree, client, log, marks, pend>>
ghostVars  == <<db, stored, doubt, outages, nrec, nfail>>
vars == <<diskVars, sharedVars, writerVars, ghostVars>>

-----------------------------------------------------------------------------
(* Records and checksums *)

\* What a checksum covers of a record: its type and contents, not the
\* checksum in it.
Item(k, v) == [k |-> k, v |-> v]
Cell(k, v, ck) == [k |-> k, v |-> v, ck |-> ck]
NoCell == Cell("eof", 0, <<>>)
EmptyFile == [o \in Off |-> NoCell]

\* The checksum of ckptLoadEmpty(), and that of a header set to zero.
FirstCksum == <<Item("first", 0)>>
ZeroCksum  == <<Item("zero", 0)>>

Region(s, e) == [iStart |-> s, iEnd |-> e]
NoRegion == Region(0, 0)

\* lsmFsWriteLog(): the file with the cells of b at offset o.
WriteLog(f, o, b) ==
  [i \in Off |-> IF i \in o..(o + Len(b) - 1) THEN b[i - o + 1] ELSE f[i]]

\* The operating system writes a cell back when it likes.
Written(f) == versions' = [i \in Off |-> versions[i] \cup {f[i]}]
Synced(f) == versions' = [i \in Off |-> {f[i]}]

\* TreeHeader.iOldLog and Snapshot.iLogOff: an offset and the toggled bit.
LogOff(o, bit) == [off |-> o, bit |-> bit]

\* lsmTreeInit(): no old tree.  The contents of the trees are counted in
\* transactions: those up to from have left memory, those up to nOld are in
\* the old tree, the others in the current one.
TreeInit(l, from) ==
  [log |-> l, old |-> FALSE, iOldLog |-> LogOff(0, 0), oldcksum |-> ZeroCksum,
   nOld |-> 0, from |-> from]

NoLog ==
  [iOff |-> 0, buf |-> <<>>, cksum |-> <<>>, jump |-> NoRegion,
   iRegion1End |-> 0, iRegion2Start |-> 0]

FirstSnapshot == [id |-> 1, iLogOff |-> LogOff(0, 0), cksum |-> FirstCksum, upto |-> 0]

-----------------------------------------------------------------------------
(* lsmLogBegin() *)

\* logReclaimSpace(): drop the regions before the one that the checkpoint's
\* log offset is in, and cut that one.
Reclaimed(l) ==
  LET o == ckpt.iLogOff.off
      In(i) == l.aRegion[i].iStart <= o /\ o <= l.aRegion[i].iEnd
      first == CHOOSE i \in 0..3 : (i = 3 \/ In(i)) /\ \A j \in 0..(i - 1) : ~In(j)
  IN  IF l.iSnapshotId >= ckpt.id THEN l
      ELSE [l EXCEPT
              !.iSnapshotId = ckpt.id,
              !.aRegion = [i \in 0..2 |->
                             IF i < first THEN NoRegion
                             ELSE IF i = first THEN Region(o, @[i].iEnd)
                             ELSE @[i]]]

\* Regions 0 and 1 are empty and region 2 starts late enough to wrap.
MayWrap(l) ==
  /\ l.aRegion[0].iEnd = 0
  /\ l.aRegion[1].iEnd = 0
  /\ l.aRegion[2].iStart >= MinLogWrap

\* Mutant: region 2 is restarted and not kept as region 0.
WrappedRegionsLost(l) == [l.aRegion EXCEPT ![2] = NoRegion]

\* lsmLogBegin(): in case 1 a JUMP to 0 is written at the end of region 2 at
\* once, and region 2 becomes region 0.  In cases 2 and 3 records are appended
\* to region 2, which in case 2 must jump over region 0.
WrappedRegions(l) ==
  [l.aRegion EXCEPT ![0] = Region(l.aRegion[2].iStart, l.aRegion[2].iEnd + 1),
                    ![2] = NoRegion]

LogBegin(l) ==
  LET reg == l.aRegion
  IN  IF MayWrap(l)
      THEN [NoLog EXCEPT !.cksum = Append(l.cksum, Item("jump", 0)),
                         !.jump = WrappedRegions(l)[0]]
      ELSE [NoLog EXCEPT !.iOff = reg[2].iEnd,
                         !.cksum = l.cksum,
                         !.jump = IF reg[1].iEnd = 0 /\ reg[2].iEnd < reg[0].iEnd
                                  THEN reg[0] ELSE NoRegion]

-----------------------------------------------------------------------------
(* The log writer *)

LogEndOff(w) == w.iOff + Len(w.buf)

\* Mutant: the room for the JUMP itself is forgotten.
JumpRequiredLate(w) ==
  w.jump.iStart > LogEndOff(w) /\ w.jump.iStart < LogEndOff(w) + 1

\* jumpIfRequired(): there is room for a JUMP but not for a record as well.
JumpRequired(w) ==
  w.jump.iStart > LogEndOff(w) /\ w.jump.iStart < LogEndOff(w) + 2

JumpCell(w) == Cell("jump", w.jump.iEnd + 1, <<>>)

\* The buffer and the JUMP are written, and writing goes on after the region
\* that was jumped over.
Jumped(w) ==
  [w EXCEPT !.iRegion1End   = LogEndOff(w) + 1,
            !.iRegion2Start = w.jump.iEnd + 1,
            !.iOff          = w.jump.iEnd + 1,
            !.cksum         = Append(@, Item("jump", w.jump.iEnd + 1)),
            !.buf           = <<>>]

JumpIfRequired(w) == IF JumpRequired(w) THEN Jumped(w) ELSE w
JumpFile(w) ==
  IF JumpRequired(w) THEN WriteLog(file, w.iOff, Append(w.buf, JumpCell(w))) ELSE file

\* logCksumAndFlush(): what was buffered is written.
Flushed(w) == [w EXCEPT !.iOff = LogEndOff(w), !.buf = <<>>]

\* The bound on the file: room for a record and a COMMIT, also after a jump.
HasRoom(w) == LogEndOff(w) + 2 <= MaxOff /\ w.jump.iEnd + 2 <= MaxOff

\* The record is added to the buffer and to the checksum.
Appended(w, k, v, ck) ==
  [w EXCEPT !.buf = Append(@, Cell(k, v, ck)), !.cksum = Append(@, Item(k, v))]

\* Mutant: the jump of the transaction is forgotten.
LogEndNoJump(l, w) == [l EXCEPT !.cksum = w.cksum, !.aRegion[2].iEnd = w.iOff]

\* lsmLogEnd(), for a commit.
LogEnd(l, w) ==
  LET reg == l.aRegion
  IN  [l EXCEPT
         !.cksum = w.cksum,
         !.aRegion =
            IF w.iRegion1End = 0
            THEN [reg EXCEPT ![2].iEnd = w.iOff]
            ELSE [reg EXCEPT ![1] = Region(reg[2].iStart, w.iRegion1End),
                             ![2] = Region(w.iRegion2Start, w.iOff)]]

-----------------------------------------------------------------------------
(* The old tree *)

\* lsmTreeMakeOld(), with n transactions in the database.  The bit is the
\* opposite of that of the client snapshot.  (Mutant: the bit is not changed.)
MakeOldSameBit(t, n) ==
  IF t.old THEN t
  ELSE [t EXCEPT !.old      = TRUE,
                 !.iOldLog  = LogOff(t.log.aRegion[2].iEnd, client.iLogOff.bit),
                 !.oldcksum = t.log.cksum,
                 !.nOld     = n]
MakeOld(t, n) ==
  IF t.old THEN t
  ELSE [t EXCEPT !.old      = TRUE,
                 !.iOldLog  = LogOff(t.log.aRegion[2].iEnd, 1 - client.iLogOff.bit),
                 !.oldcksum = t.log.cksum,
                 !.nOld     = n]

\* lsmTreeDiscardOld()
DiscardOld(t) ==
  [t EXCEPT !.old = FALSE, !.from = IF t.old THEN t.nOld ELSE @]

\* Mutant: the snapshot is taken to hold a transaction more than the tree.
FlushedSnapshotAhead(t, n) ==
  [id |-> snap.id + 1, iLogOff |-> t.iOldLog, cksum |-> t.oldcksum, upto |-> n + 1]

\* ckptExportLog() for a snapshot that a tree was flushed into.
FlushedSnapshot(t, n) ==
  [id |-> snap.id + 1, iLogOff |-> t.iOldLog, cksum |-> t.oldcksum, upto |-> n]

-----------------------------------------------------------------------------
(* Transactions of the connection that writes *)

\* lsmBeginReadTrans(), on the way to a write transaction or for a cursor.
BeginReadTrans ==
  /\ pc = "idle"
  /\ pc' \in {"read", "cursor"}
  /\ client' = snap
  /\ tree' = hdr
  /\ UNCHANGED <<log, marks, pend, diskVars, sharedVars, ghostVars>>

FinishReadTrans ==
  /\ pc \in {"read", "cursor"}
  /\ pc' = "idle"
  /\ UNCHANGED <<tree, client, log, marks, pend, diskVars, sharedVars, ghostVars>>

\* lsmLogTell()
LogTell(w) == [iOff |-> LogEndOff(w), cksum |-> w.cksum, n |-> Len(pend)]

\* lsmBeginWriteTrans(), for lsm_begin(1) or, if there is no cursor, for
\* lsm_flush().  The old tree is dropped if the client snapshot holds it.
BeginWriteTrans ==
  LET l    == IF UseLog THEN Reclaimed(tree.log) ELSE tree.log
      wrap == UseLog /\ MayWrap(l)
      w    == IF UseLog THEN LogBegin(l) ELSE NoLog
      t    == IF tree.old /\ tree.iOldLog = client.iLogOff THEN DiscardOld(tree) ELSE tree
  IN  /\ pc \in {"read", "cursor"}
      /\ tree = hdr
      /\ file' = IF wrap THEN WriteLog(file, l.aRegion[2].iEnd, <<Cell("jump", 0, <<>>)>>)
                         ELSE file
      /\ Written(file')
      /\ tree' = [t EXCEPT !.log = IF wrap THEN [l EXCEPT !.aRegion = WrappedRegions(l)] ELSE l]
      /\ log' = w
      /\ \/ /\ pc' = "write"
            /\ nrec < MaxRecord
            /\ UseLog => HasRoom(w)
         \/ pc = "read" /\ pc' = "flush" /\ snap.id <= MaxFlush
      /\ marks' = <<LogTell(w)>>
      /\ UNCHANGED <<client, pend, ckpt, sharedVars, ghostVars>>

\* lsm_begin() of a nested transaction.
Savepoint ==
  /\ pc = "write"
  /\ Len(marks) < Levels
  /\ marks' = Append(marks, LogTell(log))
  /\ UNCHANGED <<pc, tree, client, log, pend, diskVars, sharedVars, ghostVars>>

\* lsm_commit() of a nested transaction.
Release ==
  /\ pc = "write"
  /\ \E n \in 1..(Len(marks) - 1) : marks' = SubSeq(marks, 1, n)
  /\ UNCHANGED <<pc, tree, client, log, pend, diskVars, sharedVars, ghostVars>>

\* Mutant: the checksum is not put back.
LogSeekCksumKept(w, m) ==
  [w EXCEPT
     !.iOff = IF m.iOff >= w.iOff THEN @ ELSE m.iOff,
     !.buf  = IF m.iOff >= w.iOff THEN SubSeq(@, 1, m.iOff - w.iOff) ELSE <<>>]

\* lsmLogSeek()
LogSeek(w, m) ==
  [w EXCEPT
     !.iOff          = IF m.iOff >= w.iOff THEN @ ELSE m.iOff,
     !.buf           = IF m.iOff >= w.iOff THEN SubSeq(@, 1, m.iOff - w.iOff) ELSE <<>>,
     !.cksum         = m.cksum,
     !.iRegion1End   = IF m.iOff > @ THEN 0 ELSE @,
     !.iRegion2Start = IF m.iOff > @ THEN 0 ELSE @]

\* lsm_rollback() to the start of level n, which stays open.
RollbackTo ==
  /\ pc = "write"
  /\ Levels > 1
  /\ \E n \in 1..Len(marks) :
       /\ marks' = SubSeq(marks, 1, n)
       /\ log' = IF UseLog THEN LogSeek(log, marks[n]) ELSE log
       /\ pend' = SubSeq(pend, 1, marks[n].n)
  /\ UNCHANGED <<pc, tree, client, diskVars, sharedVars, ghostVars>>

\* lsmLogWrite(): a checksum is put in the record after a jump and when the
\* buffer is full, and then what is before it is written to the file.
LogWrite ==
  LET w  == JumpIfRequired(log)
      ck == JumpRequired(log) \/ Len(w.buf) + 1 > MaxData
      f  == JumpFile(log)
  IN  /\ pc = "write"
      /\ nrec < MaxRecord
      /\ UseLog => HasRoom(log)
      /\ nrec' = nrec + 1
      /\ pend' = Append(pend, nrec')
      /\ IF ~UseLog THEN UNCHANGED <<file, log>>
         ELSE IF ck
         THEN /\ file' = WriteLog(f, w.iOff, w.buf)
              /\ log' = Appended(Flushed(w), "writeck", nrec', w.cksum)
         ELSE /\ file' = f
              /\ log' = Appended(w, "write", nrec', <<>>)
      /\ Written(file')
      /\ UNCHANGED <<pc, tree, client, marks, ckpt, sharedVars, db, stored, doubt, outages, nfail>>

\* lsmLogCommit(): write everything and a COMMIT record.  Transactions without
\* a record are left out.
LogCommit ==
  LET w == JumpIfRequired(log)
      c == Appended(w, "commit", 0, Append(w.cksum, Item("commit", 0)))
  IN  /\ pc = "write"
      /\ pend # <<>>
      /\ IF ~UseLog THEN UNCHANGED <<file, log>>
         ELSE /\ file' = WriteLog(JumpFile(log), c.iOff, c.buf)
              /\ log' = Flushed(c)
      /\ Written(file')
      /\ pc' = IF Full THEN "sync" ELSE "end"
      /\ UNCHANGED <<tree, client, marks, pend, ckpt, sharedVars, ghostVars>>

LogSync ==
  /\ pc = "sync"
  /\ Synced(file)
  /\ pc' = "end"
  /\ UNCHANGED <<tree, client, log, marks, pend, file, ckpt, sharedVars, ghostVars>>

\* lsmFinishWriteTrans(): publish the header.  A tree over the limit is made
\* old.  The read transaction stays open if there is a cursor.
FinishCommit ==
  /\ pc = "end"
  /\ db' = Append(db, pend)
  /\ stored' = IF Full /\ UseLog THEN Len(db') ELSE stored
  /\ doubt' = IF Full THEN {} ELSE doubt
  /\ \E full \in BOOLEAN :
       LET t == [tree EXCEPT !.log = IF UseLog THEN LogEnd(@, log) ELSE @]
       IN  tree' = IF full THEN MakeOld(t, Len(db')) ELSE t
  /\ hdr' = tree'
  /\ pc' \in {"cursor", "idle"}
  /\ log' = NoLog
  /\ marks' = <<>>
  /\ pend' = <<>>
  /\ UNCHANGED <<client, diskVars, snap, outages, nrec, nfail>>

\* lsm_rollback(0): lsmLogEnd() leaves the log as lsmLogBegin() made it, and
\* that header is published.
Rollback ==
  /\ pc = "write"
  /\ Rollbacks
  /\ hdr' = tree
  /\ pc' \in {"cursor", "idle"}
  /\ log' = NoLog
  /\ marks' = <<>>
  /\ pend' = <<>>
  /\ UNCHANGED <<tree, client, diskVars, snap, ghostVars>>

\* lsm_flush() after lsmBeginWriteTrans().  What lsmFlushTreeToDisk() returns
\* is not looked at: it fails when another connection holds the WORKER lock.
Flush ==
  /\ pc = "flush"
  /\ snap' \in {FlushedSnapshot(tree, Len(db))} \cup (IF Contended THEN {snap} ELSE {})
  /\ LET t == DiscardOld(MakeOld(DiscardOld(tree), Len(db)))
     IN  tree' = [t EXCEPT !.log = IF UseLog THEN LogEnd(@, log) ELSE @]
  /\ hdr' = tree'
  /\ pc' = "idle"
  /\ log' = NoLog
  /\ marks' = <<>>
  /\ UNCHANGED <<client, pend, diskVars, ghostVars>>

\* The process of the writer dies; lsmTreeRepair() undoes its changes to the
\* tree, but nothing undoes those to the log.  (The process of the last
\* connection is not one of these: when it dies, the next one recovers.)
Die ==
  /\ pc \notin {"idle", "close"}
  /\ nfail < MaxFail
  /\ nfail' = nfail + 1
  /\ pc' = "idle"
  /\ log' = NoLog
  /\ marks' = <<>>
  /\ pend' = <<>>
  /\ doubt' = IF pc \in {"sync", "end"} THEN doubt \cup {pend} ELSE doubt
  /\ UNCHANGED <<tree, client, diskVars, sharedVars, db, stored, outages, nrec>>

-----------------------------------------------------------------------------
(* Work and checkpoints, by any connection *)

\* doLsmSingleWork(): flush the old tree unless the snapshot has it already.
FlushOld ==
  /\ hdr.old
  /\ hdr.iOldLog # snap.iLogOff
  /\ snap' = FlushedSnapshot(hdr, hdr.nOld)
  /\ UNCHANGED <<diskVars, hdr, writerVars, ghostVars>>

\* lsmCheckpointWrite()
Checkpoint ==
  /\ ckpt.id < snap.id
  /\ ckpt' = snap
  /\ stored' = IF snap.upto > stored THEN snap.upto ELSE stored
  /\ UNCHANGED <<file, versions, sharedVars, writerVars, db, doubt, outages, nrec, nfail>>

-----------------------------------------------------------------------------
(* lsmLogRecover() *)

\* A LogReader at offset o with checksum ck.  reg and iStart are the regions
\* found so far; done, end, endReg, endStart and endCksum are what the last
\* good COMMIT left.  (The code reads the log twice, to count the commits and
\* to apply them; one pass that remembers the last commit gives the same.)
Reader(o, ck, nJump) ==
  [pos |-> o, cksum |-> ck, nJump |-> nJump, eof |-> FALSE, trans |-> <<>>,
   reg |-> [i \in 0..1 |-> NoRegion], iStart |-> o,
   done |-> <<>>, end |-> o, endCksum |-> ck,
   endReg |-> [i \in 0..1 |-> NoRegion], endStart |-> o]

AtEof(r) == [r EXCEPT !.eof = TRUE]

ReadWrite(r, c) ==
  [r EXCEPT !.pos = @ + 1, !.cksum = Append(@, Item(c.k, c.v)), !.trans = Append(@, c.v)]

ReadCommit(r, c) ==
  LET ck == Append(r.cksum, Item("commit", 0))
  IN  IF c.ck # ck THEN AtEof(r)
      ELSE [r EXCEPT !.pos = @ + 1, !.cksum = ck, !.trans = <<>>,
                     !.done = Append(@, r.trans), !.end = r.pos + 1, !.endCksum = ck,
                     !.endReg = r.reg, !.endStart = r.iStart]

\* Where the block of ReadSize cells ends that the reader is in.
BlockEnd(o) == ((o + ReadSize - 1) \div ReadSize) * ReadSize

\* Mutant: region 2 keeps its start.
ReadJumpKeepsStart(r, c) ==
  IF r.nJump = 2 THEN AtEof(r)
  ELSE [r EXCEPT !.pos = c.v, !.nJump = @ + 1,
                 !.cksum = Append(@, Item("jump", c.v)),
                 !.reg = IF r.iStart = 0
                         THEN [@ EXCEPT ![1].iEnd = BlockEnd(r.pos + 1)]
                         ELSE [@ EXCEPT ![0] = Region(r.iStart, r.pos + 1)]]

\* The third JUMP ends the log.
ReadJump(r, c) ==
  IF r.nJump = 2 THEN AtEof(r)
  ELSE [r EXCEPT !.pos = c.v, !.iStart = c.v, !.nJump = @ + 1,
                 !.cksum = Append(@, Item("jump", c.v)),
                 !.reg = IF r.iStart = 0
                         THEN [@ EXCEPT ![1].iEnd = BlockEnd(r.pos + 1)]
                         ELSE [@ EXCEPT ![0] = Region(r.iStart, r.pos + 1)]]

ReadRecord(f, r) ==
  LET c == IF r.pos \in Off THEN f[r.pos] ELSE NoCell
  IN  IF r.eof THEN r
      ELSE IF c.k = "write" \/ (c.k = "writeck" /\ c.ck = r.cksum) THEN ReadWrite(r, c)
      ELSE IF c.k = "commit" THEN ReadCommit(r, c)
      ELSE IF c.k = "jump" THEN ReadJump(r, c)
      ELSE AtEof(r)

\* Two jumps: at most three times the length of the file.
ScanLog(f, r) ==
  LET Fuel == 3 * (MaxOff + 2)
      s[n \in 0..Fuel] == IF n = 0 THEN r ELSE ReadRecord(f, s[n - 1])
  IN  s[Fuel]

\* If no commit is found at the checkpoint's offset, the log is read from 0,
\* and the snapshot's offset becomes 0 (lsmCheckpointZeroLogoffset()).
FirstScan(f) == ScanLog(f, Reader(ckpt.iLogOff.off, ckpt.cksum, 0))
FromZero(f) == ckpt.iLogOff.off # 0 /\ FirstScan(f).done = <<>>
RecoveredLog(f) ==
  IF FromZero(f) THEN ScanLog(f, Reader(0, ckpt.cksum, FirstScan(f).nJump))
                 ELSE FirstScan(f)

\* Transaction tr applied again: its writes become the newest.
Apply(s, tr) == Append(SelectSeq(s, LAMBDA x : x # tr), tr)

\* What the first connection to open the database makes of log file f.
Recover(f) ==
  LET r == RecoveredLog(f)
      reg == [i \in 0..2 |-> IF i = 2 THEN Region(r.endStart, r.end) ELSE r.endReg[i]]
  IN  /\ file' = f
      /\ hdr' = TreeInit([aRegion |-> reg, cksum |-> r.endCksum, iSnapshotId |-> ckpt.id],
                         ckpt.upto)
      /\ snap' = IF FromZero(f) THEN [ckpt EXCEPT !.iLogOff = LogOff(0, 0)] ELSE ckpt
      /\ db' = FoldLeft(Apply, SubSeq(db, 1, ckpt.upto), r.done)
      /\ pc' = "idle"
      /\ log' = NoLog
      /\ marks' = <<>>
      /\ pend' = <<>>
      /\ nfail' = nfail + 1
      /\ doubt' = (doubt \cup ToSet(db) \cup ({pend} \ {<<>>})) \ ToSet(db')
      /\ UNCHANGED <<tree, client, ckpt, stored, nrec>>

\* All processes die and the database is opened again.
Kill ==
  /\ nfail < MaxFail
  /\ Recover(file)
  /\ UNCHANGED <<versions, outages>>

\* The machine fails: of what was not synced, any part is on the disk.
DiskContents ==
  LET Vary(o, disks) == {[f EXCEPT ![o] = c] : f \in disks, c \in versions[o]}
  IN  FoldSet(Vary, {file}, Off)

Crash ==
  /\ nfail < MaxFail
  /\ \E f \in DiskContents : Recover(f) /\ Synced(f)
  /\ outages' = outages + 1

\* The last lsm_close(): flush all trees, write a checkpoint, ...
Close ==
  /\ Closes
  /\ pc = "idle"
  /\ nfail < MaxFail
  /\ LET s == IF hdr.old \/ hdr.from < Len(db) THEN FlushedSnapshot(hdr, Len(db)) ELSE snap
     IN  snap' = s /\ ckpt' = IF s.id > ckpt.id THEN s ELSE ckpt
  /\ stored' = Len(db)
  /\ pc' = "close"
  /\ UNCHANGED <<file, versions, hdr, tree, client, log, marks, pend, db, doubt,
                 outages, nrec, nfail>>

\* ... delete the log; then the database is opened again.
DeleteLog ==
  /\ pc = "close"
  /\ Recover(EmptyFile)
  /\ Synced(EmptyFile)
  /\ UNCHANGED outages

-----------------------------------------------------------------------------

Init ==
  /\ file = EmptyFile /\ versions = [o \in Off |-> {NoCell}]
  /\ ckpt = FirstSnapshot /\ snap = FirstSnapshot
  /\ hdr = TreeInit([aRegion |-> [i \in 0..2 |-> NoRegion], cksum |-> FirstCksum,
                     iSnapshotId |-> FirstSnapshot.id], 0)
  /\ pc = "idle" /\ tree = hdr /\ client = snap
  /\ log = NoLog /\ marks = <<>> /\ pend = <<>>
  /\ db = <<>> /\ stored = 0 /\ doubt = {}
  /\ outages = 0 /\ nrec = 0 /\ nfail = 0

WriterStep ==
  \/ BeginReadTrans \/ FinishReadTrans
  \/ BeginWriteTrans \/ Savepoint \/ Release \/ RollbackTo \/ LogWrite
  \/ LogCommit \/ LogSync \/ FinishCommit \/ Rollback \/ Flush \/ Die

Next ==
  \/ WriterStep
  \/ FlushOld \/ Checkpoint
  \/ Kill \/ Crash \/ Close \/ DeleteLog

Spec == Init /\ [][Next]_vars

-----------------------------------------------------------------------------
(* Properties *)

Durable == INSTANCE LsmDurable WITH Record <- Nat

\* The log, the trees and the checkpoints together keep what lsmusr.wiki
\* promises: whatever fails and whenever, recovery finds whole transactions, in
\* commit order, all of those that had to be stored and none that was not
\* committed.
DurableSpec == Durable!Spec

\* A transaction leaves memory (lsmTreeDiscardOld()) only when the snapshot in
\* shared memory holds it: iOldLog with its bit identifies the flushed tree.
NothingDropped == hdr.from <= snap.upto

\* assert( iRegion<3 ) in logReclaimSpace(): the log offset of a checkpoint is
\* always in one of the regions.
CheckpointInLog ==
  hdr.log.iSnapshotId < ckpt.id =>
    \E i \in 0..2 : /\ hdr.log.aRegion[i].iStart <= ckpt.iLogOff.off
                    /\ ckpt.iLogOff.off <= hdr.log.aRegion[i].iEnd

\* The checkpoint never holds more than what is committed: recovery, whatever
\* it finds in the log, loses nothing of what the checkpoint holds.
CheckpointCovered == db \in Seq(Seq(Nat)) /\ ckpt.upto <= Len(db)

\* The shapes of the log: region 1 is before region 2, and region 0 is after
\* region 2, which starts at 0 then, or before it.
LogShape(reg) ==
  /\ reg \in [0..2 -> [iStart : Nat, iEnd : Nat]]
  /\ \A i \in 0..1 : reg[i] = NoRegion \/ reg[i].iStart < reg[i].iEnd
  /\ reg[2].iStart <= reg[2].iEnd
  /\ reg[1].iEnd # 0 => /\ reg[1].iEnd <= reg[2].iStart
                        /\ reg[0].iEnd # 0 => reg[1].iStart = 0
  /\ reg[0].iEnd # 0 =>
       \/ reg[1].iEnd = 0 /\ reg[2].iStart = 0 /\ reg[2].iEnd < reg[0].iStart
       \/ reg[0].iEnd < reg[2].iStart

\* The steps with lsmLogRecover()
Recovery == Kill \/ Crash \/ DeleteLog

\* lsmLogRecover() finds the regions again, by the JUMP records it meets, in
\* one of the shapes that a writer can go on with.
RecoveryShape == [][~LogShape(hdr'.log.aRegion) => ~Recovery]_vars

\* The asserts of lsmLogBegin(): regions are ordered and disjoint.
RegionsOrdered ==
  LET reg == hdr.log.aRegion
  IN  /\ \A i \in 0..1 : reg[i].iEnd = 0 \/ reg[i].iEnd > reg[i].iStart
      /\ reg[1].iEnd # 0 \/ reg[2].iEnd >= reg[0].iEnd =>
           reg[2].iStart >= reg[0].iEnd /\ reg[2].iStart >= reg[1].iEnd

=============================================================================
