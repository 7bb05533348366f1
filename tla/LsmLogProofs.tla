---------------------------- MODULE LsmLogProofs ----------------------------
(***************************************************************************)
(* Proofs about LsmLog: no tree leaves memory that the snapshot does not   *)
(* hold; the regions of the log stay ordered and every checkpoint's log    *)
(* offset is in one of them.                                               *)
(*                                                                         *)
(* What lsmLogRecover() finds is the result of a recursive function over   *)
(* the file, and out of the provers' reach: the theorems take from it what *)
(* the run log_wrap checks, CheckpointCovered and RecoveryShape.           *)
(***************************************************************************)
EXTENDS LsmLog, TLAPS

-----------------------------------------------------------------------------
(* Trees and snapshots *)

Bits == {0, 1}

IsSnap(s) ==
  /\ s = [id |-> s.id, iLogOff |-> s.iLogOff, cksum |-> s.cksum, upto |-> s.upto]
  /\ s.id \in Nat \ {0} /\ s.upto \in Nat
  /\ s.iLogOff.bit \in Bits

IsTree(t) ==
  /\ t = [log |-> t.log, old |-> t.old, iOldLog |-> t.iOldLog,
          oldcksum |-> t.oldcksum, nOld |-> t.nOld, from |-> t.from]
  /\ t.old \in BOOLEAN
  /\ t.nOld \in Nat /\ t.from \in Nat
  /\ t.iOldLog.bit \in Bits

\* What each of the tree's operations makes of its fields.
LEMMA DiscardOldFields ==
  ASSUME NEW t, IsTree(t)
  PROVE  LET d == DiscardOld(t)
         IN  /\ IsTree(d)
             /\ ~d.old
             /\ d.from = IF t.old THEN t.nOld ELSE t.from
             /\ d.iOldLog = t.iOldLog /\ d.nOld = t.nOld /\ d.log = t.log
<1>1. CASE t.old
  <2>1. DiscardOld(t) = [log |-> t.log, old |-> FALSE, iOldLog |-> t.iOldLog,
                         oldcksum |-> t.oldcksum, nOld |-> t.nOld, from |-> t.nOld]
    <3>1. DiscardOld(t) = [t EXCEPT !.old = FALSE, !.from = t.nOld]
      BY <1>1 DEF DiscardOld
    <3> QED  BY <3>1 DEF IsTree
  <2> QED  BY <1>1, <2>1 DEF IsTree
<1>2. CASE ~t.old
  <2>1. DiscardOld(t) = [log |-> t.log, old |-> FALSE, iOldLog |-> t.iOldLog,
                         oldcksum |-> t.oldcksum, nOld |-> t.nOld, from |-> t.from]
    <3>1. DiscardOld(t) = [t EXCEPT !.old = FALSE, !.from = t.from]
      BY <1>2 DEF DiscardOld
    <3> QED  BY <3>1 DEF IsTree
  <2> QED  BY <1>2, <2>1 DEF IsTree
<1> QED  BY <1>1, <1>2

LEMMA MakeOldFields ==
  ASSUME NEW t, NEW n \in Nat, IsTree(t), client.iLogOff.bit \in Bits
  PROVE  LET d == MakeOld(t, n)
         IN  /\ IsTree(d)
             /\ d.old
             /\ d.from = t.from /\ d.log = t.log
             /\ t.old => d = t
             /\ ~t.old => /\ d.nOld = n
                          /\ d.iOldLog = LogOff(t.log.aRegion[2].iEnd, 1 - client.iLogOff.bit)
<1>1. CASE t.old
  BY <1>1 DEF MakeOld, IsTree
<1>2. CASE ~t.old
  <2> DEFINE o == LogOff(t.log.aRegion[2].iEnd, 1 - client.iLogOff.bit)
  <2>1. o.bit \in Bits
    BY DEF LogOff, Bits
  <2> HIDE DEF o
  <2>2. MakeOld(t, n) = [log |-> t.log, old |-> TRUE, iOldLog |-> o,
                         oldcksum |-> t.log.cksum, nOld |-> n, from |-> t.from]
    BY <1>2 DEF MakeOld, IsTree, o
  <2>3. IsTree(MakeOld(t, n))
    BY <2>1, <2>2 DEF IsTree
  <2> QED  BY <1>2, <2>2, <2>3 DEF o
<1> QED  BY <1>1, <1>2

LEMMA SetLogFields ==
  ASSUME NEW t, NEW l, IsTree(t)
  PROVE  LET d == [t EXCEPT !.log = l]
         IN  /\ IsTree(d)
             /\ d.log = l
             /\ (d.old <=> t.old) /\ d.from = t.from /\ d.nOld = t.nOld
             /\ d.iOldLog = t.iOldLog
BY DEF IsTree

LEMMA FlushedSnapshotFields ==
  ASSUME NEW t, NEW n \in Nat, IsTree(t), IsSnap(snap)
  PROVE  LET s == FlushedSnapshot(t, n)
         IN  /\ IsSnap(s)
             /\ s.id = snap.id + 1 /\ s.upto = n /\ s.iLogOff = t.iOldLog
BY DEF FlushedSnapshot, IsTree, IsSnap

LEMMA TreeInitFields ==
  ASSUME NEW l, NEW n \in Nat
  PROVE  LET t == TreeInit(l, n)
         IN  /\ IsTree(t)
             /\ t.log = l /\ ~t.old /\ t.from = n
             /\ t.iOldLog = LogOff(0, 0)
BY DEF TreeInit, IsTree, LogOff, Bits


-----------------------------------------------------------------------------
(* What leaves memory *)

Writing == {"write", "sync", "end", "flush"}
Reading == {"read", "cursor"}

\* lsm_flush() does not run against another worker.
FlushAlone == MaxFlush = 0 \/ ~Contended

LogTypes ==
  /\ IsSnap(snap) /\ IsSnap(ckpt) /\ IsSnap(client)
  /\ IsTree(hdr) /\ IsTree(tree)
  /\ pc \in Writing \cup Reading \cup {"idle", "close"}
  /\ MaxFlush = 0 => pc # "flush"

\* How much of the database has left memory, as tree t has it, and how much is
\* in the old tree.
TreeCounts(t) ==
  /\ t.from <= snap.upto
  /\ t.from <= Len(db)
  /\ t.old => t.from <= t.nOld /\ t.nOld <= Len(db)

\* iOldLog tells whether the snapshot holds the old tree.
OldIdentified ==
  hdr.old /\ snap.iLogOff = hdr.iOldLog => hdr.nOld <= snap.upto

\* What the writer knows of the old tree.
WriterTree ==
  /\ pc \in Reading => tree = hdr
  /\ pc \in Writing =>
       /\ TreeCounts(tree)
       /\ tree.iOldLog = hdr.iOldLog /\ tree.nOld = hdr.nOld
       /\ tree.old => hdr.old
       /\ hdr.old /\ ~tree.old => snap.iLogOff = hdr.iOldLog

\* The client snapshot may be an earlier one; its bit is the current one as
\* long as there is no old tree, and when it holds the old tree it is current.
ClientBit ==
  pc \in Reading \cup Writing =>
    /\ ~tree.old => client.iLogOff.bit = snap.iLogOff.bit
    /\ hdr.old /\ hdr.iOldLog = client.iLogOff => snap.iLogOff = client.iLogOff

DropInv ==
  /\ LogTypes
  /\ TreeCounts(hdr)
  /\ OldIdentified
  /\ WriterTree
  /\ ClientBit

LEMMA DropInit == Init /\ CheckpointCovered => DropInv
<1> SUFFICES ASSUME Init, CheckpointCovered PROVE DropInv
  OBVIOUS
<1> DEFINE l == [aRegion |-> [i \in 0..2 |-> NoRegion], cksum |-> FirstCksum,
                 iSnapshotId |-> FirstSnapshot.id]
<1>1. hdr = TreeInit(l, 0) /\ tree = hdr /\ snap = FirstSnapshot /\ ckpt = FirstSnapshot
      /\ client = snap /\ pc = "idle" /\ db = <<>>
  BY DEF Init
<1>2. IsSnap(snap) /\ snap.upto = 0
  BY <1>1 DEF IsSnap, FirstSnapshot, LogOff, Bits
<1>3. IsTree(hdr) /\ ~hdr.old /\ hdr.from = 0
  <2> HIDE DEF l
  <2> QED  BY <1>1, TreeInitFields
<1>4. Len(db) = 0
  BY <1>1
<1> QED
  BY <1>1, <1>2, <1>3, <1>4
  DEF DropInv, LogTypes, TreeCounts, OldIdentified, WriterTree, ClientBit, Writing, Reading

\* Each step, under the invariant and with db a sequence before and after.
LEMMA DropRead ==
  DropInv /\ (BeginReadTrans \/ FinishReadTrans) => DropInv'
<1> SUFFICES ASSUME DropInv, BeginReadTrans \/ FinishReadTrans PROVE DropInv'
  OBVIOUS
<1> USE DEF DropInv, LogTypes, TreeCounts, OldIdentified, WriterTree, ClientBit,
            Writing, Reading, sharedVars, diskVars, ghostVars, IsSnap, IsTree
<1>1. CASE BeginReadTrans
  BY <1>1 DEF BeginReadTrans
<1>2. CASE FinishReadTrans
  BY <1>2 DEF FinishReadTrans
<1> QED  BY <1>1, <1>2

\* The tree of a write transaction: the old tree is dropped if the client
\* snapshot holds it.
LEMMA DropBegin ==
  DropInv /\ CheckpointCovered /\ BeginWriteTrans => DropInv'
<1> SUFFICES ASSUME DropInv, CheckpointCovered, BeginWriteTrans PROVE DropInv'
  OBVIOUS
<1> DEFINE t == IF tree.old /\ tree.iOldLog = client.iLogOff THEN DiscardOld(tree) ELSE tree
<1>1. PICK l : tree' = [t EXCEPT !.log = l]
  <2> HIDE DEF t
  <2>1. \E x, y, b : tree' = [t EXCEPT !.log = IF b THEN x ELSE y]
    BY DEF BeginWriteTrans, t
  <2> QED  BY <2>1
<1>2. /\ tree = hdr /\ hdr' = hdr /\ snap' = snap /\ client' = client /\ ckpt' = ckpt
      /\ db' = db /\ pc \in Reading
      /\ pc' \in {"write", "flush"}
      /\ pc' = "flush" => snap.id <= MaxFlush
  BY DEF BeginWriteTrans, sharedVars, ghostVars, Reading
<1>3. /\ IsTree(tree) /\ IsSnap(snap) /\ IsSnap(client) /\ Len(db) \in Nat
      /\ snap.upto \in Nat
      /\ MaxFlush = 0 => pc' # "flush"
  BY <1>2 DEF DropInv, LogTypes, IsSnap, CheckpointCovered
<1>4. CASE tree.old /\ tree.iOldLog = client.iLogOff
  <2>1. t = DiscardOld(tree)
    BY <1>4
  <2> HIDE DEF t
  <2>2. IsTree(t) /\ ~t.old /\ t.from = tree.nOld /\ t.iOldLog = tree.iOldLog
        /\ t.nOld = tree.nOld
    BY <1>3, <1>4, <2>1, DiscardOldFields
  <2>3. /\ IsTree(tree') /\ ~tree'.old /\ tree'.from = tree.nOld
        /\ tree'.iOldLog = tree.iOldLog /\ tree'.nOld = tree.nOld
    BY <1>1, <2>2, SetLogFields
  <2>4. snap.iLogOff = hdr.iOldLog /\ client.iLogOff = snap.iLogOff
    BY <1>2, <1>4 DEF DropInv, ClientBit
  <2> QED
    BY <1>2, <1>3, <1>4, <2>3, <2>4
    DEF DropInv, LogTypes, TreeCounts, OldIdentified, WriterTree, ClientBit, Writing, Reading
<1>5. CASE ~(tree.old /\ tree.iOldLog = client.iLogOff)
  <2>1. t = tree
    BY <1>5
  <2> HIDE DEF t
  <2>3. /\ IsTree(tree') /\ (tree'.old <=> tree.old) /\ tree'.from = tree.from
        /\ tree'.iOldLog = tree.iOldLog /\ tree'.nOld = tree.nOld
    <3>1. tree' = [tree EXCEPT !.log = l]
      BY <1>1, <2>1
    <3> QED  BY <1>3, <3>1, SetLogFields
  <2> QED
    BY <1>2, <1>3, <1>5, <2>3
    DEF DropInv, LogTypes, TreeCounts, OldIdentified, WriterTree, ClientBit, Writing, Reading
<1> QED  BY <1>4, <1>5

\* Steps that change neither tree nor snapshot, and only move on in the
\* transaction.
LEMMA DropMove ==
  ASSUME DropInv, UNCHANGED <<hdr, snap, tree, client, ckpt>>, db' = db,
         \/ pc' = pc
         \/ pc \in Writing /\ pc' \in Writing \ {"flush"}
         \/ pc' = "idle"
  PROVE  DropInv'
BY DEF DropInv, LogTypes, TreeCounts, OldIdentified, WriterTree, ClientBit, Writing, Reading,
       IsSnap, IsTree

LEMMA DropWrite ==
  DropInv /\ (Savepoint \/ Release \/ RollbackTo \/ LogWrite \/ LogCommit \/ LogSync \/ Die)
  => DropInv'
<1> SUFFICES ASSUME DropInv,
                    Savepoint \/ Release \/ RollbackTo \/ LogWrite \/ LogCommit \/ LogSync \/ Die
             PROVE  DropInv'
  OBVIOUS
<1>1. UNCHANGED <<hdr, snap, tree, client, ckpt>> /\ db' = db
  BY DEF Savepoint, Release, RollbackTo, LogWrite, LogCommit, LogSync, Die,
         sharedVars, diskVars, ghostVars
<1>2. \/ pc' = pc
      \/ pc \in Writing /\ pc' \in Writing \ {"flush"}
      \/ pc' = "idle"
  BY DEF Savepoint, Release, RollbackTo, LogWrite, LogCommit, LogSync, Die, Writing
<1> QED  BY <1>1, <1>2, DropMove

LEMMA LenAppend ==
  ASSUME NEW S, NEW s \in Seq(S), NEW e
  PROVE  Len(Append(s, e)) = Len(s) + 1 /\ Len(s) \in Nat
<1>1. s \in Seq(S \cup {e})
  OBVIOUS
<1> QED  BY <1>1

LEMMA DropFinishCommit ==
  DropInv /\ CheckpointCovered /\ FinishCommit => DropInv'
<1> SUFFICES ASSUME DropInv, CheckpointCovered, FinishCommit PROVE DropInv'
  OBVIOUS
<1> DEFINE l == IF UseLog THEN LogEnd(tree.log, log) ELSE tree.log
<1>1. PICK full \in BOOLEAN :
        LET t == [tree EXCEPT !.log = l]
        IN  tree' = IF full THEN MakeOld(t, Len(db')) ELSE t
  BY DEF FinishCommit
<1> HIDE DEF l
<1>2. /\ hdr' = tree' /\ snap' = snap /\ client' = client /\ ckpt' = ckpt
      /\ pc = "end" /\ pc' \in {"cursor", "idle"}
      /\ db' = Append(db, pend)
  BY DEF FinishCommit, diskVars
<1>3. Len(db') = Len(db) + 1 /\ Len(db) \in Nat /\ Len(db') \in Nat
  BY <1>2, LenAppend DEF CheckpointCovered
<1>4. /\ IsTree(tree) /\ IsTree(hdr) /\ IsSnap(snap) /\ IsSnap(client) /\ IsSnap(ckpt)
      /\ snap.upto \in Nat /\ client.iLogOff.bit \in Bits /\ snap.iLogOff.bit \in Bits
      /\ tree.from \in Nat /\ tree.nOld \in Nat
  BY DEF DropInv, LogTypes, IsSnap, IsTree
<1> DEFINE t == [tree EXCEPT !.log = l]
<1>5. /\ IsTree(t) /\ t.log = l /\ (t.old <=> tree.old) /\ t.from = tree.from
      /\ t.nOld = tree.nOld /\ t.iOldLog = tree.iOldLog
  BY <1>4, SetLogFields
<1>6. tree' = IF full THEN MakeOld(t, Len(db')) ELSE t
  BY <1>1
<1> HIDE DEF t
<1>7. CASE tree.old \/ ~full
  <2>1. tree' = t
    BY <1>5, <1>6, <1>7 DEF MakeOld
  <2> QED
    BY <1>2, <1>3, <1>4, <1>5, <2>1
    DEF DropInv, LogTypes, TreeCounts, OldIdentified, WriterTree, ClientBit, Writing, Reading
<1>8. CASE ~tree.old /\ full
  <2>1. tree' = MakeOld(t, Len(db'))
    BY <1>6, <1>8
  <2>2. /\ IsTree(tree') /\ tree'.old /\ tree'.from = tree.from /\ tree'.nOld = Len(db')
        /\ tree'.iOldLog = LogOff(l.aRegion[2].iEnd, 1 - client.iLogOff.bit)
    BY <1>3, <1>4, <1>5, <1>8, <2>1, MakeOldFields
  <2>3. tree'.iOldLog.bit = 1 - client.iLogOff.bit
    BY <2>2 DEF LogOff
  <2>4. client.iLogOff.bit = snap.iLogOff.bit
    BY <1>2, <1>8 DEF DropInv, ClientBit, Writing
  <2>5. tree'.iOldLog # snap.iLogOff /\ tree'.iOldLog # client.iLogOff
    BY <1>4, <2>3, <2>4 DEF Bits
  <2> QED
    BY <1>2, <1>3, <1>4, <2>2, <2>5
    DEF DropInv, LogTypes, TreeCounts, OldIdentified, WriterTree, ClientBit, Writing, Reading
<1> QED  BY <1>7, <1>8

LEMMA DropRollback ==
  DropInv /\ Rollback => DropInv'
<1> SUFFICES ASSUME DropInv, Rollback PROVE DropInv'
  OBVIOUS
<1>1. /\ hdr' = tree /\ tree' = tree /\ snap' = snap /\ client' = client /\ ckpt' = ckpt
      /\ db' = db /\ pc = "write" /\ pc' \in {"cursor", "idle"}
  BY DEF Rollback, diskVars, ghostVars
<1> QED
  BY <1>1 DEF DropInv, LogTypes, TreeCounts, OldIdentified, WriterTree, ClientBit, Writing, Reading

\* lsm_flush() drops both trees, which the snapshot holds if it was written.
LEMMA DropFlush ==
  DropInv /\ CheckpointCovered /\ FlushAlone /\ Flush => DropInv'
<1> SUFFICES ASSUME DropInv, CheckpointCovered, FlushAlone, Flush PROVE DropInv'
  OBVIOUS
<1> DEFINE d == DiscardOld(tree)
           m == MakeOld(d, Len(db))
           t == DiscardOld(m)
<1>1. /\ IsTree(tree) /\ IsSnap(snap) /\ IsSnap(client) /\ IsSnap(ckpt)
      /\ client.iLogOff.bit \in Bits /\ Len(db) \in Nat
  BY DEF DropInv, LogTypes, IsSnap, CheckpointCovered
<1>2. /\ pc = "flush" /\ pc' = "idle" /\ hdr' = tree' /\ client' = client /\ db' = db
      /\ ckpt' = ckpt
      /\ snap' \in {FlushedSnapshot(tree, Len(db))} \cup (IF Contended THEN {snap} ELSE {})
  BY DEF Flush, diskVars, ghostVars
<1>3. snap' = FlushedSnapshot(tree, Len(db))
  BY <1>2 DEF FlushAlone, DropInv, LogTypes
<1>4. IsSnap(snap') /\ snap'.upto = Len(db)
  BY <1>1, <1>3, FlushedSnapshotFields
<1>5. IsTree(d) /\ ~d.old
  BY <1>1, DiscardOldFields
<1>6. IsTree(m) /\ m.old /\ m.nOld = Len(db)
  BY <1>1, <1>5, MakeOldFields
<1>7. IsTree(t) /\ ~t.old /\ t.from = Len(db)
  BY <1>6, DiscardOldFields
<1>8. PICK l : tree' = [t EXCEPT !.log = l]
  <2> DEFINE k == IF UseLog THEN LogEnd(t.log, log) ELSE t.log
  <2>1. tree' = [t EXCEPT !.log = k]
    BY DEF Flush
  <2> HIDE DEF k
  <2> QED  BY <2>1
<1>9. IsTree(tree') /\ ~tree'.old /\ tree'.from = Len(db)
  BY <1>7, <1>8, SetLogFields
<1> QED
  BY <1>1, <1>2, <1>4, <1>9
  DEF DropInv, LogTypes, TreeCounts, OldIdentified, WriterTree, ClientBit, Writing, Reading

LEMMA DropFlushOld ==
  DropInv /\ CheckpointCovered /\ FlushOld => DropInv'
<1> SUFFICES ASSUME DropInv, CheckpointCovered, FlushOld PROVE DropInv'
  OBVIOUS
<1>1. /\ hdr.old /\ hdr.iOldLog # snap.iLogOff
      /\ snap' = FlushedSnapshot(hdr, hdr.nOld)
      /\ UNCHANGED <<hdr, tree, client, ckpt, pc, db>>
  BY DEF FlushOld, diskVars, writerVars, ghostVars
<1>2. /\ IsTree(hdr) /\ IsTree(tree) /\ IsSnap(snap) /\ IsSnap(client) /\ IsSnap(ckpt)
      /\ hdr.nOld \in Nat
  BY DEF DropInv, LogTypes, IsTree
<1>3. IsSnap(snap') /\ snap'.upto = hdr.nOld /\ snap'.iLogOff = hdr.iOldLog
  BY <1>1, <1>2, FlushedSnapshotFields
<1> QED
  BY <1>1, <1>2, <1>3
  DEF DropInv, LogTypes, TreeCounts, OldIdentified, WriterTree, ClientBit, Writing, Reading

LEMMA DropCheckpoint ==
  DropInv /\ Checkpoint => DropInv'
<1> SUFFICES ASSUME DropInv, Checkpoint PROVE DropInv'
  OBVIOUS
<1>1. ckpt' = snap /\ UNCHANGED <<hdr, snap, tree, client, pc, db>>
  BY DEF Checkpoint, sharedVars, writerVars
<1> QED
  BY <1>1
  DEF DropInv, LogTypes, TreeCounts, OldIdentified, WriterTree, ClientBit, Writing, Reading

\* lsm_close() flushes whatever is in memory.
LEMMA DropClose ==
  DropInv /\ CheckpointCovered /\ Close => DropInv'
<1> SUFFICES ASSUME DropInv, CheckpointCovered, Close PROVE DropInv'
  OBVIOUS
<1> DEFINE f == FlushedSnapshot(hdr, Len(db))
<1>1. /\ pc' = "close" /\ UNCHANGED <<hdr, tree, client, db>>
      /\ snap' = f \/ (snap' = snap /\ ~hdr.old)
      /\ ckpt' = snap' \/ ckpt' = ckpt
  BY DEF Close
<1>2. /\ IsTree(hdr) /\ IsTree(tree) /\ IsSnap(snap) /\ IsSnap(client) /\ IsSnap(ckpt)
      /\ Len(db) \in Nat
  BY DEF DropInv, LogTypes, CheckpointCovered
<1>3. IsSnap(f) /\ f.upto = Len(db)
  BY <1>2, FlushedSnapshotFields
<1> HIDE DEF f
<1>4. IsSnap(snap') /\ IsSnap(ckpt')
  BY <1>1, <1>2, <1>3
<1> QED
  BY <1>1, <1>2, <1>3, <1>4
  DEF DropInv, LogTypes, TreeCounts, OldIdentified, WriterTree, ClientBit, Writing, Reading

\* Recovery starts from the checkpoint: nothing else is out of memory.
LEMMA DropRecovery ==
  DropInv /\ CheckpointCovered' /\ Recovery => DropInv'
<1> SUFFICES ASSUME DropInv, CheckpointCovered', Recovery PROVE DropInv'
  OBVIOUS
<1>1. PICK l, b : /\ hdr' = TreeInit(l, ckpt.upto)
                  /\ snap' = IF b THEN [ckpt EXCEPT !.iLogOff = LogOff(0, 0)] ELSE ckpt
                  /\ pc' = "idle" /\ UNCHANGED <<tree, client, ckpt>>
  <2>1. \E f : Recover(f)
    BY DEF Recovery, Kill, Crash, DeleteLog
  <2>2. PICK f : Recover(f)
    BY <2>1
  <2> DEFINE r == RecoveredLog(f)
             reg == [i \in 0..2 |-> IF i = 2 THEN Region(r.endStart, r.end) ELSE r.endReg[i]]
             k == [aRegion |-> reg, cksum |-> r.endCksum, iSnapshotId |-> ckpt.id]
             z == FromZero(f)
  <2>3. /\ hdr' = TreeInit(k, ckpt.upto)
        /\ snap' = IF z THEN [ckpt EXCEPT !.iLogOff = LogOff(0, 0)] ELSE ckpt
        /\ pc' = "idle" /\ UNCHANGED <<tree, client, ckpt>>
    BY <2>2 DEF Recover
  <2> HIDE DEF k, z
  <2> QED  BY <2>3
<1>2. IsSnap(ckpt) /\ IsSnap(client) /\ IsTree(tree) /\ ckpt.upto \in Nat
  BY DEF DropInv, LogTypes, IsSnap
<1>3. IsSnap(snap') /\ snap'.upto = ckpt.upto
  BY <1>1, <1>2 DEF IsSnap, LogOff, Bits
<1>4. IsTree(hdr') /\ ~hdr'.old /\ hdr'.from = ckpt.upto
  BY <1>1, <1>2, TreeInitFields
<1>5. ckpt.upto <= Len(db')
  BY <1>1 DEF CheckpointCovered
<1> QED
  BY <1>1, <1>2, <1>3, <1>4, <1>5
  DEF DropInv, LogTypes, TreeCounts, OldIdentified, WriterTree, ClientBit, Writing, Reading

LEMMA DropNext ==
  FlushAlone /\ DropInv /\ CheckpointCovered /\ CheckpointCovered' /\ [Next]_vars => DropInv'
<1> SUFFICES ASSUME FlushAlone, DropInv, CheckpointCovered, CheckpointCovered', [Next]_vars
             PROVE  DropInv'
  OBVIOUS
<1>1. CASE WriterStep
  BY <1>1, DropRead, DropBegin, DropWrite, DropFinishCommit, DropRollback, DropFlush
  DEF WriterStep
<1>2. CASE FlushOld \/ Checkpoint \/ Close
  BY <1>2, DropFlushOld, DropCheckpoint, DropClose
<1>3. CASE Kill \/ Crash \/ DeleteLog
  BY <1>3, DropRecovery DEF Recovery
<1>4. CASE UNCHANGED vars
  BY <1>4, DropMove DEF vars, diskVars, sharedVars, writerVars, ghostVars
<1> QED  BY <1>1, <1>2, <1>3, <1>4 DEF Next

\* lsmTreeDiscardOld() drops the old tree by the log offset and the bit that it
\* shares with a snapshot, and no tree is dropped that the snapshot in shared
\* memory does not hold, with any number of transactions, flushes by lsm_work()
\* and lsm_flush(), checkpoints, deaths and recoveries.  Of lsmLogRecover() it
\* takes CheckpointCovered; lsm_flush() must not meet another worker.
THEOREM TreesStayUntilFlushed ==
  ASSUME FlushAlone
  PROVE  Spec /\ []CheckpointCovered => []NothingDropped
<1>1. DropInv => NothingDropped
  BY DEF DropInv, TreeCounts, NothingDropped
<1>2. Init /\ CheckpointCovered => DropInv
  BY DropInit
<1>3. DropInv /\ CheckpointCovered /\ CheckpointCovered' /\ [Next]_vars => DropInv'
  BY DropNext
<1> QED  BY <1>1, <1>2, <1>3, PTL DEF Spec

-----------------------------------------------------------------------------
(* The regions of the log *)

\* Offset o of a record's end is in region i: a commit's end, at which a tree
\* became old.
InRegion(reg, i, o) ==
  /\ o \in Nat \ {0}
  /\ reg[i].iStart <= o
  /\ i \in {0, 1} => o < reg[i].iEnd
  /\ i = 1 /\ reg[0].iEnd # 0 => o < reg[0].iStart
  /\ i = 2 => o <= reg[2].iEnd
  /\ i = 2 /\ reg[1].iEnd # 0 => reg[1].iEnd < o

\* Both are in the log, and recovery reads o first.
Before(reg, o, p) ==
  \E i, j \in 0..2 :
    /\ InRegion(reg, i, o) /\ InRegion(reg, j, p)
    /\ i < j \/ (i = j /\ o <= p)

InLog(reg, o) == \E i \in 0..2 : InRegion(reg, i, o)

\* The offsets of the checkpoint, the snapshot and the old tree (p) follow one
\* another in log l, as far as the log has not been reclaimed up to them.
LogChain(l, p) ==
  /\ LogShape(l.aRegion)
  /\ l = [aRegion |-> l.aRegion, cksum |-> l.cksum, iSnapshotId |-> l.iSnapshotId]
  /\ l.iSnapshotId \in Nat
  /\ l.iSnapshotId <= ckpt.id
  /\ p \in Nat
  /\ p # 0 => InLog(l.aRegion, p)
  /\ l.iSnapshotId < snap.id => InLog(l.aRegion, snap.iLogOff.off)
  /\ l.iSnapshotId < snap.id /\ p # 0 => Before(l.aRegion, snap.iLogOff.off, p)
  /\ l.iSnapshotId < ckpt.id => Before(l.aRegion, ckpt.iLogOff.off, snap.iLogOff.off)
  /\ l.iSnapshotId < ckpt.id /\ p # 0 => Before(l.aRegion, ckpt.iLogOff.off, p)

\* After the last lsm_close() the log is only deleted or recovered.
Found(reg, o) == o = 0 \/ InLog(reg, o)
ClosedLog(l, p) ==
  /\ LogShape(l.aRegion)
  /\ Found(l.aRegion, p)
  /\ l.iSnapshotId < snap.id => Found(l.aRegion, snap.iLogOff.off)
  /\ l.iSnapshotId < ckpt.id => Found(l.aRegion, ckpt.iLogOff.off)

\* Region 2 starts at 0 and runs towards region 0.
Wrapped(reg) ==
  /\ reg[0].iEnd # 0 /\ reg[1].iEnd = 0
  /\ reg[2].iStart = 0 /\ reg[2].iEnd < reg[0].iStart

IsSeq(s) == \E S : s \in Seq(S)

IsWriter(w) ==
  /\ w = [iOff |-> w.iOff, buf |-> w.buf, cksum |-> w.cksum, jump |-> w.jump,
          iRegion1End |-> w.iRegion1End, iRegion2Start |-> w.iRegion2Start]
  /\ w.iOff \in Nat /\ IsSeq(w.buf)
  /\ w.iRegion1End \in Nat /\ w.iRegion2Start \in Nat

\* The writer appends to region 2, before region 0 or, once it has jumped,
\* after it.
WriterAhead(w, reg) ==
  /\ IsWriter(w)
  /\ Wrapped(reg) => w.jump = reg[0]
  /\ ~Wrapped(reg) => w.jump = NoRegion
  /\ w.iRegion1End = 0 => /\ reg[2].iEnd <= w.iOff
                          /\ Wrapped(reg) => LogEndOff(w) < reg[0].iStart
  /\ w.iRegion1End # 0 => /\ Wrapped(reg)
                          /\ reg[2].iEnd < w.iRegion1End /\ w.iRegion1End <= reg[0].iStart
                          /\ w.iRegion2Start = reg[0].iEnd + 1
                          /\ w.iRegion2Start <= w.iOff

\* The COMMIT record was written after what was in the log.
HasCommit(w, reg) ==
  /\ w.buf = <<>> /\ w.iOff # 0
  /\ w.iRegion1End = 0 => reg[2].iEnd < w.iOff

RegionInv ==
  /\ ckpt.id <= snap.id
  /\ hdr.old => hdr.iOldLog.off # 0
  /\ pc # "close" => LogChain(hdr.log, hdr.iOldLog.off)
  /\ pc = "close" => ClosedLog(hdr.log, hdr.iOldLog.off)
  /\ pc \in Writing => /\ LogChain(tree.log, tree.iOldLog.off)
                       /\ WriterAhead(log, tree.log.aRegion)
  /\ pc \in {"sync", "end"} => HasCommit(log, tree.log.aRegion)

-----------------------------------------------------------------------------
(* Offsets in the regions *)

LEMMA RegionFields ==
  ASSUME NEW reg, LogShape(reg)
  PROVE  /\ reg \in [0..2 -> [iStart : Nat, iEnd : Nat]]
         /\ \A i \in 0..2 : /\ reg[i].iStart \in Nat /\ reg[i].iEnd \in Nat
                            /\ reg[i] = Region(reg[i].iStart, reg[i].iEnd)
         /\ \A i \in 0..1 : (reg[i].iStart = 0 /\ reg[i].iEnd = 0) \/ reg[i].iStart < reg[i].iEnd
BY DEF LogShape, Region, NoRegion

\* The regions before that of o do not reach to it.
LEMMA RegionsBefore ==
  ASSUME NEW reg, LogShape(reg), NEW i \in 0..2, NEW o, InRegion(reg, i, o),
         NEW k \in 0..(i - 1)
  PROVE  ~(reg[k].iStart <= o /\ o <= reg[k].iEnd)
<1>1. (i = 1 /\ k = 0) \/ (i = 2 /\ k = 0) \/ (i = 2 /\ k = 1)
  OBVIOUS
<1>2. o \in Nat \ {0}
  BY DEF InRegion
<1>3. CASE i = 1 /\ k = 0
  BY <1>2, <1>3, RegionFields DEF InRegion
<1>4. CASE i = 2 /\ k = 0
  BY <1>2, <1>4, RegionFields DEF InRegion, LogShape
<1>5. CASE i = 2 /\ k = 1
  BY <1>2, <1>5, RegionFields DEF InRegion
<1> QED  BY <1>1, <1>3, <1>4, <1>5

LEMMA RegionUnique ==
  ASSUME NEW reg, LogShape(reg), NEW i \in 0..2, NEW j \in 0..2, NEW o,
         InRegion(reg, i, o), InRegion(reg, j, o)
  PROVE  i = j
<1>1. \A n \in 0..1 : InRegion(reg, n, o) => reg[n].iStart <= o /\ o <= reg[n].iEnd
  BY RegionFields DEF InRegion
<1>2. CASE i < j
  <2>1. i \in 0..(j - 1) /\ i \in 0..1
    BY <1>2
  <2> QED  BY <1>1, <2>1, RegionsBefore
<1>3. CASE j < i
  <2>1. j \in 0..(i - 1) /\ j \in 0..1
    BY <1>3
  <2> QED  BY <1>1, <2>1, RegionsBefore
<1> QED  BY <1>2, <1>3

\* logReclaimSpace() at offset o of region i.
Cut(reg, i, o) ==
  [k \in 0..2 |-> IF k < i THEN NoRegion
                  ELSE IF k = i THEN Region(o, reg[k].iEnd) ELSE reg[k]]

LEMMA CutShape ==
  ASSUME NEW reg, LogShape(reg), NEW i \in 0..2, NEW o, InRegion(reg, i, o)
  PROVE  LogShape(Cut(reg, i, o))
<1> DEFINE c == Cut(reg, i, o)
<1> SUFFICES LogShape(c)
  OBVIOUS
<1>1. o \in Nat \ {0} /\ reg[i].iStart <= o
  BY DEF InRegion
<1>2. c \in [0..2 -> [iStart : Nat, iEnd : Nat]]
  BY <1>1, RegionFields DEF Cut, Region, NoRegion
<1>3. CASE i = 0
  <2>1. c[0] = Region(o, reg[0].iEnd) /\ c[1] = reg[1] /\ c[2] = reg[2] /\ o < reg[0].iEnd
    BY <1>3 DEF Cut, InRegion
  <2> HIDE DEF c
  <2> QED  BY <1>1, <1>2, <1>3, <2>1, RegionFields DEF LogShape, Region, NoRegion
<1>4. CASE i = 1
  <2>1. c[0] = NoRegion /\ c[1] = Region(o, reg[1].iEnd) /\ c[2] = reg[2] /\ o < reg[1].iEnd
    BY <1>4 DEF Cut, InRegion
  <2> HIDE DEF c
  <2> QED  BY <1>1, <1>2, <1>4, <2>1, RegionFields DEF LogShape, Region, NoRegion
<1>5. CASE i = 2
  <2>1. c[0] = NoRegion /\ c[1] = NoRegion /\ c[2] = Region(o, reg[2].iEnd) /\ o <= reg[2].iEnd
    BY <1>5 DEF Cut, InRegion
  <2> HIDE DEF c
  <2> QED  BY <1>1, <1>2, <1>5, <2>1, RegionFields DEF LogShape, Region, NoRegion
<1> QED  BY <1>3, <1>4, <1>5

\* What is not before o stays where it is.
LEMMA CutOffset ==
  ASSUME NEW reg, LogShape(reg), NEW i \in 0..2, NEW o, InRegion(reg, i, o),
         NEW j \in 0..2, NEW p, InRegion(reg, j, p), i < j \/ (i = j /\ o <= p)
  PROVE  InRegion(Cut(reg, i, o), j, p)
<1> DEFINE c == Cut(reg, i, o)
<1>1. o \in Nat /\ p \in Nat \ {0}
  BY DEF InRegion
<1>2. c[j].iEnd = reg[j].iEnd /\ c[j].iStart \in {o, reg[j].iStart} /\ c[j].iStart <= p
  BY <1>1, RegionFields DEF Cut, Region, InRegion
<1>3. \A k \in 0..2 : c[k].iEnd \in {0, reg[k].iEnd}
  BY <1>1 DEF Cut, Region, NoRegion
<1>4. j = 1 /\ c[0].iEnd # 0 => c[0].iStart = reg[0].iStart \/ (i = 0 /\ c[0].iStart = o)
  BY DEF Cut, Region, NoRegion
<1>5. j = 1 /\ i = 0 => o < reg[0].iEnd /\ reg[0].iStart <= o
  BY DEF InRegion
<1>6. j = 1 /\ c[0].iEnd # 0 => p < c[0].iStart
  BY <1>1, <1>3, <1>4, <1>5, RegionFields DEF InRegion
<1> HIDE DEF c
<1>7. InRegion(c, j, p)
  BY <1>1, <1>2, <1>3, <1>6 DEF InRegion
<1> QED  BY <1>7 DEF c

LEMMA CutInLog ==
  ASSUME NEW reg, LogShape(reg), NEW i \in 0..2, NEW o, InRegion(reg, i, o),
         NEW p, Before(reg, o, p)
  PROVE  InLog(Cut(reg, i, o), p)
<1>1. PICK m, j \in 0..2 : /\ InRegion(reg, m, o) /\ InRegion(reg, j, p)
                           /\ m < j \/ (m = j /\ o <= p)
  BY DEF Before
<1>2. m = i
  BY <1>1, RegionUnique
<1> QED  BY <1>1, <1>2, CutOffset DEF InLog

LEMMA CutBefore ==
  ASSUME NEW reg, LogShape(reg), NEW i \in 0..2, NEW o, InRegion(reg, i, o),
         NEW p, NEW q, Before(reg, o, p), Before(reg, o, q), Before(reg, p, q)
  PROVE  Before(Cut(reg, i, o), p, q)
<1>1. PICK m, j \in 0..2 : /\ InRegion(reg, m, o) /\ InRegion(reg, j, p)
                           /\ m < j \/ (m = j /\ o <= p)
  BY DEF Before
<1>2. PICK n, k \in 0..2 : /\ InRegion(reg, n, o) /\ InRegion(reg, k, q)
                           /\ n < k \/ (n = k /\ o <= q)
  BY DEF Before
<1>3. PICK f, g \in 0..2 : /\ InRegion(reg, f, p) /\ InRegion(reg, g, q)
                           /\ f < g \/ (f = g /\ p <= q)
  BY DEF Before
<1>4. m = i /\ n = i
  BY <1>1, <1>2, RegionUnique
<1>5. f = j /\ g = k
  BY <1>1, <1>2, <1>3, RegionUnique
<1>6. InRegion(Cut(reg, i, o), j, p)
  BY <1>1, <1>4, CutOffset
<1>7. InRegion(Cut(reg, i, o), k, q)
  BY <1>2, <1>4, CutOffset
<1> QED  BY <1>3, <1>5, <1>6, <1>7 DEF Before

LEMMA BeforeInLog ==
  ASSUME NEW reg, NEW o, NEW p, Before(reg, o, p)
  PROVE  InLog(reg, o) /\ InLog(reg, p)
BY DEF Before, InLog

LEMMA BeforeItself ==
  ASSUME NEW reg, NEW o, InLog(reg, o)
  PROVE  Before(reg, o, o)
<1>1. PICK i \in 0..2 : InRegion(reg, i, o)
  BY DEF InLog
<1>2. o <= o
  BY <1>1 DEF InRegion
<1> QED  BY <1>1, <1>2 DEF Before

\* A change of the regions that loses and reorders no offset.
LEMMA ChainMap ==
  ASSUME NEW l, NEW p, LogChain(l, p),
         NEW r, LogShape(r.aRegion),
         r = [aRegion |-> r.aRegion, cksum |-> r.cksum, iSnapshotId |-> l.iSnapshotId],
         \A o : InLog(l.aRegion, o) => InLog(r.aRegion, o),
         \A o, q : Before(l.aRegion, o, q) => Before(r.aRegion, o, q)
  PROVE  LogChain(r, p)
<1>1. r.iSnapshotId = l.iSnapshotId
  OBVIOUS
<1> QED  BY <1>1 DEF LogChain

LEMMA ReclaimedChain ==
  ASSUME NEW l, NEW p, LogChain(l, p), ckpt.id \in Nat, snap.id \in Nat, ckpt.id <= snap.id
  PROVE  LogChain(Reclaimed(l), p)
<1> DEFINE reg == l.aRegion
           o == ckpt.iLogOff.off
           In(i) == reg[i].iStart <= o /\ o <= reg[i].iEnd
           First(i) == (i = 3 \/ In(i)) /\ \A j \in 0..(i - 1) : ~In(j)
           first == CHOOSE i \in 0..3 : First(i)
           cut == [i \in 0..2 |-> IF i < first THEN NoRegion
                                  ELSE IF i = first THEN Region(o, reg[i].iEnd) ELSE reg[i]]
           r == Reclaimed(l)
<1>1. CASE l.iSnapshotId >= ckpt.id
  BY <1>1 DEF Reclaimed
<1>2. CASE ~(l.iSnapshotId >= ckpt.id)
  <2>1. l.iSnapshotId < ckpt.id /\ l.iSnapshotId < snap.id /\ LogShape(reg)
    BY <1>2 DEF LogChain
  <2>2. Before(reg, o, snap.iLogOff.off) /\ (p # 0 => Before(reg, o, p))
    BY <2>1 DEF LogChain
  <2>3. PICK i \in 0..2 : InRegion(reg, i, o)
    BY <2>2, BeforeInLog DEF InLog
  <2>4. In(i)
    BY <2>1, <2>3, RegionFields DEF InRegion
  <2>5. \A j \in 0..(i - 1) : ~In(j)
    BY <2>1, <2>3, RegionsBefore
  <2>6. first = i
    <3>1. First(i) /\ i \in 0..3
      BY <2>4, <2>5
    <3>2. \A k \in 0..3 : First(k) => k = i
      <4> SUFFICES ASSUME NEW k \in 0..3, First(k), k # i PROVE FALSE
        OBVIOUS
      <4>1. CASE k < i
        <5>1. k \in 0..(i - 1) /\ k # 3
          BY <4>1
        <5> QED  BY <5>1, <2>5
      <4>2. CASE i < k
        <5>1. i \in 0..(k - 1)
          BY <4>2
        <5> QED  BY <5>1, <2>4
      <4> QED  BY <4>1, <4>2
    <3> HIDE DEF First
    <3> QED  BY <3>1, <3>2
  <2>7. r = [l EXCEPT !.iSnapshotId = ckpt.id, !.aRegion = cut]
    BY <1>2 DEF Reclaimed, Region, NoRegion
  <2>8. cut = Cut(reg, i, o)
    BY <2>6 DEF Cut
  <2> HIDE DEF first, cut, First
  <2>9. /\ r = [aRegion |-> cut, cksum |-> l.cksum, iSnapshotId |-> ckpt.id]
        /\ r.aRegion = Cut(reg, i, o) /\ r.iSnapshotId = ckpt.id
    BY <2>7, <2>8 DEF LogChain
  <2> HIDE DEF r
  <2>10. r = [aRegion |-> r.aRegion, cksum |-> r.cksum, iSnapshotId |-> r.iSnapshotId]
    BY <2>9
  <2>11. LogShape(r.aRegion)
    BY <2>1, <2>3, <2>9, CutShape
  <2>12. InLog(r.aRegion, snap.iLogOff.off)
    BY <2>1, <2>2, <2>3, <2>9, CutInLog
  <2>13. p # 0 => InLog(r.aRegion, p)
    BY <2>1, <2>2, <2>3, <2>9, CutInLog
  <2>14. p # 0 => Before(r.aRegion, snap.iLogOff.off, p)
    <3>1. p # 0 => Before(reg, snap.iLogOff.off, p)
      BY <2>1 DEF LogChain
    <3> QED  BY <2>1, <2>2, <2>3, <2>9, <3>1, CutBefore
  <2>15. p \in Nat
    BY DEF LogChain
  <2> HIDE DEF reg, o
  <2>16. LogChain(r, p)
    BY <2>9, <2>10, <2>11, <2>12, <2>13, <2>14, <2>15 DEF LogChain
  <2> QED  BY <2>16 DEF r
<1> QED  BY <1>1, <1>2

-----------------------------------------------------------------------------
(* The writer and the regions *)

\* A wrap: region 2 becomes region 0, one JUMP longer.
LEMMA WrapChain ==
  ASSUME NEW l, NEW p, LogChain(l, p), MayWrap(l)
  PROVE  LET r == [l EXCEPT !.aRegion = WrappedRegions(l)]
         IN  /\ LogChain(r, p)
             /\ r.aRegion = WrappedRegions(l)
             /\ Wrapped(r.aRegion) /\ r.aRegion[2] = NoRegion
<1> DEFINE reg == l.aRegion
           new == WrappedRegions(l)
           r == [l EXCEPT !.aRegion = new]
<1>1. LogShape(reg) /\ reg[0].iEnd = 0 /\ reg[1].iEnd = 0 /\ reg[2].iStart \in Nat \ {0}
      /\ reg[2].iEnd \in Nat /\ reg[2].iStart <= reg[2].iEnd
  <2>1. LogShape(reg)
    BY DEF LogChain
  <2>2. reg[2].iStart \in Nat /\ reg[2].iEnd \in Nat
    BY <2>1, RegionFields
  <2>3. reg[2].iStart >= MinLogWrap /\ MinLogWrap \in Nat \ {0}
    BY LogAssumption DEF MayWrap
  <2> QED  BY <2>1, <2>2, <2>3 DEF MayWrap, LogShape
<1>2. reg \in [0..2 -> [iStart : Nat, iEnd : Nat]]
  BY <1>1, RegionFields
<1>3. /\ new[0] = Region(reg[2].iStart, reg[2].iEnd + 1)
      /\ new[1] = reg[1] /\ new[2] = NoRegion
      /\ new \in [0..2 -> [iStart : Nat, iEnd : Nat]]
  BY <1>1, <1>2 DEF WrappedRegions, Region, NoRegion
<1>4. /\ new[0].iStart = reg[2].iStart /\ new[0].iEnd = reg[2].iEnd + 1
      /\ new[1].iEnd = 0 /\ new[2].iStart = 0 /\ new[2].iEnd = 0
  BY <1>1, <1>3 DEF Region, NoRegion
<1>5. reg[1] = NoRegion
  BY <1>1, <1>2 DEF LogShape, NoRegion, Region
<1>6. /\ r = [aRegion |-> new, cksum |-> l.cksum, iSnapshotId |-> l.iSnapshotId]
  BY DEF LogChain
<1> HIDE DEF new
<1>7. LogShape(new) /\ Wrapped(new)
  BY <1>1, <1>3, <1>4, <1>5 DEF LogShape, Wrapped
<1>8. \A o, i : i \in 0..2 /\ InRegion(reg, i, o) => i = 2 /\ InRegion(new, 0, o)
  BY <1>1, <1>4 DEF InRegion
<1> HIDE DEF reg
<1>9. \A o : InLog(reg, o) => InLog(new, o)
  BY <1>8 DEF InLog
<1>10. \A o, q : Before(reg, o, q) => Before(new, o, q)
  BY <1>8 DEF Before
<1>11. r.aRegion = new /\ r = [aRegion |-> r.aRegion, cksum |-> r.cksum, iSnapshotId |-> l.iSnapshotId]
  BY <1>6
<1> HIDE DEF r
<1>12. LogChain(r, p)
  BY <1>7, <1>9, <1>10, <1>11, ChainMap DEF reg
<1> QED  BY <1>3, <1>7, <1>11, <1>12 DEF r, new

\* The writer that lsmLogBegin() makes.
LEMMA BeginAhead ==
  ASSUME NEW l, NEW p, LogChain(l, p)
  PROVE  WriterAhead(LogBegin(l), IF MayWrap(l) THEN WrappedRegions(l) ELSE l.aRegion)
<1> DEFINE w == LogBegin(l)
           reg == l.aRegion
<1> SUFFICES WriterAhead(w, IF MayWrap(l) THEN WrappedRegions(l) ELSE reg)
  OBVIOUS
<1>1. IsSeq(<<>>) /\ Len(<<>>) = 0
  <2>1. <<>> \in Seq({})
    OBVIOUS
  <2> QED  BY <2>1 DEF IsSeq
<1>2. LogShape(reg)
  BY DEF LogChain
<1>3. CASE MayWrap(l)
  <2> DEFINE new == WrappedRegions(l)
  <2>1. Wrapped(new) /\ new[2] = NoRegion
    BY <1>3, WrapChain
  <2>2. w = [iOff |-> 0, buf |-> <<>>, cksum |-> Append(l.cksum, Item("jump", 0)), jump |-> new[0],
             iRegion1End |-> 0, iRegion2Start |-> 0]
    BY <1>3 DEF LogBegin, NoLog
  <2> HIDE DEF w, new
  <2>3. LogEndOff(w) = 0 /\ IsWriter(w)
    BY <1>1, <2>2 DEF LogEndOff, IsWriter
  <2>4. WriterAhead(w, new)
    BY <2>1, <2>2, <2>3 DEF WriterAhead, Wrapped, NoRegion, Region
  <2> QED  BY <1>3, <2>4 DEF new
<1>4. CASE ~MayWrap(l)
  <2>1. w = [iOff |-> reg[2].iEnd, buf |-> <<>>, cksum |-> l.cksum,
             jump |-> IF reg[1].iEnd = 0 /\ reg[2].iEnd < reg[0].iEnd THEN reg[0] ELSE NoRegion,
             iRegion1End |-> 0, iRegion2Start |-> 0]
    BY <1>4 DEF LogBegin, NoLog
  <2>2. Wrapped(reg) <=> reg[1].iEnd = 0 /\ reg[2].iEnd < reg[0].iEnd
    BY <1>2, RegionFields DEF Wrapped, LogShape
  <2>3. reg[2].iEnd \in Nat
    BY <1>2, RegionFields
  <2> HIDE DEF w
  <2>4. LogEndOff(w) = reg[2].iEnd /\ IsWriter(w)
    BY <1>1, <2>1, <2>3 DEF LogEndOff, IsWriter
  <2>5. WriterAhead(w, reg)
    <3> HIDE DEF reg
    <3> QED  BY <2>1, <2>2, <2>3, <2>4 DEF WriterAhead, Wrapped
  <2> QED  BY <1>4, <2>5
<1> QED  BY <1>3, <1>4

LEMMA SeqLen ==
  /\ IsSeq(<<>>) /\ Len(<<>>) = 0
  /\ \A s : IsSeq(s) => Len(s) \in Nat
  /\ \A s, e : IsSeq(s) => IsSeq(Append(s, e)) /\ Len(Append(s, e)) = Len(s) + 1
<1>1. <<>> \in Seq({}) /\ Len(<<>>) = 0
  OBVIOUS
<1>2. ASSUME NEW s, IsSeq(s) PROVE Len(s) \in Nat
  <2>1. PICK S : s \in Seq(S)
    BY <1>2 DEF IsSeq
  <2> QED  BY <2>1
<1>3. ASSUME NEW s, NEW e, IsSeq(s)
      PROVE  IsSeq(Append(s, e)) /\ Len(Append(s, e)) = Len(s) + 1
  <2>1. PICK S : s \in Seq(S)
    BY <1>3 DEF IsSeq
  <2>2. s \in Seq(S \cup {e})
    BY <2>1
  <2>3. Append(s, e) \in Seq(S \cup {e})
    BY <2>2
  <2> QED  BY <2>1, <2>2, <2>3, LenAppend DEF IsSeq
<1>4. IsSeq(<<>>)
  BY <1>1 DEF IsSeq
<1> QED  BY <1>1, <1>2, <1>3, <1>4

\* There is room for a record and a JUMP after it before the region ahead.
HasJumpRoom(w) == w.iRegion1End = 0 => w.jump = NoRegion \/ LogEndOff(w) + 2 <= w.jump.iStart

LEMMA JumpAhead ==
  ASSUME NEW w, NEW reg, LogShape(reg), WriterAhead(w, reg)
  PROVE  LET j == JumpIfRequired(w)
         IN  WriterAhead(j, reg) /\ HasJumpRoom(j)
<1>1. IsWriter(w) /\ LogEndOff(w) \in Nat /\ w.iOff \in Nat /\ w.iOff <= LogEndOff(w)
      /\ w.iRegion1End \in Nat
  <2>1. IsWriter(w) /\ Len(w.buf) \in Nat /\ w.iOff \in Nat
    BY SeqLen DEF WriterAhead, IsWriter
  <2> QED  BY <2>1 DEF LogEndOff, IsWriter
<1>2. reg[0].iStart \in Nat /\ reg[0].iEnd \in Nat /\ reg[2].iEnd \in Nat
      /\ (Wrapped(reg) => reg[0].iStart < reg[0].iEnd)
  BY RegionFields DEF Wrapped
<1>3. CASE ~JumpRequired(w)
  <2>1. JumpIfRequired(w) = w
    BY <1>3 DEF JumpIfRequired
  <2>2. HasJumpRoom(w)
    BY <1>1, <1>2, <1>3 DEF WriterAhead, HasJumpRoom, JumpRequired
  <2> QED  BY <2>1, <2>2
<1>4. CASE JumpRequired(w)
  <2>1. Wrapped(reg) /\ w.jump = reg[0] /\ LogEndOff(w) + 1 = reg[0].iStart
        /\ w.iRegion1End = 0 /\ reg[2].iEnd <= w.iOff
    <3>1. Wrapped(reg)
      BY <1>1, <1>4 DEF WriterAhead, JumpRequired, NoRegion, Region
    <3>2. w.jump = reg[0]
      BY <3>1 DEF WriterAhead
    <3>3. LogEndOff(w) + 1 = reg[0].iStart
      BY <1>1, <1>2, <1>4, <3>2 DEF JumpRequired
    <3>4. w.iRegion1End = 0
      <4> SUFFICES ASSUME w.iRegion1End # 0 PROVE FALSE
        OBVIOUS
      <4>1. reg[0].iEnd + 1 <= w.iOff
        BY DEF WriterAhead
      <4> QED  BY <1>1, <1>2, <3>1, <3>3, <4>1
    <3> QED  BY <3>1, <3>2, <3>3, <3>4 DEF WriterAhead
  <2> DEFINE j == JumpIfRequired(w)
             e == LogEndOff(w) + 1
             o == w.jump.iEnd + 1
  <2>2. j = [iOff |-> o, buf |-> <<>>, cksum |-> Append(w.cksum, Item("jump", o)),
             jump |-> w.jump, iRegion1End |-> e, iRegion2Start |-> o]
    BY <1>1, <1>4 DEF JumpIfRequired, Jumped, IsWriter
  <2>3. o = reg[0].iEnd + 1 /\ o \in Nat /\ e = reg[0].iStart /\ e \in Nat /\ e # 0
        /\ reg[2].iEnd < e
    BY <1>1, <1>2, <2>1
  <2> HIDE DEF j, o, e
  <2>4. IsWriter(j)
    BY <2>2, <2>3, SeqLen DEF IsWriter
  <2>5. WriterAhead(j, reg) /\ HasJumpRoom(j)
    BY <1>2, <2>1, <2>2, <2>3, <2>4 DEF WriterAhead, HasJumpRoom
  <2> QED  BY <2>5 DEF j
<1> QED  BY <1>3, <1>4

LEMMA WriterFields ==
  ASSUME NEW w, IsWriter(w), NEW o, NEW b, NEW c
  PROVE  /\ [w EXCEPT !.iOff = o, !.buf = b] =
              [iOff |-> o, buf |-> b, cksum |-> w.cksum, jump |-> w.jump,
               iRegion1End |-> w.iRegion1End, iRegion2Start |-> w.iRegion2Start]
         /\ [w EXCEPT !.buf = b, !.cksum = c] =
              [iOff |-> w.iOff, buf |-> b, cksum |-> c, jump |-> w.jump,
               iRegion1End |-> w.iRegion1End, iRegion2Start |-> w.iRegion2Start]
<1> DEFINE u == [w EXCEPT !.iOff = o]
           v == [w EXCEPT !.buf = b]
<1>1. u = [iOff |-> o, buf |-> w.buf, cksum |-> w.cksum, jump |-> w.jump,
           iRegion1End |-> w.iRegion1End, iRegion2Start |-> w.iRegion2Start]
  BY DEF IsWriter
<1>2. v = [iOff |-> w.iOff, buf |-> b, cksum |-> w.cksum, jump |-> w.jump,
           iRegion1End |-> w.iRegion1End, iRegion2Start |-> w.iRegion2Start]
  BY DEF IsWriter
<1>3. /\ [w EXCEPT !.iOff = o, !.buf = b] = [u EXCEPT !.buf = b]
      /\ [w EXCEPT !.buf = b, !.cksum = c] = [v EXCEPT !.cksum = c]
  OBVIOUS
<1> HIDE DEF u, v
<1>4. [u EXCEPT !.buf = b] =
        [iOff |-> o, buf |-> b, cksum |-> w.cksum, jump |-> w.jump,
         iRegion1End |-> w.iRegion1End, iRegion2Start |-> w.iRegion2Start]
  BY <1>1
<1>5. [v EXCEPT !.cksum = c] =
        [iOff |-> w.iOff, buf |-> b, cksum |-> c, jump |-> w.jump,
         iRegion1End |-> w.iRegion1End, iRegion2Start |-> w.iRegion2Start]
  BY <1>2
<1> QED  BY <1>3, <1>4, <1>5

LEMMA FlushedAhead ==
  ASSUME NEW w, NEW reg, WriterAhead(w, reg), LogShape(reg)
  PROVE  LET f == Flushed(w)
         IN  /\ WriterAhead(f, reg)
             /\ HasJumpRoom(w) => HasJumpRoom(f)
             /\ f.buf = <<>> /\ f.iOff = LogEndOff(w)
             /\ f.iRegion1End = w.iRegion1End
<1>1. IsWriter(w) /\ Len(w.buf) \in Nat /\ w.iOff \in Nat
  BY SeqLen DEF WriterAhead, IsWriter
<1> DEFINE f == Flushed(w)
           e == LogEndOff(w)
<1>2. e \in Nat /\ w.iOff <= e
  BY <1>1 DEF LogEndOff
<1>3. f = [iOff |-> e, buf |-> <<>>, cksum |-> w.cksum, jump |-> w.jump,
           iRegion1End |-> w.iRegion1End, iRegion2Start |-> w.iRegion2Start]
  BY <1>1, WriterFields DEF Flushed
<1>4. reg[0].iStart \in Nat /\ reg[0].iEnd \in Nat /\ reg[2].iEnd \in Nat
  BY RegionFields
<1> HIDE DEF f
<1>5. LogEndOff(f) = e
  BY <1>2, <1>3, SeqLen DEF LogEndOff
<1>6. IsWriter(f)
  BY <1>1, <1>2, <1>3, SeqLen DEF IsWriter
<1>7. WriterAhead(f, reg)
  <2> HIDE DEF e
  <2>1. Wrapped(reg) /\ w.iRegion1End = 0 => e < reg[0].iStart
    BY DEF WriterAhead, e
  <2> QED  BY <1>1, <1>2, <1>3, <1>4, <1>5, <1>6, <2>1 DEF WriterAhead
<1>8. HasJumpRoom(w) => HasJumpRoom(f)
  BY <1>3, <1>5 DEF HasJumpRoom
<1> QED  BY <1>3, <1>7, <1>8 DEF f

LEMMA AppendedAhead ==
  ASSUME NEW w, NEW reg, WriterAhead(w, reg), LogShape(reg), HasJumpRoom(w),
         NEW k, NEW v, NEW ck
  PROVE  LET a == Appended(w, k, v, ck)
         IN  /\ WriterAhead(a, reg)
             /\ LogEndOff(a) = LogEndOff(w) + 1 /\ LogEndOff(w) \in Nat
             /\ a.iRegion1End = w.iRegion1End
<1>1. IsWriter(w) /\ IsSeq(w.buf) /\ Len(w.buf) \in Nat /\ w.iOff \in Nat
  BY SeqLen DEF WriterAhead, IsWriter
<1> DEFINE a == Appended(w, k, v, ck)
           b == Append(w.buf, Cell(k, v, ck))
           c == Append(w.cksum, Item(k, v))
<1>2. IsSeq(b) /\ Len(b) = Len(w.buf) + 1
  BY <1>1, SeqLen
<1>3. a = [iOff |-> w.iOff, buf |-> b, cksum |-> c, jump |-> w.jump,
           iRegion1End |-> w.iRegion1End, iRegion2Start |-> w.iRegion2Start]
  <2>1. a = [w EXCEPT !.buf = b, !.cksum = c]
    BY DEF Appended
  <2> HIDE DEF a, b, c
  <2> QED  BY <1>1, <2>1, WriterFields
<1>4. reg[0].iStart \in Nat /\ reg[0].iEnd \in Nat /\ reg[2].iEnd \in Nat
  BY RegionFields
<1> HIDE DEF a, b, c
<1>5. LogEndOff(a) = LogEndOff(w) + 1 /\ LogEndOff(w) \in Nat
  BY <1>1, <1>2, <1>3 DEF LogEndOff
<1>6. IsWriter(a)
  BY <1>1, <1>2, <1>3 DEF IsWriter
<1>7. Wrapped(reg) /\ w.iRegion1End = 0 => LogEndOff(a) < reg[0].iStart
  <2> SUFFICES ASSUME Wrapped(reg), w.iRegion1End = 0 PROVE LogEndOff(a) < reg[0].iStart
    OBVIOUS
  <2>1. w.jump = reg[0] /\ LogEndOff(w) < reg[0].iStart
    BY DEF WriterAhead
  <2>2. w.jump # NoRegion
    BY <2>1 DEF Wrapped, NoRegion, Region
  <2>3. LogEndOff(w) + 2 <= reg[0].iStart
    BY <2>1, <2>2 DEF HasJumpRoom
  <2> QED  BY <1>4, <1>5, <2>3
<1>8. WriterAhead(a, reg)
  BY <1>1, <1>3, <1>6, <1>7 DEF WriterAhead
<1> QED  BY <1>3, <1>5, <1>8 DEF a

\* lsmLogEnd() loses no offset, and the end of the transaction is the last one.
LEMMA EndChain ==
  ASSUME NEW l, NEW p, LogChain(l, p),
         NEW w, WriterAhead(w, l.aRegion), HasCommit(w, l.aRegion)
  PROVE  LET r == LogEnd(l, w)
         IN  /\ LogChain(r, p)
             /\ r.iSnapshotId = l.iSnapshotId
             /\ r.aRegion[2].iEnd = w.iOff /\ InLog(r.aRegion, w.iOff)
             /\ \A o : InLog(l.aRegion, o) => Before(r.aRegion, o, w.iOff)
<1> DEFINE reg == l.aRegion
           new == IF w.iRegion1End = 0
                  THEN [reg EXCEPT ![2].iEnd = w.iOff]
                  ELSE [reg EXCEPT ![1] = Region(reg[2].iStart, w.iRegion1End),
                                   ![2] = Region(w.iRegion2Start, w.iOff)]
           r == LogEnd(l, w)
<1>1. LogShape(reg) /\ reg \in [0..2 -> [iStart : Nat, iEnd : Nat]]
  BY RegionFields DEF LogChain
<1>2. /\ \A i \in 0..2 : reg[i].iStart \in Nat /\ reg[i].iEnd \in Nat
      /\ reg[2] = Region(reg[2].iStart, reg[2].iEnd)
      /\ reg[2].iStart <= reg[2].iEnd
      /\ reg[0].iEnd # 0 => reg[0].iStart < reg[0].iEnd
  BY <1>1, RegionFields DEF LogShape
<1>3. w.iOff \in Nat \ {0} /\ w.iRegion1End \in Nat /\ w.iRegion2Start \in Nat
      /\ LogEndOff(w) = w.iOff
  BY SeqLen DEF WriterAhead, IsWriter, HasCommit, LogEndOff
<1>4. r = [aRegion |-> new, cksum |-> w.cksum, iSnapshotId |-> l.iSnapshotId]
  <2>1. r = [l EXCEPT !.cksum = w.cksum, !.aRegion = new]
    BY DEF LogEnd
  <2>2. l = [aRegion |-> l.aRegion, cksum |-> l.cksum, iSnapshotId |-> l.iSnapshotId]
    BY DEF LogChain
  <2> HIDE DEF r, new, reg
  <2> QED  BY <2>1, <2>2
<1>5. r.aRegion = new
      /\ r = [aRegion |-> r.aRegion, cksum |-> r.cksum, iSnapshotId |-> l.iSnapshotId]
      /\ r.iSnapshotId = l.iSnapshotId
  BY <1>4
<1> SUFFICES /\ LogShape(new) /\ new[2].iEnd = w.iOff
             /\ InRegion(new, 2, w.iOff)
             /\ \A o, i : i \in 0..2 /\ InRegion(reg, i, o) =>
                  IF i = 2 /\ w.iRegion1End # 0 THEN InRegion(new, 1, o) ELSE InRegion(new, i, o)
             /\ w.iRegion1End # 0 => \A o : ~InRegion(reg, 1, o)
  <2> HIDE DEF reg, new, r
  <2>1. \A o : InLog(reg, o) => InLog(new, o)
    BY DEF InLog
  <2>2. \A o, q : Before(reg, o, q) => Before(new, o, q)
    <3> SUFFICES ASSUME NEW o, NEW q, Before(reg, o, q) PROVE Before(new, o, q)
      OBVIOUS
    <3>1. PICK i, j \in 0..2 : /\ InRegion(reg, i, o) /\ InRegion(reg, j, q)
                               /\ i < j \/ (i = j /\ o <= q)
      BY DEF Before
    <3>2. CASE w.iRegion1End = 0
      <4>1. InRegion(new, i, o) /\ InRegion(new, j, q)
        BY <3>1, <3>2
      <4> QED  BY <3>1, <4>1 DEF Before
    <3>3. CASE w.iRegion1End # 0
      <4>1. i \in {0, 2} /\ j \in {0, 2}
        BY <3>1, <3>3
      <4>2. InRegion(new, IF i = 2 THEN 1 ELSE 0, o) /\ InRegion(new, IF j = 2 THEN 1 ELSE 0, q)
        BY <3>1, <3>3, <4>1
      <4>3. CASE i = 2 /\ j = 2
        BY <3>1, <4>2, <4>3 DEF Before
      <4>4. CASE i = 0 /\ j = 2
        BY <4>2, <4>4 DEF Before
      <4>5. CASE i = 0 /\ j = 0
        BY <3>1, <4>2, <4>5 DEF Before
      <4> QED  BY <3>1, <4>1, <4>3, <4>4, <4>5
    <3> QED  BY <3>2, <3>3
  <2>3. LogChain(r, p)
    BY <1>5, <2>1, <2>2, ChainMap DEF reg
  <2>4. \A o : InLog(reg, o) => Before(new, o, w.iOff)
    <3> SUFFICES ASSUME NEW o, InLog(reg, o) PROVE Before(new, o, w.iOff)
      OBVIOUS
    <3>1. PICK i \in 0..2 : InRegion(new, i, o)
      BY <2>1 DEF InLog
    <3>2. i = 2 => o <= w.iOff
      BY <3>1 DEF InRegion
    <3> QED  BY <3>1, <3>2 DEF Before
  <2>5. InLog(new, w.iOff)
    BY DEF InLog
  <2> QED  BY <1>5, <2>3, <2>4, <2>5 DEF r, reg
<1>6. CASE w.iRegion1End = 0
  <2>1. /\ new[0] = reg[0] /\ new[1] = reg[1] /\ new[2] = Region(reg[2].iStart, w.iOff)
        /\ new \in [0..2 -> [iStart : Nat, iEnd : Nat]]
    BY <1>1, <1>2, <1>3, <1>6 DEF Region
  <2>2. new[2].iStart = reg[2].iStart /\ new[2].iEnd = w.iOff
    BY <2>1 DEF Region
  <2>3. reg[2].iEnd < w.iOff /\ (Wrapped(reg) => w.iOff < reg[0].iStart)
    BY <1>3, <1>6 DEF WriterAhead, HasCommit
  <2> HIDE DEF new
  <2>4. LogShape(new)
    BY <1>1, <1>2, <1>3, <2>1, <2>2, <2>3 DEF LogShape, Wrapped
  <2>5. InRegion(new, 2, w.iOff)
    BY <1>1, <1>2, <1>3, <2>1, <2>2, <2>3 DEF LogShape, InRegion
  <2>6. \A o, i : i \in 0..2 /\ InRegion(reg, i, o) => InRegion(new, i, o)
    <3> HIDE DEF reg
    <3> QED  BY <1>2, <1>3, <2>1, <2>2, <2>3 DEF InRegion
  <2> QED  BY <1>6, <2>2, <2>4, <2>5, <2>6
<1>7. CASE w.iRegion1End # 0
  <2>1. /\ new[0] = reg[0] /\ new[1] = Region(reg[2].iStart, w.iRegion1End)
        /\ new[2] = Region(w.iRegion2Start, w.iOff)
        /\ new \in [0..2 -> [iStart : Nat, iEnd : Nat]]
    BY <1>1, <1>2, <1>3, <1>7 DEF Region
  <2>2. /\ new[2].iStart = w.iRegion2Start /\ new[2].iEnd = w.iOff
        /\ new[1].iStart = reg[2].iStart /\ new[1].iEnd = w.iRegion1End
    BY <2>1 DEF Region
  <2>3. /\ Wrapped(reg)
        /\ reg[2].iEnd < w.iRegion1End /\ w.iRegion1End <= reg[0].iStart
        /\ w.iRegion2Start = reg[0].iEnd + 1 /\ w.iRegion2Start <= w.iOff
    BY <1>7 DEF WriterAhead
  <2> HIDE DEF new
  <2>4. LogShape(new)
    BY <1>1, <1>2, <1>3, <2>1, <2>2, <2>3 DEF LogShape, Wrapped
  <2>5. InRegion(new, 2, w.iOff)
    BY <1>2, <1>3, <2>2, <2>3 DEF Wrapped, InRegion
  <2>6. \A o, i : i \in 0..2 /\ InRegion(reg, i, o) =>
          i # 1 /\ (i = 2 => InRegion(new, 1, o)) /\ (i = 0 => InRegion(new, 0, o))
    <3> HIDE DEF reg
    <3> QED  BY <1>2, <1>3, <2>1, <2>2, <2>3 DEF InRegion, Wrapped
  <2>7. \A o, i : i \in 0..2 /\ InRegion(reg, i, o) =>
          IF i = 2 /\ w.iRegion1End # 0 THEN InRegion(new, 1, o) ELSE InRegion(new, i, o)
    <3> HIDE DEF reg
    <3> QED  BY <1>7, <2>6
  <2>8. \A o : ~InRegion(reg, 1, o)
    BY <2>6
  <2> QED  BY <2>2, <2>4, <2>5, <2>7, <2>8
<1> QED  BY <1>6, <1>7

-----------------------------------------------------------------------------
(* The steps *)

\* A log with what the theorems about the regions need: lsm_flush() and the
\* rollback of a nested transaction leave its offsets wrong.
LogConfig == UseLog /\ Levels = 1 /\ MaxFlush = 0

LEMMA RegionInit == Init => RegionInv
<1> SUFFICES ASSUME Init PROVE RegionInv
  OBVIOUS
<1> DEFINE reg == [i \in 0..2 |-> NoRegion]
           l == [aRegion |-> reg, cksum |-> FirstCksum, iSnapshotId |-> FirstSnapshot.id]
<1>1. /\ hdr = TreeInit(l, 0) /\ snap = FirstSnapshot /\ ckpt = FirstSnapshot /\ pc = "idle"
  BY DEF Init
<1>2. FirstSnapshot.id = 1
  BY DEF FirstSnapshot
<1>3. LogShape(reg)
  BY DEF LogShape, NoRegion, Region
<1> HIDE DEF reg
<1>4. /\ l.aRegion = reg /\ l.iSnapshotId = 1
      /\ l = [aRegion |-> l.aRegion, cksum |-> l.cksum, iSnapshotId |-> l.iSnapshotId]
  BY <1>2
<1> HIDE DEF l
<1>5. hdr.log = l /\ ~hdr.old /\ hdr.iOldLog.off = 0
  BY <1>1, TreeInitFields DEF LogOff
<1>6. LogChain(l, 0)
  BY <1>1, <1>2, <1>3, <1>4 DEF LogChain
<1> QED  BY <1>1, <1>2, <1>5, <1>6 DEF RegionInv, Writing

\* Steps outside of a write transaction, with the log and its snapshots as
\* they were.
LEMMA RegionQuiet ==
  ASSUME RegionInv, UNCHANGED <<hdr, snap, ckpt>>, pc # "close",
         pc' \notin Writing \cup {"close"}
  PROVE  RegionInv'
BY DEF RegionInv, Writing, LogChain

LEMMA RegionRead ==
  RegionInv /\ (BeginReadTrans \/ FinishReadTrans \/ Die) => RegionInv'
<1> SUFFICES ASSUME RegionInv, BeginReadTrans \/ FinishReadTrans \/ Die PROVE RegionInv'
  OBVIOUS
<1>1. /\ UNCHANGED <<hdr, snap, ckpt>> /\ pc # "close"
      /\ pc' \notin Writing \cup {"close"}
  BY DEF BeginReadTrans, FinishReadTrans, Die, sharedVars, diskVars, Writing
<1> QED  BY <1>1, RegionQuiet

LEMMA RegionBegin ==
  LogConfig /\ DropInv /\ DropInv' /\ RegionInv /\ BeginWriteTrans => RegionInv'
<1> SUFFICES ASSUME LogConfig, DropInv, DropInv', RegionInv, BeginWriteTrans PROVE RegionInv'
  OBVIOUS
<1> DEFINE l == Reclaimed(tree.log)
           k == IF MayWrap(l) THEN [l EXCEPT !.aRegion = WrappedRegions(l)] ELSE l
           t == IF tree.old /\ tree.iOldLog = client.iLogOff THEN DiscardOld(tree) ELSE tree
           p == hdr.iOldLog.off
<1>1. /\ UNCHANGED <<hdr, snap, ckpt>> /\ tree = hdr /\ pc # "close"
      /\ log' = LogBegin(l)
      /\ tree' = [t EXCEPT !.log = k]
      /\ pc' \in {"write", "flush"}
  BY DEF BeginWriteTrans, LogConfig, sharedVars
<1>2. pc' = "write" /\ tree'.iOldLog = hdr.iOldLog
  BY <1>1 DEF DropInv, LogTypes, LogConfig, WriterTree, Writing
<1>3. LogChain(l, p)
  <2>1. LogChain(tree.log, p)
    BY <1>1 DEF RegionInv
  <2>2. ckpt.id \in Nat /\ snap.id \in Nat /\ ckpt.id <= snap.id
    BY DEF DropInv, LogTypes, IsSnap, RegionInv
  <2> QED  BY <2>1, <2>2, ReclaimedChain
<1>4. IsTree(t)
  <2>1. IsTree(tree)
    BY DEF DropInv, LogTypes
  <2> QED  BY <2>1, DiscardOldFields
<1> HIDE DEF l, t
<1>5. tree'.log = k
  <2> HIDE DEF k
  <2> QED  BY <1>1, <1>4, SetLogFields
<1>6. LogChain(k, p) /\ WriterAhead(log', k.aRegion)
  <2>1. WriterAhead(log', IF MayWrap(l) THEN WrappedRegions(l) ELSE l.aRegion)
    BY <1>1, <1>3, BeginAhead
  <2>2. CASE MayWrap(l)
    <3>1. LogChain(k, p) /\ k.aRegion = WrappedRegions(l)
      BY <1>3, <2>2, WrapChain
    <3> QED  BY <2>1, <2>2, <3>1
  <2>3. CASE ~MayWrap(l)
    <3>1. k = l
      BY <2>3
    <3> QED  BY <1>3, <2>1, <2>3, <3>1
  <2> QED  BY <2>2, <2>3
<1> HIDE DEF k, p
<1>7. LogChain(tree.log, tree.iOldLog.off)'
  BY <1>1, <1>2, <1>5, <1>6 DEF LogChain, p
<1> QED
  BY <1>1, <1>2, <1>5, <1>6, <1>7 DEF RegionInv, LogChain

\* Steps of a write transaction: only the writer goes on.
LEMMA RegionAhead ==
  ASSUME RegionInv, UNCHANGED <<hdr, snap, ckpt, tree>>,
         pc \in Writing, pc' \in Writing,
         WriterAhead(log', tree.log.aRegion),
         pc' \in {"sync", "end"} => HasCommit(log', tree.log.aRegion)
  PROVE  RegionInv'
BY DEF RegionInv, Writing, LogChain

LEMMA RegionWrite ==
  LogConfig /\ RegionInv /\ (Savepoint \/ Release \/ RollbackTo \/ LogWrite \/ LogCommit \/ LogSync)
  => RegionInv'
<1> SUFFICES ASSUME LogConfig, RegionInv,
                    Savepoint \/ Release \/ RollbackTo \/ LogWrite \/ LogCommit \/ LogSync
             PROVE  RegionInv'
  OBVIOUS
<1> DEFINE reg == tree.log.aRegion
           w == JumpIfRequired(log)
<1>1. /\ UNCHANGED <<hdr, snap, ckpt, tree>>
      /\ pc \in Writing /\ pc' \in Writing
  BY DEF Savepoint, Release, RollbackTo, LogWrite, LogCommit, LogSync, sharedVars, diskVars,
         ghostVars, Writing
<1>2. LogShape(reg) /\ WriterAhead(log, reg)
  BY <1>1 DEF RegionInv, LogChain
<1>3. WriterAhead(w, reg) /\ HasJumpRoom(w)
  BY <1>2, JumpAhead
<1> HIDE DEF w, reg
<1>4. CASE Savepoint \/ Release
  <2>1. log' = log /\ pc' = "write"
    BY <1>4 DEF Savepoint, Release
  <2> QED  BY <1>1, <1>2, <2>1, RegionAhead DEF reg
<1>5. CASE RollbackTo
  BY <1>5 DEF RollbackTo, LogConfig
<1>6. CASE LogWrite
  <2>1. /\ pc' = "write"
        /\ \E ck : \/ log' = Appended(Flushed(w), "writeck", nrec', ck)
                   \/ log' = Appended(w, "write", nrec', ck)
    BY <1>6 DEF LogWrite, LogConfig, w
  <2>2. WriterAhead(log', reg)
    BY <1>2, <1>3, <2>1, FlushedAhead, AppendedAhead
  <2> QED  BY <1>1, <2>1, <2>2, RegionAhead DEF reg
<1>7. CASE LogCommit
  <2> DEFINE ck == Append(w.cksum, Item("commit", 0))
             c == Appended(w, "commit", 0, ck)
  <2>1. log' = Flushed(c)
    BY <1>7 DEF LogCommit, LogConfig, w
  <2> HIDE DEF ck
  <2>2. WriterAhead(c, reg) /\ LogEndOff(c) = LogEndOff(w) + 1 /\ LogEndOff(w) \in Nat
    BY <1>2, <1>3, AppendedAhead
  <2>3. /\ WriterAhead(log', reg) /\ log'.buf = <<>> /\ log'.iOff = LogEndOff(w) + 1
    <3> HIDE DEF c
    <3> QED  BY <1>2, <2>1, <2>2, FlushedAhead
  <2>4. IsWriter(w) /\ w.iOff \in Nat /\ w.iOff <= LogEndOff(w)
    <3>1. IsWriter(w) /\ w.iOff \in Nat /\ Len(w.buf) \in Nat
      BY <1>3, SeqLen DEF WriterAhead, IsWriter
    <3> QED  BY <3>1 DEF LogEndOff
  <2>5. log'.iRegion1End = w.iRegion1End
    <3>1. c.iRegion1End = w.iRegion1End
      BY <1>2, <1>3, AppendedAhead
    <3> HIDE DEF c
    <3> QED  BY <1>2, <2>1, <2>2, <3>1, FlushedAhead
  <2>6. reg[2].iEnd \in Nat /\ (w.iRegion1End = 0 => reg[2].iEnd <= w.iOff)
    BY <1>2, <1>3, RegionFields DEF WriterAhead
  <2>7. HasCommit(log', reg)
    BY <2>2, <2>3, <2>4, <2>5, <2>6 DEF HasCommit
  <2> QED  BY <1>1, <2>3, <2>7, RegionAhead DEF reg
<1>8. CASE LogSync
  <2>1. log' = log /\ pc = "sync"
    BY <1>8 DEF LogSync
  <2>2. HasCommit(log, reg)
    BY <2>1 DEF RegionInv, reg
  <2> QED  BY <1>1, <1>2, <2>1, <2>2, RegionAhead DEF reg
<1> QED  BY <1>4, <1>5, <1>6, <1>7, <1>8

\* Steps that publish a header and end the write transaction.
LEMMA RegionPublish ==
  ASSUME RegionInv, UNCHANGED <<snap, ckpt>>, pc' \notin Writing \cup {"close"},
         LogChain(hdr'.log, hdr'.iOldLog.off), hdr'.old => hdr'.iOldLog.off # 0
  PROVE  RegionInv'
<1>1. LogChain(hdr.log, hdr.iOldLog.off)'
  BY DEF LogChain
<1> QED  BY <1>1 DEF RegionInv, Writing

\* A commit: what was in the log stays, and a tree that becomes old does so at
\* its end.
LEMMA RegionFinishCommit ==
  LogConfig /\ DropInv /\ CheckpointCovered /\ RegionInv /\ FinishCommit => RegionInv'
<1> SUFFICES ASSUME LogConfig, DropInv, CheckpointCovered, RegionInv, FinishCommit
             PROVE  RegionInv'
  OBVIOUS
<1> DEFINE k == LogEnd(tree.log, log)
           t == [tree EXCEPT !.log = k]
           p == tree.iOldLog.off
<1>1. /\ UNCHANGED <<snap, ckpt>> /\ pc = "end" /\ pc' \notin Writing \cup {"close"}
      /\ hdr' = tree' /\ db' = Append(db, pend)
  BY DEF FinishCommit, diskVars, Writing
<1>2. PICK full \in BOOLEAN : tree' = IF full THEN MakeOld(t, Len(db')) ELSE t
  BY DEF FinishCommit, LogConfig
<1>3. /\ LogChain(tree.log, p) /\ WriterAhead(log, tree.log.aRegion)
      /\ HasCommit(log, tree.log.aRegion)
  BY <1>1 DEF RegionInv, Writing
<1>4. /\ LogChain(k, p) /\ k.aRegion[2].iEnd = log.iOff /\ InLog(k.aRegion, log.iOff)
      /\ \A o : InLog(tree.log.aRegion, o) => Before(k.aRegion, o, log.iOff)
      /\ k.iSnapshotId = tree.log.iSnapshotId
  BY <1>3, EndChain
<1>5. log.iOff \in Nat /\ log.iOff # 0
  BY <1>3 DEF WriterAhead, IsWriter, HasCommit
<1>6. /\ IsTree(tree) /\ client.iLogOff.bit \in Bits /\ Len(db') \in Nat
      /\ ckpt.id \in Nat /\ snap.id \in Nat
  BY <1>1, LenAppend DEF DropInv, LogTypes, IsSnap, CheckpointCovered
<1> HIDE DEF k
<1>7. IsTree(t) /\ t.log = k /\ (t.old <=> tree.old) /\ t.iOldLog = tree.iOldLog
  BY <1>6, SetLogFields
<1> HIDE DEF t
<1>8. ckpt.id <= snap.id /\ (tree.old => tree.iOldLog.off # 0)
  BY <1>1 DEF RegionInv, DropInv, WriterTree, Writing
<1>9. CASE tree.old \/ ~full
  <2>1. tree' = t
    BY <1>2, <1>7, <1>9 DEF MakeOld
  <2> QED
    BY <1>1, <1>4, <1>7, <1>8, <2>1, RegionPublish DEF p
<1>10. CASE ~tree.old /\ full
  <2>1. tree'.log = k /\ tree'.iOldLog = LogOff(k.aRegion[2].iEnd, 1 - client.iLogOff.bit)
    <3>1. tree' = MakeOld(t, Len(db'))
      BY <1>2, <1>10
    <3> QED  BY <1>6, <1>7, <1>10, <3>1, MakeOldFields
  <2>2. tree'.iOldLog.off = log.iOff
    BY <1>4, <2>1 DEF LogOff
  <2>3. LogChain(k, log.iOff)
    <3>1. k.iSnapshotId < snap.id => Before(k.aRegion, snap.iLogOff.off, log.iOff)
      BY <1>3, <1>4 DEF LogChain
    <3>2. k.iSnapshotId < ckpt.id => Before(k.aRegion, ckpt.iLogOff.off, log.iOff)
      <4>1. tree.log.iSnapshotId < ckpt.id => InLog(tree.log.aRegion, ckpt.iLogOff.off)
        BY <1>3, BeforeInLog DEF LogChain
      <4> QED  BY <1>4, <4>1
    <3> QED  BY <1>4, <1>5, <3>1, <3>2 DEF LogChain
  <2> QED
    BY <1>1, <1>5, <2>1, <2>2, <2>3, RegionPublish
<1> QED  BY <1>9, <1>10

LEMMA RegionRollback ==
  DropInv /\ RegionInv /\ Rollback => RegionInv'
<1> SUFFICES ASSUME DropInv, RegionInv, Rollback PROVE RegionInv'
  OBVIOUS
<1>1. /\ UNCHANGED <<snap, ckpt>> /\ pc = "write" /\ pc' \notin Writing \cup {"close"}
      /\ hdr' = tree
  BY DEF Rollback, diskVars, Writing
<1>2. LogChain(tree.log, tree.iOldLog.off) /\ (tree.old => tree.iOldLog.off # 0)
  BY <1>1 DEF RegionInv, DropInv, WriterTree, Writing
<1> QED
  BY <1>1, <1>2, RegionPublish

\* The old tree is flushed: the snapshot moves on to its offset.
LEMMA RegionFlushOld ==
  DropInv /\ RegionInv /\ FlushOld => RegionInv'
<1> SUFFICES ASSUME DropInv, RegionInv, FlushOld PROVE RegionInv'
  OBVIOUS
<1> DEFINE p == hdr.iOldLog.off
<1>1. /\ hdr.old /\ snap' = FlushedSnapshot(hdr, hdr.nOld)
      /\ UNCHANGED <<hdr, tree, log, ckpt, pc>>
  BY DEF FlushOld, diskVars, writerVars
<1>2. /\ snap'.iLogOff.off = p /\ snap'.id = snap.id + 1
      /\ snap.id \in Nat /\ ckpt.id \in Nat
  <2>1. IsTree(hdr) /\ IsSnap(snap) /\ hdr.nOld \in Nat /\ snap.id \in Nat /\ ckpt.id \in Nat
    BY DEF DropInv, LogTypes, IsTree, IsSnap
  <2> QED  BY <1>1, <2>1, FlushedSnapshotFields
<1>3. p # 0
  BY <1>1 DEF RegionInv
<1>4. ASSUME NEW l, LogChain(l, p)
      PROVE  /\ LogShape(l.aRegion)
             /\ l = [aRegion |-> l.aRegion, cksum |-> l.cksum, iSnapshotId |-> l.iSnapshotId]
             /\ l.iSnapshotId \in Nat /\ l.iSnapshotId <= ckpt'.id /\ p \in Nat
             /\ InLog(l.aRegion, p) /\ Before(l.aRegion, snap'.iLogOff.off, p)
             /\ InLog(l.aRegion, snap'.iLogOff.off)
             /\ l.iSnapshotId < ckpt'.id => Before(l.aRegion, ckpt'.iLogOff.off, p)
  <2>1. InLog(l.aRegion, p)
    BY <1>3, <1>4 DEF LogChain
  <2> QED  BY <1>1, <1>2, <1>3, <1>4, <2>1, BeforeItself DEF LogChain
<1>5. ASSUME pc # "close" PROVE LogChain(hdr.log, hdr.iOldLog.off)'
  <2>1. LogChain(hdr.log, p)
    BY <1>5 DEF RegionInv
  <2> HIDE DEF p
  <2>2. hdr'.log = hdr.log /\ hdr'.iOldLog.off = p
    BY <1>1 DEF p
  <2> QED  BY <1>2, <1>4, <2>1, <2>2 DEF LogChain
<1>6. ASSUME pc \in Writing
      PROVE  LogChain(tree.log, tree.iOldLog.off)'
  <2>1. LogChain(tree.log, p) /\ tree.iOldLog.off = p
    BY <1>6 DEF RegionInv, DropInv, WriterTree
  <2> HIDE DEF p
  <2>2. tree'.log = tree.log /\ tree'.iOldLog.off = p
    BY <1>1, <2>1
  <2> QED  BY <1>2, <1>4, <2>1, <2>2 DEF LogChain
<1>7. ASSUME pc = "close" PROVE ClosedLog(hdr.log, hdr.iOldLog.off)'
  BY <1>1, <1>2, <1>7 DEF RegionInv, ClosedLog
<1>8. ckpt'.id <= snap'.id
  BY <1>1, <1>2 DEF RegionInv
<1> QED
  BY <1>1, <1>5, <1>6, <1>7, <1>8 DEF RegionInv

LEMMA RegionCheckpoint ==
  DropInv /\ RegionInv /\ Checkpoint => RegionInv'
<1> SUFFICES ASSUME DropInv, RegionInv, Checkpoint PROVE RegionInv'
  OBVIOUS
<1>1. ckpt.id < snap.id /\ ckpt' = snap /\ UNCHANGED <<hdr, snap, tree, log, pc>>
  BY DEF Checkpoint, sharedVars, writerVars
<1>2. snap.id \in Nat /\ ckpt.id \in Nat
  BY DEF DropInv, LogTypes, IsSnap
<1>3. ASSUME NEW l, NEW p, LogChain(l, p)
      PROVE  /\ l.iSnapshotId \in Nat /\ l.iSnapshotId <= ckpt'.id
             /\ l.iSnapshotId < ckpt'.id =>
                  Before(l.aRegion, ckpt'.iLogOff.off, snap.iLogOff.off)
             /\ l.iSnapshotId < ckpt'.id /\ p # 0 => Before(l.aRegion, ckpt'.iLogOff.off, p)
  <2>1. l.iSnapshotId < snap.id => InLog(l.aRegion, snap.iLogOff.off)
    BY <1>3 DEF LogChain
  <2>2. l.iSnapshotId \in Nat /\ l.iSnapshotId <= ckpt.id
    BY <1>3 DEF LogChain
  <2> QED  BY <1>1, <1>2, <1>3, <2>1, <2>2, BeforeItself DEF LogChain
<1>4. ASSUME pc # "close" PROVE LogChain(hdr.log, hdr.iOldLog.off)'
  <2>1. LogChain(hdr.log, hdr.iOldLog.off)
    BY <1>4 DEF RegionInv
  <2> QED  BY <1>1, <1>3, <2>1 DEF LogChain
<1>5. ASSUME pc \in Writing PROVE LogChain(tree.log, tree.iOldLog.off)'
  <2>1. LogChain(tree.log, tree.iOldLog.off)
    BY <1>5 DEF RegionInv
  <2> QED  BY <1>1, <1>3, <2>1 DEF LogChain
<1>6. ASSUME pc = "close" PROVE ClosedLog(hdr.log, hdr.iOldLog.off)'
  BY <1>1, <1>6 DEF RegionInv, ClosedLog
<1>7. ckpt'.id <= snap'.id
  BY <1>1, <1>2
<1> QED
  BY <1>1, <1>4, <1>5, <1>6, <1>7 DEF RegionInv

\* lsm_close() takes the offset of the last old tree, or 0.
LEMMA RegionClose ==
  DropInv /\ CheckpointCovered /\ RegionInv /\ Close => RegionInv'
<1> SUFFICES ASSUME DropInv, CheckpointCovered, RegionInv, Close PROVE RegionInv'
  OBVIOUS
<1> DEFINE f == FlushedSnapshot(hdr, Len(db))
           reg == hdr.log.aRegion
<1>1. /\ pc = "idle" /\ pc' = "close" /\ UNCHANGED <<hdr, tree, log>>
      /\ snap' = f \/ snap' = snap
      /\ ckpt' = IF snap'.id > ckpt.id THEN snap' ELSE ckpt
  BY DEF Close
<1>2. /\ snap.id \in Nat /\ ckpt.id \in Nat /\ ckpt.id <= snap.id
      /\ f.id = snap.id + 1 /\ f.iLogOff = hdr.iOldLog
  <2>1. IsTree(hdr) /\ IsSnap(snap) /\ Len(db) \in Nat /\ snap.id \in Nat /\ ckpt.id \in Nat
    BY DEF DropInv, LogTypes, IsSnap, CheckpointCovered
  <2> QED  BY <2>1, FlushedSnapshotFields DEF RegionInv
<1>3. LogChain(hdr.log, hdr.iOldLog.off)
  BY <1>1 DEF RegionInv
<1>4. /\ LogShape(reg) /\ Found(reg, hdr.iOldLog.off)
      /\ hdr.log.iSnapshotId < snap.id => Found(reg, snap.iLogOff.off)
      /\ hdr.log.iSnapshotId < ckpt.id => Found(reg, ckpt.iLogOff.off)
  BY <1>3, BeforeInLog DEF LogChain, Found
<1> HIDE DEF f
<1>5. hdr.log.iSnapshotId < snap'.id => Found(reg, snap'.iLogOff.off)
  BY <1>1, <1>2, <1>4
<1>6. hdr.log.iSnapshotId < ckpt'.id => Found(reg, ckpt'.iLogOff.off)
  BY <1>1, <1>4, <1>5
<1>7. ClosedLog(hdr.log, hdr.iOldLog.off)'
  BY <1>1, <1>4, <1>5, <1>6 DEF ClosedLog
<1>8. ckpt'.id <= snap'.id
  BY <1>1, <1>2
<1>9. hdr'.old => hdr'.iOldLog.off # 0
  BY <1>1 DEF RegionInv
<1> QED
  BY <1>1, <1>7, <1>8, <1>9 DEF RegionInv, Writing

\* After recovery nothing before the checkpoint's offset is in the log.
LEMMA RegionRecovery ==
  DropInv /\ Recovery /\ LogShape(hdr'.log.aRegion) => RegionInv'
<1> SUFFICES ASSUME DropInv, Recovery, LogShape(hdr'.log.aRegion) PROVE RegionInv'
  OBVIOUS
<1>1. PICK f : Recover(f)
  BY DEF Recovery, Kill, Crash, DeleteLog
<1> DEFINE r == RecoveredLog(f)
           reg == [i \in 0..2 |-> IF i = 2 THEN Region(r.endStart, r.end) ELSE r.endReg[i]]
           k == [aRegion |-> reg, cksum |-> r.endCksum, iSnapshotId |-> ckpt.id]
           z == FromZero(f)
<1>2. /\ hdr' = TreeInit(k, ckpt.upto)
      /\ snap' = IF z THEN [ckpt EXCEPT !.iLogOff = LogOff(0, 0)] ELSE ckpt
      /\ pc' = "idle" /\ ckpt' = ckpt
  BY <1>1 DEF Recover
<1>3. k.iSnapshotId = ckpt.id
      /\ k = [aRegion |-> k.aRegion, cksum |-> k.cksum, iSnapshotId |-> k.iSnapshotId]
  <2> HIDE DEF reg, r
  <2> QED  OBVIOUS
<1> HIDE DEF k, z
<1>4. IsSnap(ckpt) /\ ckpt.id \in Nat /\ ckpt.upto \in Nat
  BY DEF DropInv, LogTypes, IsSnap
<1>5. snap'.id = ckpt.id
  BY <1>2, <1>4 DEF IsSnap
<1>6. hdr'.log = k /\ ~hdr'.old /\ hdr'.iOldLog.off = 0
  BY <1>2, <1>4, TreeInitFields DEF LogOff
<1>7. LogChain(hdr.log, hdr.iOldLog.off)'
  BY <1>2, <1>3, <1>4, <1>5, <1>6 DEF LogChain
<1> QED
  BY <1>2, <1>4, <1>5, <1>6, <1>7 DEF RegionInv, Writing

LEMMA RegionNext ==
  /\ LogConfig /\ DropInv /\ DropInv' /\ CheckpointCovered /\ RegionInv /\ [Next]_vars
  /\ [~LogShape(hdr'.log.aRegion) => ~Recovery]_vars
  => RegionInv'
<1> SUFFICES ASSUME LogConfig, DropInv, DropInv', CheckpointCovered, RegionInv, [Next]_vars,
                    [~LogShape(hdr'.log.aRegion) => ~Recovery]_vars
             PROVE  RegionInv'
  OBVIOUS
<1>1. CASE WriterStep
  <2>1. CASE Flush
    BY <2>1 DEF Flush, DropInv, LogTypes, LogConfig
  <2> QED
    BY <1>1, <2>1, RegionRead, RegionBegin, RegionWrite, RegionFinishCommit, RegionRollback
    DEF WriterStep
<1>2. CASE FlushOld \/ Checkpoint \/ Close
  BY <1>2, RegionFlushOld, RegionCheckpoint, RegionClose
<1>3. CASE Recovery
  <2>1. CASE UNCHANGED vars
    <3>1. hdr' = hdr
      BY <2>1 DEF vars, sharedVars
    <3>2. LogShape(hdr.log.aRegion)
      BY DEF RegionInv, LogChain, ClosedLog
    <3> QED  BY <1>3, <3>1, <3>2, RegionRecovery
  <2>2. CASE ~(UNCHANGED vars)
    BY <1>3, <2>2, RegionRecovery
  <2> QED  BY <2>1, <2>2
<1>4. CASE UNCHANGED vars
  <2>1. UNCHANGED <<hdr, snap, ckpt, tree, log, pc>>
    BY <1>4 DEF vars, diskVars, sharedVars, writerVars
  <2> QED  BY <2>1 DEF RegionInv, LogChain, ClosedLog
<1> QED  BY <1>1, <1>2, <1>3, <1>4 DEF Next, Recovery

LEMMA RegionSafe ==
  RegionInv => RegionsOrdered /\ CheckpointInLog
<1> SUFFICES ASSUME RegionInv PROVE RegionsOrdered /\ CheckpointInLog
  OBVIOUS
<1> DEFINE reg == hdr.log.aRegion
<1>1. LogShape(reg)
  BY DEF RegionInv, LogChain, ClosedLog
<1>2. \A i \in 0..2 : reg[i].iStart \in Nat /\ reg[i].iEnd \in Nat
  BY <1>1, RegionFields
<1>3. RegionsOrdered
  BY <1>1, <1>2 DEF RegionsOrdered, LogShape, NoRegion, Region
<1>4. hdr.log.iSnapshotId < ckpt.id => Found(reg, ckpt.iLogOff.off)
  BY BeforeInLog DEF RegionInv, LogChain, ClosedLog, Found
<1>5. \A o : Found(reg, o) => \E i \in 0..2 : reg[i].iStart <= o /\ o <= reg[i].iEnd
  <2> SUFFICES ASSUME NEW o, Found(reg, o)
               PROVE  \E i \in 0..2 : reg[i].iStart <= o /\ o <= reg[i].iEnd
    OBVIOUS
  <2>1. CASE InLog(reg, o)
    BY <1>2, <2>1 DEF InLog, InRegion
  <2>2. CASE o = 0
    <3>1. reg[0].iStart = 0 \/ reg[1].iStart = 0
      BY <1>1, <1>2 DEF LogShape, NoRegion, Region
    <3> QED  BY <1>2, <2>2, <3>1
  <2> QED  BY <2>1, <2>2 DEF Found
<1>6. CheckpointInLog
  BY <1>4, <1>5 DEF CheckpointInLog
<1> QED  BY <1>3, <1>6

\* What lsmLogBegin() asserts: through any sequence of wraps, jumps, commits,
\* rollbacks, deaths and checkpoints the regions of the log stay ordered and
\* disjoint.  Of lsmLogRecover() it takes CheckpointCovered and RecoveryShape.
THEOREM LogRegionsOrdered ==
  ASSUME LogConfig
  PROVE  Spec /\ []CheckpointCovered /\ RecoveryShape => []RegionsOrdered
<1>1. Init /\ CheckpointCovered => DropInv /\ RegionInv
  BY DropInit, RegionInit
<1>2. FlushAlone
  BY DEF FlushAlone, LogConfig
<1>3. /\ DropInv /\ RegionInv /\ CheckpointCovered /\ CheckpointCovered' /\ [Next]_vars
      /\ [~LogShape(hdr'.log.aRegion) => ~Recovery]_vars
      => DropInv' /\ RegionInv'
  BY <1>2, DropNext, RegionNext
<1>4. RegionInv => RegionsOrdered
  BY RegionSafe
<1> QED  BY <1>1, <1>3, <1>4, PTL DEF Spec, RecoveryShape

\* What logReclaimSpace() asserts: whenever a writer finds a new checkpoint, by
\* whatever connection and however late, its log offset is in one of the
\* regions, so that the log is cut there and not lost as a whole.
THEOREM CheckpointsInLog ==
  ASSUME LogConfig
  PROVE  Spec /\ []CheckpointCovered /\ RecoveryShape => []CheckpointInLog
<1>1. Init /\ CheckpointCovered => DropInv /\ RegionInv
  BY DropInit, RegionInit
<1>2. FlushAlone
  BY DEF FlushAlone, LogConfig
<1>3. /\ DropInv /\ RegionInv /\ CheckpointCovered /\ CheckpointCovered' /\ [Next]_vars
      /\ [~LogShape(hdr'.log.aRegion) => ~Recovery]_vars
      => DropInv' /\ RegionInv'
  BY <1>2, DropNext, RegionNext
<1>4. RegionInv => CheckpointInLog
  BY RegionSafe
<1> QED  BY <1>1, <1>3, <1>4, PTL DEF Spec, RecoveryShape
=============================================================================
