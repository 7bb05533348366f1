-------------------------- MODULE LsmDurableProofs --------------------------
(***************************************************************************)
(* Proofs that LsmLog implements LsmDurable: every step of a writer, of    *)
(* lsm_work(), of a checkpoint and of the last lsm_close() is a step of    *)
(* LsmDurable or leaves its variables; and no checkpoint holds more than   *)
(* what is committed.                                                      *)
(*                                                                         *)
(* What lsmLogRecover() reads is the result of a recursive function, out   *)
(* of the provers' reach: that a recovery is a step of LsmDurable is the   *)
(* hypothesis, and part of what the runs of DurableSpec check.             *)
(***************************************************************************)
EXTENDS LsmLog, TLAPS

\* What a recovery makes of the database is what LsmDurable allows after a
\* failure.
RecoveryDurable == [][Recovery => (Durable!Next \/ UNCHANGED Durable!vars)]_vars

\* What the trees and snapshots need of that: a recovery finds transactions, and
\* at least as many as must be stored.
RecoveryKeeps == [][Recovery => (db' \in Seq(Seq(Nat)) /\ stored <= Len(db'))]_vars

-----------------------------------------------------------------------------
(* Trees and snapshots that hold no more than n transactions *)

TreeUpto(t, n) ==
  /\ t = [log |-> t.log, old |-> t.old, iOldLog |-> t.iOldLog,
          oldcksum |-> t.oldcksum, nOld |-> t.nOld, from |-> t.from]
  /\ t.nOld \in 0..n

SnapUpto(s, n) ==
  /\ s = [id |-> s.id, iLogOff |-> s.iLogOff, cksum |-> s.cksum, upto |-> s.upto]
  /\ s.upto \in 0..n

LEMMA UptoDiscardOld ==
  ASSUME NEW t, NEW n, TreeUpto(t, n)
  PROVE  TreeUpto(DiscardOld(t), n)
<1> DEFINE f == IF t.old THEN t.nOld ELSE t.from
<1>1. DiscardOld(t) = [log |-> t.log, old |-> FALSE, iOldLog |-> t.iOldLog,
                       oldcksum |-> t.oldcksum, nOld |-> t.nOld, from |-> f]
  <2>1. DiscardOld(t) = [t EXCEPT !.old = FALSE, !.from = f]
    BY DEF DiscardOld
  <2> HIDE DEF f
  <2> QED
    BY <2>1 DEF TreeUpto
<1> HIDE DEF f
<1> QED
  BY <1>1 DEF TreeUpto

LEMMA UptoMakeOld ==
  ASSUME NEW t, NEW n \in Nat, TreeUpto(t, n)
  PROVE  TreeUpto(MakeOld(t, n), n)
<1>1. CASE t.old
  BY <1>1 DEF MakeOld
<1>2. CASE ~t.old
  <2> DEFINE o == LogOff(t.log.aRegion[2].iEnd, 1 - client.iLogOff.bit)
  <2>1. MakeOld(t, n) = [t EXCEPT !.old = TRUE, !.iOldLog = o, !.oldcksum = t.log.cksum,
                                  !.nOld = n]
    BY <1>2 DEF MakeOld
  <2> HIDE DEF o
  <2>2. MakeOld(t, n) = [log |-> t.log, old |-> TRUE, iOldLog |-> o,
                         oldcksum |-> t.log.cksum, nOld |-> n, from |-> t.from]
    BY <2>1 DEF TreeUpto
  <2> QED
    BY <2>2 DEF TreeUpto
<1> QED
  BY <1>1, <1>2

LEMMA UptoSetLog ==
  ASSUME NEW t, NEW n, NEW l, TreeUpto(t, n)
  PROVE  TreeUpto([t EXCEPT !.log = l], n)
BY DEF TreeUpto

LEMMA UptoMore ==
  ASSUME NEW n \in Nat, NEW m \in Nat, n <= m
  PROVE  /\ \A t : TreeUpto(t, n) => TreeUpto(t, m)
         /\ \A s : SnapUpto(s, n) => SnapUpto(s, m)
<1>1. 0..n \subseteq 0..m
  OBVIOUS
<1> QED
  BY <1>1 DEF TreeUpto, SnapUpto

LEMMA UptoFlushed ==
  ASSUME NEW t, NEW n \in Nat
  PROVE  SnapUpto(FlushedSnapshot(t, n), n)
BY DEF FlushedSnapshot, SnapUpto

-----------------------------------------------------------------------------
(* The invariant *)

\* The pcs of a connection that has a tree of its own
Busy == {"read", "cursor", "write", "sync", "end", "flush"}

\* A checkpoint holds no more than what a failure of the machine must leave,
\* and that is no more than what is committed, as is what a snapshot or an old
\* tree holds.
Covered ==
  /\ stored \in 0..Len(db)
  /\ SnapUpto(ckpt, stored) /\ SnapUpto(snap, Len(db))
  /\ TreeUpto(hdr, Len(db))
  /\ pc \in Busy => TreeUpto(tree, Len(db))

\* A rollback to a mark leaves the records before it.
MarksOk ==
  /\ \E S : marks \in Seq(S)
  /\ \A k \in 1..Len(marks) : marks[k].n \in 0..Len(pend)
  /\ \A k, l \in 1..Len(marks) : k <= l => marks[k].n <= marks[l].n

DurInv ==
  /\ db \in Seq(Seq(Nat)) /\ pend \in Seq(Nat) /\ doubt \in SUBSET Seq(Nat) /\ nrec \in Nat
  /\ pc \in Busy \cup {"idle", "close"}
  /\ pc \in {"sync", "end"} => pend # <<>>
  /\ Covered
  /\ MarksOk

LEMMA DurInit == Init => DurInv /\ Durable!Init
<1> SUFFICES ASSUME Init PROVE DurInv /\ Durable!Init
  OBVIOUS
<1> DEFINE l == [aRegion |-> [i \in 0..2 |-> NoRegion], cksum |-> FirstCksum,
                 iSnapshotId |-> FirstSnapshot.id]
<1>1. /\ hdr = TreeInit(l, 0) /\ snap = FirstSnapshot /\ ckpt = FirstSnapshot /\ pc = "idle"
      /\ db = <<>> /\ stored = 0 /\ doubt = {} /\ marks = <<>> /\ pend = <<>>
      /\ outages = 0 /\ nrec = 0
  BY DEF Init
<1> HIDE DEF l
<1>2. SnapUpto(FirstSnapshot, 0)
  BY DEF SnapUpto, FirstSnapshot
<1>3. TreeUpto(hdr, 0)
  BY <1>1 DEF TreeUpto, TreeInit
<1>4. Covered
  BY <1>1, <1>2, <1>3 DEF Covered, Busy
<1>5. MarksOk
  <2>1. marks \in Seq({})
    BY <1>1
  <2> QED
    BY <1>1, <2>1 DEF MarksOk
<1> QED
  BY <1>1, <1>4, <1>5 DEF DurInv, Durable!Init

-----------------------------------------------------------------------------
(* The steps *)

\* What every step has to show: without a log, commits are not promised to
\* survive in safety mode FULL.
Implements ==
  /\ DurInv'
  /\ (Full => UseLog) => (Durable!Next \/ UNCHANGED Durable!vars)

\* A step that changes the open transaction only
LEMMA ChangeStep ==
  ASSUME DurInv, UNCHANGED <<db, stored, doubt, outages, ckpt, snap, hdr>>,
         pend' \in Seq(Nat), nrec' \in Nat, MarksOk',
         pc' \in Busy \cup {"idle", "close"}, pc' \in {"sync", "end"} => pend' # <<>>,
         pc' \in Busy => TreeUpto(tree', Len(db))
  PROVE  Implements
<1>1. DurInv'
  BY DEF DurInv, Covered
<1>2. Durable!Change
  BY DEF Durable!Change
<1> QED
  BY <1>1, <1>2 DEF Implements, Durable!Next

LEMMA NoMarks ==
  ASSUME marks' = <<>>
  PROVE  MarksOk'
<1>1. marks' \in Seq({})
  OBVIOUS
<1> QED
  BY <1>1 DEF MarksOk

LEMMA DurRead ==
  DurInv /\ (BeginReadTrans \/ FinishReadTrans) => Implements
<1> SUFFICES ASSUME DurInv, BeginReadTrans \/ FinishReadTrans PROVE Implements
  OBVIOUS
<1>1. /\ UNCHANGED <<db, stored, doubt, outages, ckpt, snap, hdr, pend, marks, nrec>>
      /\ pc' \in Busy \cup {"idle"} /\ pc' \notin {"sync", "end"}
      /\ pc' \in Busy => tree' = hdr
  BY DEF BeginReadTrans, FinishReadTrans, Busy, diskVars, sharedVars, ghostVars
<1>2. MarksOk'
  BY <1>1 DEF DurInv, MarksOk
<1> QED
  BY <1>1, <1>2, ChangeStep DEF DurInv, Covered

LEMMA DurBegin ==
  DurInv /\ BeginWriteTrans => Implements
<1> SUFFICES ASSUME DurInv, BeginWriteTrans PROVE Implements
  OBVIOUS
<1> DEFINE t == IF tree.old /\ tree.iOldLog = client.iLogOff THEN DiscardOld(tree) ELSE tree
<1>1. PICK l : tree' = [t EXCEPT !.log = l]
  <2> HIDE DEF t
  <2>1. \E x, y, b : tree' = [t EXCEPT !.log = IF b THEN x ELSE y]
    BY DEF BeginWriteTrans, t
  <2> QED
    BY <2>1
<1>2. PICK w : marks' = <<LogTell(w)>>
  BY DEF BeginWriteTrans
<1>3. /\ UNCHANGED <<db, stored, doubt, outages, ckpt, snap, hdr, pend, nrec>>
      /\ pc \in {"read", "cursor"} /\ pc' \in {"write", "flush"}
  BY DEF BeginWriteTrans, sharedVars, ghostVars
<1>4. TreeUpto(tree', Len(db))
  <2>1. TreeUpto(tree, Len(db))
    BY <1>3 DEF DurInv, Covered, Busy
  <2>2. TreeUpto(t, Len(db))
    BY <2>1, UptoDiscardOld
  <2> HIDE DEF t
  <2> QED
    BY <1>1, <2>2, UptoSetLog
<1>5. MarksOk'
  <2> DEFINE m == LogTell(w)
  <2>1. m.n = Len(pend) /\ Len(pend) \in Nat
    BY DEF LogTell, DurInv
  <2> HIDE DEF m
  <2>2. marks' = <<m>>
    BY <1>2 DEF m
  <2>3. marks' \in Seq({m}) /\ Len(marks') = 1 /\ marks'[1] = m
    BY <2>2
  <2> QED
    BY <1>3, <2>1, <2>3 DEF MarksOk
<1> QED
  BY <1>3, <1>4, <1>5, ChangeStep DEF DurInv, Busy

LEMMA DurNest ==
  DurInv /\ (Savepoint \/ Release \/ RollbackTo) => Implements
<1> SUFFICES ASSUME DurInv, Savepoint \/ Release \/ RollbackTo PROVE Implements
  OBVIOUS
<1>1. /\ UNCHANGED <<db, stored, doubt, outages, ckpt, snap, hdr, nrec, tree>>
      /\ pc = "write" /\ pc' = "write"
  BY DEF Savepoint, Release, RollbackTo, diskVars, sharedVars, ghostVars
<1>2. PICK S : marks \in Seq(S)
  BY DEF DurInv, MarksOk
<1>3. /\ Len(marks) \in Nat /\ pend \in Seq(Nat) /\ Len(pend) \in Nat
      /\ \A k \in 1..Len(marks) : marks[k].n \in 0..Len(pend)
      /\ \A k, l \in 1..Len(marks) : k <= l => marks[k].n <= marks[l].n
  BY <1>2 DEF DurInv, MarksOk
\* The first n marks, with the records up to the last of them or all
<1>4. ASSUME NEW n \in 1..Len(marks), marks' = SubSeq(marks, 1, n),
             pend' = pend \/ pend' = SubSeq(pend, 1, marks[n].n)
      PROVE  MarksOk' /\ pend' \in Seq(Nat)
  <2>1. marks' \in Seq(S) /\ Len(marks') = n /\ \A k \in 1..n : marks'[k] = marks[k]
    BY <1>2, <1>4
  <2>2. marks[n].n \in 0..Len(pend)
    BY <1>3
  <2>3. pend' \in Seq(Nat) /\ Len(pend') \in Nat /\ marks[n].n <= Len(pend')
    <3>1. CASE pend' = pend
      BY <1>3, <2>2, <3>1
    <3>2. CASE pend' = SubSeq(pend, 1, marks[n].n)
      BY <1>3, <2>2, <3>2
    <3> QED
      BY <1>4, <3>1, <3>2
  <2>4. ASSUME NEW k \in 1..n
        PROVE  marks'[k].n \in 0..Len(pend')
    <3>1. k \in 1..Len(marks) /\ k <= n
      BY <1>3
    <3>2. marks[k].n \in Nat /\ marks[k].n <= marks[n].n
      BY <1>3, <3>1
    <3> QED
      BY <2>1, <2>2, <2>3, <3>2
  <2>5. \A k, l \in 1..n : k <= l => marks'[k].n <= marks'[l].n
    <3>1. \A k \in 1..n : k \in 1..Len(marks)
      BY <1>3
    <3> QED
      BY <1>3, <2>1, <3>1
  <2> QED
    BY <2>1, <2>3, <2>4, <2>5 DEF MarksOk
<1>5. CASE Savepoint
  <2> DEFINE m == LogTell(log)
  <2>1. marks' = Append(marks, m) /\ pend' = pend
    BY <1>5 DEF Savepoint
  <2>2. m.n = Len(pend)
    BY DEF LogTell
  <2> HIDE DEF m
  <2>3. marks \in Seq(S \cup {m})
    BY <1>2
  <2>4. /\ marks' \in Seq(S \cup {m}) /\ Len(marks') = Len(marks) + 1
        /\ \A k \in 1..Len(marks) : marks'[k] = marks[k]
        /\ marks'[Len(marks) + 1] = m
    BY <2>1, <2>3
  <2>5. \A k \in 1..(Len(marks) + 1) : k \in 1..Len(marks) \/ k = Len(marks) + 1
    BY <1>3
  <2>6. \A k \in 1..Len(marks') : marks'[k].n \in 0..Len(pend')
    BY <1>3, <2>1, <2>2, <2>4, <2>5
  <2>7. \A k, l \in 1..Len(marks') : k <= l => marks'[k].n <= marks'[l].n
    <3> SUFFICES ASSUME NEW k \in 1..Len(marks'), NEW l \in 1..Len(marks'), k <= l
                 PROVE  marks'[k].n <= marks'[l].n
      OBVIOUS
    <3>1. CASE l = Len(marks) + 1
      BY <2>1, <2>2, <2>4, <2>6, <3>1
    <3>2. CASE l \in 1..Len(marks)
      <4>1. k \in 1..Len(marks)
        BY <1>3, <2>4, <3>2
      <4> QED
        BY <1>3, <2>4, <3>2, <4>1
    <3> QED
      BY <2>4, <2>5, <3>1, <3>2
  <2>8. MarksOk'
    BY <2>4, <2>6, <2>7 DEF MarksOk
  <2> QED
    BY <1>1, <1>3, <2>1, <2>8, ChangeStep DEF DurInv, Covered, Busy
<1>6. CASE Release
  <2>1. PICK n \in 1..(Len(marks) - 1) : marks' = SubSeq(marks, 1, n)
    BY <1>6 DEF Release
  <2>2. n \in 1..Len(marks) /\ pend' = pend
    BY <1>3, <1>6 DEF Release
  <2>3. MarksOk' /\ pend' \in Seq(Nat)
    BY <1>4, <2>1, <2>2
  <2> QED
    BY <1>1, <2>3, ChangeStep DEF DurInv, Covered, Busy
<1>7. CASE RollbackTo
  <2>1. PICK n \in 1..Len(marks) : /\ marks' = SubSeq(marks, 1, n)
                                   /\ pend' = SubSeq(pend, 1, marks[n].n)
    BY <1>7 DEF RollbackTo
  <2>2. MarksOk' /\ pend' \in Seq(Nat)
    BY <1>4, <2>1
  <2> QED
    BY <1>1, <2>2, ChangeStep DEF DurInv, Covered, Busy
<1> QED
  BY <1>5, <1>6, <1>7

LEMMA DurLogWrite ==
  DurInv /\ LogWrite => Implements
<1> SUFFICES ASSUME DurInv, LogWrite PROVE Implements
  OBVIOUS
<1>1. /\ UNCHANGED <<db, stored, doubt, outages, ckpt, snap, hdr, marks, tree>>
      /\ pc = "write" /\ pc' = "write"
      /\ nrec' = nrec + 1 /\ pend' = Append(pend, nrec')
  BY DEF LogWrite, sharedVars
<1>2. nrec' \in Nat /\ pend' \in Seq(Nat) /\ Len(pend') = Len(pend) + 1 /\ Len(pend) \in Nat
  BY <1>1 DEF DurInv
<1>3. MarksOk'
  BY <1>1, <1>2 DEF DurInv, MarksOk
<1> QED
  BY <1>1, <1>2, <1>3, ChangeStep DEF DurInv, Covered, Busy

LEMMA DurLogCommit ==
  DurInv /\ (LogCommit \/ LogSync) => Implements
<1> SUFFICES ASSUME DurInv, LogCommit \/ LogSync PROVE Implements
  OBVIOUS
<1>1. /\ UNCHANGED <<db, stored, doubt, outages, ckpt, snap, hdr, marks, tree, pend, nrec>>
      /\ pc \in {"write", "sync"} /\ pc' \in {"sync", "end"}
  BY DEF LogCommit, LogSync, sharedVars, ghostVars
<1>2. pend' # <<>>
  BY <1>1 DEF LogCommit, LogSync, DurInv
<1>3. MarksOk'
  BY <1>1 DEF DurInv, MarksOk
<1> QED
  BY <1>1, <1>2, <1>3, ChangeStep DEF DurInv, Covered, Busy

LEMMA DurFinish ==
  DurInv /\ FinishCommit => Implements
<1> SUFFICES ASSUME DurInv, FinishCommit PROVE Implements
  OBVIOUS
<1>1. /\ db' = Append(db, pend) /\ pend' = <<>> /\ marks' = <<>> /\ hdr' = tree'
      /\ stored' = IF Full /\ UseLog THEN Len(db') ELSE stored
      /\ doubt' = IF Full THEN {} ELSE doubt
      /\ UNCHANGED <<ckpt, snap, outages, nrec>>
      /\ pc = "end" /\ pc' \in {"cursor", "idle"}
  BY DEF FinishCommit, diskVars
<1>2. PICK l : \/ tree' = MakeOld([tree EXCEPT !.log = l], Len(db'))
               \/ tree' = [tree EXCEPT !.log = l]
  <2> DEFINE l == IF UseLog THEN LogEnd(tree.log, log) ELSE tree.log
  <2>1. [tree EXCEPT !.log = IF UseLog THEN LogEnd(@, log) ELSE @] = [tree EXCEPT !.log = l]
    OBVIOUS
  <2> HIDE DEF l
  <2>2. \/ tree' = MakeOld([tree EXCEPT !.log = l], Len(db'))
        \/ tree' = [tree EXCEPT !.log = l]
    BY <2>1 DEF FinishCommit
  <2> QED
    BY <2>2
<1>3. /\ db' \in Seq(Seq(Nat)) /\ Len(db') = Len(db) + 1 /\ Len(db) \in Nat
      /\ Len(db') \in Nat /\ Len(db) <= Len(db') /\ pend # <<>>
  BY <1>1 DEF DurInv
<1>4. TreeUpto(tree', Len(db'))
  <2> DEFINE t == [tree EXCEPT !.log = l]
  <2>1. TreeUpto(tree, Len(db'))
    BY <1>1, <1>3, UptoMore DEF DurInv, Covered, Busy
  <2>2. TreeUpto(t, Len(db'))
    BY <2>1, UptoSetLog
  <2> HIDE DEF t
  <2>3. TreeUpto(MakeOld(t, Len(db')), Len(db'))
    BY <1>3, <2>2, UptoMakeOld
  <2>4. tree' = t \/ tree' = MakeOld(t, Len(db'))
    BY <1>2 DEF t
  <2> QED
    BY <2>2, <2>3, <2>4
<1>5. stored' \in 0..Len(db') /\ stored \in 0..Len(db) /\ stored <= stored'
  BY <1>1, <1>3 DEF DurInv, Covered
<1>6. SnapUpto(ckpt', stored') /\ SnapUpto(snap', Len(db'))
  <2>1. stored \in Nat /\ stored' \in Nat
    BY <1>5
  <2>2. SnapUpto(ckpt, stored) /\ SnapUpto(snap, Len(db))
    BY DEF DurInv, Covered
  <2>3. SnapUpto(ckpt, stored')
    BY <1>5, <2>1, <2>2, UptoMore
  <2>4. SnapUpto(snap, Len(db'))
    BY <1>3, <2>2, UptoMore
  <2> QED
    BY <1>1, <2>3, <2>4
<1>7. Covered'
  BY <1>1, <1>4, <1>5, <1>6 DEF Covered
<1>8. pend' \in Seq(Nat) /\ doubt' \in SUBSET Seq(Nat) /\ pc' \in Busy \cup {"idle"}
      /\ pc' \notin {"sync", "end"} /\ nrec' \in Nat
  BY <1>1 DEF DurInv, Busy
<1>9. DurInv'
  BY <1>1, <1>3, <1>7, <1>8, NoMarks DEF DurInv
<1>10. ASSUME Full => UseLog
       PROVE  Durable!Commit
  BY <1>1, <1>3, <1>10 DEF Durable!Commit
<1> QED
  BY <1>9, <1>10 DEF Implements, Durable!Next

LEMMA DurRollback ==
  DurInv /\ Rollback => Implements
<1> SUFFICES ASSUME DurInv, Rollback PROVE Implements
  OBVIOUS
<1>1. /\ UNCHANGED <<db, stored, doubt, outages, ckpt, snap, nrec, tree>>
      /\ hdr' = tree /\ marks' = <<>> /\ pend' = <<>>
      /\ pc = "write" /\ pc' \in {"cursor", "idle"}
  BY DEF Rollback, diskVars, ghostVars
<1>2. Covered'
  BY <1>1 DEF DurInv, Covered, Busy
<1>3. pend' \in Seq(Nat) /\ pc' \in Busy \cup {"idle"} /\ pc' \notin {"sync", "end"}
  BY <1>1 DEF Busy
<1>4. DurInv'
  BY <1>1, <1>2, <1>3, NoMarks DEF DurInv
<1>5. Durable!Change
  BY <1>1, <1>3 DEF Durable!Change
<1> QED
  BY <1>4, <1>5 DEF Implements, Durable!Next

LEMMA DurDie ==
  DurInv /\ Die => Implements
<1> SUFFICES ASSUME DurInv, Die PROVE Implements
  OBVIOUS
<1>1. /\ UNCHANGED <<db, stored, outages, ckpt, snap, hdr, nrec, tree>>
      /\ marks' = <<>> /\ pend' = <<>> /\ pc' = "idle"
      /\ doubt' = IF pc \in {"sync", "end"} THEN doubt \cup {pend} ELSE doubt
  BY DEF Die, diskVars, sharedVars
<1>2. pend' \in Seq(Nat) /\ doubt' \in SUBSET Seq(Nat)
  BY <1>1 DEF DurInv
<1>3. Covered'
  BY <1>1 DEF DurInv, Covered, Busy
<1>4. DurInv'
  BY <1>1, <1>2, <1>3, NoMarks DEF DurInv
<1>5. CASE pc \in {"sync", "end"}
  <2>1. Durable!Abandon
    BY <1>1, <1>5 DEF DurInv, Durable!Abandon
  <2> QED
    BY <1>4, <2>1 DEF Implements, Durable!Next
<1>6. CASE pc \notin {"sync", "end"}
  <2>1. Durable!Change
    BY <1>1, <1>2, <1>6 DEF Durable!Change
  <2> QED
    BY <1>4, <2>1 DEF Implements, Durable!Next
<1> QED
  BY <1>5, <1>6

\* A step that changes the trees and the snapshot only
LEMMA TreeStep ==
  ASSUME DurInv, UNCHANGED <<db, stored, doubt, outages, pend, ckpt, nrec>>,
         marks' = <<>> \/ marks' = marks,
         pc' \in {"idle", pc}, pc' \in Busy => tree' = tree,
         SnapUpto(snap', Len(db)), TreeUpto(hdr', Len(db))
  PROVE  Implements
<1>1. Covered'
  BY DEF DurInv, Covered, Busy
<1>2. MarksOk'
  <2>1. CASE marks' = <<>>
    BY <2>1, NoMarks
  <2>2. CASE marks' = marks
    BY <2>2 DEF DurInv, MarksOk
  <2> QED
    BY <2>1, <2>2
<1>3. DurInv'
  BY <1>1, <1>2 DEF DurInv, Busy
<1>4. UNCHANGED Durable!vars
  BY DEF Durable!vars
<1> QED
  BY <1>3, <1>4 DEF Implements

LEMMA DurFlush ==
  DurInv /\ (Flush \/ FlushOld) => Implements
<1> SUFFICES ASSUME DurInv, Flush \/ FlushOld PROVE Implements
  OBVIOUS
<1>1. Len(db) \in Nat /\ SnapUpto(snap, Len(db)) /\ TreeUpto(hdr, Len(db))
  BY DEF DurInv, Covered
<1>2. CASE Flush
  <2>1. /\ UNCHANGED <<db, stored, doubt, outages, pend, ckpt, nrec>>
        /\ marks' = <<>> /\ hdr' = tree' /\ pc = "flush" /\ pc' = "idle"
        /\ snap' = FlushedSnapshot(tree, Len(db)) \/ snap' = snap
    BY <1>2 DEF Flush, diskVars, ghostVars
  <2> DEFINE d == DiscardOld(tree)
             m == MakeOld(d, Len(db))
             t == DiscardOld(m)
  <2>2. PICK l : tree' = [t EXCEPT !.log = l]
    <3> HIDE DEF t
    <3>1. \E x, y, b : tree' = [t EXCEPT !.log = IF b THEN x ELSE y]
      BY <1>2 DEF Flush, t
    <3> QED
      BY <3>1
  <2>3. TreeUpto(d, Len(db))
    BY <2>1, UptoDiscardOld DEF DurInv, Covered, Busy
  <2> HIDE DEF d
  <2>4. TreeUpto(m, Len(db))
    BY <1>1, <2>3, UptoMakeOld
  <2> HIDE DEF m
  <2>5. TreeUpto(t, Len(db))
    BY <2>4, UptoDiscardOld
  <2> HIDE DEF t
  <2>6. TreeUpto(hdr', Len(db))
    BY <2>1, <2>2, <2>5, UptoSetLog
  <2>7. SnapUpto(snap', Len(db))
    BY <1>1, <2>1, UptoFlushed
  <2> QED
    BY <2>1, <2>6, <2>7, TreeStep DEF Busy
<1>3. CASE FlushOld
  <2>1. /\ UNCHANGED <<db, stored, doubt, outages, pend, ckpt, nrec, marks, pc, tree, hdr>>
        /\ snap' = FlushedSnapshot(hdr, hdr.nOld)
    BY <1>3 DEF FlushOld, diskVars, writerVars, ghostVars
  <2>2. hdr.nOld \in Nat /\ hdr.nOld <= Len(db)
    BY <1>1 DEF TreeUpto
  <2>3. SnapUpto(snap', hdr.nOld)
    BY <2>1, <2>2, UptoFlushed
  <2>4. SnapUpto(snap', Len(db))
    BY <1>1, <2>2, <2>3, UptoMore
  <2> QED
    BY <1>1, <2>1, <2>4, TreeStep
<1> QED
  BY <1>2, <1>3

\* A checkpoint of a snapshot makes stored what it holds, if that is more.
LEMMA DurCheckpoint ==
  DurInv /\ (Checkpoint \/ Close) => Implements
<1> SUFFICES ASSUME DurInv, Checkpoint \/ Close PROVE Implements
  OBVIOUS
<1>1. /\ UNCHANGED <<db, doubt, outages, pend, hdr, nrec, marks, tree>>
      /\ pc' = pc \/ pc' = "close"
  BY DEF Checkpoint, Close, sharedVars, writerVars
<1>2. /\ Len(db) \in Nat /\ SnapUpto(snap, Len(db)) /\ TreeUpto(hdr, Len(db))
      /\ SnapUpto(ckpt, stored) /\ stored \in 0..Len(db) /\ stored \in Nat
  BY DEF DurInv, Covered
<1>3. /\ stored' \in stored..Len(db)
      /\ SnapUpto(ckpt', stored') /\ SnapUpto(snap', Len(db))
  <2>1. CASE Checkpoint
    <3>1. ckpt' = snap /\ snap' = snap /\ stored' = IF snap.upto > stored THEN snap.upto ELSE stored
      BY <2>1 DEF Checkpoint, sharedVars
    <3>2. snap.upto \in 0..Len(db)
      BY <1>2 DEF SnapUpto
    <3>3. stored' \in stored..Len(db) /\ snap.upto \in 0..stored'
      BY <1>2, <3>1, <3>2
    <3> QED
      BY <1>2, <3>1, <3>3 DEF SnapUpto
  <2>2. CASE Close
    <3> DEFINE s == IF hdr.old \/ hdr.from < Len(db) THEN FlushedSnapshot(hdr, Len(db)) ELSE snap
    <3>1. snap' = s /\ (ckpt' = s \/ ckpt' = ckpt) /\ stored' = Len(db)
      BY <2>2 DEF Close
    <3>2. SnapUpto(s, Len(db))
      BY <1>2, UptoFlushed
    <3> HIDE DEF s
    <3>3. SnapUpto(ckpt, Len(db))
      BY <1>2, UptoMore
    <3> QED
      BY <1>2, <3>1, <3>2, <3>3
  <2> QED
    BY <2>1, <2>2
<1>4. Covered'
  BY <1>1, <1>2, <1>3 DEF DurInv, Covered, Busy
<1>5. MarksOk'
  BY <1>1 DEF DurInv, MarksOk
<1>6. DurInv'
  BY <1>1, <1>4, <1>5 DEF DurInv
<1>7. Durable!Checkpoint
  BY <1>1, <1>3 DEF Durable!Checkpoint
<1> QED
  BY <1>6, <1>7 DEF Implements, Durable!Next

-----------------------------------------------------------------------------
(* Recovery *)

\* The first connection starts from the checkpoint.
LEMMA DurRecover ==
  ASSUME DurInv, Recovery, db' \in Seq(Seq(Nat)), stored <= Len(db')
  PROVE  DurInv'
<1>1. PICK f : Recover(f)
  BY DEF Recovery, Kill, Crash, DeleteLog
<1>2. /\ UNCHANGED <<ckpt, stored, nrec>> /\ pc' = "idle" /\ marks' = <<>> /\ pend' = <<>>
      /\ doubt' \subseteq doubt \cup ToSet(db) \cup {pend}
  BY <1>1 DEF Recover
<1>3. Len(db') \in Nat /\ stored \in Nat /\ SnapUpto(ckpt, stored)
  BY DEF DurInv, Covered
<1>4. SnapUpto(snap', Len(db'))
  <2>1. snap' = ckpt \/ snap' = [ckpt EXCEPT !.iLogOff = LogOff(0, 0)]
    BY <1>1 DEF Recover
  <2>2. SnapUpto(snap', stored)
    BY <1>3, <2>1 DEF SnapUpto
  <2> QED
    BY <1>3, <2>2, UptoMore
<1>5. TreeUpto(hdr', Len(db'))
  <2>1. PICK l : hdr' = TreeInit(l, ckpt.upto)
    BY <1>1 DEF Recover
  <2> QED
    BY <1>3, <2>1 DEF TreeInit, TreeUpto
<1>6. Covered'
  BY <1>2, <1>3, <1>4, <1>5 DEF Covered, Busy
<1>7. doubt' \in SUBSET Seq(Nat) /\ pend' \in Seq(Nat)
  <2>1. ToSet(db) \subseteq Seq(Nat)
    BY DEF DurInv, ToSet
  <2> QED
    BY <1>2, <2>1 DEF DurInv
<1> QED
  BY <1>2, <1>6, <1>7, NoMarks DEF DurInv

\* A recovery that LsmDurable allows keeps what must be stored.
LEMMA DurableKeeps ==
  ASSUME DurInv, Durable!Next \/ UNCHANGED Durable!vars
  PROVE  db' \in Seq(Seq(Nat)) /\ stored <= Len(db')
<1>1. db \in Seq(Seq(Nat)) /\ Len(db) \in Nat /\ stored \in 0..Len(db)
  BY DEF DurInv, Covered
<1>2. CASE UNCHANGED db
  BY <1>1, <1>2
<1>3. ASSUME NEW n \in stored..Len(db)
      PROVE  /\ SubSeq(db, 1, n) \in Seq(Seq(Nat)) /\ stored <= Len(SubSeq(db, 1, n))
             /\ \A tr \in Seq(Nat) : /\ Append(SubSeq(db, 1, n), tr) \in Seq(Seq(Nat))
                                     /\ stored <= Len(Append(SubSeq(db, 1, n), tr))
  <2> DEFINE s == SubSeq(db, 1, n)
  <2>1. s \in Seq(Seq(Nat)) /\ Len(s) = n
    BY <1>1, <1>3
  <2> HIDE DEF s
  <2>2. \A tr \in Seq(Nat) : Append(s, tr) \in Seq(Seq(Nat)) /\ Len(Append(s, tr)) = n + 1
    BY <1>1, <2>1
  <2>3. stored <= n /\ stored <= n + 1
    BY <1>1
  <2>4. /\ s \in Seq(Seq(Nat)) /\ stored <= Len(s)
        /\ \A tr \in Seq(Nat) : Append(s, tr) \in Seq(Seq(Nat)) /\ stored <= Len(Append(s, tr))
    BY <2>1, <2>2, <2>3
  <2> QED
    BY <2>4 DEF s
<1>4. \A tr \in Seq(Nat) : /\ Append(db, tr) \in Seq(Seq(Nat))
                           /\ stored <= Len(Append(db, tr))
  BY <1>1
<1>5. Durable!Unreturned \subseteq Seq(Nat)
  BY DEF Durable!Unreturned, DurInv
<1>6. CASE Durable!Commit
  BY <1>4, <1>6 DEF Durable!Commit, DurInv
<1>7. CASE Durable!Kill
  <2>1. db' = db \/ \E tr \in Seq(Nat) : db' = Append(db, tr)
    BY <1>5, <1>7 DEF Durable!Kill
  <2>2. CASE db' = db
    BY <1>2, <2>2
  <2>3. ASSUME NEW tr \in Seq(Nat), db' = Append(db, tr)
        PROVE  db' \in Seq(Seq(Nat)) /\ stored <= Len(db')
    <3>1. Append(db, tr) \in Seq(Seq(Nat)) /\ stored <= Len(Append(db, tr))
      BY <1>4
    <3> QED
      BY <2>3, <3>1
  <2> QED
    BY <2>1, <2>2, <2>3
<1>8. CASE Durable!Crash
  <2>1. \E n \in stored..Len(db) :
          db' = SubSeq(db, 1, n) \/ \E tr \in Seq(Nat) : db' = Append(SubSeq(db, 1, n), tr)
    BY <1>5, <1>8 DEF Durable!Crash
  <2> QED
    BY <1>3, <2>1
<1>9. CASE Durable!Change \/ Durable!Abandon \/ Durable!Checkpoint \/ UNCHANGED Durable!vars
  BY <1>2, <1>9 DEF Durable!Change, Durable!Abandon, Durable!Checkpoint, Durable!vars
<1> QED
  BY <1>6, <1>7, <1>8, <1>9 DEF Durable!Next

-----------------------------------------------------------------------------
(* The theorems *)

LEMMA DurStep ==
  ASSUME DurInv, [Next]_vars
  PROVE  Recovery \/ Implements
<1>1. CASE UNCHANGED vars
  <2>1. UNCHANGED <<db, stored, doubt, outages, ckpt, snap, hdr, marks, tree, pend, nrec, pc>>
    BY <1>1 DEF vars, diskVars, sharedVars, writerVars, ghostVars
  <2> QED
    BY <2>1, TreeStep DEF DurInv, Covered
<1>2. CASE WriterStep
  BY <1>2, DurRead, DurBegin, DurNest, DurLogWrite, DurLogCommit, DurFinish, DurRollback,
     DurFlush, DurDie DEF WriterStep
<1>3. CASE FlushOld \/ Checkpoint \/ Close
  BY <1>3, DurFlush, DurCheckpoint
<1> QED
  BY <1>1, <1>2, <1>3 DEF Next, Recovery

\* No checkpoint holds a transaction that is not committed, whatever the safety
\* mode and with the log or without it (lsmCheckpointWrite(), lsm_flush(), the
\* last lsm_close()), if each recovery finds at least the transactions that
\* must be stored.
THEOREM CheckpointsCovered == Spec /\ RecoveryKeeps => []CheckpointCovered
<1>1. Init => DurInv
  BY DurInit
<1>2. ASSUME DurInv, [Next]_vars,
             [Recovery => (db' \in Seq(Seq(Nat)) /\ stored <= Len(db'))]_vars
      PROVE  DurInv'
  <2>1. CASE UNCHANGED vars
    <3>1. UNCHANGED <<db, stored, doubt, outages, ckpt, snap, hdr, marks, tree, pend, nrec, pc>>
      BY <2>1 DEF vars, diskVars, sharedVars, writerVars, ghostVars
    <3> QED
      BY <1>2, <3>1, TreeStep DEF DurInv, Covered, Implements
  <2>2. CASE ~UNCHANGED vars
    BY <1>2, <2>2, DurStep, DurRecover DEF Implements
  <2> QED
    BY <2>1, <2>2
<1>3. DurInv => CheckpointCovered
  BY DEF DurInv, Covered, SnapUpto, CheckpointCovered
<1> QED
  BY <1>1, <1>2, <1>3, PTL DEF Spec, RecoveryKeeps

\* LsmLog implements LsmDurable: commits, failed commits, rollbacks, flushes,
\* checkpoints and the last lsm_close() of the code do to the committed
\* transactions what lsmusr.wiki, "Data Durability", says they do, for any log,
\* tree and record, if each recovery does.
THEOREM LogImplementsDurable ==
  ASSUME Full => UseLog
  PROVE  Spec /\ RecoveryDurable => DurableSpec
<1>1. Init => DurInv /\ Durable!Init
  BY DurInit
<1>2. ASSUME DurInv, [Next]_vars,
             [Recovery => (Durable!Next \/ UNCHANGED Durable!vars)]_vars
      PROVE  DurInv' /\ [Durable!Next]_(Durable!vars)
  <2>1. CASE UNCHANGED vars
    <3>1. UNCHANGED <<db, stored, doubt, outages, ckpt, snap, hdr, marks, tree, pend, nrec, pc>>
      BY <2>1 DEF vars, diskVars, sharedVars, writerVars, ghostVars
    <3> QED
      BY <1>2, <3>1, TreeStep DEF DurInv, Covered, Implements
  <2>2. CASE Recovery /\ ~UNCHANGED vars
    <3>1. Durable!Next \/ UNCHANGED Durable!vars
      BY <1>2, <2>2
    <3> QED
      BY <1>2, <2>2, <3>1, DurableKeeps, DurRecover
  <2>3. CASE ~Recovery
    BY <1>2, <2>3, DurStep DEF Implements
  <2> QED
    BY <2>1, <2>2, <2>3
<1> QED
  BY <1>1, <1>2, PTL DEF Spec, RecoveryDurable, DurableSpec, Durable!Spec
=============================================================================
