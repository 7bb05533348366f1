---------------------------- MODULE LsmDurable ----------------------------
(***************************************************************************)
(* What the LSM engine promises about committed transactions (lsmusr.wiki, *)
(* "Data Durability"): a transaction is all or nothing, transactions       *)
(* survive in commit order, a failure of the processes loses no committed  *)
(* transaction, and a failure of the machine loses none either when the    *)
(* safety mode is FULL, and otherwise none that a checkpoint covers.       *)
(***************************************************************************)
EXTENDS Naturals, Sequences, SequencesExt

CONSTANTS
  Record,     \* the records that transactions write
  Full        \* LSM_CONFIG_SAFETY is LSM_SAFETY_FULL

VARIABLES
  db,         \* the committed transactions, a sequence of record sequences
  stored,     \* how many of them survive a failure of the machine
  pend,       \* the records of the open transaction
  doubt,      \* transactions that did not get into db, and may be in the log
  outages     \* failures of the machine so far

vars == <<db, stored, pend, doubt, outages>>

Init == db = <<>> /\ stored = 0 /\ pend = <<>> /\ doubt = {} /\ outages = 0

\* Inserts, deletes, savepoints and rollbacks of the open transaction.
Change ==
  /\ pend' \in Seq(Record)
  /\ UNCHANGED <<db, stored, doubt, outages>>

\* lsm_commit()
Commit ==
  /\ pend # <<>>
  /\ db' = Append(db, pend)
  /\ pend' = <<>>
  /\ stored' = IF Full THEN Len(db') ELSE stored
  /\ doubt' = IF Full THEN {} ELSE doubt
  /\ UNCHANGED outages

\* The writer dies inside lsm_commit().  The others go on without the
\* transaction, but its COMMIT may be in the log until another one is.
Abandon ==
  /\ pend # <<>>
  /\ doubt' = doubt \cup {pend}
  /\ pend' = <<>>
  /\ UNCHANGED <<db, stored, outages>>

\* lsm_checkpoint(), automatic checkpoints and the last lsm_close().
Checkpoint ==
  /\ stored' \in stored..Len(db)
  /\ UNCHANGED <<db, pend, doubt, outages>>

\* A transaction whose commit did not return may turn up after a failure, and
\* one that did not turn up then may do so after the next.
Unreturned == doubt \cup (IF pend = <<>> THEN {} ELSE {pend})
LeftOut == (Unreturned \cup ToSet(db)) \ ToSet(db')

\* Every process dies: all committed transactions are kept.
Kill ==
  /\ \/ db' = db
     \/ \E tr \in Unreturned : db' = Append(db, tr)
  /\ pend' = <<>>
  /\ doubt' \subseteq LeftOut
  /\ UNCHANGED <<stored, outages>>

\* The machine fails: the last transactions that are not stored may be lost.
Crash ==
  /\ \E n \in stored..Len(db) :
       \/ db' = SubSeq(db, 1, n)
       \/ \E tr \in Unreturned : db' = Append(SubSeq(db, 1, n), tr)
  /\ pend' = <<>>
  /\ doubt' \subseteq LeftOut
  /\ outages' = outages + 1
  /\ UNCHANGED stored

Next == Change \/ Commit \/ Abandon \/ Checkpoint \/ Kill \/ Crash

Spec == Init /\ [][Next]_vars

=============================================================================
