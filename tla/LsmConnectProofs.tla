-------------------------- MODULE LsmConnectProofs --------------------------
(***************************************************************************)
(* Why the locks of lsm_open() and lsm_close() serialize connecting and    *)
(* disconnecting: an inductive invariant of LsmConnect and its proof.      *)
(***************************************************************************)
EXTENDS LsmConnect, FiniteSetTheorems, WellFoundedInduction, TLAPS

ExclDms1   == {"test", "recover", "dms2", "connected", "fail",
               "last", "flush", "delete", "unlink"}
SharedDms1 == {"roTest", "roDead", "roLive"}
HaveDms2   == {"connected", "open", "reuse", "reclaim", "last", "flush",
               "delete", "unlink", "release", "leave"}
HaveDms3   == {"roMap", "live"}
HaveTrans  == {"roCkpt", "roLog", "rotrans"}

-----------------------------------------------------------------------------
(* The invariant, in named parts *)

\* No checkpoint, log or shared memory is ahead of the commits.
CountsOK ==
  /\ ckpt <= acked /\ log <= acked
  /\ \A i \in Inodes : shm[i] <= acked

\* Which locks a connection holds, and how, is told by what it is doing.
HeldBy(c) ==
  /\ pc[c] \in ExclDms1 => mLock[c][DMS1] = Excl
  /\ pc[c] \in SharedDms1 => mLock[c][DMS1] = Shared
  /\ pc[c] \notin ExclDms1 \cup SharedDms1 \cup {"release", "leave"}
       => mLock[c][DMS1] = Unlock
  /\ mLock[c][DMS2] = IF pc[c] \in HaveDms2 THEN Shared ELSE Unlock
  /\ mLock[c][DMS3] = IF pc[c] \in HaveDms3 THEN Shared ELSE Unlock
  /\ mLock[c][ROTRANS] = IF pc[c] \in HaveTrans THEN Shared ELSE Unlock
  /\ \A l \in Rwclients :
       mLock[c][l] # Unlock => pc[c] \in HaveDms2 \ {"leave"}

HeldOK == \A c \in Conn : HeldBy(c)

\* The lock of process P on byte l is the strongest of its connections'.
Covers(P, l) ==
  /\ \E c \in P : mLock[c][l] = flock[P][l]
  /\ \A c \in P : mLock[c][l] <= flock[P][l]

\* In single-process mode the only lock on the file is the one on DMS2, from
\* the first lsm_open() on.
SingleHolds(P) ==
  /\ \A l \in Locks \ {DMS2} : flock[P][l] = Unlock
  /\ (\E c \in P : pc[c] # "closed") => flock[P][DMS2] = Excl

Backing == \A P \in Procs, l \in Locks : MultiProc(P) => Covers(P, l)
SingleFiles == \A P \in Procs : ~MultiProc(P) => SingleHolds(P)

\* No two processes have conflicting locks on the file, and no two
\* connections of one process conflicting locks.
FileExclusion ==
  \A P, Q \in Procs, l \in Locks : P # Q => ~Conflict(flock[P][l], flock[Q][l])
ProcessExclusion ==
  \A c, d \in Conn, l \in Locks :
    c # d /\ Proc(c) = Proc(d) => ~Conflict(mLock[c][l], mLock[d][l])

LocksOK == Backing /\ SingleFiles /\ FileExclusion /\ ProcessExclusion

\* The memory a connection uses is that of its process, and that of a process
\* in single-process mode is no other's.
MemoryOK ==
  /\ \A c \in Conn : ptr[c] # None => ptr[c] = chunk[Proc(c)] /\ pc[c] # "closed"
  /\ \A P \in Procs : ~MultiProc(P) /\ chunk[P] # None =>
       /\ path # chunk[P]
       /\ \A Q \in Procs \ {P} : chunk[Q] # chunk[P]

\* While a connection recovers, nobody is connected; only a process in
\* single-process mode may be, in memory of its own.
RecoverAlone ==
  \A c, d \in Conn :
    c # d /\ pc[c] = "recover" /\ mLock[d][DMS2] # Unlock
    => MultiProc(Proc(c)) /\ ~MultiProc(Proc(d))

ConnectInv == TypeOK /\ CountsOK /\ HeldOK /\ LocksOK /\ MemoryOK /\ RecoverAlone

-----------------------------------------------------------------------------
(* Processes, lock numbers and modes *)

LEMMA ProcOf ==
  ASSUME NEW c \in Conn
  PROVE  /\ Proc(c) \in Procs /\ c \in Proc(c)
         /\ \A P \in Procs : c \in P => P = Proc(c)
BY ConnectAssumption DEF Proc

LEMMA Members ==
  ASSUME NEW P \in Procs, NEW c \in P
  PROVE  c \in Conn /\ Proc(c) = P
BY ConnectAssumption, ProcOf

LEMMA LockNumbers ==
  /\ Rwclients \subseteq Nat /\ Locks \subseteq Nat
  /\ {DMS1, DMS2, DMS3, ROTRANS} \cap Rwclients = {}
  /\ Rwclients \subseteq Locks /\ {DMS1, DMS2, DMS3, ROTRANS} \subseteq Locks
  /\ DMS1 # DMS2 /\ DMS1 # DMS3 /\ DMS1 # ROTRANS
  /\ DMS2 # DMS3 /\ DMS2 # ROTRANS /\ DMS3 # ROTRANS
BY ConnectAssumption
DEF Locks, Rwclients, RWCLIENT, DMS1, DMS2, DMS3, ROTRANS, NReader

LEMMA LockValues ==
  ASSUME TypeOK
  PROVE  /\ \A c \in Conn, l \in Locks : mLock[c][l] \in {Unlock, Shared, Excl}
         /\ \A P \in Procs, l \in Locks : flock[P][l] \in {Unlock, Shared, Excl}
BY DEF TypeOK, Modes

LEMMA MinOf ==
  ASSUME NEW S \in SUBSET Nat, S # {}
  PROVE  Min(S) \in S
<1>. DEFINE R == {ss \in Nat \X Nat : ss[1] < ss[2]}
<1>1. IsWellFoundedOn(R, Nat)
  BY NatLessThanWellFounded DEF OpToRel
<1>. HIDE DEF R
<1>2. PICK x \in S : \A y \in S : ~ (<<y, x>> \in R)
  BY <1>1, WFMin
<1>3. ASSUME NEW y \in S PROVE x <= y
  <2>1. <<y, x>> \notin R
    BY <1>2
  <2>. QED BY <2>1 DEF R
<1>. QED BY <1>3 DEF Min

\* A connection not yet opened, or closed, holds no lock.
LEMMA ClosedFree ==
  ASSUME HeldOK, NEW c \in Conn, pc[c] = "closed", NEW l \in Locks
  PROVE  mLock[c][l] = Unlock
<1>. USE DEF HeldOK, HeldBy, ExclDms1, SharedDms1, HaveDms2, HaveDms3, HaveTrans
<1>1. CASE l \in Rwclients
  BY <1>1
<1>2. CASE l \in {DMS1, DMS2, DMS3, ROTRANS}
  BY <1>2
<1>. QED BY <1>1, <1>2 DEF Locks

-----------------------------------------------------------------------------
(* The lock manager *)

\* lsmShmLock(): nShared counts the others that have a shared lock.
LEMMA SharedCount ==
  ASSUME NEW c \in Conn, NEW l
  PROVE  LET S == {d \in Others(c) : mLock[d][l] = Shared}
         IN  Cardinality(S) > 0 <=> S # {}
<1>. DEFINE S == {d \in Others(c) : mLock[d][l] = Shared}
<1>1. S \in SUBSET Conn
  BY ProcOf, Members DEF Others
<1>2. IsFiniteSet(S)
  BY <1>1, FS_Subset, ConnectAssumption
<1>3. Cardinality(S) \in Nat /\ (Cardinality(S) = 0 <=> S = {})
  BY <1>2, FS_CardinalityType, FS_EmptySet
<1>. QED BY <1>3

\* The others of a process that hold anything are on its list.
LEMMA HoldersListed ==
  ASSUME HeldOK, NEW c \in Conn, NEW d \in Proc(c) \ {c}, NEW l \in Locks,
         mLock[d][l] # Unlock
  PROVE  d \in Others(c)
BY ProcOf, Members, ClosedFree DEF Others

\* A lock that lsmShmLock() grants conflicts with no lock of the process.
LEMMA GrantedInProcess ==
  ASSUME HeldOK, NEW c \in Conn, NEW l \in Locks, NEW e \in Modes,
         LockOk(c, l, e), NEW d \in Proc(c) \ {c}
  PROVE  ~Conflict(mLock[d][l], e)
BY HoldersListed DEF LockOk, Conflict

\* The lock of the process after lsmShmLock() covers those of its connections.
LEMMA FileAfterCovers ==
  ASSUME TypeOK, HeldOK, Backing, ProcessExclusion,
         NEW c \in Conn, MultiProc(Proc(c)), NEW l \in Locks, NEW e \in Modes,
         e # Unlock => LockOk(c, l, e)
  PROVE  /\ e <= FileAfter(c, l, e)
         /\ \A d \in Proc(c) \ {c} : mLock[d][l] <= FileAfter(c, l, e)
         /\ \/ e = FileAfter(c, l, e)
            \/ \E d \in Proc(c) \ {c} : mLock[d][l] = FileAfter(c, l, e)
<1>. DEFINE P == Proc(c)
            S == {d \in Others(c) : mLock[d][l] = Shared}
<1>1. P \in Procs /\ c \in P /\ \A d \in P : d \in Conn /\ Proc(d) = P
  BY ProcOf, Members
<1>2. Covers(P, l)
  BY <1>1 DEF Backing
<1>3. Cardinality(S) > 0 <=> S # {}
  BY SharedCount
<1>4. \A x, y \in P : x # y => ~Conflict(mLock[x][l], mLock[y][l])
  BY <1>1 DEF ProcessExclusion
<1>5. \A d \in P : mLock[d][l] \in {Unlock, Shared, Excl}
  BY <1>1, LockValues
<1>6. FileAfter(c, l, e) = IF e = mLock[c][l] \/ (e # Excl /\ S # {})
                           THEN flock[P][l] ELSE e
  BY <1>3 DEF FileAfter
<1>7. CASE e = mLock[c][l]
  BY <1>1, <1>2, <1>6, <1>7 DEF Covers
<1>8. CASE e # mLock[c][l] /\ e = Excl
  BY <1>5, <1>6, <1>8 DEF Unlock, Shared, Excl
<1>9. CASE e # Excl /\ S # {}
  <2>1. PICK d \in P \ {c} : mLock[d][l] = Shared
    BY <1>9 DEF Others
  <2>2. \A x \in P : mLock[x][l] # Excl
    BY <1>1, <1>4, <2>1 DEF Conflict, Unlock, Shared, Excl
  <2>3. flock[P][l] = Shared
    BY <1>2, <1>5, <2>1, <2>2 DEF Covers, Unlock, Shared, Excl
  <2>. QED BY <1>2, <1>6, <1>9, <2>1, <2>3 DEF Covers, Modes, Unlock, Shared, Excl
<1>10. CASE e # mLock[c][l] /\ e # Excl /\ S = {}
  <2>1. ASSUME NEW d \in P \ {c} PROVE mLock[d][l] = Unlock
    <3>1. mLock[d][l] # Shared
      BY <1>10, <2>1, HoldersListed DEF Unlock, Shared
    <3>2. mLock[d][l] # Excl
      <4>1. CASE e = Unlock
        BY <1>1, <1>4, <1>10, <2>1, <4>1 DEF Conflict, Unlock, Excl
      <4>2. CASE e = Shared
        BY <2>1, <4>2, GrantedInProcess DEF Conflict, Unlock, Shared, Excl
      <4>. QED BY <1>10, <4>1, <4>2 DEF Modes
    <3>. QED BY <1>5, <2>1, <3>1, <3>2
  <2>. QED BY <1>6, <1>10, <2>1 DEF Modes, Unlock, Shared, Excl
<1>. QED BY <1>7, <1>8, <1>9, <1>10

\* It conflicts with the lock of no other process.
LEMMA FileAfterFree ==
  ASSUME TypeOK, HeldOK, FileExclusion,
         NEW c \in Conn, NEW l \in Locks, NEW e \in Modes,
         e # Unlock => LockOk(c, l, e), NEW Q \in Procs \ {Proc(c)}
  PROVE  ~Conflict(FileAfter(c, l, e), flock[Q][l])
<1>. DEFINE P == Proc(c)
            S == {d \in Others(c) : mLock[d][l] = Shared}
<1>1. P \in Procs
  BY ProcOf
<1>2. Cardinality(S) > 0 <=> S # {}
  BY SharedCount
<1>3. CASE FileAfter(c, l, e) = flock[P][l]
  BY <1>1, <1>3 DEF FileExclusion
<1>4. CASE FileAfter(c, l, e) # flock[P][l]
  <2>1. MultiProc(P) /\ FileAfter(c, l, e) = e /\ (e = Excl \/ S = {})
    BY <1>2, <1>4 DEF FileAfter
  <2>2. CASE e = Unlock
    BY <2>1, <2>2 DEF Conflict
  <2>3. CASE e # Unlock
    <3>1. e = Excl \/ {d \in Others(c) : mLock[d][l] # Unlock} = {}
      BY <2>1, <2>3, LockValues, ProcOf, Members DEF LockOk, Conflict, Modes, Others, Unlock, Shared, Excl
    <3>. QED BY <2>1, <2>3, <3>1 DEF LockOk, FileFree, Conflict
  <2>. QED BY <2>2, <2>3
<1>. QED BY <1>3, <1>4

LEMMA FileAfterType ==
  ASSUME TypeOK, NEW c \in Conn, NEW l \in Locks, NEW e \in Modes
  PROVE  FileAfter(c, l, e) \in Modes
BY ProcOf DEF TypeOK, FileAfter

\* lsmShmLock() preserves the agreement of the locks, whichever connection of
\* whichever process takes or drops them.
LEMMA LockStep ==
  ASSUME TypeOK, HeldOK, LocksOK,
         NEW c \in Conn, pc[c] # "closed",
         NEW K \in SUBSET Locks, NEW change \in [K -> Modes],
         \A l \in K : change[l] # Unlock => LockOk(c, l, change[l]),
         ShmLock(c, change),
         \A d \in Conn \ {c} : pc'[d] = pc[d]
  PROVE  LocksOK'
<1>. DEFINE P == Proc(c)
<1>1. P \in Procs /\ c \in P /\ \A d \in P : d \in Conn /\ Proc(d) = P
  BY ProcOf, Members
<1>2. /\ \A d \in Conn \ {c} : mLock'[d] = mLock[d]
      /\ \A Q \in Procs \ {P} : flock'[Q] = flock[Q]
      /\ \A l \in K : mLock'[c][l] = change[l] /\ flock'[P][l] = FileAfter(c, l, change[l])
      /\ \A l \in Locks \ K : mLock'[c][l] = mLock[c][l] /\ flock'[P][l] = flock[P][l]
  BY <1>1 DEF ShmLock, TypeOK
<1>3. Backing'
  <2>. SUFFICES ASSUME NEW Q \in Procs, NEW l \in Locks, MultiProc(Q)
                PROVE  Covers(Q, l)'
    BY DEF Backing, MultiProc
  <2>1. Covers(Q, l)
    BY DEF LocksOK, Backing
  <2>2. CASE Q # P
    <3>1. \A d \in Q : mLock'[d] = mLock[d]
      BY <1>1, <1>2, <2>2, Members
    <3>. QED BY <1>2, <2>1, <2>2, <3>1 DEF Covers
  <2>3. CASE Q = P /\ l \notin K
    BY <1>1, <1>2, <2>1, <2>3 DEF Covers
  <2>4. CASE Q = P /\ l \in K
    <3>1. /\ change[l] <= FileAfter(c, l, change[l])
          /\ \A d \in P \ {c} : mLock[d][l] <= FileAfter(c, l, change[l])
          /\ \/ change[l] = FileAfter(c, l, change[l])
             \/ \E d \in P \ {c} : mLock[d][l] = FileAfter(c, l, change[l])
      BY <2>4, FileAfterCovers DEF LocksOK
    <3>. QED BY <1>1, <1>2, <2>4, <3>1 DEF Covers
  <2>. QED BY <2>2, <2>3, <2>4
<1>4. SingleFiles'
  <2>. SUFFICES ASSUME NEW Q \in Procs, ~MultiProc(Q)
                PROVE  SingleHolds(Q)'
    BY DEF SingleFiles, MultiProc
  <2>1. \A l \in Locks : flock'[Q][l] = flock[Q][l]
    BY <1>2 DEF FileAfter
  <2>2. (\E d \in Q : pc'[d] # "closed") => \E d \in Q : pc[d] # "closed"
    BY Members
  <2>. QED BY <2>1, <2>2, LockNumbers DEF LocksOK, SingleFiles, SingleHolds
<1>5. FileExclusion'
  <2>. SUFFICES ASSUME NEW Q \in Procs, NEW R \in Procs, NEW l \in Locks, Q # R
                PROVE  ~Conflict(flock'[Q][l], flock'[R][l])
    BY DEF FileExclusion, Conflict
  <2>1. ~Conflict(flock[Q][l], flock[R][l])
    BY DEF LocksOK, FileExclusion
  <2>2. ASSUME l \in K, NEW T \in Procs \ {P}
        PROVE  ~Conflict(FileAfter(c, l, change[l]), flock[T][l])
    BY <2>2, FileAfterFree DEF LocksOK
  <2>. QED BY <1>2, <2>1, <2>2 DEF Conflict
<1>6. ProcessExclusion'
  <2>. SUFFICES ASSUME NEW x \in Conn, NEW y \in Conn, NEW l \in Locks, x # y, Proc(x) = Proc(y)
                PROVE  ~Conflict(mLock'[x][l], mLock'[y][l])
    BY DEF ProcessExclusion, Conflict
  <2>1. ~Conflict(mLock[x][l], mLock[y][l])
    BY DEF LocksOK, ProcessExclusion
  <2>2. ASSUME l \in K, NEW d \in P \ {c}
        PROVE  ~Conflict(mLock[d][l], change[l])
    BY <2>2, GrantedInProcess DEF Conflict
  <2>. QED BY <1>2, <2>1, <2>2, ProcOf DEF Conflict
<1>. QED BY <1>3, <1>4, <1>5, <1>6 DEF LocksOK

LEMMA TakeStep ==
  ASSUME TypeOK, HeldOK, LocksOK, NEW c \in Conn, pc[c] # "closed",
         NEW l \in Locks, NEW e \in {Shared, Excl}, LockOk(c, l, e), Take(c, l, e),
         \A d \in Conn \ {c} : pc'[d] = pc[d]
  PROVE  LocksOK'
<1>. DEFINE change == [k \in {l} |-> e]
<1>1. change \in [{l} -> Modes] /\ {l} \in SUBSET Locks
  BY DEF Modes
<1>2. \A k \in {l} : change[k] # Unlock => LockOk(c, k, change[k])
  OBVIOUS
<1>3. ShmLock(c, change)
  BY DEF Take
<1>. HIDE DEF change
<1>. QED BY <1>1, <1>2, <1>3, LockStep

LEMMA DropStep ==
  ASSUME TypeOK, HeldOK, LocksOK, NEW c \in Conn, pc[c] # "closed",
         NEW S \in SUBSET Locks, Drop(c, S),
         \A d \in Conn \ {c} : pc'[d] = pc[d]
  PROVE  LocksOK'
<1>. DEFINE change == [k \in S |-> Unlock]
<1>1. change \in [S -> Modes]
  BY DEF Modes
<1>2. \A k \in S : change[k] # Unlock => LockOk(c, k, change[k])
  OBVIOUS
<1>3. ShmLock(c, change)
  BY DEF Drop
<1>. HIDE DEF change
<1>. QED BY <1>1, <1>2, <1>3, LockStep

LEMMA LocksKept ==
  ASSUME LocksOK, UNCHANGED lockVars,
         \A c \in Conn : pc[c] = "closed" => pc'[c] = "closed"
  PROVE  LocksOK'
<1>1. Backing' /\ FileExclusion' /\ ProcessExclusion'
  BY DEF lockVars, LocksOK, Backing, Covers, FileExclusion, ProcessExclusion, Conflict
<1>2. SingleFiles'
  BY Members DEF lockVars, LocksOK, SingleFiles, SingleHolds
<1>. QED BY <1>1, <1>2 DEF LocksOK

\* DMS3 and ROTRANS are only ever locked in shared mode, so that
\* lsmBeginRoTrans() always gets them.
LEMMA RoLocksGranted ==
  ASSUME TypeOK, HeldOK, LocksOK, NEW c \in Conn, NEW l \in {DMS3, ROTRANS}
  PROVE  LockOk(c, l, Shared)
<1>1. l \in Locks /\ l # DMS2
  BY LockNumbers
<1>2. \A d \in Conn : mLock[d][l] \in {Unlock, Shared}
  BY DEF HeldOK, HeldBy
<1>3. \A d \in Others(c) : d \in Conn
  BY ProcOf, Members DEF Others
<1>4. ASSUME NEW Q \in Procs PROVE flock[Q][l] # Excl
  <2>1. CASE MultiProc(Q)
    <3>1. PICK d \in Q : mLock[d][l] = flock[Q][l]
      BY <1>1, <2>1 DEF LocksOK, Backing, Covers
    <3>. QED BY <1>2, <3>1, Members DEF Unlock, Shared, Excl
  <2>2. CASE ~MultiProc(Q)
    BY <1>1, <2>2 DEF LocksOK, SingleFiles, SingleHolds, Unlock, Excl
  <2>. QED BY <2>1, <2>2
<1>. QED BY <1>2, <1>3, <1>4 DEF LockOk, FileFree, Conflict, Unlock, Shared, Excl

\* lsmDbDatabaseRelease(): a connection that gives up all it holds, and the
\* last one the file with it, leaves the locks in agreement.
LEMMA ReleaseStep ==
  ASSUME TypeOK, HeldOK, LocksOK, NEW c \in Conn,
         NEW S \in SUBSET Locks, Release(c, S),
         \A l \in Locks \ S : mLock[c][l] = Unlock
  PROVE  LocksOK'
<1>. DEFINE P == Proc(c)
            last == Others(c) = {}
<1>1. P \in Procs /\ c \in P /\ \A d \in P : d \in Conn /\ Proc(d) = P
  BY ProcOf, Members
<1>2. /\ \A d \in Conn \ {c} : mLock'[d] = mLock[d] /\ pc'[d] = pc[d]
      /\ \A l \in Locks : mLock'[c][l] = Unlock
      /\ pc'[c] = "closed"
      /\ \A Q \in Procs \ {P} : flock'[Q] = flock[Q]
      /\ last => \A l \in Locks : flock'[P][l] = Unlock
      /\ ~last => \A l \in S : flock'[P][l] = FileAfter(c, l, Unlock)
      /\ ~last => \A l \in Locks \ S : flock'[P][l] = flock[P][l]
  BY <1>1 DEF Release, TypeOK
<1>3. last => \A d \in P \ {c} : pc[d] = "closed"
  BY DEF Others
<1>4. Backing'
  <2>. SUFFICES ASSUME NEW Q \in Procs, NEW l \in Locks, MultiProc(Q)
                PROVE  Covers(Q, l)'
    BY DEF Backing, MultiProc
  <2>1. Covers(Q, l)
    BY DEF LocksOK, Backing
  <2>2. CASE Q # P
    <3>1. \A d \in Q : mLock'[d] = mLock[d]
      BY <1>1, <1>2, <2>2, Members
    <3>. QED BY <1>2, <2>1, <2>2, <3>1 DEF Covers
  <2>3. CASE Q = P /\ last
    <3>1. \A d \in P : mLock'[d][l] = Unlock
      BY <1>1, <1>2, <1>3, <2>3, ClosedFree
    <3>. QED BY <1>1, <1>2, <2>3, <3>1 DEF Covers, Unlock
  <2>4. CASE Q = P /\ ~last /\ l \in S
    <3>1. /\ Unlock <= FileAfter(c, l, Unlock)
          /\ \A d \in P \ {c} : mLock[d][l] <= FileAfter(c, l, Unlock)
          /\ \/ Unlock = FileAfter(c, l, Unlock)
             \/ \E d \in P \ {c} : mLock[d][l] = FileAfter(c, l, Unlock)
      BY <2>4, FileAfterCovers DEF LocksOK, Modes
    <3>. QED BY <1>1, <1>2, <2>4, <3>1 DEF Covers
  <2>5. CASE Q = P /\ ~last /\ l \notin S
    <3>1. mLock'[c][l] = mLock[c][l]
      BY <1>2, <2>5
    <3>. QED BY <1>1, <1>2, <2>1, <2>5, <3>1 DEF Covers
  <2>. QED BY <2>2, <2>3, <2>4, <2>5
<1>5. SingleFiles'
  <2>. SUFFICES ASSUME NEW Q \in Procs, ~MultiProc(Q)
                PROVE  SingleHolds(Q)'
    BY DEF SingleFiles, MultiProc
  <2>1. SingleHolds(Q)
    BY DEF LocksOK, SingleFiles
  <2>2. CASE Q # P \/ ~last
    <3>1. \A l \in Locks : flock'[Q][l] = flock[Q][l]
      BY <1>2, <2>2 DEF FileAfter
    <3>2. (\E d \in Q : pc'[d] # "closed") => \E d \in Q : pc[d] # "closed"
      BY <1>2, Members
    <3>. QED BY <2>1, <3>1, <3>2, LockNumbers DEF SingleHolds
  <2>3. CASE Q = P /\ last
    <3>1. \A d \in Q : pc'[d] = "closed"
      BY <1>1, <1>2, <1>3, <2>3
    <3>. QED BY <1>2, <2>3, <3>1 DEF SingleHolds
  <2>. QED BY <2>2, <2>3
<1>6. FileExclusion'
  <2>. SUFFICES ASSUME NEW Q \in Procs, NEW R \in Procs, NEW l \in Locks, Q # R
                PROVE  ~Conflict(flock'[Q][l], flock'[R][l])
    BY DEF FileExclusion, Conflict
  <2>1. ~Conflict(flock[Q][l], flock[R][l])
    BY DEF LocksOK, FileExclusion
  <2>2. ASSUME NEW T \in Procs \ {P}
        PROVE  ~Conflict(FileAfter(c, l, Unlock), flock[T][l])
    BY <2>2, FileAfterFree DEF LocksOK, Modes
  <2>. QED BY <1>2, <2>1, <2>2 DEF Conflict
<1>7. ProcessExclusion'
  BY <1>2 DEF LocksOK, ProcessExclusion, Conflict
<1>. QED BY <1>4, <1>5, <1>6, <1>7 DEF LocksOK

\* The kernel drops the locks of a dead process.
LEMMA CrashLocks ==
  ASSUME TypeOK, HeldOK, LocksOK, NEW P \in Procs, Crash(P)
  PROVE  LocksOK'
<1>1. /\ \A c \in P : pc'[c] = "closed" /\ \A l \in Locks : mLock'[c][l] = Unlock
      /\ \A c \in Conn \ P : pc'[c] = pc[c] /\ mLock'[c] = mLock[c]
      /\ \A l \in Locks : flock'[P][l] = Unlock
      /\ \A Q \in Procs \ {P} : flock'[Q] = flock[Q]
  BY Members DEF Crash, TypeOK
<1>2. \A Q \in Procs \ {P} : \A c \in Q : c \in Conn \ P
  BY Members
<1>3. P # {}
  BY ConnectAssumption
<1>4. Backing'
  BY <1>1, <1>2, <1>3 DEF LocksOK, Backing, Covers, Unlock
<1>5. SingleFiles'
  BY <1>1, <1>2, LockNumbers DEF LocksOK, SingleFiles, SingleHolds
<1>6. FileExclusion'
  BY <1>1 DEF LocksOK, FileExclusion, Conflict
<1>7. ProcessExclusion'
  BY <1>1 DEF LocksOK, ProcessExclusion, Conflict
<1>. QED BY <1>4, <1>5, <1>6, <1>7 DEF LocksOK

\* The first connection in single-process mode gets the lock on the file
\* only if it conflicts with no other.
LEMMA OpenLocks ==
  ASSUME TypeOK, HeldOK, LocksOK, NEW c \in Conn, Open(c)
  PROVE  LocksOK'
<1>. DEFINE P == Proc(c)
            locks == Others(c) = {} /\ ~MultiProc(P)
<1>1. P \in Procs /\ c \in P /\ DMS2 \in Locks
  BY ProcOf, LockNumbers
<1>2. /\ mLock' = mLock /\ pc[c] = "closed"
      /\ \A d \in Conn \ {c} : pc'[d] = pc[d]
      /\ \A Q \in Procs \ {P} : flock'[Q] = flock[Q]
      /\ \A l \in Locks \ {DMS2} : flock'[P][l] = flock[P][l]
      /\ flock'[P][DMS2] = IF locks THEN Excl ELSE flock[P][DMS2]
      /\ locks => FileFree(P, DMS2, Excl)
  BY <1>1, Zenon DEF Open, Goto, TypeOK
<1>3. Backing'
  BY <1>2 DEF LocksOK, Backing, Covers
<1>4. SingleFiles'
  <2>. SUFFICES ASSUME NEW Q \in Procs, ~MultiProc(Q)
                PROVE  SingleHolds(Q)'
    BY DEF SingleFiles, MultiProc
  <2>1. SingleHolds(Q)
    BY DEF LocksOK, SingleFiles
  <2>2. CASE Q # P
    BY <1>1, <1>2, <2>1, <2>2, Members DEF SingleHolds
  <2>3. CASE Q = P
    <3>1. Others(c) # {} => \E d \in P : pc[d] # "closed"
      BY DEF Others
    <3>. QED BY <1>1, <1>2, <2>1, <2>3, <3>1 DEF SingleHolds
  <2>. QED BY <2>2, <2>3
<1>5. FileExclusion'
  BY <1>1, <1>2 DEF LocksOK, FileExclusion, FileFree, Conflict
<1>6. ProcessExclusion'
  BY <1>2 DEF LocksOK, ProcessExclusion, Conflict
<1>. QED BY <1>3, <1>4, <1>5, <1>6 DEF LocksOK

-----------------------------------------------------------------------------
(* Shared memory *)

\* There is always a file that no path names and no process has mapped.
LEMMA FreshInodeOf ==
  ASSUME NEW P \in Procs, chunk[P] = None
  PROVE  /\ FreshInode \in Inodes
         /\ FreshInode # path
         /\ \A Q \in Procs : chunk[Q] # FreshInode
<1>1. IsFiniteSet(Procs)
  <2>1. Procs \in SUBSET SUBSET Conn
    BY Members
  <2>. QED BY <2>1, FS_SUBSET, FS_Subset, ConnectAssumption
<1>2. /\ Cardinality(Procs) \in Nat
      /\ IsFiniteSet(Inodes)
      /\ Cardinality(Inodes) = Cardinality(Procs) + 1
  <2>. DEFINE n == Cardinality(Procs)
  <2>1. n \in Nat
    BY <1>1, FS_CardinalityType
  <2>. HIDE DEF n
  <2>2. n + 1 \in Int /\ 1 \in Int /\ ~(1 > n + 1) /\ (n + 1) - 1 + 1 = n + 1
    BY <2>1
  <2>3. IsFiniteSet(1..(n + 1)) /\ Cardinality(1..(n + 1)) = n + 1
    BY <2>2, FS_Interval
  <2>. QED BY <2>1, <2>3 DEF Inodes, n
<1>3. ASSUME \A i \in Inodes : i = path \/ \E Q \in Procs : chunk[Q] = i
      PROVE  FALSE
  <2>. DEFINE user == [i \in Inodes |-> IF i = path THEN P
                                        ELSE CHOOSE Q \in Procs : chunk[Q] = i]
  <2>1. \A i \in Inodes : i # path => user[i] \in Procs /\ chunk[user[i]] = i
    BY <1>3
  <2>2. user \in [Inodes -> Procs]
    BY <2>1
  <2>3. \A i \in Inodes : i # None
    BY <1>2 DEF Inodes, None
  <2>. HIDE DEF user
  <2>4. Cardinality(Procs) < Cardinality(Inodes)
    BY <1>2
  <2>5. PICK i \in Inodes, j \in Inodes : i # j /\ user[i] = user[j]
    BY <1>1, <1>2, <2>2, <2>4, FS_PigeonHole
  <2>6. chunk[P] # i /\ chunk[P] # j
    BY <2>3
  <2>. QED BY <2>1, <2>5, <2>6 DEF user
<1>. QED BY <1>3 DEF FreshInode

\* The file that lsmShmCacheChunks() maps, and what becomes of the others.
LEMMA ChunkOf ==
  ASSUME TypeOK, MemoryOK, NEW c \in Conn, CacheChunks(c)
  PROVE  \E i \in Inodes :
           /\ ptr' = [ptr EXCEPT ![c] = i]
           /\ chunk' = [chunk EXCEPT ![Proc(c)] = i]
           /\ mapped' \in [Procs -> BOOLEAN]
           /\ mapped' = [mapped EXCEPT ![Proc(c)] = chunk[Proc(c)] # None => @]
           /\ chunk[Proc(c)] # None => i = chunk[Proc(c)] /\ shm' = shm /\ path' = path
           /\ chunk[Proc(c)] = None =>
                \/ MultiProc(Proc(c)) /\ i = path /\ shm' = shm /\ path' = path
                \/ /\ i # path /\ \A P \in Procs : chunk[P] # i
                   /\ shm' = [shm EXCEPT ![i] = Zeroed]
                   /\ MultiProc(Proc(c)) => path = None /\ path' = i
                   /\ ~MultiProc(Proc(c)) => path' = path
<1>. DEFINE P == Proc(c)
            i == IF chunk[P] # None THEN chunk[P]
                 ELSE IF MultiProc(P) /\ path # None THEN path
                 ELSE FreshInode
<1>1. P \in Procs
  BY ProcOf
<1>2. /\ ptr' = [ptr EXCEPT ![c] = i]
      /\ chunk' = [chunk EXCEPT ![P] = i]
      /\ mapped' = [mapped EXCEPT ![P] = chunk[P] # None => mapped[P]]
      /\ shm' = IF i = chunk[P] \/ i = path THEN shm ELSE [shm EXCEPT ![i] = Zeroed]
      /\ path' = IF MultiProc(P) /\ chunk[P] = None THEN i ELSE path
  BY <1>1 DEF CacheChunks, TypeOK
<1>3. /\ path \in Inodes \cup {None} /\ chunk[P] \in Inodes \cup {None}
      /\ mapped \in [Procs -> BOOLEAN]
  BY <1>1 DEF TypeOK
<1>4. CASE chunk[P] # None
  BY <1>1, <1>2, <1>3, <1>4
<1>5. CASE chunk[P] = None /\ MultiProc(P) /\ path # None
  BY <1>1, <1>2, <1>3, <1>5
<1>6. CASE chunk[P] = None /\ ~(MultiProc(P) /\ path # None)
  BY <1>1, <1>2, <1>3, <1>6, FreshInodeOf
<1>. QED BY <1>4, <1>5, <1>6

LEMMA MemoryKept ==
  ASSUME MemoryOK, UNCHANGED <<path, chunk, ptr>>,
         \A c \in Conn : pc'[c] = "closed" => pc[c] = "closed"
  PROVE  MemoryOK'
BY DEF MemoryOK, MultiProc

-----------------------------------------------------------------------------
(* Types *)

LockTypes == /\ mLock \in [Conn -> [Locks -> Modes]]
             /\ flock \in [Procs -> [Locks -> Modes]]
PcTypes   == pc \in [Conn -> PcValues]
ShmTypes  == /\ path \in Inodes \cup {None}
             /\ shm \in [Inodes -> 0..MaxCommit \cup {Zeroed}]
             /\ chunk \in [Procs -> Inodes \cup {None}]
             /\ mapped \in [Procs -> BOOLEAN]
DbTypes   == {ckpt, log, oldest, logFrom, acked} \subseteq 0..MaxCommit
RoTypes   == /\ {roCkpt, roData, roBegan} \subseteq [Conn -> 0..MaxCommit]
             /\ roAlone \subseteq Conn
ConnTypes == /\ ptr \in [Conn -> Inodes \cup {None}]
             /\ logfd \in [Conn -> {"none", "linked", "unlinked"}]
             /\ bReadonly \in [Conn -> BOOLEAN]
             /\ iSynced \in [Conn -> 0..MaxCommit]

AllTypes == LockTypes /\ PcTypes /\ ShmTypes /\ DbTypes /\ RoTypes /\ ConnTypes

LEMMA TypeParts == (TypeOK <=> AllTypes) /\ (TypeOK' <=> AllTypes')
BY DEF AllTypes, TypeOK, LockTypes, PcTypes, ShmTypes, DbTypes, RoTypes, ConnTypes

LEMMA TypeFrame ==
  ASSUME TypeOK
  PROVE  /\ UNCHANGED lockVars => LockTypes'
         /\ UNCHANGED pc       => PcTypes'
         /\ UNCHANGED shmVars  => ShmTypes'
         /\ UNCHANGED dbVars   => DbTypes'
         /\ UNCHANGED roVars   => RoTypes'
         /\ UNCHANGED connVars => ConnTypes'
         /\ CountsOK /\ UNCHANGED <<shmVars, dbVars>> => CountsOK'
BY TypeParts
DEF AllTypes, LockTypes, PcTypes, ShmTypes, DbTypes, RoTypes, ConnTypes, CountsOK,
    lockVars, shmVars, dbVars, roVars, connVars

LEMMA GotoType ==
  ASSUME PcTypes, NEW c \in Conn, NEW l \in PcValues, Goto(c, l)
  PROVE  PcTypes'
BY DEF PcTypes, Goto

LEMMA ShmLockType ==
  ASSUME TypeOK, NEW c \in Conn, NEW K \in SUBSET Locks, NEW change \in [K -> Modes],
         ShmLock(c, change)
  PROVE  LockTypes'
<1>1. \A l \in K : FileAfter(c, l, change[l]) \in Modes
  BY FileAfterType
<1>. QED BY <1>1, ProcOf DEF ShmLock, TypeOK, LockTypes

LEMMA TakeType ==
  ASSUME TypeOK, NEW c \in Conn, NEW l \in Locks, NEW e \in Modes, Take(c, l, e)
  PROVE  LockTypes'
<1>. DEFINE change == [k \in {l} |-> e]
<1>1. change \in [{l} -> Modes] /\ {l} \in SUBSET Locks /\ ShmLock(c, change)
  BY DEF Take
<1>. HIDE DEF change
<1>. QED BY <1>1, ShmLockType

LEMMA DropType ==
  ASSUME TypeOK, NEW c \in Conn, NEW S \in SUBSET Locks, Drop(c, S)
  PROVE  LockTypes'
<1>. DEFINE change == [k \in S |-> Unlock]
<1>1. change \in [S -> Modes] /\ ShmLock(c, change)
  BY DEF Drop, Modes
<1>. HIDE DEF change
<1>. QED BY <1>1, ShmLockType

LEMMA ResetType ==
  ASSUME TypeOK, NEW S, Reset(S)
  PROVE  RoTypes' /\ ConnTypes'
<1>1. 0 \in 0..MaxCommit
  BY ConnectAssumption
<1>2. RoTypes'
  BY <1>1 DEF Reset, TypeOK, RoTypes
<1>3. ConnTypes'
  BY <1>1 DEF Reset, TypeOK, ConnTypes
<1>. QED BY <1>2, <1>3

LEMMA ReleaseType ==
  ASSUME TypeOK, CountsOK, NEW c \in Conn, NEW S, Release(c, S)
  PROVE  TypeOK' /\ CountsOK'
<1>. DEFINE P == Proc(c)
<1>1. P \in Procs
  BY ProcOf
<1>2. LockTypes'
  <2>1. \A l \in Locks : FileAfter(c, l, Unlock) \in Modes
    BY FileAfterType DEF Modes
  <2>. QED BY <1>1, <2>1 DEF Release, TypeOK, LockTypes, Modes
<1>3. PcTypes'
  BY DEF Release, TypeOK, PcTypes, PcValues
<1>4. ShmTypes'
  BY <1>1 DEF Release, TypeOK, ShmTypes
<1>5. DbTypes' /\ CountsOK'
  BY DEF Release, TypeOK, DbTypes, CountsOK, dbVars
<1>6. RoTypes' /\ ConnTypes'
  BY ResetType DEF Release
<1>. QED BY <1>2, <1>3, <1>4, <1>5, <1>6, TypeParts DEF AllTypes

LEMMA CrashType ==
  ASSUME TypeOK, CountsOK, NEW P \in Procs, Crash(P)
  PROVE  TypeOK' /\ CountsOK'
<1>1. LockTypes'
  BY DEF Crash, TypeOK, LockTypes, Modes
<1>2. PcTypes'
  BY DEF Crash, TypeOK, PcTypes, PcValues
<1>3. ShmTypes'
  BY DEF Crash, TypeOK, ShmTypes
<1>4. DbTypes' /\ CountsOK'
  BY DEF Crash, TypeOK, DbTypes, CountsOK, dbVars
<1>5. RoTypes' /\ ConnTypes'
  BY ResetType DEF Crash
<1>. QED BY <1>1, <1>2, <1>3, <1>4, <1>5, TypeParts DEF AllTypes

LEMMA CacheType ==
  ASSUME TypeOK, CountsOK, MemoryOK, NEW c \in Conn, CacheChunks(c),
         UNCHANGED <<dbVars, roVars, logfd, bReadonly, iSynced>>
  PROVE  ShmTypes' /\ ConnTypes' /\ CountsOK'
<1>1. PICK i \in Inodes :
           /\ ptr' = [ptr EXCEPT ![c] = i]
           /\ chunk' = [chunk EXCEPT ![Proc(c)] = i]
           /\ mapped' \in [Procs -> BOOLEAN]
           /\ shm' = shm \/ shm' = [shm EXCEPT ![i] = Zeroed]
           /\ path' \in {path, i}
  BY ChunkOf
<1>2. ShmTypes'
  <2>1. shm' \in [Inodes -> 0..MaxCommit \cup {Zeroed}]
    BY <1>1 DEF TypeOK
  <2>2. chunk' \in [Procs -> Inodes \cup {None}]
    BY <1>1 DEF TypeOK
  <2>. QED BY <1>1, <2>1, <2>2 DEF TypeOK, ShmTypes
<1>3. ConnTypes'
  BY <1>1 DEF TypeOK, ConnTypes
<1>4. CountsOK'
  <2>1. Zeroed <= acked
    BY DEF TypeOK, Zeroed
  <2>. QED BY <1>1, <2>1 DEF TypeOK, CountsOK, dbVars
<1>. QED BY <1>2, <1>3, <1>4

LEMMA MaxOf ==
  ASSUME NEW m \in Int, NEW n \in Int
  PROVE  Max({m, n}) = IF m >= n THEN m ELSE n
<1>1. CASE m >= n
  BY <1>1 DEF Max
<1>2. CASE ~(m >= n)
  BY <1>2 DEF Max
<1>. QED BY <1>1, <1>2

LEMMA CountValues ==
  ASSUME TypeOK
  PROVE  /\ MaxCommit \in Nat /\ 0 \in 0..MaxCommit
         /\ ckpt \in 0..MaxCommit /\ log \in 0..MaxCommit /\ oldest \in 0..MaxCommit
         /\ logFrom \in 0..MaxCommit /\ acked \in 0..MaxCommit
         /\ \A c \in Conn : iSynced[c] \in 0..MaxCommit /\ roCkpt[c] \in 0..MaxCommit
         /\ \A i \in Inodes : shm[i] \in Int
         /\ CountsOK => Recovered \in 0..MaxCommit /\ Recovered <= acked
         /\ \A c \in Conn : Max({oldest, iSynced[c]}) \in 0..MaxCommit
         /\ \A c \in Conn : Max({roCkpt[c], log}) \in 0..MaxCommit
<1>1. /\ MaxCommit \in Nat /\ 0 \in 0..MaxCommit
      /\ ckpt \in 0..MaxCommit /\ log \in 0..MaxCommit /\ oldest \in 0..MaxCommit
      /\ logFrom \in 0..MaxCommit /\ acked \in 0..MaxCommit
      /\ \A c \in Conn : iSynced[c] \in 0..MaxCommit /\ roCkpt[c] \in 0..MaxCommit
      /\ \A i \in Inodes : shm[i] \in Int
  BY ConnectAssumption DEF TypeOK, Zeroed
<1>2. \A m, n \in 0..MaxCommit : Max({m, n}) \in {m, n}
  BY <1>1, MaxOf
<1>. QED BY <1>1, <1>2 DEF Recovered, CountsOK

\* doDbConnect(): the locks taken once connected, and that they are free.
LEMMA ConnectLocksOf ==
  ASSUME NEW c \in Conn
  PROVE  \E K \in SUBSET Locks :
           /\ DMS2 \in K /\ K \ {DMS2} \subseteq Rwclients
           /\ ConnectLocks(c) \in [K -> Modes]
           /\ ConnectLocks(c)[DMS2] = Shared
           /\ \A l \in K \ {DMS2} : LockOk(c, l, Excl) /\ ConnectLocks(c)[l] = Excl
<1>. DEFINE F == FreeRwclients(c)
<1>1. CASE F = {}
  <2>1. ConnectLocks(c) = [l \in {DMS2} |-> Shared]
    BY <1>1 DEF ConnectLocks
  <2>. QED BY <2>1, LockNumbers DEF Modes
<1>2. CASE F # {}
  <2>1. F \subseteq Rwclients /\ F \in SUBSET Nat
    BY LockNumbers DEF FreeRwclients
  <2>2. Min(F) \in F
    BY <1>2, <2>1, MinOf
  <2>3. Min(F) \in Rwclients /\ LockOk(c, Min(F), Excl)
    BY <2>2 DEF FreeRwclients
  <2>4. ConnectLocks(c) = [l \in {DMS2, Min(F)} |-> IF l = DMS2 THEN Shared ELSE Excl]
    BY <1>2 DEF ConnectLocks
  <2>5. Min(F) # DMS2 /\ {DMS2, Min(F)} \in SUBSET Locks
    BY <2>3, LockNumbers
  <2>. QED BY <2>3, <2>4, <2>5 DEF Modes
<1>. QED BY <1>1, <1>2

LEMMA ConnectTypes ==
  ASSUME TypeOK, CountsOK, MemoryOK, NEW c \in Conn, Connect(c)
  PROVE  TypeOK' /\ CountsOK'
<1>. USE TypeParts, TypeFrame DEF AllTypes
<1>1. CASE ConnectCache(c)
  <2>1. PcTypes'
    BY <1>1, GotoType DEF ConnectCache, PcValues
  <2>. QED BY <1>1, <2>1, CacheType DEF ConnectCache, lockVars, dbVars, roVars
<1>2. CASE ConnectLock(c)
  <2>1. PcTypes'
    BY <1>2, GotoType DEF ConnectLock, PcValues
  <2>2. LockTypes'
    BY <1>2, TakeType, LockNumbers DEF ConnectLock, Modes
  <2>. QED BY <1>2, <2>1, <2>2 DEF ConnectLock
<1>3. CASE ConnectTest(c)
  <2>1. PcTypes'
    BY <1>3, GotoType DEF ConnectTest, PcValues
  <2>2. shm' = shm \/ (ptr[c] \in Inodes /\ shm' = [shm EXCEPT ![ptr[c]] = Zeroed])
    BY <1>3 DEF ConnectTest, Usable, TypeOK
  <2>3. ShmTypes'
    BY <1>3, <2>2 DEF ConnectTest, ShmTypes
  <2>4. CountsOK'
    BY <1>3, <2>2 DEF ConnectTest, CountsOK, TypeOK, Zeroed, dbVars
  <2>. QED BY <1>3, <2>1, <2>3, <2>4 DEF ConnectTest
<1>4. CASE ConnectRecover(c)
  <2>1. PcTypes'
    BY <1>4, GotoType DEF ConnectRecover, PcValues
  <2>2. Recovered \in 0..MaxCommit /\ Recovered <= acked
    BY CountValues
  <2>3. ptr[c] \in Inodes /\ shm' = [shm EXCEPT ![ptr[c]] = Recovered]
    BY <1>4 DEF ConnectRecover, Usable, TypeOK
  <2>4. ShmTypes'
    BY <1>4, <2>2, <2>3 DEF ConnectRecover, ShmTypes
  <2>5. CountsOK'
    BY <1>4, <2>2, <2>3 DEF ConnectRecover, CountsOK, TypeOK, dbVars
  <2>6. ConnTypes'
    BY <1>4 DEF ConnectRecover, ConnTypes
  <2>. QED BY <1>4, <2>1, <2>4, <2>5, <2>6 DEF ConnectRecover
<1>5. CASE ConnectDms2(c)
  <2>1. PcTypes'
    BY <1>5, GotoType DEF ConnectDms2, PcValues
  <2>2. LockTypes'
    <3>1. CASE LockOk(c, DMS2, Shared)
      <4>1. \E K \in SUBSET Locks : ConnectLocks(c) \in [K -> Modes]
        BY ConnectLocksOf
      <4>. QED BY <1>5, <3>1, <4>1, ShmLockType DEF ConnectDms2
    <3>. QED BY <1>5, <3>1 DEF ConnectDms2
  <2>. QED BY <1>5, <2>1, <2>2 DEF ConnectDms2
<1>6. CASE ConnectUnlock(c)
  <2>1. PcTypes'
    BY <1>6, GotoType DEF ConnectUnlock, PcValues
  <2>2. LockTypes'
    BY <1>6, DropType, LockNumbers DEF ConnectUnlock
  <2>. QED BY <1>6, <2>1, <2>2 DEF ConnectUnlock
<1>7. CASE ConnectFail(c)
  BY <1>7, ReleaseType DEF ConnectFail
<1>. QED BY <1>1, <1>2, <1>3, <1>4, <1>5, <1>6, <1>7 DEF Connect

LEMMA WorkTypes ==
  ASSUME TypeOK, CountsOK, NEW c \in Conn, Work(c)
  PROVE  TypeOK' /\ CountsOK'
<1>. USE TypeParts, TypeFrame DEF AllTypes
<1>1. CASE Commit(c)
  <2>1. ptr[c] \in Inodes /\ shm[ptr[c]] \in 0..MaxCommit
    BY <1>1 DEF Commit, HeaderOk, Usable, TypeOK
  <2>2. /\ shm[ptr[c]] <= acked /\ acked < MaxCommit
        /\ acked \in 0..MaxCommit /\ log \in 0..MaxCommit
    BY <1>1, <2>1 DEF Commit, TypeOK, CountsOK
  <2>3. /\ shm[ptr[c]] + 1 \in 0..MaxCommit /\ shm[ptr[c]] + 1 <= acked + 1
        /\ acked + 1 \in 0..MaxCommit
    BY <2>1, <2>2, CountValues
  <2>4. ShmTypes'
    BY <1>1, <2>1, <2>3 DEF Commit, ShmTypes
  <2>5. DbTypes'
    <3>1. log' \in 0..MaxCommit /\ acked' \in 0..MaxCommit
      BY <1>1, <2>2, <2>3 DEF Commit
    <3>2. UNCHANGED <<ckpt, oldest, logFrom>>
      BY <1>1 DEF Commit
    <3>. QED BY <3>1, <3>2, CountValues DEF DbTypes
  <2>6. CountsOK'
    <3>1. \A i \in Inodes : shm'[i] = shm[i] \/ shm'[i] = shm[ptr[c]] + 1
      BY <1>1, <2>1 DEF Commit, TypeOK
    <3>2. /\ acked' = acked + 1 /\ ckpt' = ckpt
          /\ log' = log \/ log' = shm[ptr[c]] + 1
      BY <1>1 DEF Commit
    <3>3. \A i \in Inodes : shm'[i] <= acked + 1
      BY <2>2, <2>3, <3>1, CountValues DEF CountsOK
    <3>. QED BY <2>3, <3>2, <3>3, CountValues DEF CountsOK
  <2>7. ConnTypes'
    BY <1>1 DEF Commit, ConnTypes
  <2>. QED BY <1>1, <2>4, <2>5, <2>6, <2>7 DEF Commit
<1>2. CASE Checkpoint(c)
  <2>1. ckpt' \in 0..MaxCommit /\ ckpt' <= acked
    BY <1>2 DEF Checkpoint, HeaderOk, Usable, TypeOK, CountsOK
  <2>2. DbTypes' /\ CountsOK'
    BY <1>2, <2>1 DEF Checkpoint, DbTypes, CountsOK, shmVars
  <2>. QED BY <1>2, <2>2 DEF Checkpoint
<1>3. CASE BlockDetect(c)
  <2>1. PcTypes'
    BY <1>3, GotoType DEF BlockDetect, PcValues
  <2>2. ConnTypes'
    BY <1>3 DEF BlockDetect, ConnTypes, DbTypes
  <2>. QED BY <1>3, <2>1, <2>2 DEF BlockDetect
<1>4. CASE BlockReuse(c)
  <2>1. PcTypes'
    BY <1>4, GotoType DEF BlockReuse, PcValues
  <2>2. oldest' \in 0..MaxCommit /\ 0 \in 0..MaxCommit
    BY <1>4, CountValues DEF BlockReuse
  <2>3. DbTypes' /\ CountsOK'
    BY <1>4, <2>2 DEF BlockReuse, DbTypes, CountsOK, shmVars
  <2>4. ConnTypes'
    BY <1>4, <2>2 DEF BlockReuse, ConnTypes
  <2>. QED BY <1>4, <2>1, <2>3, <2>4 DEF BlockReuse
<1>5. CASE LogDetect(c)
  <2>1. PcTypes'
    BY <1>5, GotoType DEF LogDetect, PcValues
  <2>. QED BY <1>5, <2>1 DEF LogDetect
<1>6. CASE LogReclaim(c)
  <2>1. PcTypes'
    BY <1>6, GotoType DEF LogReclaim, PcValues
  <2>2. DbTypes' /\ CountsOK'
    BY <1>6 DEF LogReclaim, DbTypes, CountsOK, shmVars
  <2>. QED BY <1>6, <2>1, <2>2 DEF LogReclaim
<1>. QED BY <1>1, <1>2, <1>3, <1>4, <1>5, <1>6 DEF Work

LEMMA LeaveTypes ==
  ASSUME TypeOK, CountsOK, NEW c \in Conn, Close(c) \/ Disconnect(c)
  PROVE  TypeOK' /\ CountsOK'
<1>. USE TypeParts, TypeFrame DEF AllTypes
<1>1. CASE Close(c)
  <2>1. PcTypes'
    BY <1>1, GotoType DEF Close, PcValues
  <2>2. LockTypes'
    BY <1>1, TakeType, LockNumbers DEF Close, Modes
  <2>. QED BY <1>1, <2>1, <2>2 DEF Close
<1>2. CASE DisconnectTest(c)
  <2>1. PcTypes'
    BY <1>2, GotoType DEF DisconnectTest, PcValues
  <2>. QED BY <1>2, <2>1 DEF DisconnectTest
<1>3. CASE DisconnectFlush(c)
  <2>1. PcTypes'
    BY <1>3, GotoType DEF DisconnectFlush, PcValues
  <2>2. ckpt' \in 0..MaxCommit /\ ckpt' <= acked
    BY <1>3 DEF DisconnectFlush, HeaderOk, Usable, TypeOK, CountsOK
  <2>3. DbTypes' /\ CountsOK'
    BY <1>3, <2>2 DEF DisconnectFlush, DbTypes, CountsOK, shmVars
  <2>4. ConnTypes'
    BY <1>3, Zenon DEF DisconnectFlush, ConnTypes
  <2>. QED BY <1>3, <2>1, <2>3, <2>4 DEF DisconnectFlush
<1>4. CASE DisconnectDelete(c)
  <2>1. PcTypes'
    BY <1>4, GotoType DEF DisconnectDelete, PcValues
  <2>2. DbTypes' /\ CountsOK'
    BY <1>4, ConnectAssumption DEF DisconnectDelete, DbTypes, CountsOK, shmVars
  <2>3. ConnTypes'
    BY <1>4 DEF DisconnectDelete, ConnTypes
  <2>. QED BY <1>4, <2>1, <2>2, <2>3 DEF DisconnectDelete
<1>5. CASE DisconnectUnlink(c)
  <2>1. PcTypes'
    BY <1>5, GotoType DEF DisconnectUnlink, PcValues
  <2>2. DbTypes' /\ CountsOK'
    BY <1>5 DEF DisconnectUnlink, DbTypes, CountsOK
  <2>3. ShmTypes'
    BY <1>5 DEF DisconnectUnlink, ShmTypes
  <2>. QED BY <1>5, <2>1, <2>2, <2>3 DEF DisconnectUnlink
<1>6. CASE DisconnectRwclient(c)
  <2>1. PcTypes'
    BY <1>6, GotoType DEF DisconnectRwclient, PcValues
  <2>2. LockTypes'
    BY <1>6, DropType, LockNumbers DEF DisconnectRwclient
  <2>. QED BY <1>6, <2>1, <2>2 DEF DisconnectRwclient
<1>7. CASE DisconnectRelease(c)
  BY <1>7, ReleaseType DEF DisconnectRelease
<1>. QED BY <1>1, <1>2, <1>3, <1>4, <1>5, <1>6, <1>7 DEF Disconnect

\* lsmBeginRoTrans(): the two locks it changes in one step.
LEMMA RoChange ==
  ASSUME NEW m \in {DMS3, ROTRANS}
  PROVE  /\ {DMS1, m} \in SUBSET Locks
         /\ [l \in {DMS1, m} |-> IF l = DMS1 THEN Unlock ELSE Shared] \in [{DMS1, m} -> Modes]
BY LockNumbers DEF Modes

LEMMA RoTypesStep ==
  ASSUME TypeOK, CountsOK, MemoryOK, NEW c \in Conn,
         RoBegin(c) \/ RoStep(c) \/ RoTransFinish(c) \/ RoClose(c)
  PROVE  TypeOK' /\ CountsOK'
<1>. USE TypeParts, TypeFrame DEF AllTypes
<1>1. CASE RoBegin(c)
  <2>1. PcTypes'
    BY <1>1, GotoType DEF RoBegin, PcValues
  <2>2. LockTypes'
    BY <1>1, TakeType, LockNumbers DEF RoBegin, Modes
  <2>. QED BY <1>1, <2>1, <2>2 DEF RoBegin
<1>2. CASE RoTest(c)
  <2>1. PcTypes'
    BY <1>2, GotoType DEF RoTest, PcValues
  <2>. QED BY <1>2, <2>1 DEF RoTest
<1>3. CASE RoTransLock(c)
  <2>1. PcTypes'
    BY <1>3, GotoType DEF RoTransLock, PcValues
  <2>2. LockTypes'
    BY <1>3, ShmLockType, RoChange DEF RoTransLock
  <2>3. RoTypes'
    BY <1>3, CountValues DEF RoTransLock, RoTypes
  <2>. QED BY <1>3, <2>1, <2>2, <2>3 DEF RoTransLock
<1>4. CASE RoTransCkpt(c)
  <2>1. PcTypes'
    BY <1>4, GotoType DEF RoTransCkpt, PcValues
  <2>2. RoTypes'
    BY <1>4, CountValues DEF RoTransCkpt, RoTypes
  <2>. QED BY <1>4, <2>1, <2>2 DEF RoTransCkpt
<1>5. CASE RoTransLog(c)
  <2>1. PcTypes'
    BY <1>5, GotoType DEF RoTransLog, PcValues
  <2>2. roData' = [roData EXCEPT ![c] = roData'[c]] /\ roData'[c] \in 0..MaxCommit
    BY <1>5, CountValues DEF RoTransLog, RoTypes
  <2>3. RoTypes'
    BY <1>5, <2>2 DEF RoTransLog, RoTypes
  <2>. QED BY <1>5, <2>1, <2>3 DEF RoTransLog
<1>6. CASE RoLiveLock(c)
  <2>1. PcTypes'
    BY <1>6, GotoType DEF RoLiveLock, PcValues
  <2>2. LockTypes'
    BY <1>6, ShmLockType, RoChange DEF RoLiveLock
  <2>. QED BY <1>6, <2>1, <2>2 DEF RoLiveLock
<1>7. CASE RoLiveMap(c)
  <2>1. PcTypes'
    BY <1>7, GotoType DEF RoLiveMap, PcValues
  <2>. QED BY <1>7, <2>1, CacheType DEF RoLiveMap, lockVars, dbVars, roVars
<1>8. CASE RoTransFinish(c)
  <2>1. PcTypes'
    BY <1>8, GotoType DEF RoTransFinish, PcValues
  <2>2. LockTypes'
    BY <1>8, DropType, LockNumbers DEF RoTransFinish
  <2>. QED BY <1>8, <2>1, <2>2, ResetType DEF RoTransFinish
<1>9. CASE RoClose(c)
  BY <1>9, ReleaseType DEF RoClose
<1>. QED BY <1>1, <1>2, <1>3, <1>4, <1>5, <1>6, <1>7, <1>8, <1>9 DEF RoStep

LEMMA TypeStep ==
  ASSUME TypeOK, CountsOK, MemoryOK, Next
  PROVE  TypeOK' /\ CountsOK'
<1>1. ASSUME NEW c \in Conn, Open(c) PROVE TypeOK' /\ CountsOK'
  <2>1. PcTypes'
    BY <1>1, TypeParts, GotoType DEF Open, PcValues, AllTypes
  <2>2. LockTypes'
    BY <1>1 DEF Open, TypeOK, LockTypes, Modes
  <2>. QED BY <1>1, <2>1, <2>2, TypeParts, TypeFrame DEF Open, AllTypes
<1>2. RW \subseteq Conn /\ RO \subseteq Conn
  BY DEF Conn
<1>. QED BY <1>1, <1>2, ConnectTypes, WorkTypes, LeaveTypes, RoTypesStep, CrashType
         DEF Next, Die, Fault

-----------------------------------------------------------------------------
(* Who holds which lock *)

\* A step of one connection leaves the locks of the others alone.
LEMMA HeldByOthers ==
  ASSUME HeldOK, NEW c \in Conn, HeldBy(c)',
         \A d \in Conn \ {c} : pc'[d] = pc[d] /\ mLock'[d] = mLock[d]
  PROVE  HeldOK'
<1>. SUFFICES ASSUME NEW d \in Conn \ {c} PROVE HeldBy(d)'
  BY DEF HeldOK
<1>1. HeldBy(d) /\ pc'[d] = pc[d] /\ mLock'[d] = mLock[d]
  BY DEF HeldOK
<1>. QED BY <1>1 DEF HeldBy

\* Steps that take and drop no lock stay among the places where the same
\* locks are held.
SamePlaces ==
  {{"closed", "cache", "dms1", "idle"}, {"test", "recover", "dms2", "fail"},
   {"open", "reuse", "reclaim"}, {"last", "flush", "delete", "unlink", "release"},
   {"roTest", "roDead", "roLive"}, {"roCkpt", "roLog", "rotrans"},
   {"roMap", "live"}}

LEMMA HeldSame ==
  ASSUME TypeOK, HeldOK, NEW c \in Conn, UNCHANGED lockVars, NEW l, Goto(c, l),
         \/ \E S \in SamePlaces : pc[c] \in S /\ l \in S /\ pc[c] # "release"
         \/ pc[c] = "open" /\ l = "release"
  PROVE  HeldOK'
<1>1. /\ pc'[c] = l /\ mLock' = mLock
      /\ \A d \in Conn \ {c} : pc'[d] = pc[d]
  BY DEF Goto, TypeOK, lockVars
<1>2. HeldBy(c)
  BY DEF HeldOK
<1>3. HeldBy(c)'
  BY <1>1, <1>2
  DEF HeldBy, SamePlaces, ExclDms1, SharedDms1, HaveDms2, HaveDms3, HaveTrans
<1>. QED BY <1>1, <1>3, HeldByOthers

\* The locks of c after lsmShmLock().
LEMMA ShmLockHeld ==
  ASSUME TypeOK, NEW c \in Conn, NEW K \in SUBSET Locks, NEW change \in [K -> Modes],
         ShmLock(c, change)
  PROVE  /\ \A d \in Conn \ {c} : mLock'[d] = mLock[d]
         /\ \A l \in K : mLock'[c][l] = change[l]
         /\ \A l \in Locks \ K : mLock'[c][l] = mLock[c][l]
BY DEF ShmLock, TypeOK

LEMMA TakeHeld ==
  ASSUME TypeOK, NEW c \in Conn, NEW k \in Locks, NEW e \in Modes, Take(c, k, e)
  PROVE  /\ \A d \in Conn \ {c} : mLock'[d] = mLock[d]
         /\ mLock'[c][k] = e
         /\ \A l \in Locks \ {k} : mLock'[c][l] = mLock[c][l]
BY DEF Take, ShmLock, TypeOK

LEMMA DropHeld ==
  ASSUME TypeOK, NEW c \in Conn, NEW S \in SUBSET Locks, Drop(c, S)
  PROVE  /\ \A d \in Conn \ {c} : mLock'[d] = mLock[d]
         /\ \A l \in S : mLock'[c][l] = Unlock
         /\ \A l \in Locks \ S : mLock'[c][l] = mLock[c][l]
BY DEF Drop, ShmLock, TypeOK

LEMMA GotoPc ==
  ASSUME TypeOK, NEW c \in Conn, NEW l, Goto(c, l)
  PROVE  pc'[c] = l /\ \A d \in Conn \ {c} : pc'[d] = pc[d]
BY DEF Goto, TypeOK

\* lsmDbDatabaseRelease() gives up all that is held where it is called.
LEMMA ReleaseAll ==
  ASSUME HeldOK, NEW c \in Conn
  PROVE  /\ pc[c] = "fail" => \A l \in Locks \ {DMS1} : mLock[c][l] = Unlock
         /\ pc[c] = "leave" => \A l \in Locks \ {DMS1, DMS2} : mLock[c][l] = Unlock
         /\ pc[c] \in {"idle", "live"} => \A l \in Locks \ {DMS3} : mLock[c][l] = Unlock
<1>1. HeldBy(c)
  BY DEF HeldOK
<1>2. \A l \in Locks : l \in Rwclients \/ l \in {DMS1, DMS2, DMS3, ROTRANS}
  BY DEF Locks
<1>. USE <1>1, <1>2 DEF HeldBy, ExclDms1, SharedDms1, HaveDms2, HaveDms3, HaveTrans
<1>3. pc[c] = "fail" => \A l \in Locks \ {DMS1} : mLock[c][l] = Unlock
  OBVIOUS
<1>4. pc[c] = "leave" => \A l \in Locks \ {DMS1, DMS2} : mLock[c][l] = Unlock
  OBVIOUS
<1>5. pc[c] \in {"idle", "live"} => \A l \in Locks \ {DMS3} : mLock[c][l] = Unlock
  OBVIOUS
<1>. QED BY <1>3, <1>4, <1>5

LEMMA ReleaseHeld ==
  ASSUME TypeOK, HeldOK, NEW c \in Conn, NEW S \in SUBSET Locks, Release(c, S),
         \A l \in Locks \ S : mLock[c][l] = Unlock
  PROVE  HeldOK'
<1>1. /\ pc'[c] = "closed" /\ \A l \in Locks : mLock'[c][l] = Unlock
      /\ \A d \in Conn \ {c} : pc'[d] = pc[d] /\ mLock'[d] = mLock[d]
  BY DEF Release, TypeOK
<1>2. HeldBy(c)'
  BY <1>1, LockNumbers
  DEF HeldBy, ExclDms1, SharedDms1, HaveDms2, HaveDms3, HaveTrans
<1>. QED BY <1>1, <1>2, HeldByOthers

LEMMA CrashHeld ==
  ASSUME TypeOK, HeldOK, NEW P \in Procs, Crash(P)
  PROVE  HeldOK'
<1>. SUFFICES ASSUME NEW c \in Conn PROVE HeldBy(c)'
  BY DEF HeldOK
<1>1. CASE c \in P
  <2>1. pc'[c] = "closed" /\ \A l \in Locks : mLock'[c][l] = Unlock
    BY <1>1 DEF Crash
  <2>. QED BY <2>1, LockNumbers
           DEF HeldBy, ExclDms1, SharedDms1, HaveDms2, HaveDms3, HaveTrans
<1>2. CASE c \notin P
  <2>1. pc'[c] = pc[c] /\ mLock'[c] = mLock[c]
    BY <1>2 DEF Crash
  <2>. QED BY <2>1 DEF HeldOK, HeldBy
<1>. QED BY <1>1, <1>2

LEMMA LockFrame ==
  ASSUME TypeOK, HeldOK, LocksOK, NEW c \in Conn, UNCHANGED lockVars, NEW l, Goto(c, l),
         \/ \E S \in SamePlaces : pc[c] \in S /\ l \in S /\ pc[c] # "release"
         \/ pc[c] = "open" /\ l = "release",
         pc[c] # "closed"
  PROVE  HeldOK' /\ LocksOK'
<1>1. \A d \in Conn : pc[d] = "closed" => pc'[d] = "closed"
  BY GotoPc
<1>. QED BY <1>1, HeldSame, LocksKept

\* Connecting and disconnecting.
LEMMA ConnectHeld ==
  ASSUME TypeOK, HeldOK, LocksOK, NEW c \in Conn, Connect(c)
  PROVE  HeldOK' /\ LocksOK'
<1>. USE DEF SamePlaces
<1>1. CASE ConnectCache(c)
  BY <1>1, LockFrame DEF ConnectCache
<1>2. CASE ConnectLock(c)
  <2>1. pc'[c] = "test" /\ \A d \in Conn \ {c} : pc'[d] = pc[d]
    BY <1>2, GotoPc DEF ConnectLock
  <2>2. LocksOK'
    BY <1>2, <2>1, TakeStep, LockNumbers DEF ConnectLock
  <2>3. /\ \A d \in Conn \ {c} : mLock'[d] = mLock[d]
        /\ mLock'[c][DMS1] = Excl
        /\ \A l \in Locks \ {DMS1} : mLock'[c][l] = mLock[c][l]
    BY <1>2, TakeHeld, LockNumbers DEF ConnectLock, Modes
  <2>4. HeldBy(c) /\ pc[c] = "dms1"
    BY <1>2 DEF HeldOK, ConnectLock
  <2>5. HeldBy(c)'
    BY <2>1, <2>3, <2>4, LockNumbers
    DEF HeldBy, ExclDms1, SharedDms1, HaveDms2, HaveDms3, HaveTrans
  <2>. QED BY <2>1, <2>2, <2>3, <2>5, HeldByOthers
<1>3. CASE ConnectTest(c)
  BY <1>3, LockFrame DEF ConnectTest
<1>4. CASE ConnectRecover(c)
  BY <1>4, LockFrame DEF ConnectRecover
<1>5. CASE ConnectDms2(c) /\ LockOk(c, DMS2, Shared)
  <2>1. pc'[c] = "connected" /\ \A d \in Conn \ {c} : pc'[d] = pc[d]
    BY <1>5, GotoPc DEF ConnectDms2
  <2>2. PICK K \in SUBSET Locks :
           /\ DMS2 \in K /\ K \ {DMS2} \subseteq Rwclients
           /\ ConnectLocks(c) \in [K -> Modes]
           /\ ConnectLocks(c)[DMS2] = Shared
           /\ \A l \in K \ {DMS2} : LockOk(c, l, Excl) /\ ConnectLocks(c)[l] = Excl
    BY ConnectLocksOf
  <2>3. ShmLock(c, ConnectLocks(c)) /\ pc[c] = "dms2"
    BY <1>5 DEF ConnectDms2
  <2>4. \A l \in K : ConnectLocks(c)[l] # Unlock => LockOk(c, l, ConnectLocks(c)[l])
    BY <1>5, <2>2
  <2>5. LocksOK'
    BY <2>1, <2>2, <2>3, <2>4, LockStep
  <2>6. /\ \A d \in Conn \ {c} : mLock'[d] = mLock[d]
        /\ \A l \in K : mLock'[c][l] = ConnectLocks(c)[l]
        /\ \A l \in Locks \ K : mLock'[c][l] = mLock[c][l]
    BY <2>2, <2>3, ShmLockHeld
  <2>7. /\ mLock'[c][DMS2] = Shared
        /\ \A l \in {DMS1, DMS3, ROTRANS} : mLock'[c][l] = mLock[c][l]
    BY <2>2, <2>6, LockNumbers
  <2>8. HeldBy(c)
    BY DEF HeldOK
  <2>9. HeldBy(c)'
    BY <2>1, <2>3, <2>7, <2>8
    DEF HeldBy, ExclDms1, SharedDms1, HaveDms2, HaveDms3, HaveTrans
  <2>. QED BY <2>1, <2>5, <2>6, <2>9, HeldByOthers
<1>6. CASE ConnectDms2(c) /\ ~LockOk(c, DMS2, Shared)
  BY <1>6, LockFrame DEF ConnectDms2
<1>7. CASE ConnectUnlock(c)
  <2>1. pc'[c] = "open" /\ \A d \in Conn \ {c} : pc'[d] = pc[d]
    BY <1>7, GotoPc DEF ConnectUnlock
  <2>2. LocksOK'
    BY <1>7, <2>1, DropStep, LockNumbers DEF ConnectUnlock
  <2>3. /\ \A d \in Conn \ {c} : mLock'[d] = mLock[d]
        /\ mLock'[c][DMS1] = Unlock
        /\ \A l \in Locks \ {DMS1} : mLock'[c][l] = mLock[c][l]
    BY <1>7, DropHeld, LockNumbers DEF ConnectUnlock
  <2>4. HeldBy(c) /\ pc[c] = "connected"
    BY <1>7 DEF HeldOK, ConnectUnlock
  <2>5. HeldBy(c)'
    BY <2>1, <2>3, <2>4, LockNumbers
    DEF HeldBy, ExclDms1, SharedDms1, HaveDms2, HaveDms3, HaveTrans
  <2>. QED BY <2>1, <2>2, <2>3, <2>5, HeldByOthers
<1>8. CASE ConnectFail(c)
  BY <1>8, ReleaseAll, ReleaseHeld, ReleaseStep, LockNumbers DEF ConnectFail
<1>. QED BY <1>1, <1>2, <1>3, <1>4, <1>5, <1>6, <1>7, <1>8 DEF Connect

LEMMA LeaveHeld ==
  ASSUME TypeOK, HeldOK, LocksOK, NEW c \in Conn, Close(c) \/ Disconnect(c)
  PROVE  HeldOK' /\ LocksOK'
<1>. USE DEF SamePlaces
<1>1. CASE Close(c) /\ LockOk(c, DMS1, Excl)
  <2>1. pc'[c] = "last" /\ \A d \in Conn \ {c} : pc'[d] = pc[d]
    BY <1>1, GotoPc DEF Close
  <2>2. LocksOK'
    BY <1>1, <2>1, TakeStep, LockNumbers DEF Close
  <2>3. /\ \A d \in Conn \ {c} : mLock'[d] = mLock[d]
        /\ mLock'[c][DMS1] = Excl
        /\ \A l \in Locks \ {DMS1} : mLock'[c][l] = mLock[c][l]
    BY <1>1, TakeHeld, LockNumbers DEF Close, Modes
  <2>4. HeldBy(c) /\ pc[c] = "open"
    BY <1>1 DEF HeldOK, Close
  <2>5. HeldBy(c)'
    BY <2>1, <2>3, <2>4, LockNumbers
    DEF HeldBy, ExclDms1, SharedDms1, HaveDms2, HaveDms3, HaveTrans
  <2>. QED BY <2>1, <2>2, <2>3, <2>5, HeldByOthers
<1>2. CASE Close(c) /\ ~LockOk(c, DMS1, Excl)
  BY <1>2, LockFrame DEF Close
<1>3. CASE DisconnectTest(c)
  BY <1>3, LockFrame DEF DisconnectTest
<1>4. CASE DisconnectFlush(c)
  BY <1>4, LockFrame DEF DisconnectFlush
<1>5. CASE DisconnectDelete(c)
  BY <1>5, LockFrame DEF DisconnectDelete
<1>6. CASE DisconnectUnlink(c)
  BY <1>6, LockFrame DEF DisconnectUnlink
<1>7. CASE DisconnectRwclient(c)
  <2>. DEFINE S == {l \in Rwclients : mLock[c][l] # Unlock}
  <2>1. S \in SUBSET Locks /\ Drop(c, S) /\ pc[c] = "release"
    BY <1>7, LockNumbers DEF DisconnectRwclient
  <2>2. pc'[c] = "leave" /\ \A d \in Conn \ {c} : pc'[d] = pc[d]
    BY <1>7, GotoPc DEF DisconnectRwclient
  <2>3. LocksOK'
    BY <2>1, <2>2, DropStep
  <2>4. /\ \A d \in Conn \ {c} : mLock'[d] = mLock[d]
        /\ \A l \in S : mLock'[c][l] = Unlock
        /\ \A l \in Locks \ S : mLock'[c][l] = mLock[c][l]
    BY <2>1, DropHeld
  <2>5. /\ \A l \in Rwclients : mLock'[c][l] = Unlock
        /\ \A l \in {DMS1, DMS2, DMS3, ROTRANS} : mLock'[c][l] = mLock[c][l]
    BY <2>4, LockNumbers
  <2>6. HeldBy(c)
    BY DEF HeldOK
  <2>7. HeldBy(c)'
    BY <2>1, <2>2, <2>5, <2>6
    DEF HeldBy, ExclDms1, SharedDms1, HaveDms2, HaveDms3, HaveTrans
  <2>. QED BY <2>2, <2>3, <2>4, <2>7, HeldByOthers
<1>8. CASE DisconnectRelease(c)
  BY <1>8, ReleaseAll, ReleaseHeld, ReleaseStep, LockNumbers DEF DisconnectRelease
<1>. QED BY <1>1, <1>2, <1>3, <1>4, <1>5, <1>6, <1>7, <1>8 DEF Disconnect

LEMMA WorkHeld ==
  ASSUME TypeOK, HeldOK, LocksOK, NEW c \in Conn, Work(c)
  PROVE  HeldOK' /\ LocksOK'
<1>. USE DEF SamePlaces
<1>1. CASE Commit(c) \/ Checkpoint(c)
  <2>1. UNCHANGED <<lockVars, pc>>
    BY <1>1 DEF Commit, Checkpoint
  <2>2. HeldOK'
    BY <2>1 DEF HeldOK, HeldBy, lockVars
  <2>. QED BY <2>1, <2>2, LocksKept
<1>2. CASE BlockDetect(c)
  BY <1>2, LockFrame DEF BlockDetect
<1>3. CASE BlockReuse(c)
  BY <1>3, LockFrame DEF BlockReuse
<1>4. CASE LogDetect(c)
  BY <1>4, LockFrame DEF LogDetect
<1>5. CASE LogReclaim(c)
  BY <1>5, LockFrame DEF LogReclaim
<1>. QED BY <1>1, <1>2, <1>3, <1>4, <1>5 DEF Work

\* The two locks that lsmBeginRoTrans() changes in one step, to DMS3 when the
\* system is live and to ROTRANS when it is not.
LEMMA RoChangeHeld ==
  ASSUME TypeOK, HeldOK, LocksOK, NEW c \in Conn, pc[c] # "closed",
         NEW m \in {DMS3, ROTRANS},
         ShmLock(c, [l \in {DMS1, m} |-> IF l = DMS1 THEN Unlock ELSE Shared]),
         \A d \in Conn \ {c} : pc'[d] = pc[d]
  PROVE  /\ LocksOK'
         /\ \A d \in Conn \ {c} : mLock'[d] = mLock[d]
         /\ mLock'[c][DMS1] = Unlock /\ mLock'[c][m] = Shared
         /\ \A l \in Locks \ {DMS1, m} : mLock'[c][l] = mLock[c][l]
<1>. DEFINE change == [l \in {DMS1, m} |-> IF l = DMS1 THEN Unlock ELSE Shared]
<1>1. change \in [{DMS1, m} -> Modes] /\ {DMS1, m} \in SUBSET Locks
  BY RoChange
<1>2. change[DMS1] = Unlock /\ change[m] = Shared
  BY LockNumbers
<1>3. ShmLock(c, change)
  OBVIOUS
<1>. HIDE DEF change
<1>4. \A l \in {DMS1, m} : change[l] # Unlock => LockOk(c, l, change[l])
  BY <1>2, RoLocksGranted
<1>5. LocksOK'
  BY <1>1, <1>3, <1>4, LockStep
<1>. QED BY <1>1, <1>2, <1>3, <1>5, ShmLockHeld

LEMMA RoHeld ==
  ASSUME ~TestFails, TypeOK, HeldOK, LocksOK, NEW c \in Conn,
         RoBegin(c) \/ RoStep(c) \/ RoTransFinish(c) \/ RoClose(c)
  PROVE  HeldOK' /\ LocksOK'
<1>. USE DEF SamePlaces
<1>0. HeldBy(c)
  BY DEF HeldOK
<1>1. CASE RoBegin(c)
  <2>1. pc'[c] = "roTest" /\ pc[c] = "idle" /\ \A d \in Conn \ {c} : pc'[d] = pc[d]
    BY <1>1, GotoPc DEF RoBegin
  <2>2. LocksOK'
    BY <1>1, <2>1, TakeStep, LockNumbers DEF RoBegin
  <2>3. /\ \A d \in Conn \ {c} : mLock'[d] = mLock[d]
        /\ mLock'[c][DMS1] = Shared
        /\ \A l \in Locks \ {DMS1} : mLock'[c][l] = mLock[c][l]
    BY <1>1, TakeHeld, LockNumbers DEF RoBegin, Modes
  <2>4. HeldBy(c)'
    BY <1>0, <2>1, <2>3, LockNumbers
    DEF HeldBy, ExclDms1, SharedDms1, HaveDms2, HaveDms3, HaveTrans
  <2>. QED BY <2>1, <2>2, <2>3, <2>4, HeldByOthers
<1>2. CASE RoTest(c)
  BY <1>2, LockFrame DEF RoTest
<1>3. CASE RoTransLock(c)
  <2>1. pc'[c] = "roCkpt" /\ pc[c] = "roDead" /\ \A d \in Conn \ {c} : pc'[d] = pc[d]
    BY <1>3, GotoPc DEF RoTransLock
  <2>2. /\ LocksOK'
        /\ \A d \in Conn \ {c} : mLock'[d] = mLock[d]
        /\ mLock'[c][DMS1] = Unlock /\ mLock'[c][ROTRANS] = Shared
        /\ \A l \in Locks \ {DMS1, ROTRANS} : mLock'[c][l] = mLock[c][l]
    BY <1>3, <2>1, RoChangeHeld DEF RoTransLock
  <2>3. HeldBy(c)'
    BY <1>0, <2>1, <2>2, LockNumbers
    DEF HeldBy, ExclDms1, SharedDms1, HaveDms2, HaveDms3, HaveTrans
  <2>. QED BY <2>1, <2>2, <2>3, HeldByOthers
<1>4. CASE RoTransCkpt(c)
  BY <1>4, LockFrame DEF RoTransCkpt
<1>5. CASE RoTransLog(c)
  BY <1>5, LockFrame DEF RoTransLog
<1>6. CASE RoLiveLock(c)
  <2>1. pc'[c] = "roMap" /\ pc[c] = "roLive" /\ \A d \in Conn \ {c} : pc'[d] = pc[d]
    BY <1>6, GotoPc DEF RoLiveLock
  <2>2. /\ LocksOK'
        /\ \A d \in Conn \ {c} : mLock'[d] = mLock[d]
        /\ mLock'[c][DMS1] = Unlock /\ mLock'[c][DMS3] = Shared
        /\ \A l \in Locks \ {DMS1, DMS3} : mLock'[c][l] = mLock[c][l]
    BY <1>6, <2>1, RoChangeHeld DEF RoLiveLock
  <2>3. HeldBy(c)'
    BY <1>0, <2>1, <2>2, LockNumbers
    DEF HeldBy, ExclDms1, SharedDms1, HaveDms2, HaveDms3, HaveTrans
  <2>. QED BY <2>1, <2>2, <2>3, HeldByOthers
<1>7. CASE RoLiveMap(c)
  BY <1>7, LockFrame DEF RoLiveMap
<1>8. CASE RoTransFinish(c)
  <2>1. pc'[c] = "idle" /\ pc[c] = "rotrans" /\ \A d \in Conn \ {c} : pc'[d] = pc[d]
    BY <1>8, GotoPc DEF RoTransFinish
  <2>2. LocksOK'
    BY <1>8, <2>1, DropStep, LockNumbers DEF RoTransFinish
  <2>3. /\ \A d \in Conn \ {c} : mLock'[d] = mLock[d]
        /\ mLock'[c][ROTRANS] = Unlock
        /\ \A l \in Locks \ {ROTRANS} : mLock'[c][l] = mLock[c][l]
    BY <1>8, DropHeld, LockNumbers DEF RoTransFinish
  <2>4. HeldBy(c)'
    BY <1>0, <2>1, <2>3, LockNumbers
    DEF HeldBy, ExclDms1, SharedDms1, HaveDms2, HaveDms3, HaveTrans
  <2>. QED BY <2>1, <2>2, <2>3, <2>4, HeldByOthers
<1>9. CASE RoClose(c)
  BY <1>9, ReleaseAll, ReleaseHeld, ReleaseStep, LockNumbers DEF RoClose
<1>. QED BY <1>1, <1>2, <1>3, <1>4, <1>5, <1>6, <1>7, <1>8, <1>9 DEF RoStep

LEMMA HeldStep ==
  ASSUME ~TestFails, TypeOK, HeldOK, LocksOK, Next
  PROVE  HeldOK' /\ LocksOK'
<1>1. ASSUME NEW c \in Conn, Open(c) PROVE HeldOK' /\ LocksOK'
  <2>1. HeldOK'
    <3>1. /\ pc[c] = "closed" /\ pc'[c] \in {"cache", "idle"} /\ mLock' = mLock
          /\ \A d \in Conn \ {c} : pc'[d] = pc[d]
      BY <1>1, GotoPc DEF Open
    <3>2. HeldBy(c)
      BY DEF HeldOK
    <3>3. HeldBy(c)'
      BY <3>1, <3>2
      DEF HeldBy, ExclDms1, SharedDms1, HaveDms2, HaveDms3, HaveTrans
    <3>. QED BY <3>1, <3>3, HeldByOthers
  <2>. QED BY <1>1, <2>1, OpenLocks
<1>2. RW \subseteq Conn /\ RO \subseteq Conn
  BY DEF Conn
<1>. QED BY <1>1, <1>2, ConnectHeld, LeaveHeld, WorkHeld, RoHeld, CrashHeld, CrashLocks
         DEF Next, Die, Fault

-----------------------------------------------------------------------------
(* What the agreement of the locks is worth *)

LEMMA FileHas ==
  ASSUME TypeOK, HeldOK, LocksOK, NEW c \in Conn, NEW l \in Locks
  PROVE  /\ MultiProc(Proc(c)) => mLock[c][l] <= flock[Proc(c)][l]
         /\ mLock[c][DMS2] # Unlock => flock[Proc(c)][DMS2] # Unlock
         /\ ~MultiProc(Proc(c)) /\ pc[c] # "closed" => flock[Proc(c)][DMS2] = Excl
<1>1. Proc(c) \in Procs /\ c \in Proc(c) /\ DMS2 \in Locks
  BY ProcOf, LockNumbers
<1>2. MultiProc(Proc(c)) => \A k \in Locks : mLock[c][k] <= flock[Proc(c)][k]
  BY <1>1 DEF LocksOK, Backing, Covers
<1>3. ~MultiProc(Proc(c)) /\ pc[c] # "closed" => flock[Proc(c)][DMS2] = Excl
  BY <1>1 DEF LocksOK, SingleFiles, SingleHolds
<1>4. mLock[c][DMS2] # Unlock => pc[c] # "closed"
  BY <1>1, ClosedFree
<1>5. mLock[c][DMS2] \in {Unlock, Shared, Excl} /\ flock[Proc(c)][DMS2] \in {Unlock, Shared, Excl}
  BY <1>1, LockValues
<1>. QED BY <1>2, <1>3, <1>4, <1>5, <1>1 DEF Unlock, Shared, Excl

\* Connections of one process, or of two that use the file, hold no
\* conflicting locks.
LEMMA NoConflict ==
  ASSUME TypeOK, HeldOK, LocksOK, NEW c \in Conn, NEW d \in Conn \ {c}, NEW l \in Locks,
         Proc(c) = Proc(d) \/ (MultiProc(Proc(c)) /\ MultiProc(Proc(d)))
  PROVE  ~Conflict(mLock[c][l], mLock[d][l])
<1>1. CASE Proc(c) = Proc(d)
  BY <1>1 DEF LocksOK, ProcessExclusion
<1>2. CASE Proc(c) # Proc(d)
  <2>1. Proc(c) \in Procs /\ Proc(d) \in Procs
    BY ProcOf
  <2>2. ~Conflict(flock[Proc(c)][l], flock[Proc(d)][l])
    BY <1>2, <2>1 DEF LocksOK, FileExclusion
  <2>3. mLock[c][l] <= flock[Proc(c)][l] /\ mLock[d][l] <= flock[Proc(d)][l]
    BY <1>2, FileHas
  <2>4. /\ mLock[c][l] \in {Unlock, Shared, Excl} /\ mLock[d][l] \in {Unlock, Shared, Excl}
        /\ flock[Proc(c)][l] \in {Unlock, Shared, Excl}
        /\ flock[Proc(d)][l] \in {Unlock, Shared, Excl}
    BY <2>1, LockValues
  <2>. QED BY <2>2, <2>3, <2>4 DEF Conflict, Unlock, Shared, Excl
<1>. QED BY <1>1, <1>2

\* doDbConnect(): a connection that finds DMS2 free is the only one.
LEMMA FirstAlone ==
  ASSUME TypeOK, HeldOK, LocksOK, NEW c \in Conn, pc[c] # "closed",
         TestLock(c, DMS2, 2, Excl), NEW d \in Conn \ {c}
  PROVE  mLock[d][DMS2] = Unlock
<1>. SUFFICES ASSUME mLock[d][DMS2] # Unlock PROVE FALSE
  OBVIOUS
<1>1. DMS2 \in Locks /\ Proc(c) \in Procs /\ Proc(d) \in Procs
  BY LockNumbers, ProcOf
<1>2. CASE Proc(d) = Proc(c)
  <2>1. d \in Proc(c) \ {c}
    BY <1>2, ProcOf
  <2>2. d \in Others(c)
    BY <1>1, <2>1, HoldersListed
  <2>. QED BY <2>2 DEF TestLock, Conflict, Unlock, Excl
<1>3. CASE Proc(d) # Proc(c)
  <2>1. flock[Proc(d)][DMS2] # Unlock
    BY <1>1, FileHas
  <2>2. CASE MultiProc(Proc(c))
    <3>1. DMS2 \in TestRange(DMS2, 2)
      BY <1>1 DEF TestRange, DMS2
    <3>2. FileFree(Proc(c), DMS2, Excl)
      BY <2>2, <3>1 DEF TestLock
    <3>. QED BY <1>1, <1>3, <2>1, <3>2 DEF FileFree, Conflict, Unlock, Excl
  <2>3. CASE ~MultiProc(Proc(c))
    <3>1. flock[Proc(c)][DMS2] = Excl
      BY <1>1, <2>3, FileHas
    <3>2. ~Conflict(flock[Proc(c)][DMS2], flock[Proc(d)][DMS2])
      BY <1>1, <1>3 DEF LocksOK, FileExclusion
    <3>. QED BY <2>1, <3>1, <3>2 DEF Conflict, Unlock, Excl
  <2>. QED BY <2>2, <2>3
<1>. QED BY <1>2, <1>3

\* While a connection recovers, only a process in single-process mode gets
\* as far as the lock on DMS2.
LEMMA SecondWaits ==
  ASSUME TypeOK, HeldOK, LocksOK, NEW c \in Conn, NEW d \in Conn \ {c},
         pc[c] = "recover", pc[d] = "dms2", LockOk(d, DMS2, Shared)
  PROVE  MultiProc(Proc(c)) /\ ~MultiProc(Proc(d))
<1>1. DMS1 \in Locks /\ DMS2 \in Locks /\ Proc(c) \in Procs /\ Proc(d) \in Procs
  BY LockNumbers, ProcOf
<1>2. mLock[c][DMS1] = Excl /\ mLock[d][DMS1] = Excl
  BY DEF HeldOK, HeldBy, ExclDms1
<1>3. Proc(c) # Proc(d) /\ ~(MultiProc(Proc(c)) /\ MultiProc(Proc(d)))
  BY <1>1, <1>2, NoConflict DEF Conflict, Unlock, Excl
<1>4. ASSUME ~MultiProc(Proc(c)) PROVE FALSE
  <2>1. flock[Proc(c)][DMS2] = Excl
    BY <1>1, <1>4, FileHas
  <2>2. ~Conflict(flock[Proc(c)][DMS2], flock[Proc(d)][DMS2])
    BY <1>1, <1>3 DEF LocksOK, FileExclusion
  <2>3. flock[Proc(d)][DMS2] = Unlock
    BY <2>1, <2>2 DEF Conflict, Unlock, Excl
  <2>4. MultiProc(Proc(d))
    BY <1>1, <2>3, FileHas DEF Unlock, Excl
  <2>5. \A x \in Others(d) : mLock[x][DMS2] = Unlock
    <3>1. \A x \in Others(d) : x \in Conn /\ Proc(x) = Proc(d)
      BY <1>1, Members DEF Others
    <3>. QED BY <1>1, <2>3, <3>1, FileHas
  <2>6. FileFree(Proc(d), DMS2, Shared)
    BY <2>4, <2>5 DEF LockOk
  <2>. QED BY <1>1, <1>3, <2>1, <2>6 DEF FileFree, Conflict, Unlock, Shared, Excl
<1>. QED BY <1>3, <1>4

-----------------------------------------------------------------------------
(* Memory and recovery *)

LEMMA RecoverKept ==
  ASSUME HeldOK, HeldOK', RecoverAlone,
         \A c \in Conn : pc'[c] = "recover" => pc[c] = "recover",
         \A c \in Conn : pc'[c] \in HaveDms2 => pc[c] \in HaveDms2
  PROVE  RecoverAlone'
<1>1. \A c \in Conn : mLock'[c][DMS2] # Unlock => mLock[c][DMS2] # Unlock
  BY DEF HeldOK, HeldBy, Unlock, Shared
<1>. QED BY <1>1 DEF RecoverAlone, MultiProc

LEMMA ReleaseMemory ==
  ASSUME TypeOK, MemoryOK, NEW c \in Conn, NEW S, Release(c, S)
  PROVE  MemoryOK'
<1>1. Proc(c) \in Procs
  BY ProcOf
<1>2. /\ ptr'[c] = None /\ \A d \in Conn \ {c} : ptr'[d] = ptr[d] /\ pc'[d] = pc[d]
      /\ path' = path
      /\ \A Q \in Procs \ {Proc(c)} : chunk'[Q] = chunk[Q]
      /\ chunk'[Proc(c)] = IF Others(c) = {} THEN None ELSE chunk[Proc(c)]
  BY <1>1 DEF Release, Reset, TypeOK
<1>3. ASSUME NEW d \in Conn, ptr'[d] # None
      PROVE  ptr'[d] = chunk'[Proc(d)] /\ pc'[d] # "closed"
  <2>1. d # c /\ ptr[d] = chunk[Proc(d)] /\ pc[d] # "closed"
    BY <1>2, <1>3 DEF MemoryOK
  <2>2. Proc(d) = Proc(c) => d \in Others(c)
    BY <2>1, ProcOf DEF Others
  <2>. QED BY <1>2, <2>1, <2>2, ProcOf
<1>4. \A Q \in Procs : chunk'[Q] = chunk[Q] \/ chunk'[Q] = None
  BY <1>2
<1>. QED BY <1>2, <1>3, <1>4 DEF MemoryOK, MultiProc

LEMMA CrashMemory ==
  ASSUME TypeOK, MemoryOK, NEW P \in Procs, Crash(P)
  PROVE  MemoryOK'
<1>1. /\ \A c \in P : ptr'[c] = None
      /\ \A c \in Conn \ P : ptr'[c] = ptr[c] /\ pc'[c] = pc[c]
      /\ path' = path
      /\ \A Q \in Procs \ {P} : chunk'[Q] = chunk[Q]
      /\ chunk'[P] = None
  BY Members DEF Crash, Reset, TypeOK
<1>2. \A c \in Conn \ P : Proc(c) \in Procs \ {P}
  BY ProcOf
<1>3. \A Q \in Procs : chunk'[Q] = chunk[Q] \/ chunk'[Q] = None
  BY <1>1
<1>. QED BY <1>1, <1>2, <1>3 DEF MemoryOK, MultiProc

LEMMA CacheMemory ==
  ASSUME TypeOK, MemoryOK, NEW c \in Conn, CacheChunks(c), NEW l, Goto(c, l), l # "closed"
  PROVE  MemoryOK'
<1>1. Proc(c) \in Procs /\ c \in Proc(c)
  BY ProcOf
<1>2. PICK i \in Inodes :
           /\ ptr' = [ptr EXCEPT ![c] = i]
           /\ chunk' = [chunk EXCEPT ![Proc(c)] = i]
           /\ chunk[Proc(c)] # None => i = chunk[Proc(c)] /\ path' = path
           /\ chunk[Proc(c)] = None =>
                \/ MultiProc(Proc(c)) /\ i = path /\ path' = path
                \/ /\ i # path /\ \A P \in Procs : chunk[P] # i
                   /\ path' = IF MultiProc(Proc(c)) THEN i ELSE path
  BY ChunkOf
<1>3. /\ ptr'[c] = i /\ \A d \in Conn \ {c} : ptr'[d] = ptr[d] /\ pc'[d] = pc[d]
      /\ pc'[c] # "closed"
      /\ chunk'[Proc(c)] = i /\ \A Q \in Procs \ {Proc(c)} : chunk'[Q] = chunk[Q]
  BY <1>1, <1>2, GotoPc DEF TypeOK
<1>4. ASSUME NEW d \in Conn, ptr'[d] # None
      PROVE  ptr'[d] = chunk'[Proc(d)] /\ pc'[d] # "closed"
  <2>1. CASE d = c
    BY <1>3, <2>1
  <2>2. CASE d # c
    <3>1. ptr[d] = chunk[Proc(d)] /\ pc[d] # "closed" /\ ptr[d] # None
      BY <1>3, <1>4, <2>2 DEF MemoryOK
    <3>. QED BY <1>2, <1>3, <2>2, <3>1, ProcOf
  <2>. QED BY <2>1, <2>2
<1>5. ASSUME NEW P \in Procs, ~MultiProc(P), chunk'[P] # None
      PROVE  path' # chunk'[P] /\ \A Q \in Procs \ {P} : chunk'[Q] # chunk'[P]
  <2>1. chunk[P] # None => /\ path # chunk[P]
                           /\ \A Q \in Procs \ {P} : chunk[Q] # chunk[P]
    BY <1>5 DEF MemoryOK
  <2>2. CASE P = Proc(c)
    BY <1>2, <1>3, <1>5, <2>1, <2>2
  <2>3. CASE P # Proc(c)
    BY <1>1, <1>2, <1>3, <1>5, <2>1, <2>3
  <2>. QED BY <2>2, <2>3
<1>. QED BY <1>4, <1>5 DEF MemoryOK, MultiProc

\* A step that stays inside the library, maps nothing and unlinks nothing.
LEMMA MemoryFrame ==
  ASSUME TypeOK, MemoryOK, UNCHANGED <<path, chunk, ptr>>,
         NEW c \in Conn, NEW l, Goto(c, l), l # "closed"
  PROVE  MemoryOK'
BY MemoryKept, GotoPc

LEMMA MemoryStep ==
  ASSUME TypeOK, MemoryOK, Next
  PROVE  MemoryOK'
<1>. USE DEF shmVars, connVars
<1>1. ASSUME NEW c \in Conn, Connect(c) PROVE MemoryOK'
  <2>1. CASE ConnectCache(c)
    BY <2>1, CacheMemory DEF ConnectCache
  <2>2. CASE ConnectLock(c) \/ ConnectTest(c) \/ ConnectRecover(c)
             \/ ConnectDms2(c) \/ ConnectUnlock(c)
    BY <2>2, MemoryFrame
    DEF ConnectLock, ConnectTest, ConnectRecover, ConnectDms2, ConnectUnlock
  <2>3. CASE ConnectFail(c)
    BY <2>3, ReleaseMemory DEF ConnectFail
  <2>. QED BY <1>1, <2>1, <2>2, <2>3 DEF Connect
<1>2. ASSUME NEW c \in Conn, Work(c) PROVE MemoryOK'
  <2>1. CASE Commit(c) \/ Checkpoint(c)
    BY <2>1, MemoryKept DEF Commit, Checkpoint
  <2>2. CASE BlockDetect(c) \/ BlockReuse(c) \/ LogDetect(c) \/ LogReclaim(c)
    BY <2>2, MemoryFrame DEF BlockDetect, BlockReuse, LogDetect, LogReclaim
  <2>. QED BY <1>2, <2>1, <2>2 DEF Work
<1>3. ASSUME NEW c \in Conn, Close(c) \/ Disconnect(c) PROVE MemoryOK'
  <2>1. CASE Close(c) \/ DisconnectTest(c) \/ DisconnectFlush(c)
             \/ DisconnectDelete(c) \/ DisconnectRwclient(c)
    BY <2>1, MemoryFrame
    DEF Close, DisconnectTest, DisconnectFlush, DisconnectDelete, DisconnectRwclient
  <2>2. CASE DisconnectUnlink(c)
    <3>1. /\ path' = None \/ path' = path
          /\ UNCHANGED <<chunk, ptr>>
          /\ \A d \in Conn : pc'[d] = "closed" => pc[d] = "closed"
      BY <2>2, GotoPc DEF DisconnectUnlink
    <3>. QED BY <3>1 DEF MemoryOK, MultiProc
  <2>3. CASE DisconnectRelease(c)
    BY <2>3, ReleaseMemory DEF DisconnectRelease
  <2>. QED BY <1>3, <2>1, <2>2, <2>3 DEF Disconnect
<1>4. ASSUME NEW c \in Conn, RoBegin(c) \/ RoStep(c) \/ RoTransFinish(c) \/ RoClose(c)
      PROVE  MemoryOK'
  <2>1. CASE RoBegin(c) \/ RoTest(c) \/ RoTransLock(c) \/ RoTransCkpt(c)
             \/ RoTransLog(c) \/ RoLiveLock(c)
    BY <2>1, MemoryFrame
    DEF RoBegin, RoTest, RoTransLock, RoTransCkpt, RoTransLog, RoLiveLock
  <2>2. CASE RoLiveMap(c)
    BY <2>2, CacheMemory DEF RoLiveMap
  <2>3. CASE RoTransFinish(c)
    <3>1. /\ UNCHANGED <<path, chunk>>
          /\ \A d \in Conn : ptr'[d] = ptr[d] \/ ptr'[d] = None
          /\ \A d \in Conn : pc'[d] = "closed" => pc[d] = "closed"
      BY <2>3, GotoPc DEF RoTransFinish, Reset
    <3>. QED BY <3>1 DEF MemoryOK, MultiProc
  <2>4. CASE RoClose(c)
    BY <2>4, ReleaseMemory DEF RoClose
  <2>. QED BY <1>4, <2>1, <2>2, <2>3, <2>4 DEF RoStep
<1>5. ASSUME NEW c \in Conn, Open(c) PROVE MemoryOK'
  BY <1>5, MemoryFrame DEF Open
<1>6. RW \subseteq Conn /\ RO \subseteq Conn
  BY DEF Conn
<1>. QED BY <1>1, <1>2, <1>3, <1>4, <1>5, <1>6, CrashMemory DEF Next, Die, Fault

\* A step that enters neither recovery nor the part that holds DMS2.
LEMMA RecoverFrame ==
  ASSUME TypeOK, HeldOK, HeldOK', RecoverAlone, NEW c \in Conn, NEW l, Goto(c, l),
         l # "recover", l \in HaveDms2 => pc[c] \in HaveDms2
  PROVE  RecoverAlone'
BY RecoverKept, GotoPc

LEMMA RecoverStep ==
  ASSUME TypeOK, HeldOK, LocksOK, HeldOK', RecoverAlone, Next
  PROVE  RecoverAlone'
<1>. USE DEF HaveDms2
<1>1. ASSUME NEW c \in Conn, Connect(c) PROVE RecoverAlone'
  <2>1. CASE ConnectCache(c) \/ ConnectLock(c) \/ ConnectRecover(c) \/ ConnectUnlock(c)
    BY <2>1, RecoverFrame
    DEF ConnectCache, ConnectLock, ConnectRecover, ConnectUnlock
  <2>2. CASE ConnectTest(c) /\ ~TestLock(c, DMS2, 2, Excl)
    BY <2>2, RecoverFrame DEF ConnectTest
  <2>3. CASE ConnectTest(c) /\ TestLock(c, DMS2, 2, Excl)
    <3>1. /\ \A d \in Conn \ {c} : mLock[d][DMS2] = Unlock
          /\ mLock' = mLock /\ \A d \in Conn \ {c} : pc'[d] = pc[d]
      BY <2>3, FirstAlone, GotoPc DEF ConnectTest, lockVars
    <3>2. mLock[c][DMS2] = Unlock
      BY <2>3 DEF ConnectTest, HeldOK, HeldBy
    <3>. QED BY <3>1, <3>2 DEF RecoverAlone
  <2>4. CASE ConnectDms2(c) /\ ~LockOk(c, DMS2, Shared)
    BY <2>4, RecoverFrame DEF ConnectDms2
  <2>5. CASE ConnectDms2(c) /\ LockOk(c, DMS2, Shared)
    <3>1. pc'[c] = "connected" /\ \A d \in Conn \ {c} : pc'[d] = pc[d]
      BY <2>5, GotoPc DEF ConnectDms2
    <3>. SUFFICES ASSUME NEW x \in Conn, NEW y \in Conn, x # y, pc'[x] = "recover",
                         mLock'[y][DMS2] # Unlock
                  PROVE  MultiProc(Proc(x)) /\ ~MultiProc(Proc(y))
      BY DEF RecoverAlone, MultiProc
    <3>2. pc[x] = "recover" /\ x # c
      BY <3>1
    <3>3. CASE y = c
      BY <2>5, <3>2, <3>3, SecondWaits DEF ConnectDms2
    <3>4. CASE y # c
      <4>1. pc'[y] \in HaveDms2
        BY DEF HeldOK, HeldBy
      <4>2. mLock[y][DMS2] # Unlock
        BY <3>1, <3>4, <4>1 DEF HeldOK, HeldBy, Shared, Unlock
      <4>. QED BY <3>2, <4>2 DEF RecoverAlone
    <3>. QED BY <3>3, <3>4
  <2>6. CASE ConnectFail(c)
    <3>1. pc'[c] = "closed" /\ \A d \in Conn \ {c} : pc'[d] = pc[d]
      BY <2>6 DEF ConnectFail, Release, TypeOK
    <3>. QED BY <3>1, RecoverKept
  <2>. QED BY <1>1, <2>1, <2>2, <2>3, <2>4, <2>5, <2>6 DEF Connect
<1>2. ASSUME NEW c \in Conn, Work(c) PROVE RecoverAlone'
  <2>1. CASE Commit(c) \/ Checkpoint(c)
    BY <2>1, RecoverKept DEF Commit, Checkpoint
  <2>2. CASE BlockDetect(c) \/ BlockReuse(c) \/ LogDetect(c) \/ LogReclaim(c)
    BY <2>2, RecoverFrame DEF BlockDetect, BlockReuse, LogDetect, LogReclaim
  <2>. QED BY <1>2, <2>1, <2>2 DEF Work
<1>3. ASSUME NEW c \in Conn, Close(c) \/ Disconnect(c) PROVE RecoverAlone'
  <2>1. CASE Close(c) \/ DisconnectTest(c) \/ DisconnectFlush(c)
             \/ DisconnectDelete(c) \/ DisconnectUnlink(c) \/ DisconnectRwclient(c)
    BY <2>1, RecoverFrame
    DEF Close, DisconnectTest, DisconnectFlush, DisconnectDelete, DisconnectUnlink,
        DisconnectRwclient
  <2>2. CASE DisconnectRelease(c)
    <3>1. pc'[c] = "closed" /\ \A d \in Conn \ {c} : pc'[d] = pc[d]
      BY <2>2 DEF DisconnectRelease, Release, TypeOK
    <3>. QED BY <3>1, RecoverKept
  <2>. QED BY <1>3, <2>1, <2>2 DEF Disconnect
<1>4. ASSUME NEW c \in Conn, RoBegin(c) \/ RoStep(c) \/ RoTransFinish(c) \/ RoClose(c)
      PROVE  RecoverAlone'
  <2>1. CASE RoBegin(c) \/ RoStep(c) \/ RoTransFinish(c)
    BY <2>1, RecoverFrame
    DEF RoBegin, RoStep, RoTest, RoTransLock, RoTransCkpt, RoTransLog, RoLiveLock,
        RoLiveMap, RoTransFinish
  <2>2. CASE RoClose(c)
    <3>1. pc'[c] = "closed" /\ \A d \in Conn \ {c} : pc'[d] = pc[d]
      BY <2>2 DEF RoClose, Release, TypeOK
    <3>. QED BY <3>1, RecoverKept
  <2>. QED BY <1>4, <2>1, <2>2
<1>5. ASSUME NEW c \in Conn, Open(c) PROVE RecoverAlone'
  BY <1>5, RecoverFrame DEF Open
<1>6. ASSUME NEW P \in Procs, Crash(P) PROVE RecoverAlone'
  <2>1. \A c \in Conn : pc'[c] \in {pc[c], "closed"}
    BY <1>6 DEF Crash
  <2>. QED BY <2>1, RecoverKept
<1>7. RW \subseteq Conn /\ RO \subseteq Conn
  BY DEF Conn
<1>. QED BY <1>1, <1>2, <1>3, <1>4, <1>5, <1>6, <1>7 DEF Next, Die, Fault

-----------------------------------------------------------------------------
(* The theorems *)

LEMMA InitConnect == Init => ConnectInv
<1>. SUFFICES ASSUME Init PROVE ConnectInv
  OBVIOUS
<1>1. TypeOK
  BY ConnectAssumption DEF Init, TypeOK, PcValues, Modes
<1>2. CountsOK
  BY DEF Init, CountsOK, Zeroed
<1>3. HeldOK
  BY LockNumbers
  DEF Init, HeldOK, HeldBy, ExclDms1, SharedDms1, HaveDms2, HaveDms3, HaveTrans
<1>4. LocksOK
  <2>1. \A P \in Procs : P # {} /\ \A c \in P : c \in Conn
    BY ConnectAssumption
  <2>2. Backing
    BY <2>1 DEF Init, Backing, Covers, Unlock
  <2>3. SingleFiles
    BY <2>1, LockNumbers DEF Init, SingleFiles, SingleHolds
  <2>. QED BY <2>2, <2>3
           DEF Init, LocksOK, FileExclusion, ProcessExclusion, Conflict
<1>5. MemoryOK /\ RecoverAlone
  BY LockNumbers DEF Init, MemoryOK, RecoverAlone
<1>. QED BY <1>1, <1>2, <1>3, <1>4, <1>5 DEF ConnectInv

LEMMA ConnectSame == ConnectInv /\ UNCHANGED vars => ConnectInv'
<1>. SUFFICES ASSUME ConnectInv, UNCHANGED vars PROVE ConnectInv'
  OBVIOUS
<1>. USE DEF vars, lockVars, shmVars, dbVars, roVars, connVars
<1>1. TypeOK' /\ CountsOK'
  BY DEF ConnectInv, TypeOK, CountsOK
<1>2. HeldOK'
  BY DEF ConnectInv, HeldOK, HeldBy
<1>3. LocksOK'
  BY LocksKept DEF ConnectInv
<1>4. MemoryOK' /\ RecoverAlone'
  BY DEF ConnectInv, MemoryOK, RecoverAlone, MultiProc
<1>. QED BY <1>1, <1>2, <1>3, <1>4 DEF ConnectInv

LEMMA ConnectInvariant ==
  ASSUME ~TestFails
  PROVE  Spec => []ConnectInv
<1>1. ConnectInv /\ Next => ConnectInv'
  BY TypeStep, HeldStep, MemoryStep, RecoverStep DEF ConnectInv
<1>. QED BY <1>1, InitConnect, ConnectSame, PTL DEF Spec

\* Types, and that recovery counts no commit twice: what a checkpoint, a log
\* or the shared memory holds is never more than was committed.
THEOREM ConnectTypeOK ==
  ASSUME ~TestFails
  PROVE  Spec => []TypeOK
BY ConnectInvariant, PTL DEF ConnectInv

LEMMA MaxMember ==
  ASSUME NEW S \in SUBSET Nat, NEW m \in S, \A x \in S : x <= m
  PROVE  m = Max(S)
<1>. DEFINE M == Max(S)
<1>1. M \in S /\ \A x \in S : M >= x
  BY DEF Max
<1>. HIDE DEF M
<1>2. m >= M /\ M >= m /\ m \in Nat /\ M \in Nat
  BY <1>1
<1>3. m = M
  BY <1>2
<1>. QED BY <1>3 DEF M

\* For any number of processes and connections, however they interleave and
\* wherever processes die: the POSIX lock lsmShmLock() keeps for a process is
\* the strongest of its connections' locks, and no two connections hold
\* conflicting ones.
THEOREM LockManagerCorrect ==
  ASSUME ~TestFails
  PROVE  Spec => []LocksBacked
<1>1. ConnectInv => LocksBacked
  <2>. SUFFICES ASSUME ConnectInv PROVE LocksBacked
    OBVIOUS
  <2>1. ASSUME NEW P \in Procs, NEW l \in Locks, MultiProc(P)
        PROVE  flock[P][l] = Max({mLock[c][l] : c \in P})
    <3>. DEFINE S == {mLock[c][l] : c \in P}
    <3>1. Covers(P, l)
      BY <2>1 DEF ConnectInv, LocksOK, Backing
    <3>2. \A c \in P : mLock[c][l] \in Nat
      BY LockValues, Members DEF ConnectInv, Unlock, Shared, Excl
    <3>3. S \in SUBSET Nat /\ flock[P][l] \in S /\ \A x \in S : x <= flock[P][l]
      BY <3>1, <3>2 DEF Covers
    <3>. HIDE DEF S
    <3>4. flock[P][l] = Max(S)
      BY <3>3, MaxMember
    <3>. QED BY <3>4 DEF S
  <2>2. ASSUME NEW c \in Sharers, NEW d \in Sharers, NEW l \in Locks, c # d
        PROVE  ~Conflict(mLock[c][l], mLock[d][l])
    BY <2>2, NoConflict DEF ConnectInv, Sharers
  <2>. QED BY <2>1, <2>2 DEF LocksBacked
<1>. QED BY <1>1, ConnectInvariant, PTL

\* "This lock serializes all calls to doDbConnect() and doDbDisconnect()
\* across all processes", for any number of them.
THEOREM ConnectOneAtATime ==
  ASSUME ~TestFails
  PROVE  Spec => []ConnectSerialized
<1>1. ConnectInv => ConnectSerialized
  <2>. SUFFICES ASSUME ConnectInv, NEW c \in Sharers, NEW d \in Sharers, c # d,
                       Connecting(c) \/ Leaving(c),
                       Connecting(d) \/ Leaving(d) \/ RoConnecting(d)
                PROVE  FALSE
    BY DEF ConnectSerialized
  <2>1. c \in Conn /\ d \in Conn \ {c} /\ MultiProc(Proc(c)) /\ MultiProc(Proc(d))
    BY DEF Sharers
  <2>2. mLock[c][DMS1] = Excl /\ mLock[d][DMS1] \in {Shared, Excl}
    BY <2>1
    DEF ConnectInv, HeldOK, HeldBy, Connecting, Leaving, RoConnecting, ExclDms1, SharedDms1
  <2>3. ~Conflict(mLock[c][DMS1], mLock[d][DMS1])
    BY <2>1, NoConflict, LockNumbers DEF ConnectInv
  <2>. QED BY <2>2, <2>3 DEF Conflict, Unlock, Shared, Excl
<1>. QED BY <1>1, ConnectInvariant, PTL

-----------------------------------------------------------------------------
(* Recovery comes before the first client has connected *)

\* Two connections that use one file of shared memory are of one process, or
\* both of processes that share it.
LEMMA SharedMemory ==
  ASSUME MemoryOK, NEW c \in Conn, NEW d \in Conn, ptr[c] # None, ptr[d] = ptr[c],
         Proc(c) # Proc(d)
  PROVE  MultiProc(Proc(c)) /\ MultiProc(Proc(d))
BY ProcOf DEF MemoryOK

\* What a connected client sees changes only forwards.
Forward(c) ==
  Connected(c) /\ Connected(c)' /\ Usable(c) => shm'[ptr'[c]] >= shm[ptr[c]]

LEMMA ForwardKept ==
  ASSUME TypeOK, NEW c \in Conn, ptr'[c] = ptr[c],
         Usable(c) => shm'[ptr[c]] = shm[ptr[c]]
  PROVE  Forward(c)
<1>1. Usable(c) => shm[ptr[c]] \in Int
  BY CountValues DEF Usable, TypeOK
<1>. QED BY <1>1 DEF Forward

LEMMA ForwardCache ==
  ASSUME TypeOK, MemoryOK, NEW d \in Conn, CacheChunks(d), ~Connected(d), NEW c \in Conn
  PROVE  Forward(c)
<1>1. CASE c = d
  BY <1>1 DEF Forward
<1>2. CASE c # d
  <2>1. PICK i \in Inodes :
           /\ ptr' = [ptr EXCEPT ![d] = i]
           /\ shm' = shm \/ (shm' = [shm EXCEPT ![i] = Zeroed] /\ \A P \in Procs : chunk[P] # i)
    BY ChunkOf
  <2>2. ptr'[c] = ptr[c]
    BY <1>2, <2>1 DEF TypeOK
  <2>3. Usable(c) => ptr[c] = chunk[Proc(c)] /\ ptr[c] \in Inodes
    BY DEF Usable, MemoryOK, TypeOK
  <2>4. Usable(c) => shm'[ptr[c]] = shm[ptr[c]]
    BY <2>1, <2>3, ProcOf DEF TypeOK
  <2>. QED BY <2>2, <2>4, ForwardKept
<1>. QED BY <1>1, <1>2

LEMMA ForwardStep ==
  ASSUME ConnectInv, [Next]_vars, NEW c \in Conn
  PROVE  Forward(c)
<1>. USE DEF shmVars, connVars
<1>0. TypeOK /\ HeldOK /\ LocksOK /\ MemoryOK /\ RecoverAlone
  BY DEF ConnectInv
<1>1. Connected(c) => mLock[c][DMS2] # Unlock
  BY <1>0 DEF Connected, HeldOK, HeldBy, HaveDms2, Unlock, Shared
<1>2. ASSUME NEW d \in Conn, Connect(d) PROVE Forward(c)
  <2>1. CASE ConnectCache(d)
    BY <1>0, <2>1, ForwardCache DEF ConnectCache, Connected
  <2>2. CASE ConnectTest(d)
    <3>1. CASE Connected(c) /\ TestLock(d, DMS2, 2, Excl)
      <4>1. c # d /\ pc[d] # "closed"
        BY <2>2, <3>1 DEF ConnectTest, Connected
      <4>2. mLock[c][DMS2] = Unlock
        BY <1>0, <3>1, <4>1, FirstAlone
      <4>. QED BY <1>1, <3>1, <4>2
    <3>2. CASE ~Connected(c)
      BY <3>2 DEF Forward
    <3>3. CASE ~TestLock(d, DMS2, 2, Excl)
      BY <1>0, <2>2, <3>3, ForwardKept DEF ConnectTest
    <3>. QED BY <3>1, <3>2, <3>3
  <2>3. CASE ConnectRecover(d)
    <3>1. CASE ~Connected(c)
      BY <3>1 DEF Forward
    <3>2. CASE Connected(c) /\ Usable(c) /\ ptr[c] = ptr[d]
      <4>1. c # d /\ pc[d] = "recover" /\ ptr[c] # None
        BY <2>3, <3>2 DEF ConnectRecover, Connected, Usable
      <4>2. MultiProc(Proc(d)) /\ ~MultiProc(Proc(c))
        BY <1>0, <1>1, <3>2, <4>1 DEF RecoverAlone
      <4>. QED BY <1>0, <3>2, <4>1, <4>2, SharedMemory
    <3>3. CASE Usable(c) => ptr[c] # ptr[d]
      BY <1>0, <2>3, <3>3, ForwardKept DEF ConnectRecover, Usable, TypeOK
    <3>. QED BY <3>1, <3>2, <3>3 DEF Forward
  <2>4. CASE ConnectLock(d) \/ ConnectDms2(d) \/ ConnectUnlock(d)
    BY <1>0, <2>4, ForwardKept DEF ConnectLock, ConnectDms2, ConnectUnlock
  <2>5. CASE ConnectFail(d)
    <3>1. shm' = shm /\ (c # d => ptr'[c] = ptr[c]) /\ (c = d => ~Connected(c))
      BY <2>5 DEF ConnectFail, Release, Reset, Connected
    <3>. QED BY <1>0, <3>1, ForwardKept DEF Forward
  <2>. QED BY <1>2, <2>1, <2>2, <2>3, <2>4, <2>5 DEF Connect
<1>3. ASSUME NEW d \in Conn, Work(d) PROVE Forward(c)
  <2>1. CASE Commit(d)
    <3>1. Usable(c) => ptr[c] \in Inodes /\ shm[ptr[c]] \in Int
      BY <1>0, CountValues DEF Usable, TypeOK
    <3>2. ptr[d] \in Inodes /\ shm[ptr[d]] \in Int
      BY <1>0, <2>1, CountValues DEF Commit, HeaderOk, Usable, TypeOK
    <3>3. shm' = [shm EXCEPT ![ptr[d]] = shm[ptr[d]] + 1] /\ ptr' = ptr
      BY <2>1 DEF Commit
    <3>4. Usable(c) => shm'[ptr[c]] >= shm[ptr[c]]
      BY <1>0, <3>1, <3>2, <3>3 DEF TypeOK
    <3>. QED BY <3>3, <3>4 DEF Forward
  <2>2. CASE Checkpoint(d) \/ BlockDetect(d) \/ BlockReuse(d) \/ LogDetect(d) \/ LogReclaim(d)
    BY <1>0, <2>2, ForwardKept
    DEF Checkpoint, BlockDetect, BlockReuse, LogDetect, LogReclaim
  <2>. QED BY <1>3, <2>1, <2>2 DEF Work
<1>4. ASSUME NEW d \in Conn, Close(d) \/ Disconnect(d) PROVE Forward(c)
  <2>1. CASE Close(d) \/ DisconnectTest(d) \/ DisconnectFlush(d)
             \/ DisconnectDelete(d) \/ DisconnectUnlink(d) \/ DisconnectRwclient(d)
    BY <1>0, <2>1, ForwardKept
    DEF Close, DisconnectTest, DisconnectFlush, DisconnectDelete, DisconnectUnlink,
        DisconnectRwclient
  <2>2. CASE DisconnectRelease(d)
    <3>1. shm' = shm /\ (c # d => ptr'[c] = ptr[c]) /\ (c = d => ~Connected(c))
      BY <2>2 DEF DisconnectRelease, Release, Reset, Connected
    <3>. QED BY <1>0, <3>1, ForwardKept DEF Forward
  <2>. QED BY <1>4, <2>1, <2>2 DEF Disconnect
<1>5. ASSUME NEW d \in Conn, RoBegin(d) \/ RoStep(d) \/ RoTransFinish(d) \/ RoClose(d)
      PROVE  Forward(c)
  <2>1. CASE RoBegin(d) \/ RoTest(d) \/ RoTransLock(d) \/ RoTransCkpt(d)
             \/ RoTransLog(d) \/ RoLiveLock(d)
    BY <1>0, <2>1, ForwardKept
    DEF RoBegin, RoTest, RoTransLock, RoTransCkpt, RoTransLog, RoLiveLock
  <2>2. CASE RoLiveMap(d)
    BY <1>0, <2>2, ForwardCache DEF RoLiveMap, Connected
  <2>3. CASE RoTransFinish(d) \/ RoClose(d)
    <3>1. shm' = shm /\ (c # d => ptr'[c] = ptr[c]) /\ (c = d => ~Connected(c))
      BY <2>3 DEF RoTransFinish, RoClose, Release, Reset, Connected
    <3>. QED BY <1>0, <3>1, ForwardKept DEF Forward
  <2>. QED BY <1>5, <2>1, <2>2, <2>3 DEF RoStep
<1>6. ASSUME NEW d \in Conn, Open(d) PROVE Forward(c)
  BY <1>0, <1>6, ForwardKept DEF Open
<1>7. ASSUME NEW P \in Procs, Crash(P) PROVE Forward(c)
  <2>1. /\ shm' = shm /\ (c \notin P => ptr'[c] = ptr[c])
        /\ c \in P => ~Connected(c)'
    BY <1>7 DEF Crash, Reset, Connected
  <2>. QED BY <1>0, <2>1, ForwardKept DEF Forward
<1>8. CASE UNCHANGED vars
  BY <1>0, <1>8, ForwardKept DEF vars
<1>9. RW \subseteq Conn /\ RO \subseteq Conn
  BY DEF Conn
<1>. QED BY <1>2, <1>3, <1>4, <1>5, <1>6, <1>7, <1>8, <1>9 DEF Next, Die, Fault

\* "There are no circumstances (including the unexpected failure of a writer
\* process) that may cause recovery to take place after the first client has
\* successfully connected": the test of DMS1 and DMS2 in doDbConnect()
\* guarantees it for any number of processes, those in single-process mode
\* and those that die included.
THEOREM RecoveryComesFirst ==
  ASSUME ~TestFails
  PROVE  Spec => NoRecoveryWhileConnected
<1>1. ConnectInv /\ [Next]_vars =>
        [\A c \in RW : Connected(c) /\ Connected(c)' /\ Usable(c)
                         => shm[ptr[c]]' >= shm[ptr[c]]]_vars
  <2>1. RW \subseteq Conn
    BY DEF Conn
  <2>. QED BY <2>1, ForwardStep DEF Forward
<1>. QED BY <1>1, ConnectInvariant, PTL DEF Spec, NoRecoveryWhileConnected
=============================================================================
