------------------------------ MODULE LsmSorted ------------------------------
(***************************************************************************)
(* The sorted runs of the LSM tree: a flush of the in-memory tree to a new *)
(* level, the incremental merge of levels, and the multi-cursor that reads *)
(* the tree and all runs in key order, forward or backward, also while a   *)
(* merge is under way.                                                     *)
(*                                                                         *)
(* A run is a set of entries, one for a key.  The flags of an entry are    *)
(* those of the code: INSERT or POINT (a point delete), and START or END   *)
(* when a range delete begins or ends at its key; a range delete covers    *)
(* the keys strictly between the two.  A level that is being merged has on *)
(* its left the merged run up to the split key, and on its right the runs  *)
(* it is merged from, of which only the keys from the split key on count.  *)
(*                                                                         *)
(* Left out: pages, the b-tree of a run and the pointers between runs      *)
(* (they only find the page), separator keys, and the free-list entries,   *)
(* which sort behind every user key.  The old in-memory tree is flushed as *)
(* it is made, so that there is one tree.                                  *)
(***************************************************************************)
EXTENDS Integers, FiniteSets, FiniteSetsExt, Sequences, SequencesExt

CONSTANTS NKey,       \* keys are 1..NKey
          NMerge,     \* lsm_db.nMerge
          MaxOp,      \* bound: write operations
          MaxLevel    \* bound: levels

ASSUME NKey \in Nat \ {0} /\ NMerge \in Nat \ {0} /\ MaxOp \in Nat /\ MaxLevel \in Nat

VARIABLES tree,    \* the entries of the in-memory tree
          levels,  \* Snapshot.pLevel, newest first
          map,     \* what was written: the value of each key, 0 if it has none
          nOp      \* write operations so far

vars == <<tree, levels, map, nOp>>

Keys == 1..NKey
Both == {"START", "END"}
Content == {"INSERT", "POINT"}
EOF == [k |-> 0, f |-> {}, v |-> 0]
Valid(e) == e.k # 0

At(run, k) == LET s == {e \in run : e.k = k} IN IF s = {} THEN EOF ELSE CHOOSE e \in s : TRUE
Above(run, k) ==
  LET s == {e \in run : e.k > k}
  IN  IF s = {} THEN EOF ELSE CHOOSE e \in s : \A d \in s : e.k <= d.k
Below(run, k) ==
  LET s == {e \in run : e.k < k}
  IN  IF s = {} THEN EOF ELSE CHOOSE e \in s : \A d \in s : d.k <= e.k
FirstOf(run) == Above(run, 0)
LastOf(run) == Below(run, NKey + 1)

----------------------------------------------------------------------------
(* The in-memory tree as a run.                                             *)

treeInsertEntry(run, flag, k, v) ==
  LET old == At(run, k)
      inside == ~Valid(old) /\ "START" \in Below(run, k).f
      redundant == \/ flag \in Both /\ flag \in old.f
                   \/ flag = "START" /\ inside
                   \/ flag = "END" /\ ~Valid(old) /\ "END" \in Above(run, k).f
      new == IF flag \in Both
             THEN [k |-> k, f |-> {flag} \cup old.f, v |-> old.v]
             ELSE [k |-> k, f |-> {flag} \cup (IF inside THEN Both ELSE old.f \cap Both),
                   v |-> v]
  IN  IF redundant THEN run ELSE (run \ {old}) \cup {new}

lsmTreeDelete(run, k1, k2) ==
  LET left == {e \in run : e.k <= k1 \/ e.k >= k2}
  IN  treeInsertEntry(treeInsertEntry(left, "START", k1, 0), "END", k2, 0)

----------------------------------------------------------------------------
(* Multi-cursors.  d describes what a cursor reads: the sub-cursors in the  *)
(* order of their age, newest first, and bIgnore (CURSOR_IGNORE_DELETE).  A *)
(* sub-cursor has its run, the index of its level's left-hand side (0 for   *)
(* the tree and in a merge), the split key and the number of runs on the    *)
(* right (0 if the level is not being merged).  A cursor c is the entries   *)
(* its sub-cursors point to, the sub-cursor on top (aTree[1], 0 before the  *)
(* first seek), the entry it has cached, and whether that was found by an   *)
(* exact seek (CURSOR_SEEK_EQ).                                             *)

Sub(run, lhs, split, nRight) == [run |-> run, lhs |-> lhs, split |-> split, nRight |-> nRight]

\* Sub-cursors of one level, the first of which gets number i.
multiCursorAddOne(lvl, i) ==
  <<Sub(lvl.lhs, i, lvl.split, Len(lvl.rhs))>>
  \o [j \in 1..Len(lvl.rhs) |-> Sub(lvl.rhs[j], i, lvl.split, Len(lvl.rhs))]

multiCursorInit(t, lvls) ==
  [sub |-> FoldLeft(LAMBDA s, lvl : s \o multiCursorAddOne(lvl, Len(s) + 1),
                    <<Sub(t, 0, 0, 0)>>, lvls),
   bIgnore |-> TRUE]

multiCursorAddRhs(lvl, bIgnore) ==
  [sub |-> [j \in 1..Len(lvl.rhs) |-> Sub(lvl.rhs[j], 0, 0, 0)], bIgnore |-> bIgnore]

multiCursorNew(d) ==
  [ptr |-> [i \in DOMAIN d.sub |-> EOF], top |-> 0, key |-> EOF, hit |-> FALSE]

lsmMCursorValid(c) == c.hit \/ (c.top # 0 /\ Valid(c.ptr[c.top]))

IsRhs(d, i) == d.sub[i].lhs \notin {0, i}
RhsOf(d, i) == (i + 1)..(i + d.sub[i].nRight)

\* sortedDbKeyCompare(): a bare end of a range sorts before its key, a bare
\* start after it, for cursors that skip deletes.
sortedDbKey(d, e) ==
  3 * e.k + (IF ~d.bIgnore THEN 0
             ELSE IF e.f = {"START"} THEN 1 ELSE IF e.f = {"END"} THEN -1 ELSE 0)

\* multiCursorDoCompare() over the whole tree aTree[]: of two equal keys the
\* newer one, unless it is a bare boundary and the older is not.
Winner(d, ptr, bReverse) ==
  LET valid == {i \in DOMAIN ptr : Valid(ptr[i])}
      bare(i) == IF ptr[i].f \cap Content = {} THEN 1 ELSE 0
      rank(i) == 2 * (IF bReverse THEN -1 ELSE 1) * sortedDbKey(d, ptr[i]) + bare(i)
      least == Min({rank(i) : i \in valid})
  IN  IF valid = {} THEN 1 ELSE Min({i \in valid : rank(i) = least})

\* Mutant: a range delete that goes on below the split key is forgotten.
segmentPtrAdvancePlain(s, e, bReverse, bRhs) ==
  LET p == Below(s.run, e.k)
  IN  IF ~bReverse THEN Above(s.run, e.k)
      ELSE IF bRhs /\ p.k < s.split THEN EOF ELSE p

\* Backward, a right-hand run ends at the split key; if a range delete goes on
\* below it, a delete of the split key stands for it.
segmentPtrAdvance(s, e, bReverse, bRhs) ==
  LET p == Below(s.run, e.k)
      q == IF p.k < s.split THEN EOF ELSE p
  IN  IF ~bReverse THEN Above(s.run, e.k)
      ELSE IF ~bRhs THEN p
      ELSE IF ~Valid(q) /\ "END" \in e.f
      THEN [k |-> s.split, f |-> {"START", "POINT"}, v |-> 0]
      ELSE q

segmentPtrEnd(d, i, bLast) ==
  LET s == d.sub[i]
      e == LastOf(s.run)
  IN  IF ~bLast THEN FirstOf(s.run)
      ELSE IF IsRhs(d, i) /\ e.k < s.split THEN EOF ELSE e

sortedRhsFirst(s) == Above(s.run, s.split - 1)

\* The runs of a composite level take turns: forward the right-hand ones after
\* the left-hand one, backward the other way round.
TakeTurns(d, ptr, i, bReverse) ==
  LET lhs == d.sub[i].lhs
  IN  IF Valid(ptr[i]) \/ d.sub[i].nRight = 0 THEN ptr
      ELSE IF ~bReverse /\ i = lhs
      THEN [j \in DOMAIN ptr |-> IF j \in RhsOf(d, i) THEN sortedRhsFirst(d.sub[j]) ELSE ptr[j]]
      ELSE IF bReverse /\ i # lhs /\ \A j \in RhsOf(d, lhs) : ~Valid(ptr[j])
      THEN [ptr EXCEPT ![lhs] = segmentPtrEnd(d, lhs, TRUE)]
      ELSE ptr

segmentCursorAdvance(d, ptr, i, bReverse) ==
  TakeTurns(d, [ptr EXCEPT ![i] = segmentPtrAdvance(d.sub[i], @, bReverse, IsRhs(d, i))],
            i, bReverse)

\* Is the entry on top one that the cursor stops at?  It is not if a newer
\* sub-cursor is about to leave a range delete.
mcursorLocationOk(d, c, bReverse) ==
  /\ d.bIgnore => "INSERT" \in c.key.f
  /\ \A i \in 1..(c.top - 1) :
       (IF bReverse THEN "START" ELSE "END") \in c.ptr[i].f
         => /\ Both \subseteq c.ptr[i].f \/ ~d.bIgnore
            /\ c.ptr[i].k = c.key.k

\* The cursor with sub-cursors ptr, and with its key replaced if it is past the
\* one it has.
OnTop(d, c, ptr, bReverse) == [c EXCEPT !.ptr = ptr, !.top = Winner(d, ptr, bReverse)]
CacheKey(d, c, bReverse) ==
  LET e == c.ptr[c.top]
      past == sortedDbKey(d, e) - sortedDbKey(d, c.key)
  IN  IF Valid(e) /\ (IF bReverse THEN past < 0 ELSE past > 0) THEN [c EXCEPT !.key = e] ELSE c
NextKey(d, c, bReverse) ==
  CacheKey(d, OnTop(d, c, segmentCursorAdvance(d, c.ptr, c.top, bReverse), bReverse), bReverse)

\* The loop ends when the key is new and one to stop at.
mcursorAdvanceOk(d, c, old, bReverse) == c.key # old /\ mcursorLocationOk(d, c, bReverse)

RECURSIVE multiCursorAdvance(_, _, _)
multiCursorAdvance(d, c, bReverse) ==
  LET n == NextKey(d, c, bReverse)
  IN  IF ~lsmMCursorValid(c) THEN c
      ELSE IF ~Valid(n.ptr[n.top]) \/ mcursorAdvanceOk(d, n, c.key, bReverse) THEN n
      ELSE multiCursorAdvance(d, n, bReverse)

\* multiCursorSetupTree(), and the end of lsmMCursorSeek()
multiCursorSetupTree(d, ptr, bReverse) ==
  LET w == Winner(d, ptr, bReverse)
      c == [ptr |-> ptr, top |-> w, key |-> ptr[w], hit |-> FALSE]
  IN  IF mcursorLocationOk(d, c, bReverse) THEN c ELSE multiCursorAdvance(d, c, bReverse)

\* lsm_csr_first() and lsm_csr_last().  In a merge there are only right-hand
\* runs, each read from its start.
multiCursorEnd(d, bLast) ==
  LET hit(i) == \E j \in RhsOf(d, i) : Valid(segmentPtrEnd(d, j, TRUE))
      ptr(i) ==
        LET lhs == d.sub[i].lhs
        IN  IF ~IsRhs(d, i)
            THEN IF bLast /\ hit(i) THEN EOF ELSE segmentPtrEnd(d, i, bLast)
            ELSE IF bLast THEN segmentPtrEnd(d, i, TRUE)
            ELSE IF d.sub[lhs].run # {} THEN EOF ELSE sortedRhsFirst(d.sub[i])
  IN  multiCursorSetupTree(d, [i \in DOMAIN d.sub |-> ptr(i)], bLast)

\* Where the binary search for k ends: at k, or at one of its two neighbours,
\* which one depends on the pages.
Near(run, k, lower) ==
  LET a == Above(run, k)
      b == Below(run, k)
  IN  IF Valid(At(run, k)) THEN At(run, k)
      ELSE IF ~Valid(a) \/ (lower /\ Valid(b)) THEN b ELSE a

\* segmentPtrSeek() and treeCursorSeek() for LSM_SEEK_GE and LSM_SEEK_LE
segmentPtrSeek(d, i, k, eSeek, lower) ==
  LET e == Near(d.sub[i].run, k, lower)
  IN  IF eSeek = "GE" THEN IF e.k < k THEN Above(d.sub[i].run, k) ELSE e
      ELSE IF e.k > k THEN segmentPtrAdvance(d.sub[i], e, TRUE, IsRhs(d, i)) ELSE e

\* Mutant: the split key is looked for on the left.
seekInLevelAtSplit(d, ptr, i, k, eSeek, lower) ==
  LET e == segmentPtrSeek(d, i, k, eSeek, lower)
  IN  IF d.sub[i].nRight = 0 \/ IsRhs(d, i) = (k > d.sub[i].split)
      THEN IF IsRhs(d, i) /\ e.k < d.sub[i].split THEN EOF ELSE e
      ELSE ptr[i]

\* What a seek leaves in sub-cursor i: the runs of a composite level that it
\* does not search stay where they were.
seekInLevel(d, ptr, i, k, eSeek, lower) ==
  LET lhs == IF d.sub[i].lhs = 0 THEN i ELSE d.sub[i].lhs
      bLhs == d.sub[i].nRight = 0 \/ k < d.sub[i].split
      found(j) == segmentPtrSeek(d, j, k, eSeek, lower)
      inRhs(j) == IF found(j).k < d.sub[j].split THEN EOF ELSE found(j)
      noHit == \A j \in RhsOf(d, lhs) : ~Valid(inRhs(j))
  IN  IF i = lhs
      THEN IF bLhs THEN found(i)
           ELSE IF eSeek = "LE" /\ noHit THEN segmentPtrEnd(d, i, TRUE) ELSE ptr[i]
      ELSE IF ~bLhs \/ (eSeek = "GE" /\ ~Valid(found(lhs))) THEN inRhs(i) ELSE ptr[i]

\* Mutant: only deletes of the key itself stop the search.
seekEqPoints(d, c, k, lower) ==
  LET searched(i) == d.sub[i].nRight = 0 \/ IsRhs(d, i) = (k >= d.sub[i].split)
      e(i) == At(d.sub[i].run, k)
      stop == {i \in DOMAIN d.sub : searched(i) /\ e(i).f \cap Content # {}}
      last == IF stop = {} THEN Len(d.sub) ELSE Min(stop)
      hit == stop # {} /\ "INSERT" \in e(last).f
  IN  [c EXCEPT !.ptr = [i \in DOMAIN d.sub |-> EOF],
                !.hit = hit, !.key = IF hit THEN e(last) ELSE @]

\* LSM_SEEK_EQ stops at the first run, the newest first, that has the key or a
\* delete of it; the sub-cursors searched are reset.
seekEq(d, c, k, lower) ==
  LET searched(i) == d.sub[i].nRight = 0 \/ IsRhs(d, i) = (k >= d.sub[i].split)
      e(i) == Near(d.sub[i].run, k, lower)
      stops(i) == \/ e(i).k < k /\ "START" \in e(i).f
                  \/ e(i).k > k /\ "END" \in e(i).f
                  \/ e(i).k = k /\ e(i).f \cap Content # {}
      stop == {i \in DOMAIN d.sub : searched(i) /\ stops(i)}
      last == IF stop = {} THEN Len(d.sub) ELSE Min(stop)
      hit == stop # {} /\ e(last).k = k /\ "INSERT" \in e(last).f
  IN  [c EXCEPT !.ptr = [i \in DOMAIN d.sub |-> IF searched(i) /\ i <= last THEN EOF ELSE @[i]],
                !.hit = hit, !.key = IF hit THEN e(last) ELSE @]

\* Mutant: LSM_SEEK_LEFAST takes the newest sub-cursor.
lsmMCursorSeekNewest(d, c, k, eSeek, lower) ==
  LET ptr == [i \in DOMAIN d.sub |->
                seekInLevel(d, c.ptr, i, k, IF eSeek = "LEFAST" THEN "LE" ELSE eSeek, lower)]
      w == Min({i \in DOMAIN ptr : Valid(ptr[i])} \cup {Len(ptr)})
  IN  CASE eSeek = "EQ" -> seekEq(d, c, k, lower)
        [] eSeek = "LEFAST" -> [ptr |-> ptr, top |-> w, key |-> ptr[w], hit |-> FALSE]
        [] OTHER -> multiCursorSetupTree(d, ptr, eSeek = "LE")

lsmMCursorSeek(d, c, k, eSeek, lower) ==
  LET ptr == [i \in DOMAIN d.sub |->
                seekInLevel(d, c.ptr, i, k, IF eSeek = "LEFAST" THEN "LE" ELSE eSeek, lower)]
      w == Winner(d, ptr, TRUE)
  IN  CASE eSeek = "EQ" -> seekEq(d, c, k, lower)
        [] eSeek = "LEFAST" -> [ptr |-> ptr, top |-> w, key |-> ptr[w], hit |-> FALSE]
        [] OTHER -> multiCursorSetupTree(d, ptr, eSeek = "LE")

----------------------------------------------------------------------------
(* Merging.                                                                 *)

\* Mutant: an entry inside an older range delete does not split it.
mergeRangeDeletesWhole(d, c) ==
  LET e == c.ptr[c.top]
      f == e.f \cup UNION {c.ptr[i].f \cap Both : i \in {j \in DOMAIN d.sub : c.ptr[j].k = e.k}}
  IN  IF d.bIgnore THEN e.f \ Both ELSE f

\* The flags of the entry that a merge writes for the key on top: those of all
\* entries of the key; an entry inside an older run's range delete splits it.
\* No flag: nothing is written.
mergeRangeDeletes(d, c) ==
  LET e == c.ptr[c.top]
      covers == {i \in (c.top + 1)..Len(d.sub) : c.ptr[i].k > e.k /\ "END" \in c.ptr[i].f}
      equal == {i \in DOMAIN d.sub : c.ptr[i].k = e.k /\ \A m \in covers : i < m}
      f == (e.f \cap Content) \cup UNION {c.ptr[i].f \cap Both : i \in equal}
      g == IF covers = {} THEN f ELSE IF f \cap Content = {} THEN {} ELSE f \cup Both
  IN  IF d.bIgnore THEN e.f \ Both
      ELSE IF Both \cup {"POINT"} \subseteq g THEN {} ELSE g

mergeWorkerStep(d, m) ==
  LET f == mergeRangeDeletes(d, m.c)
      new == [k |-> m.c.key.k, f |-> f, v |-> m.c.key.v]
  IN  [c |-> multiCursorAdvance(d, m.c, FALSE),
       out |-> IF f = {} THEN m.out ELSE m.out \cup {new},
       n |-> IF f = {} THEN m.n ELSE m.n - 1]

\* Steps until n entries are written or the input is at its end
RECURSIVE mergeWork(_, _)
mergeWork(d, m) ==
  IF m.n = 0 \/ ~lsmMCursorValid(m.c) THEN m ELSE mergeWork(d, mergeWorkerStep(d, m))

sortedNewToplevel(t, lvls) ==
  LET d == [sub |-> <<Sub(t, 0, 0, 0)>>, bIgnore |-> lvls = << >>]
      run == mergeWork(d, [c |-> multiCursorEnd(d, FALSE), out |-> {}, n |-> NKey + 1]).out
      new == [lhs |-> run, rhs |-> << >>, at |-> << >>, split |-> 0, age |-> 0]
  IN  IF run = {} THEN lvls ELSE <<new>> \o lvls

sortedCountLevels(i) ==
  Cardinality({j \in i..Len(levels) : \A m \in i..j : levels[m].age = levels[i].age})

\* The longest row of levels of one age, or the level with the most runs to
\* merge, if longer than nMerge - 1; best is 0 if there is none.
TakeRow(s) == IF s.nThis > s.nBest THEN [s EXCEPT !.best = s.this, !.nBest = s.nThis] ELSE s
TakeMerging(s, i) ==
  LET n == Len(levels[i].rhs) IN IF n > s.nBest THEN [s EXCEPT !.best = i, !.nBest = n] ELSE s
ConsiderLevel(s, i) ==
  LET lvl == levels[i]
      ends == s.this # 0 => \/ lvl.age # levels[s.this].age + 1
                            \/ lvl.rhs = << >> /\ sortedCountLevels(i) <= NMerge
      s1 == IF ends THEN TakeRow(s) ELSE s
  IN  IF lvl.rhs = << >> /\ s.this # 0 /\ lvl.age = levels[s.this].age
      THEN [s EXCEPT !.nThis = @ + 1]
      ELSE IF lvl.rhs # << >> THEN [TakeMerging(s1, i) EXCEPT !.this = 0, !.nThis = 0]
      ELSE [s1 EXCEPT !.this = i, !.nThis = 1]
WholeTree(t, nMerge) ==
  IF t.best = 0 /\ nMerge = 1 /\ Len(levels) > 1
  THEN [t EXCEPT !.best = 1, !.nBest = Len(levels)] ELSE t
sortedSelectLevel(nMerge) ==
  WholeTree(TakeRow(FoldLeft(ConsiderLevel, [best |-> 0, nBest |-> Max({1, nMerge - 1}),
                                             this |-> 0, nThis |-> 0],
                             [i \in DOMAIN levels |-> i])),
            nMerge)

\* The level to work on: one that is being merged, or a new one of the runs of
\* nBest levels, no more than nMerge of them.
sortedMergeSetup(s, nMerge) ==
  LET n == IF nMerge > 1 /\ s.nBest > nMerge THEN nMerge ELSE s.nBest
      new == [lhs |-> {}, rhs |-> [j \in 1..n |-> levels[s.best + j - 1].lhs],
              at |-> << >>, split |-> 0, age |-> levels[s.best].age + 1]
  IN  IF levels[s.best].rhs # << >> THEN levels
      ELSE SubSeq(levels, 1, s.best - 1) \o <<new>> \o SubSeq(levels, s.best + n, Len(levels))

\* mergeWorkerInit(): at the start of the input, or where the last call stopped
mergeWorkerInit(d, lvl) ==
  IF lvl.lhs = {} THEN multiCursorEnd(d, FALSE)
  ELSE multiCursorSetupTree(d, [j \in DOMAIN lvl.at |-> At(lvl.rhs[j], lvl.at[j])], FALSE)

\* lsmFsGobble(): the pages before the one that may hold the split key
Gobble(run, split) == {e \in run : ~\E b \in run : e.k < b.k /\ b.k <= split}

\* mergeWorkerShutdown() of a merge that is not done
mergeWorkerShutdown(lvl, m, gobbled) ==
  LET split == m.c.ptr[m.c.top].k
  IN  [lvl EXCEPT !.lhs = m.out, !.split = split,
                  !.at = [j \in DOMAIN lvl.rhs |-> m.c.ptr[j].k],
                  !.rhs = [j \in DOMAIN lvl.rhs |-> IF j \in gobbled THEN Gobble(@[j], split)
                                                    ELSE @[j]]]

----------------------------------------------------------------------------
(* Operations.                                                              *)

Init ==
  \E loaded \in BOOLEAN :
    /\ tree = {} /\ nOp = 0
    /\ map = [k \in Keys |-> IF loaded THEN k ELSE 0]
    /\ levels = IF loaded
                THEN <<[lhs |-> {[k |-> k, f |-> {"INSERT"}, v |-> k] : k \in Keys},
                        rhs |-> << >>, at |-> << >>, split |-> 0, age |-> 0]>>
                ELSE << >>

Change(t, m) ==
  /\ nOp < MaxOp
  /\ nOp' = nOp + 1
  /\ tree' = t /\ map' = m
  /\ UNCHANGED levels

\* lsm_insert()
Insert(k) ==
  LET v == NKey + nOp + 1
  IN  Change(treeInsertEntry(tree, "INSERT", k, v), [map EXCEPT ![k] = v])

\* lsm_delete()
Delete(k) == Change(treeInsertEntry(tree, "POINT", k, 0), [map EXCEPT ![k] = 0])

\* lsm_delete_range()
DeleteRange(k1, k2) ==
  Change(lsmTreeDelete(tree, k1, k2),
         [k \in Keys |-> IF k1 < k /\ k < k2 THEN 0 ELSE map[k]])

\* doLsmSingleWork() with bFlushOnly
Flush ==
  /\ tree # {} /\ Len(levels) < MaxLevel
  /\ levels' = sortedNewToplevel(tree, levels)
  /\ tree' = {}
  /\ UNCHANGED <<map, nOp>>

\* The level i of lvls after its merge has come to m
WorkDone(lvls, i, m) ==
  IF ~lsmMCursorValid(m.c)
  THEN levels' = IF m.out = {} THEN RemoveAt(lvls, i)
                 ELSE [lvls EXCEPT ![i].lhs = m.out, ![i].rhs = << >>, ![i].at = << >>,
                                   ![i].split = 0]
  ELSE \E gobbled \in SUBSET DOMAIN lvls[i].rhs :
         levels' = [lvls EXCEPT ![i] = mergeWorkerShutdown(@, m, gobbled)]

MergeLevel(lvls, i, n) ==
  LET d == multiCursorAddRhs(lvls[i], i = Len(lvls))
  IN  WorkDone(lvls, i, mergeWork(d, [c |-> mergeWorkerInit(d, lvls[i]), out |-> lvls[i].lhs,
                                      n |-> n]))

\* One turn of the loop of sortedWork(): n entries of a merge
Work(nMerge, n) ==
  LET s == sortedSelectLevel(nMerge)
  IN  /\ s.best # 0
      /\ MergeLevel(sortedMergeSetup(s, nMerge), s.best, n)
      /\ UNCHANGED <<tree, map, nOp>>

\* Work stops after one entry or at the end; two stops are two calls of it.
Next ==
  \/ \E k \in Keys : Insert(k) \/ Delete(k)
  \/ \E k1, k2 \in Keys : k1 < k2 /\ DeleteRange(k1, k2)
  \/ Flush
  \/ \E nMerge \in {1, NMerge}, n \in {1, NKey} : Work(nMerge, n)

Spec == Init /\ [][Next]_vars

----------------------------------------------------------------------------
(* Properties.                                                              *)

Reader == multiCursorInit(tree, levels)

\* The entries a cursor visits from where it is
RECURSIVE Visited(_, _, _)
Visited(d, c, bReverse) ==
  IF ~lsmMCursorValid(c) THEN << >>
  ELSE <<[k |-> c.key.k, v |-> c.ptr[c.top].v]>>
       \o Visited(d, multiCursorAdvance(d, c, bReverse), bReverse)

Present(K) == {[k |-> k, v |-> map[k]] : k \in {j \in K : map[j] # 0}}
Ascending(K) ==
  SelectSeq([k \in Keys |-> [k |-> k, v |-> map[k]]], LAMBDA e : e.k \in K /\ e.v # 0)
Descending(K) == Reverse(Ascending(K))

\* Of every scan from lsm_csr_first() with lsm_csr_next(), or from lsm_csr_last()
\* with lsm_csr_prev(): it visits exactly the keys that were written and not
\* deleted since, in order, with their last values, whatever was flushed and
\* wherever an incremental merge has stopped (mcursorLocationOk(),
\* segmentPtrAdvance(), mergeRangeDeletes()).
ScansMatchMap ==
  LET d == Reader
  IN  /\ Visited(d, multiCursorEnd(d, FALSE), FALSE) = Ascending(Keys)
      /\ Visited(d, multiCursorEnd(d, TRUE), TRUE) = Descending(Keys)

\* LSM_SEEK_EQ on a new cursor finds the last value of a key, and nothing if the
\* key was deleted, by itself or in a range, in any newer run.
EqMatchesMap ==
  LET d == Reader IN
  \A k \in Keys, lower \in BOOLEAN :
    LET c == lsmMCursorSeek(d, multiCursorNew(d), k, "EQ", lower)
    IN  IF map[k] = 0 THEN ~lsmMCursorValid(c) ELSE lsmMCursorValid(c) /\ c.key.v = map[k]

\* k is behind the last key merged and before the split key: the merge has
\* dropped the keys there.
InGap(k) ==
  \E i \in DOMAIN levels : levels[i].rhs # << >> /\ LastOf(levels[i].lhs).k < k
                           /\ k < levels[i].split

\* LSM_SEEK_GE and LSM_SEEK_LE on a new cursor, and all calls of lsm_csr_next()
\* or lsm_csr_prev() after it, visit the keys from k on: if k is not in the gap
\* of a merge, and if the search for LSM_SEEK_LE ends above k.
SeeksMatchMap ==
  LET d == Reader
      seek(k, eSeek, lower) == lsmMCursorSeek(d, multiCursorNew(d), k, eSeek, lower)
  IN  \A k \in Keys :
        /\ InGap(k) \/ Visited(d, seek(k, "GE", FALSE), FALSE) = Ascending(k..NKey)
        /\ Visited(d, seek(k, "LE", FALSE), TRUE) = Descending(1..k)

\* LSM_SEEK_LEFAST may find a deleted key, but never one smaller than a key of
\* the database that is not larger than k: new keys are allocated with it.
LeFastNotBelow ==
  LET d == Reader IN
  \A k \in Keys, lower \in BOOLEAN :
    LET c == lsmMCursorSeek(d, multiCursorNew(d), k, "LEFAST", lower)
    IN  \A p \in Present(1..k) : lsmMCursorValid(c) /\ p.k <= c.key.k /\ c.key.k <= k

\* In the tree and in every run that a flush or a merge has finished, each range
\* delete that begins also ends, at the next key: seeks that land inside a range
\* look at one neighbour only.
RangesMatch ==
  \A run \in {tree} \cup {levels[i].lhs : i \in {j \in DOMAIN levels : levels[j].rhs = << >>}} :
    /\ "END" \notin FirstOf(run).f
    /\ \A e \in run : "START" \in e.f <=> "END" \in Above(run, e.k).f

\* LSM_SEEK_GE on a cursor that an earlier LSM_SEEK_GE has positioned finds the
\* smallest key from k on as well.
ReseekMatchesMap ==
  LET d == Reader
      again(k0, k) == lsmMCursorSeek(d, lsmMCursorSeek(d, multiCursorNew(d), k0, "GE", FALSE),
                                     k, "GE", FALSE)
  IN  \A k0, k \in Keys :
        InGap(k) \/ Visited(d, again(k0, k), FALSE) = Ascending(k..NKey)

=============================================================================
