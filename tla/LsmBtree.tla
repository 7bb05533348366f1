------------------------------ MODULE LsmBtree -----------------------------
(***************************************************************************)
(* The B-tree of the in-memory tree of LSMoVe (src/LSMoVe/src/lsm_tree.c):  *)
(* nodes of one to three keys that are never changed but for one "v2" child *)
(* pointer, insertion with splits, deletion with redistribution and merges, *)
(* range deletes, marks and rollback, and what is left of a writer that     *)
(* died.  It is compared with an ordered map: every version that somebody   *)
(* may read has to give every key what the operations before it left there. *)
(*                                                                          *)
(* A node's address is its place in the heap.  Which chunk it is in, and    *)
(* when a chunk is used again, is in LsmTree.                               *)
(***************************************************************************)
EXTENDS Integers, Sequences, FiniteSets, SequencesExt

CONSTANTS
  Preload,         \* keys of the tree a behaviour starts from, in order
  Sizes,           \* how many of them it starts with
  Keys,            \* keys of the operations
  Ranges,          \* pairs of keys lsm_delete_range() is called with
  MaxOp,           \* bound: operations on the tree
  MaxTrans         \* bound: write transactions

ASSUME BtreeAssumption ==
  /\ Preload \in Seq(Nat \ {0}) /\ Sizes \subseteq 0..Len(Preload)
  /\ Keys \subseteq Nat \ {0}
  /\ \A r \in Ranges : r[1] \in Nat \ {0} /\ r[2] \in Nat /\ r[1] < r[2]
  /\ MaxOp \in Nat /\ MaxTrans \in Nat

VARIABLES
  tree,            \* heap, and treehdr.root and lsm_db.rollback of the writer
  map,             \* what the tree has to hold: the ordered map
  mark,            \* the innermost TreeMark, with the map at that point
  committed,       \* the root in shared memory, with its map
  old,             \* the root of an open cursor, with its map
  nOp

vars == <<tree, map, mark, committed, old, nOp>>

----------------------------------------------------------------------------
(* Nodes.                                                                   *)

NoKey == [k |-> 0, flags |-> {}, v |-> 0]
Cells(Key(_)) == 0 :> Key(0) @@ 1 :> Key(1) @@ 2 :> Key(2)
Pointers(At(_)) == 0 :> At(0) @@ 1 :> At(1) @@ 2 :> At(2) @@ 3 :> At(3)
NewNode == [key |-> Cells(LAMBDA i : NoKey), child |-> Pointers(LAMBDA i : 0),
            iV2 |-> 0, iV2Child |-> 0, iV2Ptr |-> 0]

Has(p, i) == i \in 0..2 /\ p.key[i] # NoKey
HasOne(p) == ~Has(p, 0) /\ ~Has(p, 2)
HasThree(p) == Has(p, 0) /\ Has(p, 2)

\* Mutant: a reader of any version follows the second pointer.
getChildPtrAny(p, iVersion, i) ==
  IF p.iV2 # 0 /\ i = p.iV2Child THEN p.iV2Ptr ELSE p.child[i]

getChildPtr(p, iVersion, i) ==
  IF p.iV2 # 0 /\ p.iV2 <= iVersion /\ i = p.iV2Child THEN p.iV2Ptr ELSE p.child[i]

WORKING_VERSION == 1000
Child(p, i) == getChildPtr(p, WORKING_VERSION, i)

\* Keys and children stored one after another from index n on.
Packed(n, ks, cs) ==
  [NewNode EXCEPT
    !.key = Cells(LAMBDA i : IF i - n + 1 \in DOMAIN ks THEN ks[i - n + 1] ELSE NoKey),
    !.child = Pointers(LAMBDA i : IF i - n + 1 \in DOMAIN cs THEN cs[i - n + 1] ELSE 0)]

KeysOf(p, S) == LET s == SetToSortSeq({i \in S : Has(p, i)}, <)
                IN  [n \in DOMAIN s |-> p.key[s[n]]]

\* newTreeNode(), newTreeLeaf(): the node is the last of the heap.
Alloc(t, p) == [t EXCEPT !.heap = Append(@, p)]
Ptr(t) == Len(t.heap)

\* Mutant: the copy keeps the child the second pointer replaced.
CopyFirst(p) == [NewNode EXCEPT !.key = p.key, !.child = p.child]

\* copyTreeNode()
Copy(p) == [NewNode EXCEPT !.key = p.key, !.child = Pointers(LAMBDA i : Child(p, i))]

----------------------------------------------------------------------------
(* Cursors: the path from the root, and the cell in every node of it.       *)

\* lsmTreeCursorSeek(): res as in the code, 1 where the cursor is on a larger
\* key and -1 where it is on a smaller one.
RECURSIVE Seek(_, _, _, _, _)
Seek(t, ptr, k, path, cell) ==
  LET p == t.heap[ptr]
      first == p.key[1].k
      side == IF first > k THEN 0 ELSE 2
      iTest == IF Has(p, side) THEN side ELSE 1
      last == p.key[iTest].k
      leaf == Len(path) + 1 = t.nHeight
      down == iTest + (IF last < k THEN 1 ELSE 0)
      next == IF leaf THEN 0 ELSE getChildPtr(p, t.trans, down)
      at(i) == [path |-> Append(path, ptr), cell |-> Append(cell, i), res |-> 0]
  IN  IF first = k THEN at(1)
      ELSE IF last = k THEN at(iTest)
      ELSE IF next = 0 THEN [at(iTest) EXCEPT !.res = IF last < k THEN -1 ELSE 1]
      ELSE Seek(t, next, k, Append(path, ptr), Append(cell, down))

EOF == [path |-> << >>, cell |-> << >>, res |-> -1]

lsmTreeCursorSeek(t, k) == IF t.root = 0 THEN EOF ELSE Seek(t, t.root, k, << >>, << >>)

Valid(csr) == csr.path # << >>
NodeAt(t, csr, n) == t.heap[csr.path[n]]
KeyAt(t, csr) == NodeAt(t, csr, Len(csr.path)).key[Last(csr.cell)]

\* The left-most key of the sub-tree the cursor points to, ...
RECURSIVE Descend(_, _)
Descend(t, csr) ==
  IF Len(csr.path) = t.nHeight THEN csr
  ELSE LET ptr == getChildPtr(t.heap[Last(csr.path)], t.trans, Last(csr.cell))
           i == IF Has(t.heap[ptr], 0) THEN 0 ELSE 1
       IN  Descend(t, [csr EXCEPT !.path = Append(@, ptr), !.cell = Append(@, i)])

\* ... or the next key to the right, up the tree.
RECURSIVE Ascend(_, _)
Ascend(t, csr) ==
  IF ~Valid(csr) \/ Has(t.heap[Last(csr.path)], Last(csr.cell)) THEN csr
  ELSE Ascend(t, [csr EXCEPT !.path = Front(@), !.cell = Front(@)])

lsmTreeCursorNext(t, csr) ==
  LET n == Len(csr.path)
      right == [csr EXCEPT !.cell[n] = @ + 1]
  IN  IF n < t.nHeight /\ getChildPtr(t.heap[csr.path[n]], t.trans, right.cell[n]) # 0
      THEN Descend(t, right)
      ELSE Ascend(t, right)

----------------------------------------------------------------------------
(* treeUpdatePtr(): n is the number of nodes of the path still to change.   *)

RECURSIVE treeUpdatePtr(_, _, _, _)
treeUpdatePtr(t, csr, n, new) ==
  IF n = 0 THEN [t EXCEPT !.root = new]
  ELSE LET p == NodeAt(t, csr, n)
           i == csr.cell[n]
           iPtr == IF n > 1 THEN getChildPtr(NodeAt(t, csr, n - 1), t.trans, csr.cell[n - 1])
                   ELSE t.root
           copy == Alloc(t, [Copy(p) EXCEPT !.child[i] = new])
       IN  IF p.iV2 # 0
           THEN treeUpdatePtr(copy, csr, n - 1, Ptr(copy))
           ELSE [t EXCEPT !.heap[csr.path[n]] =
                            [p EXCEPT !.iV2 = t.trans, !.iV2Child = i, !.iV2Ptr = new],
                          !.rollback = Append(@, iPtr)]

----------------------------------------------------------------------------
(* treeInsertEntry()                                                        *)

\* treeInsert() of a key between two sub-trees into node n of the path.
RECURSIVE treeInsert(_, _, _, _, _, _, _)
treeInsert(t, csr, n, iLeft, key, iRight, iSlot) ==
  LET p == NodeAt(t, csr, n)
      low == [NewNode EXCEPT !.key[1] = p.key[0], !.child[1] = Child(p, 0),
                             !.child[2] = Child(p, 1)]
      high == [NewNode EXCEPT !.key[1] = p.key[2], !.child[1] = Child(p, 2),
                              !.child[2] = Child(p, 3)]
      or(a, b) == IF a # 0 THEN a ELSE b
      at0(q) == [q EXCEPT !.key[0] = key, !.child[0] = iLeft, !.child[1] = or(iRight, @)]
      at2(q) == [q EXCEPT !.key[2] = key, !.child[2] = iLeft,
                          !.child[3] = or(iRight, q.child[2])]
      t1 == Alloc(t, CASE iSlot = 0 -> at0(low) [] iSlot = 1 -> at2(low) [] OTHER -> low)
      t2 == Alloc(t1, CASE iSlot = 2 -> at0(high) [] iSlot = 3 -> at2(high) [] OTHER -> high)
      root == Alloc(t2, [NewNode EXCEPT !.key[1] = p.key[1], !.child[1] = Ptr(t1),
                                        !.child[2] = Ptr(t2)])
      before == SetToSortSeq({i \in 0..(iSlot - 1) : Has(p, i)}, <)
      after == SetToSortSeq({i \in iSlot..2 : Has(p, i)}, <)
      end == IF Has(p, 2) THEN 3 ELSE 2
      children == [m \in DOMAIN before |-> Child(p, before[m])] \o <<iLeft>>
                  \o [m \in DOMAIN after |-> IF m = 1 THEN or(iRight, Child(p, after[1]))
                                             ELSE Child(p, after[m])]
                  \o <<IF after = << >> THEN or(iRight, Child(p, end)) ELSE Child(p, end)>>
      new == Alloc(t, Packed(0, KeysOf(p, 0..(iSlot - 1)) \o <<key>> \o KeysOf(p, iSlot..2),
                             children))
  IN  IF ~HasThree(p) THEN treeUpdatePtr(new, csr, n - 1, Ptr(new))
      ELSE IF n = 1 THEN [root EXCEPT !.root = Ptr(root), !.nHeight = @ + 1]
      ELSE treeInsert(t2, csr, n - 1, Ptr(t1), p.key[1], Ptr(t2), csr.cell[n - 1])

\* treeInsertLeaf()
treeInsertLeaf(t, csr, key, iSlot) ==
  LET n == Len(csr.path)
      p == NodeAt(t, csr, n)
      new == Alloc(t, Packed(0, KeysOf(p, 0..(iSlot - 1)) \o <<key>> \o KeysOf(p, iSlot..2),
                             << >>))
      half(i, lo) == [NewNode EXCEPT !.key[1] = p.key[i],
                                     !.key[0] = IF iSlot = lo THEN key ELSE NoKey,
                                     !.key[2] = IF iSlot = lo + 1 THEN key ELSE NoKey]
      t1 == Alloc(t, half(0, 0))
      t2 == Alloc(t1, half(2, 2))
  IN  IF HasThree(p)
      THEN treeInsert(t2, csr, n - 1, Ptr(t1), p.key[1], Ptr(t2), csr.cell[n - 1])
      ELSE treeUpdatePtr(new, csr, n - 1, Ptr(new))

\* treeOverwriteKey()
treeOverwriteKey(t, csr, key) ==
  LET n == Len(csr.path)
      new == Alloc(t, [Copy(NodeAt(t, csr, n)) EXCEPT !.key[Last(csr.cell)] = key])
  IN  treeUpdatePtr(new, csr, n - 1, Ptr(new))

\* Mutant: the neighbour is looked for in the leaf alone.
BesideInLeaf(t, csr, d) ==
  LET p == NodeAt(t, csr, Len(csr.path))
      i == Last(csr.cell) + d
  IN  IF Has(p, i) THEN p.key[i] ELSE NoKey

\* treePrevIsStartDelete(), treeNextIsEndDelete(): the key left or right of
\* the cursor, looked for from the leaf up.
Beside(t, csr, d) ==
  LET n == Len(csr.path)
      at(m) == csr.cell[m] + (IF d < 0 THEN -1 ELSE IF m = n THEN 1 ELSE 0)
      found == {m \in 1..n : Has(NodeAt(t, csr, m), at(m))}
      m == CHOOSE x \in found : \A y \in found : y <= x
  IN  IF found = {} THEN NoKey ELSE NodeAt(t, csr, m).key[at(m)]

treePrevIsStartDelete(t, csr) == "START" \in Beside(t, csr, -1).flags
treeNextIsEndDelete(t, csr) == "END" \in Beside(t, csr, 1).flags

Both == {"START", "END"}

\* treeInsertEntry(): flag is INSERT, POINT, START or END.
treeInsertEntry(t, flag, k, v) ==
  LET csr == lsmTreeCursorSeek(t, k)
      res == csr.res
      pRes == KeyAt(t, csr)
      redundant ==
        \/ flag = "START" /\ (IF res <= 0 THEN "START" \in pRes.flags
                              ELSE treePrevIsStartDelete(t, csr))
        \/ flag = "END" /\ (IF res >= 0 THEN "END" \in pRes.flags
                            ELSE treeNextIsEndDelete(t, csr))
      merge == res = 0 /\ flag \in Both
      inside == (res < 0 /\ "START" \in pRes.flags) \/ (res > 0 /\ "END" \in pRes.flags)
      flags1 == IF merge THEN {flag} \cup pRes.flags ELSE {flag}
      flags == IF flags1 \cap {"INSERT", "POINT"} = {} THEN flags1
               ELSE IF inside THEN flags1 \cup Both
               ELSE IF res = 0 THEN flags1 \cup (pRes.flags \cap Both) ELSE flags1
      key == [k |-> k, flags |-> flags,
              v |-> IF merge /\ "INSERT" \in pRes.flags THEN pRes.v ELSE v]
      iSlot == Last(csr.cell) + (IF res < 0 THEN 1 ELSE 0)
      root == Alloc(t, [NewNode EXCEPT !.key[1] = [k |-> k, flags |-> {flag}, v |-> v]])
  IN  IF t.root = 0 THEN [root EXCEPT !.root = Ptr(root), !.nHeight = 1]
      ELSE IF redundant THEN t
      ELSE IF res = 0 THEN treeOverwriteKey(t, csr, key)
      ELSE IF Len(csr.path) = 1 THEN treeInsert(t, csr, 1, 0, key, 0, iSlot)
      ELSE treeInsertLeaf(t, csr, key, iSlot)

----------------------------------------------------------------------------
(* treeDeleteEntry() and lsmTreeDelete()                                    *)

\* Mutant: the keys left are stored from the first cell on.
WithoutKeyPacked(p, iSlot, new, keysOnly) ==
  LET cs == [i \in 1..3 |-> IF i - 1 = iSlot THEN new ELSE Child(p, i - 1)]
  IN  Packed(0, KeysOf(p, (0..2) \ {iSlot}), IF keysOnly THEN << >> ELSE cs)

\* One of two or three keys goes: child iSlot and the one after it become new.
WithoutKey(p, iSlot, new, keysOnly) ==
  LET rest == SetToSortSeq({i \in 0..3 : i \notin {iSlot, iSlot + 1} /\ Child(p, i) # 0}
                           \cup {iSlot}, <)
      key(i) == IF i = iSlot THEN i + 1 ELSE i
  IN  IF keysOnly THEN Packed(1, KeysOf(p, (0..2) \ {iSlot}), << >>)
      ELSE Packed(1, [m \in DOMAIN rest |->
                       IF key(rest[m]) <= 2 THEN p.key[key(rest[m])] ELSE NoKey],
                     [m \in DOMAIN rest |-> IF rest[m] = iSlot THEN new ELSE Child(p, rest[m])])

ChildrenOf(p) == LET s == SetToSortSeq({i \in 0..3 : Child(p, i) # 0}, <)
                 IN  [m \in DOMAIN s |-> Child(p, s[m])]

\* Node n of the path loses the key in its cell; new replaces the two
\* sub-trees beside it (0 on a leaf).
RECURSIVE treeDeleteEntry(_, _, _, _)
treeDeleteEntry(t, csr, n, new) ==
  LET p == NodeAt(t, csr, n)
      bLeaf == n = t.nHeight /\ t.nHeight > 1
      smaller == Alloc(t, WithoutKey(p, csr.cell[n], new, bLeaf \/ t.nHeight = 1))
      \* a single key, and the node is not the root: the peer is used
      parent == NodeAt(t, csr, n - 1)
      iPSlot == csr.cell[n - 1]
      left == iPSlot > 0 /\ Child(parent, iPSlot - 1) # 0
      iKey == IF left THEN iPSlot - 1 ELSE iPSlot
      pk == parent.key[iKey]
      peer == t.heap[Child(parent, IF left THEN iPSlot - 1 ELSE iPSlot + 1)]
      C(i) == IF bLeaf THEN 0 ELSE Child(peer, i)
      N == IF bLeaf THEN 0 ELSE new
      one(key, a, b) == [NewNode EXCEPT !.key[1] = key, !.child[1] = a, !.child[2] = b]
      two(k0, k1, a, b, c) == [NewNode EXCEPT !.key[0] = k0, !.key[1] = k1, !.child[0] = a,
                                              !.child[1] = b, !.child[2] = c]
      \* the peer is full: two new nodes below a new parent
      new1 == IF left THEN one(peer.key[0], C(0), C(1)) ELSE one(pk, N, C(0))
      new2 == IF left THEN two(peer.key[2], pk, C(2), C(3), N)
              ELSE two(peer.key[1], peer.key[2], C(1), C(2), C(3))
      t1 == Alloc(t, new1)
      t2 == Alloc(t1, new2)
      t3 == Alloc(t2, [Copy(parent) EXCEPT !.key[iKey] = peer.key[IF left THEN 1 ELSE 0],
                                           !.child[iKey] = Ptr(t1),
                                           !.child[iKey + 1] = Ptr(t2)])
      \* it is not: one node of the peer and the key of the parent
      pks == KeysOf(peer, 0..2)
      pcs == IF bLeaf THEN << >> ELSE ChildrenOf(peer)
      cs == IF bLeaf THEN << >> ELSE IF left THEN Append(pcs, new) ELSE <<new>> \o pcs
      merged == Alloc(t, Packed(0, IF left THEN Append(pks, pk) ELSE <<pk>> \o pks, cs))
  IN  IF ~HasOne(p) THEN treeUpdatePtr(smaller, csr, n - 1, Ptr(smaller))
      ELSE IF n = 1 THEN [t EXCEPT !.root = new, !.nHeight = @ - 1]
      ELSE IF HasThree(peer) THEN treeUpdatePtr(t3, csr, n - 2, Ptr(t3))
      ELSE treeDeleteEntry(merged, [csr EXCEPT !.cell[n - 1] = iKey], n - 1, Ptr(merged))

\* Step 1 of lsmTreeDelete(): delete the keys between k1 and k2 one by one.  A
\* key of an interior node is overwritten with the next key, which is deleted
\* from its leaf.
RECURSIVE DeleteKeys(_, _, _)
DeleteKeys(t, k1, k2) ==
  LET seek == lsmTreeCursorSeek(t, k1)
      csr == IF Valid(seek) /\ seek.res <= 0 THEN lsmTreeCursorNext(t, seek) ELSE seek
      next == lsmTreeCursorNext(t, csr)
      over == treeOverwriteKey(t, csr, KeyAt(t, next))
      again == lsmTreeCursorNext(over, lsmTreeCursorSeek(over, KeyAt(t, next).k))
  IN  IF ~Valid(csr) THEN t
      ELSE IF KeyAt(t, csr).k >= k2 THEN t
      ELSE IF Len(csr.path) = t.nHeight
      THEN DeleteKeys(treeDeleteEntry(t, csr, Len(csr.path), 0), k1, k2)
      ELSE DeleteKeys(treeDeleteEntry(over, again, Len(again.path), 0), k1, k2)

lsmTreeDelete(t, k1, k2) ==
  treeInsertEntry(treeInsertEntry(DeleteKeys(t, k1, k2), "START", k1, 0), "END", k2, 0)

----------------------------------------------------------------------------
(* What a reader of a version finds.                                        *)

RECURSIVE EntriesBelow(_, _, _, _)
EntriesBelow(heap, ptr, height, iVersion) ==
  IF ptr = 0 \/ height = 0 THEN {}
  ELSE IF ptr > Len(heap) THEN {NoKey}
  ELSE {heap[ptr].key[i] : i \in {j \in 0..2 : Has(heap[ptr], j)}}
       \cup (IF height = 1 THEN {}
             ELSE UNION {EntriesBelow(heap, getChildPtr(heap[ptr], iVersion, i), height - 1,
                                      iVersion) : i \in 0..3})

Points == 0..(1 + Max(Keys \cup Range(Preload)))

\* Of a key: its value, "deleted", or "none" if the tree says nothing of it.
Lookup(entries, x) ==
  LET exact == {e \in entries : e.k = x}
      below == {e \in entries : e.k < x}
      prev == CHOOSE e \in below : \A d \in below : d.k <= e.k
      e == CHOOSE e \in exact : TRUE
  IN  IF exact # {}
      THEN IF "INSERT" \in e.flags THEN e.v
           ELSE IF "POINT" \in e.flags THEN -1 ELSE 0
      ELSE IF below # {} THEN IF "START" \in prev.flags THEN -1 ELSE 0
      ELSE 0

Contents(heap, r) ==
  LET entries == EntriesBelow(heap, r.root, r.nHeight, r.trans)
  IN  [x \in Points |-> Lookup(entries, x)]

----------------------------------------------------------------------------
(* Operations.                                                              *)

Version(t, m) == [root |-> t.root, nHeight |-> t.nHeight, trans |-> t.trans,
                  size |-> Len(t.heap), map |-> m]
Mark(t, m) == [root |-> t.root, nHeight |-> t.nHeight, size |-> Len(t.heap),
               iRollback |-> Len(t.rollback), map |-> m]

NoMap == [x \in Points |-> 0]
EmptyTree == [heap |-> << >>, root |-> 0, nHeight |-> 0, trans |-> 1, rollback |-> << >>]

RECURSIVE Preloaded(_)
Preloaded(n) ==
  IF n = 0 THEN EmptyTree
  ELSE [treeInsertEntry(Preloaded(n - 1), "INSERT", Preload[n], n) EXCEPT !.rollback = << >>]

\* A write transaction on a tree that other transactions have filled.
Init ==
  \E n \in Sizes :
    LET t == Preloaded(n)
        m == [x \in Points |-> IF \E i \in 1..n : Preload[i] = x
                               THEN CHOOSE i \in 1..n : Preload[i] = x ELSE 0]
    IN  /\ tree = [t EXCEPT !.trans = 2]
        /\ map = m
        /\ mark = Mark(t, m)
        /\ committed = Version(t, m) /\ old = Version(t, m)
        /\ nOp = 0

Change(t, m) ==
  /\ nOp < MaxOp
  /\ nOp' = nOp + 1
  /\ tree' = t /\ map' = m
  /\ UNCHANGED <<mark, committed, old>>

\* lsm_insert()
Insert(k) ==
  LET v == Len(Preload) + nOp + 1
  IN  Change(treeInsertEntry(tree, "INSERT", k, v), [map EXCEPT ![k] = v])

\* lsm_delete()
Delete(k) == Change(treeInsertEntry(tree, "POINT", k, 0), [map EXCEPT ![k] = -1])

\* lsm_delete_range()
DeleteRange(k1, k2) ==
  Change(lsmTreeDelete(tree, k1, k2),
         [x \in Points |-> IF k1 < x /\ x < k2 THEN -1 ELSE map[x]])

\* lsm_begin() inside the transaction
SetMark ==
  /\ mark' = Mark(tree, map)
  /\ mark' # mark
  /\ UNCHANGED <<tree, map, committed, old, nOp>>

ZeroV2(p) == [p EXCEPT !.iV2 = 0, !.iV2Child = 0, !.iV2Ptr = 0]

\* lsmTreeRollback(): what was allocated since the mark is free again.
Rolledback(t, m) ==
  LET since == {t.rollback[i] : i \in (m.iRollback + 1)..Len(t.rollback)}
  IN  [t EXCEPT !.heap = [p \in 1..m.size |->
                            IF p \in since THEN ZeroV2(t.heap[p]) ELSE t.heap[p]],
                !.root = m.root, !.nHeight = m.nHeight,
                !.rollback = SubSeq(@, 1, m.iRollback)]

Rollback ==
  /\ Len(tree.heap) > mark.size
  /\ tree' = Rolledback(tree, mark)
  /\ map' = mark.map
  /\ UNCHANGED <<mark, committed, old, nOp>>

\* The next transaction of a tree that nobody is writing
Begun(t) == [t EXCEPT !.trans = @ + 1, !.rollback = << >>]

\* lsm_commit(), and the next lsm_begin()
Commit ==
  /\ tree.trans < MaxTrans
  /\ old' = committed
  /\ committed' = Version(tree, map)
  /\ tree' = Begun(tree)
  /\ mark' = Mark(Begun(tree), map)
  /\ UNCHANGED <<map, nOp>>

\* treeRepairPtrs(): the interior nodes of the committed tree
RECURSIVE InteriorBelow(_, _, _, _)
InteriorBelow(heap, ptr, height, iVersion) ==
  IF ptr = 0 \/ height <= 1 THEN {}
  ELSE {ptr} \cup UNION {InteriorBelow(heap, getChildPtr(heap[ptr], iVersion, i), height - 1,
                                       iVersion) : i \in 0..3}

Repaired(heap, c) ==
  LET interior == InteriorBelow(heap, c.root, c.nHeight, c.trans)
  IN  [p \in 1..c.size |-> IF p \in interior /\ heap[p].iV2 > c.trans
                           THEN ZeroV2(heap[p]) ELSE heap[p]]

\* The writer dies; the next one repairs the tree and begins.
DieAndRepair ==
  LET t == [heap |-> Repaired(tree.heap, committed), root |-> committed.root,
            nHeight |-> committed.nHeight, trans |-> committed.trans + 1,
            rollback |-> << >>]
  IN  /\ nOp > 0
      /\ tree' = t
      /\ map' = committed.map
      /\ mark' = Mark(t, committed.map)
      /\ UNCHANGED <<committed, old, nOp>>

Next ==
  \/ \E k \in Keys : Insert(k) \/ Delete(k)
  \/ \E r \in Ranges : DeleteRange(r[1], r[2])
  \/ SetMark \/ Rollback \/ Commit \/ DieAndRepair

Spec == Init /\ [][Next]_vars

----------------------------------------------------------------------------
(* Properties.                                                              *)

\* The writer finds what its operations and rollbacks leave; a key it has
\* deleted, alone or in a range, hides what the database file holds.
WorkingMatchesMap == Contents(tree.heap, tree) = map

\* A cursor opened before this transaction, or before the last one, still
\* finds its version in the memory the writer goes on changing.
VersionsMatchMaps ==
  \A r \in {committed, old} : Contents(tree.heap, r) = r.map

\* The subtree at ptr has height levels and keys between lo and hi.
RECURSIVE Balanced(_, _, _, _)
Balanced(ptr, height, lo, hi) ==
  LET p == tree.heap[ptr]
      ks == KeysOf(p, 0..2)
      cs == ChildrenOf(p)
      bound == <<lo>> \o [i \in DOMAIN ks |-> ks[i].k] \o <<hi>>
  IN  /\ Has(p, 1)
      /\ \A i \in 1..(Len(bound) - 1) : bound[i] < bound[i + 1]
      /\ height > 1 =>
           /\ Len(cs) = Len(ks) + 1
           /\ Child(p, 0) # 0 <=> Has(p, 0)
           /\ \A i \in DOMAIN cs : Balanced(cs[i], height - 1, bound[i], bound[i + 1])

\* The B-tree of the writer, after any inserts, splits, deletes, joins and
\* rollbacks: keys in order, every leaf at depth nHeight, a middle key in every
\* node, one child more than keys in interior nodes.
WellFormed ==
  IF tree.root = 0 THEN tree.nHeight = 0
  ELSE Balanced(tree.root, tree.nHeight, 0, 1 + Max(Points))

\* assert_delete_ranges_match(): a key starts a deleted range exactly when the
\* next key ends one.
DeleteRangesMatch ==
  LET entries == EntriesBelow(tree.heap, tree.root, tree.nHeight, WORKING_VERSION)
      next(a) == {b \in entries : b.k > a.k /\ \A c \in entries : c.k > a.k => c.k >= b.k}
      first == {b \in entries : \A c \in entries : b.k <= c.k}
  IN  /\ \A a \in entries : "START" \in a.flags <=> \E b \in next(a) : "END" \in b.flags
      /\ \A b \in first : "END" \notin b.flags
=============================================================================
