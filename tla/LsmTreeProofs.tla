---------------------------- MODULE LsmTreeProofs ----------------------------
(***************************************************************************)
(* Theorems of LsmTree about the list of chunks.                             *)
(***************************************************************************)
EXTENDS LsmTree, TLAPS, FiniteSetTheorems, FunctionTheorems, WellFoundedInduction

(* Distances of shm-ids.                                                    *)

Ids == 0..(ShmidMod - 1)

\* The signed distance of id x from id b.
Rel(x, b) ==
  IF x - b < -(2 * MaxShm) THEN x - b + ShmidMod
  ELSE IF x - b >= 2 * MaxShm THEN x - b - ShmidMod
  ELSE x - b

Pos(ch, i, b) == Rel(ch[i].iShmid, b)

Cell == Chunks \X (1..Room)
Ptr == {Null} \cup Cell

Header ==
  [root : Ptr, trans : Nat \ {0}, iWrite : Chunks \X (0..Room), iFirst : Chunks,
   nChunk : 2..(MaxChunk + 1), iNextShmid : Ids, iUsedShmid : Ids, iOldShmid : Ids,
   iOldLog : Nat, oldroot : Ptr, oldtrans : Nat, cur : [Sub -> Nat], oldcur : [Sub -> Nat]]

MarkRec ==
  [root : Ptr, iWrite : Chunks \X (0..Room), nChunk : 2..(MaxChunk + 1),
   iNextShmid : Ids, cur : [Sub -> Nat]]

ChunkMap == [Chunks -> [iShmid : Ids, iNext : 0..MaxChunk]]

\* The ids of chunks 1..n-1 are those from lo to hi - 1.
Places1(ch, n, lo, hi, b) ==
  /\ hi - lo = n - 1
  /\ \A i \in 1..(n - 1) : Pos(ch, i, b) \in lo..(hi - 1)
  /\ \A i, j \in 1..(n - 1) : Pos(ch, i, b) = Pos(ch, j, b) => i = j

\* Those from lo to hi - 1 are linked in the order of their ids.
Chain(ch, n, lo, hi, b) ==
  \A i \in 1..(n - 1) : Pos(ch, i, b) \in lo..(hi - 1) =>
    IF Pos(ch, i, b) = hi - 1 THEN ch[i].iNext = 0
    ELSE ch[i].iNext \in 1..(n - 1) /\ Pos(ch, ch[i].iNext, b) = Pos(ch, i, b) + 1

Front(ch, h, lo, b) == h.iFirst \in 1..(h.nChunk - 1) /\ Pos(ch, h.iFirst, b) = lo

Trees(ch, H) ==
  /\ H.iWrite[1] \in 1..(H.nChunk - 1) /\ Pos(ch, H.iWrite[1], H.iNextShmid) = -1
  /\ H.iWrite[1] = H.iFirst => H.nChunk = 2
  /\ Rel(H.iUsedShmid, H.iNextShmid) \in (1 - H.nChunk)..(-1)
  /\ HasOld(H) => Rel(H.iOldShmid, H.iNextShmid) \in Rel(H.iUsedShmid, H.iNextShmid)..(-1)

Committed(ch, H) ==
  /\ Trees(ch, H)
  /\ \A i \in 1..(H.nChunk - 1) : Pos(ch, i, H.iNextShmid) \in (-MaxChunk)..(MaxChunk - 1)

Good == IF hdr1 # Torn THEN hdr1 ELSE hdr2

\* The writer's header h over the committed one H.
Above(ch, h, H) ==
  LET b == H.iNextShmid
      N == Rel(h.iNextShmid, b)
      F == N - (h.nChunk - 1)
      U == Rel(h.iUsedShmid, b)
  IN  /\ N >= 0 /\ h.nChunk >= H.nChunk
      /\ HasOld(h) => Rel(h.iOldShmid, b) \in U..(-1)
      /\ \A i \in H.nChunk..(h.nChunk - 1) : Pos(ch, i, b) >= 0

MarkAbove(ch, m, h, H) ==
  LET b == H.iNextShmid
      X == Rel(m.iNextShmid, b)
  IN  /\ m.nChunk \in H.nChunk..h.nChunk
      /\ X \in 0..Rel(h.iNextShmid, b) /\ X - m.nChunk >= -H.nChunk
      /\ m.iWrite[1] \in 1..(m.nChunk - 1) /\ Pos(ch, m.iWrite[1], b) = X - 1
      /\ \A i \in 1..(h.nChunk - 1) : Pos(ch, i, b) < X => i < m.nChunk
      /\ \A i \in H.nChunk..(m.nChunk - 1) : Pos(ch, i, b) < X

MarkBelow(m1, m2, b) ==
  m1.nChunk <= m2.nChunk /\ Rel(m1.iNextShmid, b) <= Rel(m2.iNextShmid, b)

\* Outside of a rollback; s is where the list is not linked yet.
Writable(ch, h, H, s) ==
  LET b == H.iNextShmid
      N == Rel(h.iNextShmid, b)
      F == N - (h.nChunk - 1)
  IN  /\ F >= 1 - H.nChunk /\ Rel(h.iUsedShmid, b) \in F..(-1)
      /\ Places1(ch, h.nChunk, F, N, b)
      /\ Front(ch, h, F, b)
      /\ Chain(ch, h.nChunk, F, s, b) /\ Chain(ch, h.nChunk, s, N, b)
      /\ h.iWrite[1] \in 1..(h.nChunk - 1) /\ Pos(ch, h.iWrite[1], b) = s - 1

Back(ch, m, x, b) == {i \in 1..(m.nChunk - 1) : Pos(ch, i, b) < x}

\* In a rollback to mark m, p the next chunk of the rest.
RollingBack(ch, h, H, m, p) ==
  LET b == H.iNextShmid
      N == Rel(h.iNextShmid, b)
      X == Rel(m.iNextShmid, b)
      F == Pos(ch, h.iFirst, b)
      P == IF p = 0 THEN N ELSE Pos(ch, p, b)
  IN  /\ h.iFirst \in 1..(h.nChunk - 1) /\ p \in 0..(h.nChunk - 1)
      /\ N < MaxChunk /\ P \in X..N
      /\ F >= 1 - H.nChunk /\ F <= Rel(h.iUsedShmid, b) /\ Rel(h.iUsedShmid, b) <= -1
      /\ \A i \in 1..(h.nChunk - 1) : Pos(ch, i, b) \in F..(N - 1)
      /\ \A i, j \in 1..(h.nChunk - 1) : Pos(ch, i, b) = Pos(ch, j, b) => i = j
      /\ \A i \in 1..(m.nChunk - 1) : Pos(ch, i, b) >= X => Pos(ch, i, b) >= P
      /\ Chain(ch, h.nChunk, F, X, b) /\ Chain(ch, h.nChunk, P, N, b)
      /\ Cardinality(Back(ch, m, X, b)) = X - F

Top == IF pc[writer] = "rollback" THEN (IF pend.iLevel = 0 THEN 1 ELSE pend.iLevel)
       ELSE Len(marks)

AlivePcs == {"open", "leaf", "copy", "linkleaf", "linkcopy", "rollback"}
ReaderPcs == {"idle", "loaded", "reading"}

MarksInv ==
  /\ Top \in 1..Len(marks)
  /\ \A k \in 1..Top : MarkAbove(chunk, marks[k].mark, treehdr, Good)
  /\ \A k, l \in 1..Top : k <= l =>
       /\ MarkBelow(marks[k].mark, marks[l].mark, Good.iNextShmid)
       /\ marks[k].iRollback <= marks[l].iRollback
  /\ \A k \in 1..Top : marks[k].iRollback <= Len(rollback)

AliveInv ==
  /\ bWriter /\ hdr1 = hdr2
  /\ Above(chunk, treehdr, Good)
  /\ MarksInv
  /\ pc[writer] \in {"open", "leaf", "copy"} =>
       Writable(chunk, treehdr, Good, Rel(treehdr.iNextShmid, Good.iNextShmid))
  /\ pc[writer] \in {"linkleaf", "linkcopy"} =>
       /\ Writable(chunk, treehdr, Good, Rel(treehdr.iNextShmid, Good.iNextShmid) - 1)
       /\ pend.chunk \in 1..(treehdr.nChunk - 1)
       /\ Pos(chunk, pend.chunk, Good.iNextShmid) = Rel(treehdr.iNextShmid, Good.iNextShmid) - 1
  /\ pc[writer] = "rollback" =>
       RollingBack(chunk, treehdr, Good, marks[Top].mark, pend.chunk)

EndInv ==
  /\ bWriter /\ hdr2 = treehdr /\ ListOk(hdr2, chunk) /\ Trees(chunk, hdr2)
  /\ Good.nChunk <= hdr2.nChunk
  /\ pc[writer] = "endflag" => hdr1 = hdr2

Main ==
  /\ Committed(chunk, Good)
  /\ \A c \in Conn : c # writer => hdr[c].nChunk <= Good.nChunk /\ pc[c] \in ReaderPcs
  /\ ~bWriter => writer = None /\ hdr1 = hdr2 /\ ListOk(hdr1, chunk)
  /\ writer # None =>
       \/ pc[writer] \in AlivePcs /\ AliveInv
       \/ pc[writer] \in {"end1", "endflag"} /\ EndInv

HeaderTypes ==
  /\ hdr1 \in Header \cup {Torn} /\ hdr2 \in Header /\ hdr \in [Conn -> Header]
  /\ bWriter \in BOOLEAN

ReadTypes ==
  /\ slot \in [1..NReader -> [iLsmId : Nat, iTreeId : Ids]]
  /\ iReader \in [Conn -> 0..NReader] /\ rlock \in [Conn -> SUBSET (1..NReader)]
  /\ snap \in Nat /\ client \in [Conn -> Nat]

WriteTypes ==
  /\ writer \in Conn \cup {None} /\ bDiscardOld \in BOOLEAN
  /\ rollback \in Seq(Ptr) /\ marks \in Seq([mark : MarkRec, iRollback : Nat])
  /\ pend \in [leaf : Ptr, sub : Sub \cup {None}, chunk : 0..MaxChunk, iLevel : Nat]
  /\ nWrite \in Nat

Types ==
  /\ chunk \in ChunkMap
  /\ pc \in [Conn -> AlivePcs \cup ReaderPcs \cup {"end1", "endflag", "lost"}]
  /\ HeaderTypes /\ ReadTypes /\ WriteTypes

Inv ==
  /\ Types
  /\ IF IsLost THEN writer = None ELSE Main

LEMMA Sizes ==
  /\ MaxShm \in Nat \ {0} /\ MaxChunk \in Nat \ {0} /\ Room \in Nat \ {0}
  /\ ShmidMod = 4 * MaxShm /\ ShmidMod \in Nat \ {0}
  /\ 2 <= MaxChunk /\ 2 * MaxChunk <= MaxShm
  BY TreeAssumption

LEMMA ModCases ==
  ASSUME NEW a \in Int
  PROVE  /\ a % ShmidMod \in Ids
         /\ 0 <= a /\ a < ShmidMod => a % ShmidMod = a
         /\ -ShmidMod <= a /\ a < 0 => a % ShmidMod = a + ShmidMod
         /\ ShmidMod <= a /\ a < 2 * ShmidMod => a % ShmidMod = a - ShmidMod
<1>1. ShmidMod \in Nat \ {0}
  BY Sizes
<1>2. a % ShmidMod \in Ids
  BY <1>1 DEF Ids
<1>3. 0 <= a /\ a < ShmidMod => a % ShmidMod = a
  BY <1>1
<1>4. -ShmidMod <= a /\ a < 0 => a % ShmidMod = a + ShmidMod
  BY <1>1
<1>5. ShmidMod <= a /\ a < 2 * ShmidMod => a % ShmidMod = a - ShmidMod
  BY <1>1
<1> QED
  BY <1>2, <1>3, <1>4, <1>5

LEMMA RelType ==
  ASSUME NEW x \in Ids, NEW b \in Ids
  PROVE  Rel(x, b) \in (-2 * MaxShm)..(2 * MaxShm - 1)
  BY Sizes DEF Rel, Ids

LEMMA RelZero ==
  ASSUME NEW b \in Ids
  PROVE  Rel(b, b) = 0
  BY Sizes DEF Rel, Ids

LEMMA RelEq ==
  ASSUME NEW x \in Ids, NEW y \in Ids, NEW b \in Ids, Rel(x, b) = Rel(y, b)
  PROVE  x = y
  BY Sizes DEF Rel, Ids

LEMMA RelBase ==
  ASSUME NEW x \in Ids, NEW b \in Ids, NEW d \in Ids,
         Rel(x, b) - Rel(d, b) \in (-2 * MaxShm)..(2 * MaxShm - 1)
  PROVE  Rel(x, d) = Rel(x, b) - Rel(d, b)
  BY Sizes DEF Rel, Ids

LEMMA AddType ==
  ASSUME NEW x \in Ids, NEW n \in Int
  PROVE  Add(x, n) \in Ids
<1>1. x + n \in Int
  BY Sizes DEF Ids
<1>2. (x + n) % ShmidMod \in Ids
  BY <1>1, ModCases
<1> QED
  BY <1>2 DEF Add

\* Add() for a distance below ShmidMod.
LEMMA AddCases ==
  ASSUME NEW x \in Ids, NEW n \in (-ShmidMod)..ShmidMod
  PROVE  Add(x, n) = IF x + n < 0 THEN x + n + ShmidMod
                     ELSE IF x + n >= ShmidMod THEN x + n - ShmidMod ELSE x + n
<1> DEFINE a == x + n
           q == a % ShmidMod
<1>1. /\ a \in Int
      /\ -ShmidMod <= a /\ a < 2 * ShmidMod /\ ShmidMod \in Nat
  BY Sizes DEF Ids
<1> HIDE DEF a
<1>2. /\ 0 <= a /\ a < ShmidMod => q = a
      /\ -ShmidMod <= a /\ a < 0 => q = a + ShmidMod
      /\ ShmidMod <= a /\ a < 2 * ShmidMod => q = a - ShmidMod
  BY <1>1, ModCases
<1> HIDE DEF q
<1>3. q = IF a < 0 THEN a + ShmidMod ELSE IF a >= ShmidMod THEN a - ShmidMod ELSE a
  BY <1>1, <1>2
<1>4. Add(x, n) = q
  BY DEF Add, a, q
<1> QED
  BY <1>1, <1>3, <1>4, Sizes DEF a, Ids

LEMMA RelAdd ==
  ASSUME NEW x \in Ids, NEW b \in Ids, NEW n \in Int,
         Rel(x, b) + n \in (-2 * MaxShm)..(2 * MaxShm - 1)
  PROVE  Rel(Add(x, n), b) = Rel(x, b) + n
<1>1. n \in (-ShmidMod)..ShmidMod
  BY RelType, Sizes
<1>2. Add(x, n) = IF x + n < 0 THEN x + n + ShmidMod
                  ELSE IF x + n >= ShmidMod THEN x + n - ShmidMod ELSE x + n
  BY <1>1, AddCases
<1> QED
  BY <1>1, <1>2, Sizes DEF Rel, Ids

LEMMA RelMinus ==
  ASSUME NEW x \in Ids, NEW y \in Ids, NEW b \in Ids
  PROVE  (x - y) % ShmidMod = IF Rel(x, b) >= Rel(y, b) THEN Rel(x, b) - Rel(y, b)
                              ELSE Rel(x, b) - Rel(y, b) + ShmidMod
<1> DEFINE q == (x - y) % ShmidMod
<1>1. /\ x - y \in Int /\ ShmidMod \in Nat
      /\ -ShmidMod <= x - y /\ x - y < ShmidMod
  BY Sizes DEF Ids
<1>2. /\ 0 <= x - y /\ x - y < ShmidMod => q = x - y
      /\ -ShmidMod <= x - y /\ x - y < 0 => q = x - y + ShmidMod
  BY <1>1, ModCases
<1>3. q = IF x >= y THEN x - y ELSE x - y + ShmidMod
  <2> HIDE DEF q
  <2> QED
    BY <1>1, <1>2 DEF Ids
<1>4. q = IF Rel(x, b) >= Rel(y, b) THEN Rel(x, b) - Rel(y, b)
          ELSE Rel(x, b) - Rel(y, b) + ShmidMod
  <2> HIDE DEF q
  <2> QED
    BY <1>3, Sizes DEF Rel, Ids
<1> QED
  BY <1>4

\* Ids less than MaxShm apart are compared by their distances.
LEMMA RelSequence ==
  ASSUME NEW x \in Ids, NEW y \in Ids, NEW b \in Ids,
         Rel(x, b) - Rel(y, b) \in (-MaxShm)..(MaxShm - 1)
  PROVE  shm_sequence_ge(x, y) <=> Rel(x, b) >= Rel(y, b)
<1> DEFINE q == (x - y) % ShmidMod
<1>1. q = IF Rel(x, b) >= Rel(y, b) THEN Rel(x, b) - Rel(y, b)
          ELSE Rel(x, b) - Rel(y, b) + ShmidMod
  BY RelMinus
<1>2. shm_sequence_ge(x, y) <=> q < MaxShm
  BY DEF shm_sequence_ge
<1> HIDE DEF q
<1> QED
  BY <1>1, <1>2, RelType, Sizes

\* The id at the distance that % yields.
LEMMA RelPlace ==
  ASSUME NEW x \in Ids, NEW y \in Ids, NEW b \in Ids,
         Rel(y, b) + ((x - y) % ShmidMod) < 2 * MaxShm
  PROVE  Rel(x, b) = Rel(y, b) + ((x - y) % ShmidMod)
<1> DEFINE q == (x - y) % ShmidMod
<1>1. q = IF Rel(x, b) >= Rel(y, b) THEN Rel(x, b) - Rel(y, b)
          ELSE Rel(x, b) - Rel(y, b) + ShmidMod
  BY RelMinus
<1>2. Rel(y, b) + q < 2 * MaxShm
  OBVIOUS
<1>3. Rel(x, b) = Rel(y, b) + q
  <2> HIDE DEF q
  <2> QED
    BY <1>1, <1>2, RelType, Sizes
<1> QED
  BY <1>3

----------------------------------------------------------------------------
(* The list of chunks.                                                      *)

LEMMA PosType ==
  ASSUME NEW ch \in ChunkMap, NEW i \in Chunks, NEW b \in Ids
  PROVE  Pos(ch, i, b) \in (-2 * MaxShm)..(2 * MaxShm - 1) /\ Pos(ch, i, b) \in Int
<1>1. ch[i].iShmid \in Ids
  BY DEF ChunkMap
<1> QED
  BY <1>1, RelType, Sizes DEF Pos

LEMMA HeaderType ==
  ASSUME NEW h \in Header
  PROVE  /\ h.nChunk \in 2..(MaxChunk + 1) /\ h.nChunk \in Int
         /\ 1..(h.nChunk - 1) \subseteq Chunks
         /\ h.iNextShmid \in Ids /\ h.iUsedShmid \in Ids /\ h.iOldShmid \in Ids
         /\ h.iWrite \in Chunks \X (0..Room) /\ h.iFirst \in Chunks
         /\ h.trans \in Nat \ {0} /\ h.root \in Ptr
  BY Sizes DEF Header, Chunks

LEMMA ListOkPlaces ==
  ASSUME NEW h \in Header, NEW ch \in ChunkMap, ListOk(h, ch)
  PROVE  /\ Places1(ch, h.nChunk, 1 - h.nChunk, 0, h.iNextShmid)
         /\ Front(ch, h, 1 - h.nChunk, h.iNextShmid)
         /\ Chain(ch, h.nChunk, 1 - h.nChunk, 0, h.iNextShmid)
<1> DEFINE n == h.nChunk
           b == h.iNextShmid
           list == 1..(n - 1)
           place(i) == (ch[i].iShmid - ch[h.iFirst].iShmid) % ShmidMod
<1>1. /\ n \in 2..(MaxChunk + 1) /\ n \in Int /\ b \in Ids /\ list \subseteq Chunks
  BY HeaderType
<1>2. /\ h.iFirst \in list
      /\ \A i, j \in list : place(i) = place(j) => i = j
      /\ \A i \in list :
           \/ place(i) = n - 2 /\ ch[i].iNext = 0
           \/ /\ place(i) < n - 2
              /\ ch[i].iNext \in list /\ place(ch[i].iNext) = place(i) + 1
      /\ ch[h.iFirst].iShmid = Add(b, 1 - n)
  BY DEF ListOk, treeCheckLinkedList
<1>3. Pos(ch, h.iFirst, b) = 1 - n
  <2>1. Rel(b, b) = 0
    BY <1>1, RelZero
  <2>2. Rel(Add(b, 1 - n), b) = Rel(b, b) + (1 - n)
    BY <1>1, <2>1, RelAdd, Sizes
  <2> QED
    BY <1>2, <2>1, <2>2, <1>1 DEF Pos
<1>4. ASSUME NEW i \in list
      PROVE  /\ place(i) \in 0..(n - 2)
             /\ Pos(ch, i, b) = 1 - n + place(i)
  <2>1. ch[i].iShmid \in Ids /\ ch[h.iFirst].iShmid \in Ids
    BY <1>1, <1>2 DEF ChunkMap
  <2>2. place(i) \in Ids
    <3>1. ch[i].iShmid - ch[h.iFirst].iShmid \in Int
      BY <2>1, Sizes DEF Ids
    <3> QED
      BY <3>1, ModCases
  <2>3. place(i) \in 0..(n - 2)
    <3>1. place(i) = n - 2 \/ place(i) < n - 2
      BY <1>2
    <3> HIDE DEF place
    <3> QED
      BY <3>1, <2>2, <1>1 DEF Ids
  <2>4. Rel(ch[h.iFirst].iShmid, b) = 1 - n
    BY <1>3 DEF Pos
  <2>5. Rel(ch[h.iFirst].iShmid, b) + place(i) < 2 * MaxShm
    <3> HIDE DEF place
    <3> QED
      BY <2>3, <2>4, <1>1, Sizes
  <2>6. Rel(ch[i].iShmid, b) = Rel(ch[h.iFirst].iShmid, b) + place(i)
    BY <2>1, <2>5, <1>1, RelPlace
  <2> QED
    BY <2>3, <2>4, <2>6 DEF Pos
<1> HIDE DEF place
<1>5. Places1(ch, n, 1 - n, 0, b)
  BY <1>1, <1>2, <1>4 DEF Places1
<1>6. Front(ch, h, 1 - n, b)
  BY <1>2, <1>3 DEF Front
<1>7. Chain(ch, n, 1 - n, 0, b)
  BY <1>1, <1>2, <1>4 DEF Chain
<1> QED
  BY <1>5, <1>6, <1>7

LEMMA PlacesListOk ==
  ASSUME NEW h \in Header, NEW ch \in ChunkMap,
         Places1(ch, h.nChunk, 1 - h.nChunk, 0, h.iNextShmid),
         Front(ch, h, 1 - h.nChunk, h.iNextShmid),
         Chain(ch, h.nChunk, 1 - h.nChunk, 0, h.iNextShmid)
  PROVE  ListOk(h, ch)
<1> DEFINE n == h.nChunk
           b == h.iNextShmid
           list == 1..(n - 1)
           place(i) == (ch[i].iShmid - ch[h.iFirst].iShmid) % ShmidMod
<1>1. /\ n \in 2..(MaxChunk + 1) /\ n \in Int /\ b \in Ids /\ list \subseteq Chunks
  BY HeaderType
<1>2. h.iFirst \in list /\ Pos(ch, h.iFirst, b) = 1 - n
  BY DEF Front
<1>3. \A i \in list : Pos(ch, i, b) \in (1 - n)..(0 - 1)
  BY DEF Places1
<1>4. ASSUME NEW i \in list
      PROVE  place(i) = Pos(ch, i, b) - (1 - n)
  <2>1. ch[i].iShmid \in Ids /\ ch[h.iFirst].iShmid \in Ids
    BY <1>1, <1>2 DEF ChunkMap
  <2>2. place(i) = IF Pos(ch, i, b) >= Pos(ch, h.iFirst, b)
                   THEN Pos(ch, i, b) - Pos(ch, h.iFirst, b)
                   ELSE Pos(ch, i, b) - Pos(ch, h.iFirst, b) + ShmidMod
    BY <1>1, <2>1, RelMinus DEF Pos
  <2> HIDE DEF place
  <2> QED
    BY <1>1, <1>2, <1>3, <2>2
<1> HIDE DEF place
<1>5. \A i, j \in list : place(i) = place(j) => i = j
  BY <1>1, <1>3, <1>4 DEF Places1
<1>6. ASSUME NEW i \in list
      PROVE  \/ place(i) = n - 2 /\ ch[i].iNext = 0
             \/ /\ place(i) < n - 2
                /\ ch[i].iNext \in list /\ place(ch[i].iNext) = place(i) + 1
  <2>1. IF Pos(ch, i, b) = 0 - 1 THEN ch[i].iNext = 0
        ELSE ch[i].iNext \in list /\ Pos(ch, ch[i].iNext, b) = Pos(ch, i, b) + 1
    BY <1>3 DEF Chain
  <2> QED
    BY <1>1, <1>3, <1>4, <2>1
<1>7. ch[h.iFirst].iShmid = Add(b, 1 - n)
  <2>1. Rel(b, b) = 0
    BY <1>1, RelZero
  <2>2. Rel(Add(b, 1 - n), b) = Rel(b, b) + (1 - n)
    BY <1>1, <2>1, RelAdd, Sizes
  <2>3. Add(b, 1 - n) \in Ids /\ ch[h.iFirst].iShmid \in Ids
    BY <1>1, <1>2, AddType DEF ChunkMap
  <2> QED
    BY <1>1, <1>2, <2>1, <2>2, <2>3, RelEq DEF Pos
<1> QED
  BY <1>2, <1>5, <1>6, <1>7 DEF ListOk, treeCheckLinkedList, place

\* A transaction begins with the list of the committed header.
LEMMA BeginList ==
  ASSUME NEW H \in Header, NEW h \in Header, NEW ch \in ChunkMap,
         ListOk(H, ch), Trees(ch, H),
         h.nChunk = H.nChunk, h.iFirst = H.iFirst, h.iNextShmid = H.iNextShmid,
         h.iWrite = H.iWrite,
         \/ h.iUsedShmid = H.iUsedShmid /\ h.iOldShmid = H.iOldShmid
         \/ HasOld(H) /\ h.iUsedShmid = H.iOldShmid /\ h.iOldShmid = 0
  PROVE  /\ Above(ch, h, H)
         /\ Rel(h.iNextShmid, H.iNextShmid) = 0
         /\ Writable(ch, h, H, Rel(h.iNextShmid, H.iNextShmid))
         /\ MarkAbove(ch, Mark(h), h, H)
<1> DEFINE n == H.nChunk
           b == H.iNextShmid
           U == Rel(h.iUsedShmid, b)
<1>1. /\ n \in 2..(MaxChunk + 1) /\ n \in Int /\ b \in Ids
  BY HeaderType
<1>2. Rel(b, b) = 0
  BY <1>1, RelZero
<1>3. /\ Places1(ch, n, 1 - n, 0, b) /\ Front(ch, H, 1 - n, b) /\ Chain(ch, n, 1 - n, 0, b)
  BY ListOkPlaces
<1>4. /\ U \in (1 - n)..(-1)
      /\ HasOld(h) => Rel(h.iOldShmid, b) \in U..(-1)
  <2>1. Rel(H.iUsedShmid, b) \in (1 - n)..(-1)
    BY DEF Trees
  <2>2. HasOld(H) => Rel(H.iOldShmid, b) \in Rel(H.iUsedShmid, b)..(-1)
    BY DEF Trees
  <2> QED
    BY <1>1, <2>1, <2>2 DEF HasOld
<1>5. Above(ch, h, H)
  BY <1>1, <1>2, <1>4 DEF Above
<1>6. H.iWrite[1] \in 1..(n - 1) /\ Pos(ch, H.iWrite[1], b) = -1
  BY DEF Trees
<1>7. Writable(ch, h, H, Rel(h.iNextShmid, b))
  <2>1. Front(ch, h, 1 - n, b)
    BY <1>3 DEF Front
  <2>2. Chain(ch, n, 0, 0, b)
    BY <1>1 DEF Chain
  <2>3. 0 - (n - 1) = 1 - n /\ 0 - 1 = -1
    BY <1>1
  <2> QED
    BY <1>1, <1>2, <1>3, <1>4, <1>6, <2>1, <2>2, <2>3 DEF Writable
<1>8. MarkAbove(ch, Mark(h), h, H)
  <2>1. \A i \in 1..(n - 1) : Pos(ch, i, b) \in (1 - n)..(0 - 1)
    BY <1>3 DEF Places1
  <2>2. /\ Mark(h).nChunk = n /\ Mark(h).iNextShmid = b /\ Mark(h).iWrite = H.iWrite
    BY DEF Mark
  <2> QED
    BY <1>1, <1>2, <1>6, <2>1, <2>2 DEF MarkAbove
<1> QED
  BY <1>2, <1>5, <1>7, <1>8

Recycle(ch, h) == [ch EXCEPT ![h.iFirst] = [iShmid |-> h.iNextShmid, iNext |-> 0]]
Recycled(ch, h) == [h EXCEPT !.iNextShmid = Add(@, 1), !.iFirst = ch[@].iNext]

\* The first chunk of the list goes to its end, when it is before the trees.
LEMMA RecycleList ==
  ASSUME NEW H \in Header, NEW h \in Header, NEW ch \in ChunkMap,
         Committed(ch, H), Above(ch, h, H),
         Writable(ch, h, H, Rel(h.iNextShmid, H.iNextShmid)),
         h.iUsedShmid # ch[h.iFirst].iShmid
  PROVE  LET b == H.iNextShmid
             N == Rel(h.iNextShmid, b)
             ch2 == Recycle(ch, h)
             h2 == Recycled(ch, h)
         IN  /\ ch2 \in ChunkMap /\ h2 \in Header
             /\ Committed(ch2, H) /\ Above(ch2, h2, H)
             /\ Rel(h2.iNextShmid, b) = N + 1
             /\ Writable(ch2, h2, H, N)
             /\ h.iFirst \in 1..(h2.nChunk - 1) /\ Pos(ch2, h.iFirst, b) = N
             /\ \A m \in MarkRec : MarkAbove(ch, m, h, H) => MarkAbove(ch2, m, h2, H)
<1> DEFINE b == H.iNextShmid
           N == Rel(h.iNextShmid, b)
           n == h.nChunk
           F == N - (n - 1)
           U == Rel(h.iUsedShmid, b)
           f == h.iFirst
           ch2 == Recycle(ch, h)
           h2 == Recycled(ch, h)
           P(i) == Pos(ch, i, b)
           Q(i) == Pos(ch2, i, b)
<1>1. /\ n \in 2..(MaxChunk + 1) /\ n \in Int /\ b \in Ids /\ h.iNextShmid \in Ids
      /\ H.nChunk \in 2..(MaxChunk + 1) /\ H.nChunk \in Int
      /\ 1..(n - 1) \subseteq Chunks /\ 1..(H.nChunk - 1) \subseteq Chunks
      /\ MaxChunk \in Nat /\ h.iUsedShmid \in Ids /\ h.iFirst \in Chunks
  BY HeaderType, Sizes
<1>2. /\ N \in Int /\ U \in Int /\ \A i \in Chunks : P(i) \in Int
  BY <1>1, RelType, PosType, Sizes
<1>3. /\ N >= 0 /\ n >= H.nChunk
      /\ \A i \in H.nChunk..(n - 1) : P(i) >= 0
      /\ HasOld(h) => Rel(h.iOldShmid, b) \in U..(-1)
  BY DEF Above
<1>4. /\ F >= 1 - H.nChunk /\ U \in F..(-1)
      /\ \A i \in 1..(n - 1) : P(i) \in F..(N - 1)
      /\ \A i, j \in 1..(n - 1) : P(i) = P(j) => i = j
      /\ f \in 1..(n - 1) /\ P(f) = F
      /\ Chain(ch, n, F, N, b)
      /\ h.iWrite[1] \in 1..(n - 1) /\ P(h.iWrite[1]) = N - 1
  BY DEF Writable, Places1, Front
<1>5. F < U
  <2>1. U # F
    <3>1. ch[f].iShmid \in Ids
      BY <1>1 DEF ChunkMap
    <3> QED
      BY <1>1, <1>4, <3>1, RelEq DEF Pos
  <2> QED
    BY <1>1, <1>2, <1>4, <2>1
<1>6. N <= MaxChunk - 2 /\ F <= -2
  BY <1>1, <1>2, <1>4, <1>5
<1>7. /\ ch[f].iNext \in 1..(n - 1) /\ P(ch[f].iNext) = F + 1
  BY <1>1, <1>2, <1>3, <1>4, <1>6 DEF Chain
<1>8. ch2 \in ChunkMap
  BY <1>1 DEF Recycle, ChunkMap
<1>9. h2 \in Header /\ h2.nChunk = n /\ h2.iNextShmid = Add(h.iNextShmid, 1)
      /\ h2.iFirst = ch[f].iNext /\ h2.iUsedShmid = h.iUsedShmid
      /\ h2.iOldShmid = h.iOldShmid /\ h2.iWrite = h.iWrite
  <2>1. Add(h.iNextShmid, 1) \in Ids /\ ch[f].iNext \in Chunks
    BY <1>1, <1>7, AddType
  <2> QED
    BY <2>1, ZenonT(60) DEF Recycled, Header
<1>10. Rel(h2.iNextShmid, b) = N + 1
  <2>1. N + 1 \in (-2 * MaxShm)..(2 * MaxShm - 1)
    BY <1>1, <1>2, <1>3, <1>6, Sizes
  <2> QED
    BY <1>1, <1>9, <2>1, RelAdd
<1>11. /\ Q(f) = N /\ ch2[f].iNext = 0
       /\ \A i \in Chunks \ {f} : Q(i) = P(i) /\ ch2[i].iNext = ch[i].iNext
  BY <1>1 DEF Recycle, Pos, ChunkMap
<1>12. Committed(ch2, H)
  <2>1. /\ H.iWrite[1] \in 1..(H.nChunk - 1) /\ P(H.iWrite[1]) = -1
        /\ H.iWrite[1] = H.iFirst => H.nChunk = 2
        /\ Rel(H.iUsedShmid, H.iNextShmid) \in (1 - H.nChunk)..(-1)
        /\ HasOld(H) => Rel(H.iOldShmid, H.iNextShmid) \in Rel(H.iUsedShmid, H.iNextShmid)..(-1)
        /\ \A i \in 1..(H.nChunk - 1) : P(i) \in (-MaxChunk)..(MaxChunk - 1)
    BY DEF Committed, Trees
  <2> HIDE DEF P, Q, ch2, N
  <2>2. Q(H.iWrite[1]) = -1
    BY <1>1, <1>2, <1>4, <1>6, <1>11, <2>1
  <2>3. \A i \in 1..(H.nChunk - 1) : Q(i) \in (-MaxChunk)..(MaxChunk - 1)
    BY <1>1, <1>2, <1>3, <1>6, <1>11, <2>1
  <2> QED
    BY <2>1, <2>2, <2>3 DEF Committed, Trees, Q
<1>13. Above(ch2, h2, H)
  <2>1. \A i \in H.nChunk..(n - 1) : Q(i) >= 0
    <3> HIDE DEF P, Q, ch2, N
    <3> QED
      BY <1>1, <1>2, <1>3, <1>11, <1>4
  <2> QED
    BY <1>1, <1>2, <1>3, <1>9, <1>10, <2>1 DEF Above, HasOld
<1>14. Writable(ch2, h2, H, N)
  <2> DEFINE G == (N + 1) - (n - 1)
  <2>1. G = F + 1 /\ G \in Int
    BY <1>1, <1>2
  <2> HIDE DEF G
  <2> HIDE DEF P, Q, ch2, N
  <2>2. Places1(ch2, n, G, N + 1, b)
    <3>1. \A i \in 1..(n - 1) : Q(i) \in G..((N + 1) - 1)
      BY <1>1, <1>2, <1>4, <1>11, <2>1
    <3>2. \A i, j \in 1..(n - 1) : Q(i) = Q(j) => i = j
      BY <1>1, <1>2, <1>4, <1>11
    <3>3. (N + 1) - G = n - 1
      BY <1>1, <1>2, <2>1
    <3> QED
      BY <3>1, <3>2, <3>3 DEF Places1, Q
  <2>3. Front(ch2, h2, G, b)
    BY <1>1, <1>2, <1>4, <1>7, <1>9, <1>11, <2>1 DEF Front, Q
  <2>4. Chain(ch2, n, G, N, b)
    <3> SUFFICES ASSUME NEW i \in 1..(n - 1), Q(i) \in G..(N - 1)
                 PROVE  IF Q(i) = N - 1 THEN ch2[i].iNext = 0
                        ELSE ch2[i].iNext \in 1..(n - 1) /\ Q(ch2[i].iNext) = Q(i) + 1
      BY DEF Chain, Q
    <3>1. i # f /\ Q(i) = P(i) /\ ch2[i].iNext = ch[i].iNext
      BY <1>1, <1>2, <1>11
    <3>2. IF P(i) = N - 1 THEN ch[i].iNext = 0
          ELSE ch[i].iNext \in 1..(n - 1) /\ P(ch[i].iNext) = P(i) + 1
      BY <1>4 DEF Chain, P
    <3> QED
      BY <1>1, <1>2, <1>4, <1>11, <2>1, <3>1, <3>2
  <2>5. Chain(ch2, n, N, N + 1, b)
    <3> SUFFICES ASSUME NEW i \in 1..(n - 1), Q(i) \in N..((N + 1) - 1)
                 PROVE  Q(i) = (N + 1) - 1 /\ ch2[i].iNext = 0
      BY DEF Chain, Q
    <3> QED
      BY <1>1, <1>2, <1>4, <1>11
  <2>6. h.iWrite[1] \in 1..(n - 1) /\ Q(h.iWrite[1]) = N - 1
    BY <1>1, <1>2, <1>3, <1>4, <1>6, <1>11
  <2>7. G >= 1 - H.nChunk /\ U \in G..(-1)
    BY <1>1, <1>2, <1>4, <1>5, <2>1
  <2> QED
    BY <1>9, <1>10, <2>2, <2>3, <2>4, <2>5, <2>6, <2>7 DEF Writable, G, Q
<1>15. f \in 1..(h2.nChunk - 1) /\ Pos(ch2, f, b) = N
  BY <1>4, <1>9, <1>11
<1>16. ASSUME NEW m \in MarkRec, MarkAbove(ch, m, h, H)
       PROVE  MarkAbove(ch2, m, h2, H)
  <2> DEFINE X == Rel(m.iNextShmid, b)
  <2>1. /\ m.nChunk \in H.nChunk..n
        /\ X \in 0..N /\ X - m.nChunk >= -H.nChunk
        /\ m.iWrite[1] \in 1..(m.nChunk - 1) /\ P(m.iWrite[1]) = X - 1
        /\ \A i \in 1..(n - 1) : P(i) < X => i < m.nChunk
        /\ \A i \in H.nChunk..(m.nChunk - 1) : P(i) < X
    BY <1>16 DEF MarkAbove
  <2> HIDE DEF P, Q, ch2, N, X
  <2>2. f < H.nChunk
    BY <1>1, <1>2, <1>3, <1>4, <1>6
  <2>3. X \in 0..(N + 1)
    BY <1>2, <2>1
  <2>4. Q(m.iWrite[1]) = X - 1
    BY <1>1, <1>2, <1>4, <1>6, <1>11, <2>1
  <2>5. \A i \in 1..(n - 1) : Q(i) < X => i < m.nChunk
    BY <1>1, <1>2, <1>4, <1>11, <2>1
  <2>6. \A i \in H.nChunk..(m.nChunk - 1) : Q(i) < X
    BY <1>1, <1>11, <2>1, <2>2
  <2> QED
    BY <1>9, <1>10, <2>1, <2>3, <2>4, <2>5, <2>6 DEF MarkAbove, Q, X
<1> QED
  BY <1>8, <1>9, <1>10, <1>12, <1>13, <1>14, <1>15, <1>16

Appended(ch, h) == [ch EXCEPT ![h.nChunk] = [iShmid |-> h.iNextShmid, iNext |-> 0]]
Longer(h) == [h EXCEPT !.iNextShmid = Add(@, 1), !.nChunk = @ + 1]

\* A chunk is appended to the file and to the list.
LEMMA AppendList ==
  ASSUME NEW H \in Header, NEW h \in Header, NEW ch \in ChunkMap,
         Committed(ch, H), Above(ch, h, H),
         Writable(ch, h, H, Rel(h.iNextShmid, H.iNextShmid)),
         h.nChunk \in Chunks
  PROVE  LET b == H.iNextShmid
             N == Rel(h.iNextShmid, b)
             ch2 == Appended(ch, h)
             h2 == Longer(h)
         IN  /\ ch2 \in ChunkMap /\ h2 \in Header
             /\ Committed(ch2, H) /\ Above(ch2, h2, H)
             /\ Rel(h2.iNextShmid, b) = N + 1
             /\ Writable(ch2, h2, H, N)
             /\ h.nChunk \in 1..(h2.nChunk - 1) /\ Pos(ch2, h.nChunk, b) = N
             /\ \A m \in MarkRec : MarkAbove(ch, m, h, H) => MarkAbove(ch2, m, h2, H)
<1> DEFINE b == H.iNextShmid
           N == Rel(h.iNextShmid, b)
           n == h.nChunk
           F == N - (n - 1)
           U == Rel(h.iUsedShmid, b)
           ch2 == Appended(ch, h)
           h2 == Longer(h)
           P(i) == Pos(ch, i, b)
           Q(i) == Pos(ch2, i, b)
<1>1. /\ n \in 2..(MaxChunk + 1) /\ n \in Int /\ b \in Ids /\ h.iNextShmid \in Ids
      /\ H.nChunk \in 2..(MaxChunk + 1) /\ H.nChunk \in Int
      /\ 1..(n - 1) \subseteq Chunks /\ 1..(H.nChunk - 1) \subseteq Chunks
      /\ MaxChunk \in Nat /\ h.iUsedShmid \in Ids /\ h.iFirst \in Chunks
  BY HeaderType, Sizes
<1>2. /\ N \in Int /\ U \in Int /\ \A i \in Chunks : P(i) \in Int
      /\ n \in Chunks /\ n <= MaxChunk
  BY <1>1, RelType, PosType, Sizes DEF Chunks
<1>3. /\ N >= 0 /\ n >= H.nChunk
      /\ \A i \in H.nChunk..(n - 1) : P(i) >= 0
      /\ HasOld(h) => Rel(h.iOldShmid, b) \in U..(-1)
  BY DEF Above
<1>4. /\ F >= 1 - H.nChunk /\ U \in F..(-1)
      /\ \A i \in 1..(n - 1) : P(i) \in F..(N - 1)
      /\ \A i, j \in 1..(n - 1) : P(i) = P(j) => i = j
      /\ h.iFirst \in 1..(n - 1) /\ P(h.iFirst) = F
      /\ Chain(ch, n, F, N, b)
      /\ h.iWrite[1] \in 1..(n - 1) /\ P(h.iWrite[1]) = N - 1
  BY DEF Writable, Places1, Front
<1>6. N <= MaxChunk - 2
  BY <1>1, <1>2, <1>4
<1>8. ch2 \in ChunkMap
  BY <1>1 DEF Appended, ChunkMap
<1>9. h2 \in Header /\ h2.nChunk = n + 1 /\ h2.iNextShmid = Add(h.iNextShmid, 1)
      /\ h2.iFirst = h.iFirst /\ h2.iUsedShmid = h.iUsedShmid
      /\ h2.iOldShmid = h.iOldShmid /\ h2.iWrite = h.iWrite
  <2>1. Add(h.iNextShmid, 1) \in Ids
    BY <1>1, AddType
  <2>2. n + 1 \in 2..(MaxChunk + 1)
    BY <1>1, <1>2
  <2> QED
    BY <2>1, <2>2 DEF Longer, Header
<1>10. Rel(h2.iNextShmid, b) = N + 1
  <2>1. N + 1 \in (-2 * MaxShm)..(2 * MaxShm - 1)
    BY <1>1, <1>2, <1>3, <1>6, Sizes
  <2> QED
    BY <1>1, <1>9, <2>1, RelAdd
<1>11. /\ Q(n) = N /\ ch2[n].iNext = 0
       /\ \A i \in 1..(n - 1) : Q(i) = P(i) /\ ch2[i].iNext = ch[i].iNext
  BY <1>1, <1>2 DEF Appended, Pos, ChunkMap
<1>12. Committed(ch2, H)
  <2>1. /\ H.iWrite[1] \in 1..(H.nChunk - 1) /\ P(H.iWrite[1]) = -1
        /\ H.iWrite[1] = H.iFirst => H.nChunk = 2
        /\ Rel(H.iUsedShmid, H.iNextShmid) \in (1 - H.nChunk)..(-1)
        /\ HasOld(H) => Rel(H.iOldShmid, H.iNextShmid) \in Rel(H.iUsedShmid, H.iNextShmid)..(-1)
        /\ \A i \in 1..(H.nChunk - 1) : P(i) \in (-MaxChunk)..(MaxChunk - 1)
    BY DEF Committed, Trees
  <2> HIDE DEF P, Q, ch2, N
  <2>2. \A i \in 1..(H.nChunk - 1) : Q(i) = P(i)
    BY <1>1, <1>3, <1>11
  <2> QED
    BY <2>1, <2>2 DEF Committed, Trees, Q
<1>13. Above(ch2, h2, H)
  <2>1. \A i \in H.nChunk..((n + 1) - 1) : Q(i) >= 0
    <3> HIDE DEF P, Q, ch2, N
    <3> QED
      BY <1>1, <1>2, <1>3, <1>11, <1>4
  <2> QED
    BY <1>1, <1>2, <1>3, <1>9, <1>10, <2>1 DEF Above, HasOld
<1>14. Writable(ch2, h2, H, N)
  <2> DEFINE G == (N + 1) - ((n + 1) - 1)
  <2>1. G = F /\ G \in Int
    BY <1>1, <1>2
  <2> HIDE DEF G
  <2> HIDE DEF P, Q, ch2, N
  <2>2. Places1(ch2, n + 1, G, N + 1, b)
    <3>1. \A i \in 1..((n + 1) - 1) : Q(i) \in G..((N + 1) - 1)
      BY <1>1, <1>2, <1>4, <1>11, <2>1
    <3>2. \A i, j \in 1..((n + 1) - 1) : Q(i) = Q(j) => i = j
      BY <1>1, <1>2, <1>4, <1>11
    <3>3. (N + 1) - G = (n + 1) - 1
      BY <1>1, <1>2, <2>1
    <3> QED
      BY <3>1, <3>2, <3>3 DEF Places1, Q
  <2>3. Front(ch2, h2, G, b)
    BY <1>1, <1>2, <1>4, <1>9, <1>11, <2>1 DEF Front, Q
  <2>4. Chain(ch2, n + 1, G, N, b)
    <3> SUFFICES ASSUME NEW i \in 1..((n + 1) - 1), Q(i) \in G..(N - 1)
                 PROVE  IF Q(i) = N - 1 THEN ch2[i].iNext = 0
                        ELSE ch2[i].iNext \in 1..((n + 1) - 1) /\ Q(ch2[i].iNext) = Q(i) + 1
      BY DEF Chain, Q
    <3>1. i \in 1..(n - 1) /\ Q(i) = P(i) /\ ch2[i].iNext = ch[i].iNext
      BY <1>1, <1>2, <1>11
    <3>2. IF P(i) = N - 1 THEN ch[i].iNext = 0
          ELSE ch[i].iNext \in 1..(n - 1) /\ P(ch[i].iNext) = P(i) + 1
      BY <1>4, <3>1 DEF Chain, P
    <3> QED
      BY <1>1, <1>2, <1>4, <1>11, <2>1, <3>1, <3>2
  <2>5. Chain(ch2, n + 1, N, N + 1, b)
    <3> SUFFICES ASSUME NEW i \in 1..((n + 1) - 1), Q(i) \in N..((N + 1) - 1)
                 PROVE  Q(i) = (N + 1) - 1 /\ ch2[i].iNext = 0
      BY DEF Chain, Q
    <3> QED
      BY <1>1, <1>2, <1>4, <1>11
  <2>6. h.iWrite[1] \in 1..((n + 1) - 1) /\ Q(h.iWrite[1]) = N - 1
    BY <1>1, <1>2, <1>4, <1>11
  <2> QED
    BY <1>4, <1>9, <1>10, <2>1, <2>2, <2>3, <2>4, <2>5, <2>6 DEF Writable, G, Q
<1>15. n \in 1..(h2.nChunk - 1) /\ Pos(ch2, n, b) = N
  BY <1>1, <1>9, <1>11
<1>16. ASSUME NEW m \in MarkRec, MarkAbove(ch, m, h, H)
       PROVE  MarkAbove(ch2, m, h2, H)
  <2> DEFINE X == Rel(m.iNextShmid, b)
  <2>1. /\ m.nChunk \in H.nChunk..n
        /\ X \in 0..N /\ X - m.nChunk >= -H.nChunk
        /\ m.iWrite[1] \in 1..(m.nChunk - 1) /\ P(m.iWrite[1]) = X - 1
        /\ \A i \in 1..(n - 1) : P(i) < X => i < m.nChunk
        /\ \A i \in H.nChunk..(m.nChunk - 1) : P(i) < X
    BY <1>16 DEF MarkAbove
  <2> HIDE DEF P, Q, ch2, N, X
  <2>3. X \in 0..(N + 1) /\ m.nChunk \in H.nChunk..(n + 1)
    BY <1>1, <1>2, <2>1
  <2>4. Q(m.iWrite[1]) = X - 1
    BY <1>1, <1>2, <1>11, <2>1
  <2>5. \A i \in 1..((n + 1) - 1) : Q(i) < X => i < m.nChunk
    BY <1>1, <1>2, <1>11, <2>1
  <2>6. \A i \in H.nChunk..(m.nChunk - 1) : Q(i) < X
    BY <1>1, <1>11, <2>1
  <2> QED
    BY <1>9, <1>10, <2>1, <2>3, <2>4, <2>5, <2>6 DEF MarkAbove, Q, X
<1> QED
  BY <1>8, <1>9, <1>10, <1>12, <1>13, <1>14, <1>15, <1>16

LinkedTo(ch, h, p) == [ch EXCEPT ![h.iWrite[1]].iNext = p]
WriteIn(h, p) == [h EXCEPT !.iWrite = <<p, 0>>]

\* The last chunk that was linked is linked to chunk p, the new one.
LEMMA LinkList ==
  ASSUME NEW H \in Header, NEW h \in Header, NEW ch \in ChunkMap, NEW p \in 1..(h.nChunk - 1),
         Committed(ch, H), Above(ch, h, H),
         Writable(ch, h, H, Rel(h.iNextShmid, H.iNextShmid) - 1),
         Pos(ch, p, H.iNextShmid) = Rel(h.iNextShmid, H.iNextShmid) - 1
  PROVE  LET b == H.iNextShmid
             N == Rel(h.iNextShmid, b)
             ch2 == LinkedTo(ch, h, p)
             h2 == WriteIn(h, p)
         IN  /\ ch2 \in ChunkMap /\ h2 \in Header
             /\ Committed(ch2, H) /\ Above(ch2, h2, H)
             /\ Writable(ch2, h2, H, N)
             /\ \A m \in MarkRec : MarkAbove(ch, m, h, H) => MarkAbove(ch2, m, h2, H)
<1> DEFINE b == H.iNextShmid
           N == Rel(h.iNextShmid, b)
           n == h.nChunk
           F == N - (n - 1)
           U == Rel(h.iUsedShmid, b)
           w == h.iWrite[1]
           ch2 == LinkedTo(ch, h, p)
           h2 == WriteIn(h, p)
<1>1. /\ n \in 2..(MaxChunk + 1) /\ n \in Int /\ b \in Ids /\ h.iNextShmid \in Ids
      /\ 1..(n - 1) \subseteq Chunks /\ H.nChunk \in Int
      /\ MaxChunk \in Nat /\ p \in Chunks /\ p \in 0..MaxChunk
      /\ 1..(H.nChunk - 1) \subseteq Chunks
  BY HeaderType, Sizes DEF Chunks
<1>2. /\ F >= 1 - H.nChunk /\ U \in F..(-1) /\ Places1(ch, n, F, N, b) /\ Front(ch, h, F, b)
      /\ \A i \in 1..(n - 1) : Pos(ch, i, b) \in F..(N - 1)
      /\ \A i, j \in 1..(n - 1) : Pos(ch, i, b) = Pos(ch, j, b) => i = j
      /\ Chain(ch, n, F, N - 1, b) /\ Chain(ch, n, N - 1, N, b)
      /\ w \in 1..(n - 1) /\ Pos(ch, w, b) = N - 2 /\ Pos(ch, p, b) = N - 1
  <2>1. (N - 1) - 1 = N - 2
    BY <1>1, RelType, Sizes
  <2> QED
    BY <2>1 DEF Writable, Places1
<1>3. /\ N \in Int /\ \A i \in Chunks : Pos(ch, i, b) \in Int
  BY <1>1, RelType, PosType, Sizes
<1>4. ch2 \in ChunkMap
  BY <1>1, <1>2 DEF LinkedTo, ChunkMap
<1>5. h2 \in Header /\ h2.nChunk = n /\ h2.iNextShmid = h.iNextShmid
      /\ h2.iFirst = h.iFirst /\ h2.iUsedShmid = h.iUsedShmid
      /\ h2.iOldShmid = h.iOldShmid /\ h2.iWrite = <<p, 0>>
  BY <1>1, Sizes DEF WriteIn, Header
<1>6. /\ ch2[w].iNext = p
      /\ \A i \in Chunks : Pos(ch2, i, b) = Pos(ch, i, b)
      /\ \A i \in Chunks \ {w} : ch2[i].iNext = ch[i].iNext
  BY <1>1, <1>2 DEF LinkedTo, Pos, ChunkMap
<1>7. Committed(ch2, H)
  BY <1>1, <1>6 DEF Committed, Trees
<1>8. Above(ch2, h2, H)
  <2>1. \A i \in H.nChunk..(n - 1) : Pos(ch2, i, b) = Pos(ch, i, b)
    BY <1>1, <1>6, HeaderType
  <2> QED
    BY <1>5, <2>1 DEF Above, HasOld
<1>9. Writable(ch2, h2, H, N)
  <2> HIDE DEF ch2, N, w
  <2>1. Places1(ch2, n, F, N, b)
    BY <1>1, <1>2, <1>6 DEF Places1
  <2>2. Front(ch2, h2, F, b)
    BY <1>1, <1>2, <1>5, <1>6 DEF Front
  <2>3. Chain(ch2, n, F, N, b)
    <3> SUFFICES ASSUME NEW i \in 1..(n - 1), Pos(ch, i, b) \in F..(N - 1)
                 PROVE  IF Pos(ch, i, b) = N - 1 THEN ch2[i].iNext = 0
                        ELSE ch2[i].iNext \in 1..(n - 1)
                             /\ Pos(ch, ch2[i].iNext, b) = Pos(ch, i, b) + 1
      BY <1>1, <1>6 DEF Chain
    <3>1. CASE Pos(ch, i, b) = N - 1
      <4>1. i # w /\ Pos(ch, i, b) \in (N - 1)..(N - 1)
        BY <1>1, <1>2, <1>3, <3>1
      <4>2. ch[i].iNext = 0
        BY <1>2, <3>1, <4>1 DEF Chain
      <4> QED
        BY <1>1, <1>6, <3>1, <4>1, <4>2
    <3>2. CASE Pos(ch, i, b) = N - 2
      <4>1. i = w
        BY <1>2, <3>2
      <4> QED
        BY <1>1, <1>2, <1>3, <1>6, <3>2, <4>1
    <3>3. CASE Pos(ch, i, b) # N - 1 /\ Pos(ch, i, b) # N - 2
      <4>1. i # w /\ Pos(ch, i, b) \in F..((N - 1) - 1) /\ Pos(ch, i, b) # (N - 1) - 1
        BY <1>1, <1>2, <1>3, <3>3
      <4>2. ch[i].iNext \in 1..(n - 1) /\ Pos(ch, ch[i].iNext, b) = Pos(ch, i, b) + 1
        BY <1>2, <4>1 DEF Chain
      <4> QED
        BY <1>1, <1>6, <3>3, <4>1, <4>2
    <3> QED
      BY <3>1, <3>2, <3>3
  <2>4. Chain(ch2, n, N, N, b)
    BY <1>3 DEF Chain
  <2>5. h2.iWrite[1] = p /\ Pos(ch2, p, b) = N - 1
    BY <1>1, <1>5, <1>6 DEF N
  <2> QED
    BY <1>1, <1>2, <1>5, <2>1, <2>2, <2>3, <2>4, <2>5 DEF Writable, N
<1>10. ASSUME NEW m \in MarkRec, MarkAbove(ch, m, h, H)
       PROVE  MarkAbove(ch2, m, h2, H)
  <2>1. m.nChunk \in H.nChunk..n /\ m.iWrite[1] \in 1..(m.nChunk - 1)
    BY <1>10 DEF MarkAbove
  <2>2. /\ 1..(m.nChunk - 1) \subseteq Chunks /\ H.nChunk..(m.nChunk - 1) \subseteq Chunks
        /\ m.iWrite[1] \in Chunks
    BY <1>1, <2>1, HeaderType
  <2> QED
    BY <1>1, <1>5, <1>6, <1>10, <2>2 DEF MarkAbove
<1> QED
  BY <1>4, <1>5, <1>7, <1>8, <1>9, <1>10

LEMMA FirstNumbers ==
  ASSUME NEW k \in Nat
  PROVE  IsFiniteSet(1..k) /\ Cardinality(1..k) = k
<1>1. \A u, v \in Int : IsFiniteSet(u..v) /\ Cardinality(u..v) = IF u > v THEN 0 ELSE v - u + 1
  BY FS_Interval
<1>2. 1 \in Int /\ k \in Int
  OBVIOUS
<1>3. IsFiniteSet(1..k) /\ Cardinality(1..k) = IF 1 > k THEN 0 ELSE k - 1 + 1
  BY <1>1, <1>2
<1> QED
  BY <1>3

\* Of a whole list, as many chunks as ids lie below x.
LEMMA CountBelow ==
  ASSUME NEW ch \in ChunkMap, NEW b \in Ids, NEW n \in 2..(MaxChunk + 1),
         NEW lo \in Int, NEW hi \in Int, Places1(ch, n, lo, hi, b), NEW x \in lo..hi
  PROVE  Cardinality({i \in 1..(n - 1) : Pos(ch, i, b) < x}) = x - lo
<1> DEFINE P(i) == Pos(ch, i, b)
           S == {i \in 1..(n - 1) : P(i) < x}
           f == [i \in 1..(n - 1) |-> P(i)]
           g == [i \in S |-> P(i)]
<1>1. /\ n \in Nat /\ 1..(n - 1) \subseteq Chunks /\ \A i \in 1..(n - 1) : P(i) \in Int
      /\ x \in Int
  BY Sizes, PosType DEF Chunks
<1>2. /\ hi - lo = n - 1
      /\ \A i \in 1..(n - 1) : P(i) \in lo..(hi - 1)
      /\ \A i, j \in 1..(n - 1) : P(i) = P(j) => i = j
  BY DEF Places1
<1> HIDE DEF P
<1>3. f \in [1..(n - 1) -> lo..(hi - 1)]
  BY <1>2
<1>4. f \in Injection(1..(n - 1), lo..(hi - 1))
  <2>1. \A i, j \in 1..(n - 1) : f[i] = f[j] => i = j
    BY <1>2
  <2> QED
    BY <1>3, <2>1, Fun_IsInj
<1>5. /\ IsFiniteSet(1..(n - 1)) /\ Cardinality(1..(n - 1)) = n - 1
      /\ IsFiniteSet(lo..(hi - 1)) /\ Cardinality(lo..(hi - 1)) = n - 1
      /\ IsFiniteSet(lo..(x - 1)) /\ Cardinality(lo..(x - 1)) = x - lo
  <2> HIDE DEF S, f, g
  <2>4. \A u, v \in Int : IsFiniteSet(u..v) /\ Cardinality(u..v) = IF u > v THEN 0 ELSE v - u + 1
    BY FS_Interval
  <2>5. n - 1 \in Int /\ hi - 1 \in Int /\ x - 1 \in Int /\ 1 \in Int
    BY <1>1
  <2>1. /\ IsFiniteSet(1..(n - 1)) /\ Cardinality(1..(n - 1)) = IF 1 > n - 1 THEN 0 ELSE (n - 1) - 1 + 1
    BY <2>4, <2>5
  <2>2. /\ IsFiniteSet(lo..(hi - 1))
        /\ Cardinality(lo..(hi - 1)) = IF lo > hi - 1 THEN 0 ELSE (hi - 1) - lo + 1
    BY <2>4, <2>5
  <2>3. /\ IsFiniteSet(lo..(x - 1))
        /\ Cardinality(lo..(x - 1)) = IF lo > x - 1 THEN 0 ELSE (x - 1) - lo + 1
    BY <2>4, <2>5
  <2> QED
    BY <1>1, <1>2, <2>1, <2>2, <2>3
<1>6. f \in Surjection(1..(n - 1), lo..(hi - 1))
  BY <1>4, <1>5, FS_Injection
<1>7. \A t \in lo..(hi - 1) : \E i \in 1..(n - 1) : f[i] = t
  <2> HIDE DEF f
  <2> QED
    BY <1>6 DEF Surjection
<1>8. g \in Surjection(S, lo..(x - 1))
  <2>1. g \in [S -> lo..(x - 1)]
    BY <1>1, <1>2
  <2>2. ASSUME NEW t \in lo..(x - 1)
        PROVE  \E i \in S : g[i] = t
    <3>1. t \in lo..(hi - 1)
      BY <1>1
    <3>2. PICK i \in 1..(n - 1) : f[i] = t
      BY <1>7, <3>1
    <3>3. i \in S
      BY <1>1, <3>2
    <3> QED
      BY <3>2, <3>3
  <2> QED
    BY <2>1, <2>2, Fun_IsSurj
<1>9. g \in Injection(S, lo..(x - 1))
  <2>1. g \in [S -> lo..(x - 1)]
    BY <1>1, <1>2
  <2>2. \A i, j \in S : g[i] = g[j] => i = j
    BY <1>2
  <2> QED
    BY <2>1, <2>2, Fun_IsInj
<1>10. IsFiniteSet(S) /\ Cardinality(S) = Cardinality(lo..(x - 1))
  BY <1>5, <1>8, <1>9, FS_Injection
<1> QED
  BY <1>5, <1>10 DEF P

CutAt(ch, m) == [ch EXCEPT ![m.iWrite[1]].iNext = 0]

\* A rollback cuts the list at the mark.
LEMMA CutList ==
  ASSUME NEW H \in Header, NEW h \in Header, NEW ch \in ChunkMap, NEW m \in MarkRec,
         Committed(ch, H), Above(ch, h, H),
         Writable(ch, h, H, Rel(h.iNextShmid, H.iNextShmid)),
         MarkAbove(ch, m, h, H)
  PROVE  LET ch2 == CutAt(ch, m)
         IN  /\ ch2 \in ChunkMap
             /\ Committed(ch2, H) /\ Above(ch2, h, H)
             /\ RollingBack(ch2, h, H, m, ch[m.iWrite[1]].iNext)
             /\ \A m2 \in MarkRec : MarkAbove(ch, m2, h, H) => MarkAbove(ch2, m2, h, H)
<1> DEFINE b == H.iNextShmid
           N == Rel(h.iNextShmid, b)
           n == h.nChunk
           F == N - (n - 1)
           X == Rel(m.iNextShmid, b)
           w == m.iWrite[1]
           p == ch[w].iNext
           ch2 == CutAt(ch, m)
<1>1. /\ n \in 2..(MaxChunk + 1) /\ n \in Int /\ b \in Ids
      /\ 1..(n - 1) \subseteq Chunks /\ H.nChunk \in Int /\ MaxChunk \in Nat
      /\ 1..(H.nChunk - 1) \subseteq Chunks
      /\ N \in Int /\ \A i \in Chunks : Pos(ch, i, b) \in Int
  BY HeaderType, Sizes, RelType, PosType DEF Chunks
<1>2. /\ F >= 1 - H.nChunk /\ Rel(h.iUsedShmid, b) \in F..(-1) /\ Places1(ch, n, F, N, b)
      /\ Pos(ch, h.iFirst, b) = F /\ h.iFirst \in 1..(n - 1)
      /\ \A i \in 1..(n - 1) : Pos(ch, i, b) \in F..(N - 1)
      /\ \A i, j \in 1..(n - 1) : Pos(ch, i, b) = Pos(ch, j, b) => i = j
      /\ Chain(ch, n, F, N, b)
  BY DEF Writable, Places1, Front
<1>3. /\ m.nChunk \in H.nChunk..n
      /\ X \in 0..N /\ X - m.nChunk >= -H.nChunk
      /\ w \in 1..(m.nChunk - 1) /\ Pos(ch, w, b) = X - 1
      /\ \A i \in 1..(n - 1) : Pos(ch, i, b) < X => i < m.nChunk
      /\ \A i \in H.nChunk..(m.nChunk - 1) : Pos(ch, i, b) < X
  BY DEF MarkAbove
<1>4. w \in Chunks /\ w \in 1..(n - 1) /\ m.nChunk \in Int /\ X \in Int /\ F \in Int
  BY <1>1, <1>3
<1>5. ch2 \in ChunkMap
  BY <1>1, <1>4 DEF CutAt, ChunkMap
<1>6. /\ ch2[w].iNext = 0
      /\ \A i \in Chunks : Pos(ch2, i, b) = Pos(ch, i, b)
      /\ \A i \in Chunks \ {w} : ch2[i].iNext = ch[i].iNext
  BY <1>1, <1>4 DEF CutAt, Pos, ChunkMap
<1>7. Committed(ch2, H)
  BY <1>1, <1>6 DEF Committed, Trees
<1>8. Above(ch2, h, H)
  <2>1. \A i \in H.nChunk..(n - 1) : Pos(ch2, i, b) = Pos(ch, i, b)
    BY <1>1, <1>6, HeaderType
  <2> QED
    BY <2>1 DEF Above, HasOld
<1>9. RollingBack(ch2, h, H, m, p)
  <2> DEFINE P == IF p = 0 THEN N ELSE Pos(ch2, p, b)
  <2>1. IF X = N THEN p = 0 ELSE p \in 1..(n - 1) /\ Pos(ch, p, b) = X
    BY <1>1, <1>2, <1>3, <1>4 DEF Chain
  <2>2. p \in 0..(n - 1) /\ P = X
    BY <1>1, <1>6, <2>1
  <2>3. Chain(ch2, n, F, X, b)
    <3> SUFFICES ASSUME NEW i \in 1..(n - 1), Pos(ch, i, b) \in F..(X - 1)
                 PROVE  IF Pos(ch, i, b) = X - 1 THEN ch2[i].iNext = 0
                        ELSE ch2[i].iNext \in 1..(n - 1)
                             /\ Pos(ch, ch2[i].iNext, b) = Pos(ch, i, b) + 1
      BY <1>1, <1>6 DEF Chain
    <3>1. CASE Pos(ch, i, b) = X - 1
      BY <1>2, <1>3, <1>4, <1>6, <3>1
    <3>2. CASE Pos(ch, i, b) # X - 1
      <4>1. i # w /\ Pos(ch, i, b) \in F..(N - 1) /\ Pos(ch, i, b) # N - 1
        BY <1>1, <1>2, <1>3, <1>4, <3>2
      <4>2. ch[i].iNext \in 1..(n - 1) /\ Pos(ch, ch[i].iNext, b) = Pos(ch, i, b) + 1
        BY <1>2, <4>1 DEF Chain
      <4> QED
        BY <1>1, <1>6, <3>2, <4>1, <4>2
    <3> QED
      BY <3>1, <3>2
  <2>4. Chain(ch2, n, X, N, b)
    <3> SUFFICES ASSUME NEW i \in 1..(n - 1), Pos(ch, i, b) \in X..(N - 1)
                 PROVE  IF Pos(ch, i, b) = N - 1 THEN ch2[i].iNext = 0
                        ELSE ch2[i].iNext \in 1..(n - 1)
                             /\ Pos(ch, ch2[i].iNext, b) = Pos(ch, i, b) + 1
      BY <1>1, <1>6 DEF Chain
    <3>1. i # w /\ Pos(ch, i, b) \in F..(N - 1)
      BY <1>1, <1>2, <1>3, <1>4
    <3>2. IF Pos(ch, i, b) = N - 1 THEN ch[i].iNext = 0
          ELSE ch[i].iNext \in 1..(n - 1) /\ Pos(ch, ch[i].iNext, b) = Pos(ch, i, b) + 1
      BY <1>2, <3>1 DEF Chain
    <3> QED
      BY <1>1, <1>6, <3>1, <3>2
  <2>5. Cardinality(Back(ch2, m, X, b)) = X - F
    <3>1. X \in F..N
      BY <1>1, <1>2, <1>3, <1>4
    <3>2. Cardinality({i \in 1..(n - 1) : Pos(ch, i, b) < X}) = X - F
      BY <1>1, <1>2, <1>4, <3>1, CountBelow
    <3>3. Back(ch2, m, X, b) = {i \in 1..(n - 1) : Pos(ch, i, b) < X}
      BY <1>1, <1>3, <1>4, <1>6 DEF Back
    <3> QED
      BY <3>2, <3>3
  <2>6. N < MaxChunk
    BY <1>1, <1>2
  <2>7. Pos(ch2, h.iFirst, b) = F
    BY <1>1, <1>2, <1>6
  <2>8. /\ \A i \in 1..(n - 1) : Pos(ch2, i, b) \in F..(N - 1)
        /\ \A i, j \in 1..(n - 1) : Pos(ch2, i, b) = Pos(ch2, j, b) => i = j
    BY <1>1, <1>2, <1>6
  <2>9. X \in X..N /\ F <= Rel(h.iUsedShmid, b) /\ Rel(h.iUsedShmid, b) <= -1
    BY <1>1, <1>2, <1>3, <1>4
  <2> HIDE DEF F, N, X, ch2, p, P
  <2>10. \A i \in 1..(m.nChunk - 1) : Pos(ch2, i, b) >= X => Pos(ch2, i, b) >= X
    OBVIOUS
  <2> QED
    BY <1>2, <2>2, <2>3, <2>4, <2>5, <2>6, <2>7, <2>8, <2>9, <2>10 DEF RollingBack, N, X, P
<1>10. ASSUME NEW m2 \in MarkRec, MarkAbove(ch, m2, h, H)
       PROVE  MarkAbove(ch2, m2, h, H)
  <2>1. m2.nChunk \in H.nChunk..n /\ m2.iWrite[1] \in 1..(m2.nChunk - 1)
    BY <1>10 DEF MarkAbove
  <2>2. /\ 1..(m2.nChunk - 1) \subseteq Chunks /\ H.nChunk..(m2.nChunk - 1) \subseteq Chunks
        /\ m2.iWrite[1] \in Chunks
    BY <1>1, <2>1, HeaderType
  <2> QED
    BY <1>1, <1>6, <1>10, <2>2 DEF MarkAbove
<1> QED
  BY <1>5, <1>7, <1>8, <1>9, <1>10

\* A chunk that the rollback does not keep is passed.
LEMMA SkipList ==
  ASSUME NEW H \in Header, NEW h \in Header, NEW ch \in ChunkMap, NEW m \in MarkRec,
         NEW p \in Nat, p # 0, RollingBack(ch, h, H, m, p), ~(p < m.nChunk)
  PROVE  RollingBack(ch, h, H, m, ch[p].iNext)
<1> DEFINE b == H.iNextShmid
           N == Rel(h.iNextShmid, b)
           n == h.nChunk
           X == Rel(m.iNextShmid, b)
           F == Pos(ch, h.iFirst, b)
           P == Pos(ch, p, b)
           q == ch[p].iNext
           Q == IF q = 0 THEN N ELSE Pos(ch, q, b)
<1>1. /\ n \in 2..(MaxChunk + 1) /\ n \in Int /\ b \in Ids
      /\ 1..(n - 1) \subseteq Chunks /\ m.nChunk \in Int
      /\ N \in Int /\ \A i \in Chunks : Pos(ch, i, b) \in Int
      /\ X \in Int
  BY HeaderType, Sizes, RelType, PosType DEF Chunks, MarkRec
<1>2. /\ h.iFirst \in 1..(n - 1) /\ p \in 0..(n - 1)
      /\ N < MaxChunk /\ P \in X..N
      /\ F >= 1 - H.nChunk /\ F <= Rel(h.iUsedShmid, b) /\ Rel(h.iUsedShmid, b) <= -1
      /\ \A i \in 1..(n - 1) : Pos(ch, i, b) \in F..(N - 1)
      /\ \A i, j \in 1..(n - 1) : Pos(ch, i, b) = Pos(ch, j, b) => i = j
      /\ \A i \in 1..(m.nChunk - 1) : Pos(ch, i, b) >= X => Pos(ch, i, b) >= P
      /\ Chain(ch, n, F, X, b) /\ Chain(ch, n, P, N, b)
      /\ Cardinality(Back(ch, m, X, b)) = X - F
  BY DEF RollingBack
<1>3. p \in 1..(n - 1) /\ P \in P..(N - 1)
  BY <1>1, <1>2
<1>4. IF P = N - 1 THEN q = 0 ELSE q \in 1..(n - 1) /\ Pos(ch, q, b) = P + 1
  BY <1>2, <1>3 DEF Chain
<1>5. q \in 0..(n - 1) /\ Q = P + 1 /\ Q \in X..N
  BY <1>1, <1>2, <1>3, <1>4
<1>6. \A i \in 1..(m.nChunk - 1) : Pos(ch, i, b) >= X => Pos(ch, i, b) >= Q
  <2> SUFFICES ASSUME NEW i \in 1..(m.nChunk - 1), Pos(ch, i, b) >= X
               PROVE  Pos(ch, i, b) >= P + 1
    BY <1>5
  <2>1. CASE i \in 1..(n - 1)
    <3>1. i # p
      BY <1>1, <1>2
    <3>2. Pos(ch, i, b) # P /\ Pos(ch, i, b) >= P
      BY <1>2, <1>3, <2>1, <3>1
    <3> QED
      BY <1>1, <1>2, <2>1, <3>2
  <2>2. CASE i \notin 1..(n - 1)
    <3>1. m.nChunk > n
      BY <1>1, <2>2
    <3>2. p < m.nChunk
      BY <1>1, <1>3, <3>1
    <3> QED
      BY <3>2
  <2> QED
    BY <2>1, <2>2
<1>7. Chain(ch, n, Q, N, b)
  <2>1. \A i \in 1..(n - 1) : Pos(ch, i, b) \in Q..(N - 1) => Pos(ch, i, b) \in P..(N - 1)
    BY <1>1, <1>3, <1>5
  <2> QED
    BY <1>2, <2>1 DEF Chain
<1> QED
  BY <1>2, <1>5, <1>6, <1>7 DEF RollingBack

ToFront(ch, h, p) ==
  [ch EXCEPT ![p] = [iShmid |-> Add(ch[h.iFirst].iShmid, -1), iNext |-> h.iFirst]]
FirstIs(h, p) == [h EXCEPT !.iFirst = p]

\* One that it keeps goes to the front of the list.
LEMMA FreeList ==
  ASSUME NEW H \in Header, NEW h \in Header, NEW ch \in ChunkMap, NEW m \in MarkRec,
         NEW p \in Nat, p # 0, RollingBack(ch, h, H, m, p), p < m.nChunk,
         Committed(ch, H), Above(ch, h, H), MarkAbove(ch, m, h, H)
  PROVE  LET ch2 == ToFront(ch, h, p)
             h2 == FirstIs(h, p)
         IN  /\ ch2 \in ChunkMap /\ h2 \in Header
             /\ Committed(ch2, H) /\ Above(ch2, h2, H)
             /\ RollingBack(ch2, h2, H, m, ch[p].iNext)
             /\ \A m2 \in MarkRec : MarkBelow(m2, m, H.iNextShmid) /\ MarkAbove(ch, m2, h, H)
                                      => MarkAbove(ch2, m2, h2, H)
<1> DEFINE b == H.iNextShmid
           N == Rel(h.iNextShmid, b)
           n == h.nChunk
           X == Rel(m.iNextShmid, b)
           f == h.iFirst
           F == Pos(ch, f, b)
           P == Pos(ch, p, b)
           q == ch[p].iNext
           ch2 == ToFront(ch, h, p)
           h2 == FirstIs(h, p)
           R(i) == Pos(ch2, i, b)
           Q == IF q = 0 THEN N ELSE R(q)
<1>1. /\ n \in 2..(MaxChunk + 1) /\ n \in Int /\ b \in Ids
      /\ H.nChunk \in 2..(MaxChunk + 1) /\ H.nChunk \in Int /\ MaxChunk \in Nat
      /\ 1..(n - 1) \subseteq Chunks /\ m.nChunk \in Int
      /\ 1..(H.nChunk - 1) \subseteq Chunks
      /\ N \in Int /\ \A i \in Chunks : Pos(ch, i, b) \in Int
      /\ X \in Int
  BY HeaderType, Sizes, RelType, PosType DEF Chunks, MarkRec
<1>2. /\ f \in 1..(n - 1) /\ p \in 0..(n - 1)
      /\ N < MaxChunk /\ P \in X..N
      /\ F >= 1 - H.nChunk /\ F <= Rel(h.iUsedShmid, b) /\ Rel(h.iUsedShmid, b) <= -1
      /\ \A i \in 1..(n - 1) : Pos(ch, i, b) \in F..(N - 1)
      /\ \A i, j \in 1..(n - 1) : Pos(ch, i, b) = Pos(ch, j, b) => i = j
      /\ \A i \in 1..(m.nChunk - 1) : Pos(ch, i, b) >= X => Pos(ch, i, b) >= P
      /\ Chain(ch, n, F, X, b) /\ Chain(ch, n, P, N, b)
      /\ Cardinality(Back(ch, m, X, b)) = X - F
  BY DEF RollingBack
<1>3. p \in 1..(n - 1) /\ p \in Chunks /\ P \in P..(N - 1) /\ F \in Int /\ P \in Int
  BY <1>1, <1>2
<1>4. IF P = N - 1 THEN q = 0 ELSE q \in 1..(n - 1) /\ Pos(ch, q, b) = P + 1
  BY <1>2, <1>3 DEF Chain
<1>5. /\ m.nChunk \in H.nChunk..n
      /\ X \in 0..N /\ X - m.nChunk >= -H.nChunk
      /\ m.iWrite[1] \in 1..(m.nChunk - 1) /\ Pos(ch, m.iWrite[1], b) = X - 1
      /\ \A i \in 1..(n - 1) : Pos(ch, i, b) < X => i < m.nChunk
      /\ \A i \in H.nChunk..(m.nChunk - 1) : Pos(ch, i, b) < X
  BY DEF MarkAbove
<1>6. F <= -1 /\ P >= 0 /\ P # F /\ p # f
  BY <1>1, <1>2, <1>3, <1>5, HeaderType, RelType, Sizes
<1>7. p < H.nChunk
  BY <1>1, <1>2, <1>3, <1>5
<1>8. IsFiniteSet(Back(ch, m, X, b)) /\ p \notin Back(ch, m, X, b)
  <2>1. m.nChunk - 1 \in Nat
    BY <1>1, <1>5
  <2>2. IsFiniteSet(1..(m.nChunk - 1))
    BY <2>1, FirstNumbers
  <2>3. Back(ch, m, X, b) \in SUBSET (1..(m.nChunk - 1))
    BY DEF Back
  <2>4. p \notin Back(ch, m, X, b)
    BY <1>1, <1>2, <1>3 DEF Back
  <2> QED
    BY <2>2, <2>3, <2>4, FS_Subset
<1>9. F - 1 >= 1 - H.nChunk
  <2> DEFINE I == 1..(m.nChunk - 1)
             B == Back(ch, m, X, b)
  <2>1. p \in I
    BY <1>1, <1>3, <1>5
  <2>2. IsFiniteSet(I) /\ Cardinality(I) = m.nChunk - 1
    <3>1. m.nChunk - 1 \in Nat
      BY <1>1, <1>5
    <3> QED
      BY <3>1, FirstNumbers
  <2>3. B \in SUBSET (I \ {p})
    BY <1>8 DEF Back
  <2> HIDE DEF I, B
  <2>4. IsFiniteSet(I \ {p}) /\ Cardinality(I \ {p}) = Cardinality(I) - 1
    BY <2>1, <2>2, FS_RemoveElement
  <2>5. Cardinality(B) <= Cardinality(I \ {p})
    BY <2>3, <2>4, FS_Subset
  <2>6. Cardinality(B) = X - F
    BY <1>2 DEF B
  <2> QED
    BY <1>1, <1>3, <1>5, <2>2, <2>4, <2>5, <2>6
<1>10. /\ Add(ch[f].iShmid, -1) \in Ids
       /\ Rel(Add(ch[f].iShmid, -1), b) = F - 1
  <2>1. ch[f].iShmid \in Ids
    BY <1>1, <1>2 DEF ChunkMap
  <2>2. Rel(ch[f].iShmid, b) = F
    BY DEF Pos
  <2> HIDE DEF F
  <2>3. Rel(ch[f].iShmid, b) + (-1) \in (-2 * MaxShm)..(2 * MaxShm - 1)
    BY <1>1, <1>3, <1>6, <1>9, <2>2, Sizes
  <2>4. Rel(Add(ch[f].iShmid, -1), b) = Rel(ch[f].iShmid, b) + (-1)
    BY <1>1, <2>1, <2>3, RelAdd
  <2>5. Add(ch[f].iShmid, -1) \in Ids
    BY <2>1, AddType
  <2> QED
    BY <1>1, <1>3, <2>2, <2>4, <2>5
<1>11. ch2 \in ChunkMap /\ h2 \in Header
  <2>1. f \in 0..MaxChunk /\ p \in Chunks
    BY <1>1, <1>2, <1>3 DEF Chunks
  <2> QED
    BY <1>10, <2>1 DEF ToFront, FirstIs, ChunkMap, Header
<1>12. h2.nChunk = n /\ h2.iNextShmid = h.iNextShmid /\ h2.iFirst = p
       /\ h2.iUsedShmid = h.iUsedShmid /\ h2.iOldShmid = h.iOldShmid
  BY DEF FirstIs, Header
<1>13. /\ R(p) = F - 1 /\ ch2[p].iNext = f
       /\ \A i \in Chunks \ {p} : R(i) = Pos(ch, i, b) /\ ch2[i].iNext = ch[i].iNext
  BY <1>3, <1>10 DEF ToFront, Pos, ChunkMap
<1>14. Committed(ch2, H)
  <2>1. /\ H.iWrite[1] \in 1..(H.nChunk - 1) /\ Pos(ch, H.iWrite[1], b) = -1
        /\ H.iWrite[1] = H.iFirst => H.nChunk = 2
        /\ Rel(H.iUsedShmid, H.iNextShmid) \in (1 - H.nChunk)..(-1)
        /\ HasOld(H) => Rel(H.iOldShmid, H.iNextShmid) \in Rel(H.iUsedShmid, H.iNextShmid)..(-1)
        /\ \A i \in 1..(H.nChunk - 1) : Pos(ch, i, b) \in (-MaxChunk)..(MaxChunk - 1)
    BY DEF Committed, Trees
  <2> HIDE DEF R, ch2, F, P
  <2>2. R(H.iWrite[1]) = -1
    BY <1>1, <1>3, <1>6, <1>13, <2>1 DEF P
  <2>3. \A i \in 1..(H.nChunk - 1) : R(i) \in (-MaxChunk)..(MaxChunk - 1)
    BY <1>1, <1>3, <1>6, <1>9, <1>13, <2>1
  <2> QED
    BY <2>1, <2>2, <2>3 DEF Committed, Trees, R
<1>15. Above(ch2, h2, H)
  <2>1. \A i \in H.nChunk..(n - 1) : R(i) = Pos(ch, i, b)
    <3> HIDE DEF R
    <3> QED
      BY <1>1, <1>7, <1>13, <1>3
  <2> QED
    BY <1>12, <2>1 DEF Above, HasOld
<1>16. RollingBack(ch2, h2, H, m, q)
  <2>1. q \in 0..(n - 1) /\ Q = P + 1 /\ Q \in X..N
    <3>1. CASE P = N - 1
      BY <1>1, <1>2, <1>3, <1>4, <3>1
    <3>2. CASE P # N - 1
      <4>1. q \in 1..(n - 1) /\ Pos(ch, q, b) = P + 1
        BY <1>4, <3>2
      <4>2. q # p /\ q \in Chunks /\ q # 0
        BY <1>1, <1>3, <4>1
      <4> QED
        BY <1>1, <1>2, <1>3, <1>13, <4>1, <4>2, <3>2
    <3> QED
      BY <3>1, <3>2
  <2> HIDE DEF R, ch2, F, P, Q, h2, N, X, q
  <2>2. /\ \A i \in 1..(n - 1) : R(i) \in (F - 1)..(N - 1)
        /\ \A i, j \in 1..(n - 1) : R(i) = R(j) => i = j
    BY <1>1, <1>2, <1>3, <1>5, <1>6, <1>13
  <2>3. \A i \in 1..(m.nChunk - 1) : R(i) >= X => R(i) >= Q
    <3> SUFFICES ASSUME NEW i \in 1..(m.nChunk - 1), R(i) >= X
                 PROVE  R(i) >= P + 1
      BY <2>1
    <3>1. i # p
      BY <1>1, <1>3, <1>5, <1>6, <1>13
    <3>2. i \in 1..(n - 1) /\ i \in Chunks
      BY <1>1, <1>5
    <3>3. R(i) = Pos(ch, i, b)
      BY <1>13, <3>1, <3>2
    <3>4. Pos(ch, i, b) >= P
      BY <1>2, <3>3
    <3>5. Pos(ch, i, b) # P
      BY <1>2, <1>3, <3>1, <3>2 DEF P
    <3> QED
      BY <1>1, <1>3, <3>2, <3>3, <3>4, <3>5
  <2>4. Chain(ch2, n, F - 1, X, b)
    <3> SUFFICES ASSUME NEW i \in 1..(n - 1), R(i) \in (F - 1)..(X - 1)
                 PROVE  IF R(i) = X - 1 THEN ch2[i].iNext = 0
                        ELSE ch2[i].iNext \in 1..(n - 1) /\ R(ch2[i].iNext) = R(i) + 1
      BY DEF Chain, R
    <3>1. CASE i = p
      <4>1. R(i) # X - 1
        BY <1>1, <1>3, <1>5, <1>6, <1>13, <3>1
      <4>2. ch2[i].iNext = f /\ R(f) = F
        BY <1>1, <1>2, <1>6, <1>13, <3>1 DEF F
      <4> QED
        BY <1>2, <1>3, <1>13, <3>1, <4>1, <4>2
    <3>2. CASE i # p
      <4>1. R(i) = Pos(ch, i, b) /\ ch2[i].iNext = ch[i].iNext
        BY <1>1, <1>13, <3>2
      <4>2. Pos(ch, i, b) \in F..(X - 1)
        BY <1>1, <1>2, <1>3, <4>1
      <4>3. IF Pos(ch, i, b) = X - 1 THEN ch[i].iNext = 0
            ELSE ch[i].iNext \in 1..(n - 1) /\ Pos(ch, ch[i].iNext, b) = Pos(ch, i, b) + 1
        BY <1>2, <4>2 DEF Chain
      <4>4. Pos(ch, i, b) # X - 1 => ch[i].iNext # p
        BY <1>1, <1>2, <1>3, <4>2, <4>3 DEF P
      <4> QED
        BY <1>1, <1>13, <4>1, <4>3, <4>4
    <3> QED
      BY <3>1, <3>2
  <2>5. Chain(ch2, n, Q, N, b)
    <3> SUFFICES ASSUME NEW i \in 1..(n - 1), R(i) \in Q..(N - 1)
                 PROVE  IF R(i) = N - 1 THEN ch2[i].iNext = 0
                        ELSE ch2[i].iNext \in 1..(n - 1) /\ R(ch2[i].iNext) = R(i) + 1
      BY DEF Chain, R
    <3>1. i # p
      BY <1>1, <1>3, <1>6, <1>13, <2>1
    <3>2. R(i) = Pos(ch, i, b) /\ ch2[i].iNext = ch[i].iNext
      BY <1>1, <1>13, <3>1
    <3>3. Pos(ch, i, b) \in P..(N - 1)
      BY <1>1, <1>3, <2>1, <3>2
    <3>4. IF Pos(ch, i, b) = N - 1 THEN ch[i].iNext = 0
          ELSE ch[i].iNext \in 1..(n - 1) /\ Pos(ch, ch[i].iNext, b) = Pos(ch, i, b) + 1
      BY <1>2, <3>3 DEF Chain
    <3>5. Pos(ch, i, b) # N - 1 => ch[i].iNext # p
      BY <1>1, <1>3, <3>3, <3>4 DEF P
    <3> QED
      BY <1>1, <1>13, <3>2, <3>4, <3>5
  <2>6. Cardinality(Back(ch2, m, X, b)) = X - (F - 1)
    <3>1. Back(ch2, m, X, b) = Back(ch, m, X, b) \cup {p}
      <4>1. \A i \in 1..(m.nChunk - 1) : i # p => R(i) = Pos(ch, i, b)
        BY <1>1, <1>5, <1>13
      <4>2. p \in 1..(m.nChunk - 1) /\ R(p) < X
        BY <1>1, <1>3, <1>5, <1>6, <1>13
      <4> QED
        BY <4>1, <4>2 DEF Back, R
    <3>2. Cardinality(Back(ch2, m, X, b)) = Cardinality(Back(ch, m, X, b)) + 1
      BY <1>8, <3>1, FS_AddElement
    <3>3. X \in Int /\ F \in Int
      BY <1>1, <1>3
    <3> QED
      BY <1>2, <3>2, <3>3
  <2>7. F - 1 <= Rel(h.iUsedShmid, b) /\ F - 1 >= 1 - H.nChunk
    BY <1>2, <1>3, <1>9, HeaderType, RelType, Sizes
  <2>8. Pos(ch2, p, b) = F - 1
    BY <1>13 DEF R
  <2> QED
    BY <1>2, <1>3, <1>12, <2>1, <2>2, <2>3, <2>4, <2>5, <2>6, <2>7, <2>8
    DEF RollingBack, R, Q, N, X
<1>17. ASSUME NEW m2 \in MarkRec, MarkBelow(m2, m, b), MarkAbove(ch, m2, h, H)
       PROVE  MarkAbove(ch2, m2, h2, H)
  <2> DEFINE X2 == Rel(m2.iNextShmid, b)
  <2>1. /\ m2.nChunk \in H.nChunk..n
        /\ X2 \in 0..N /\ X2 - m2.nChunk >= -H.nChunk
        /\ m2.iWrite[1] \in 1..(m2.nChunk - 1) /\ Pos(ch, m2.iWrite[1], b) = X2 - 1
        /\ \A i \in 1..(n - 1) : Pos(ch, i, b) < X2 => i < m2.nChunk
        /\ \A i \in H.nChunk..(m2.nChunk - 1) : Pos(ch, i, b) < X2
    BY <1>17 DEF MarkAbove
  <2>2. X2 <= X
    BY <1>17 DEF MarkBelow
  <2> HIDE DEF R, ch2, F, P, h2, N, X, X2
  <2>3. R(m2.iWrite[1]) = X2 - 1
    BY <1>1, <1>2, <1>3, <1>13, <2>1, <2>2 DEF P
  <2>4. \A i \in 1..(n - 1) : R(i) < X2 => i < m2.nChunk
    BY <1>1, <1>3, <1>7, <1>13, <2>1
  <2>5. \A i \in H.nChunk..(m2.nChunk - 1) : R(i) < X2
    BY <1>1, <1>3, <1>7, <1>13, <2>1
  <2> QED
    BY <1>12, <2>1, <2>3, <2>4, <2>5 DEF MarkAbove, R, X2, N
<1> QED
  BY <1>11, <1>14, <1>15, <1>16, <1>17

RestoredTo(h, m) ==
  [h EXCEPT !.root = m.root, !.iWrite = m.iWrite, !.nChunk = m.nChunk,
            !.iNextShmid = m.iNextShmid, !.cur = m.cur]

\* When no chunk is left the header of the mark describes the list.
LEMMA RestoreList ==
  ASSUME NEW H \in Header, NEW h \in Header, NEW ch \in ChunkMap, NEW m \in MarkRec,
         RollingBack(ch, h, H, m, 0), Above(ch, h, H), MarkAbove(ch, m, h, H)
  PROVE  LET h2 == RestoredTo(h, m)
         IN  /\ h2 \in Header /\ Above(ch, h2, H)
             /\ Writable(ch, h2, H, Rel(h2.iNextShmid, H.iNextShmid))
             /\ \A m2 \in MarkRec : MarkBelow(m2, m, H.iNextShmid) /\ MarkAbove(ch, m2, h, H)
                                      => MarkAbove(ch, m2, h2, H)
<1> DEFINE b == H.iNextShmid
           N == Rel(h.iNextShmid, b)
           n == h.nChunk
           k == m.nChunk
           X == Rel(m.iNextShmid, b)
           F == Pos(ch, h.iFirst, b)
           h2 == RestoredTo(h, m)
<1>1. /\ n \in 2..(MaxChunk + 1) /\ n \in Int /\ b \in Ids
      /\ H.nChunk \in 2..(MaxChunk + 1) /\ H.nChunk \in Int /\ MaxChunk \in Nat
      /\ 1..(n - 1) \subseteq Chunks /\ k \in Int
      /\ N \in Int /\ \A i \in Chunks : Pos(ch, i, b) \in Int
      /\ X \in Int
  BY HeaderType, Sizes, RelType, PosType DEF Chunks, MarkRec
<1>2. /\ h.iFirst \in 1..(n - 1) /\ N \in X..N
      /\ F >= 1 - H.nChunk /\ F <= Rel(h.iUsedShmid, b) /\ Rel(h.iUsedShmid, b) <= -1
      /\ \A i \in 1..(n - 1) : Pos(ch, i, b) \in F..(N - 1)
      /\ \A i, j \in 1..(n - 1) : Pos(ch, i, b) = Pos(ch, j, b) => i = j
      /\ \A i \in 1..(k - 1) : Pos(ch, i, b) >= X => Pos(ch, i, b) >= N
      /\ Chain(ch, n, F, X, b)
      /\ Cardinality(Back(ch, m, X, b)) = X - F
  BY DEF RollingBack
<1>3. /\ k \in H.nChunk..n
      /\ X \in 0..N /\ X - k >= -H.nChunk
      /\ m.iWrite[1] \in 1..(k - 1) /\ Pos(ch, m.iWrite[1], b) = X - 1
      /\ \A i \in 1..(n - 1) : Pos(ch, i, b) < X => i < k
      /\ \A i \in H.nChunk..(k - 1) : Pos(ch, i, b) < X
  BY DEF MarkAbove
<1>4. \A i \in 1..(k - 1) : i \in 1..(n - 1) /\ Pos(ch, i, b) \in F..(X - 1)
  BY <1>1, <1>2, <1>3
<1>5. F = X - (k - 1) /\ F \in Int
  <2>1. Back(ch, m, X, b) = 1..(k - 1)
    BY <1>1, <1>4 DEF Back
  <2>3. k - 1 \in Nat /\ F \in Int
    BY <1>1, <1>2, <1>3
  <2>4. Cardinality(1..(k - 1)) = k - 1
    BY <2>3, FirstNumbers
  <2> QED
    BY <1>1, <1>2, <2>1, <2>3, <2>4
<1>6. h2 \in Header /\ h2.nChunk = k /\ h2.iNextShmid = m.iNextShmid /\ h2.iFirst = h.iFirst
      /\ h2.iUsedShmid = h.iUsedShmid /\ h2.iOldShmid = h.iOldShmid /\ h2.iWrite = m.iWrite
  BY DEF RestoredTo, Header, MarkRec
<1>7. Above(ch, h2, H)
  <2>1. /\ HasOld(h) => Rel(h.iOldShmid, b) \in Rel(h.iUsedShmid, b)..(-1)
        /\ \A i \in H.nChunk..(n - 1) : Pos(ch, i, b) >= 0
    BY DEF Above
  <2>2. \A i \in H.nChunk..(k - 1) : Pos(ch, i, b) >= 0
    BY <1>1, <1>3, <2>1
  <2> QED
    BY <1>1, <1>3, <1>6, <2>1, <2>2 DEF Above, HasOld
<1>8. Writable(ch, h2, H, X)
  <2> HIDE DEF F, N, X, h2
  <2>1. Places1(ch, k, F, X, b)
    BY <1>1, <1>2, <1>4, <1>5 DEF Places1
  <2>2. Front(ch, h2, F, b)
    <3>1. h.iFirst < k
      BY <1>1, <1>2, <1>3, <1>5, HeaderType, RelType, Sizes DEF F
    <3> QED
      BY <1>1, <1>2, <1>6, <3>1 DEF Front, F
  <2>3. Chain(ch, k, F, X, b)
    <3> SUFFICES ASSUME NEW i \in 1..(k - 1), Pos(ch, i, b) \in F..(X - 1)
                 PROVE  IF Pos(ch, i, b) = X - 1 THEN ch[i].iNext = 0
                        ELSE ch[i].iNext \in 1..(k - 1)
                             /\ Pos(ch, ch[i].iNext, b) = Pos(ch, i, b) + 1
      BY DEF Chain
    <3>1. IF Pos(ch, i, b) = X - 1 THEN ch[i].iNext = 0
          ELSE ch[i].iNext \in 1..(n - 1) /\ Pos(ch, ch[i].iNext, b) = Pos(ch, i, b) + 1
      BY <1>2, <1>4 DEF Chain
    <3> QED
      BY <1>1, <1>3, <1>4, <1>5, <3>1
  <2>4. Chain(ch, k, X, X, b)
    BY <1>1 DEF Chain
  <2>5. F >= 1 - H.nChunk /\ Rel(h.iUsedShmid, b) \in F..(-1)
    BY <1>2, <1>5, <1>1, HeaderType, RelType, Sizes
  <2> QED
    BY <1>3, <1>5, <1>6, <2>1, <2>2, <2>3, <2>4, <2>5 DEF Writable, X
<1>9. ASSUME NEW m2 \in MarkRec, MarkBelow(m2, m, b), MarkAbove(ch, m2, h, H)
      PROVE  MarkAbove(ch, m2, h2, H)
  <2> DEFINE X2 == Rel(m2.iNextShmid, b)
  <2>1. /\ m2.nChunk \in H.nChunk..n
        /\ X2 \in 0..N /\ X2 - m2.nChunk >= -H.nChunk
        /\ m2.iWrite[1] \in 1..(m2.nChunk - 1) /\ Pos(ch, m2.iWrite[1], b) = X2 - 1
        /\ \A i \in 1..(n - 1) : Pos(ch, i, b) < X2 => i < m2.nChunk
        /\ \A i \in H.nChunk..(m2.nChunk - 1) : Pos(ch, i, b) < X2
    BY <1>9 DEF MarkAbove
  <2>2. X2 <= X /\ m2.nChunk <= k
    BY <1>9 DEF MarkBelow
  <2>3. m2.nChunk \in H.nChunk..k /\ X2 \in 0..X
    BY <1>1, <2>1, <2>2
  <2>4. \A i \in 1..(k - 1) : Pos(ch, i, b) < X2 => i < m2.nChunk
    BY <1>4, <2>1
  <2> QED
    BY <1>6, <2>1, <2>3, <2>4 DEF MarkAbove
<1> QED
  BY <1>6, <1>7, <1>8, <1>9

\* What a header published by the transaction says of the list.
LEMMA PublishList ==
  ASSUME NEW H \in Header, NEW h \in Header, NEW ch \in ChunkMap,
         Above(ch, h, H), Writable(ch, h, H, Rel(h.iNextShmid, H.iNextShmid))
  PROVE  ListOk(h, ch) /\ Trees(ch, h) /\ H.nChunk <= h.nChunk
<1> DEFINE b == H.iNextShmid
           d == h.iNextShmid
           N == Rel(d, b)
           n == h.nChunk
           F == N - (n - 1)
           U == Rel(h.iUsedShmid, b)
<1>1. /\ n \in 2..(MaxChunk + 1) /\ n \in Int /\ b \in Ids /\ d \in Ids
      /\ H.nChunk \in 2..(MaxChunk + 1) /\ H.nChunk \in Int /\ MaxChunk \in Nat
      /\ 1..(n - 1) \subseteq Chunks
      /\ N \in Int /\ \A i \in Chunks : Pos(ch, i, b) \in Int
      /\ h.iUsedShmid \in Ids /\ h.iOldShmid \in Ids
  BY HeaderType, Sizes, RelType, PosType DEF Chunks
<1>2. /\ F >= 1 - H.nChunk /\ U \in F..(-1)
      /\ \A i \in 1..(n - 1) : Pos(ch, i, b) \in F..(N - 1)
      /\ \A i, j \in 1..(n - 1) : Pos(ch, i, b) = Pos(ch, j, b) => i = j
      /\ h.iFirst \in 1..(n - 1) /\ Pos(ch, h.iFirst, b) = F
      /\ Chain(ch, n, F, N, b)
      /\ h.iWrite[1] \in 1..(n - 1) /\ Pos(ch, h.iWrite[1], b) = N - 1
  BY DEF Writable, Places1, Front
<1>3. /\ N >= 0 /\ n >= H.nChunk
      /\ HasOld(h) => Rel(h.iOldShmid, b) \in U..(-1)
  BY DEF Above
<1>4. ASSUME NEW x \in Ids, Rel(x, b) \in F..(N - 1)
      PROVE  Rel(x, d) = Rel(x, b) - N
  <2>1. Rel(x, b) - Rel(d, b) \in (-2 * MaxShm)..(2 * MaxShm - 1)
    <3> HIDE DEF N
    <3>1. Rel(x, b) - N \in (1 - n)..(-1)
      BY <1>1, <1>4
    <3> QED
      BY <1>1, <3>1, Sizes DEF N
  <2> QED
    BY <1>1, <2>1, RelBase
<1>5. \A i \in 1..(n - 1) : Pos(ch, i, d) = Pos(ch, i, b) - N
  <2> SUFFICES ASSUME NEW i \in 1..(n - 1) PROVE Pos(ch, i, d) = Pos(ch, i, b) - N
    OBVIOUS
  <2>1. ch[i].iShmid \in Ids
    BY <1>1 DEF ChunkMap
  <2> QED
    BY <1>2, <1>4, <2>1 DEF Pos
<1>6. F \in Int /\ F = N + (1 - n)
  BY <1>1
<1>7. Rel(h.iUsedShmid, d) = U - N /\ U \in Int
  <2>1. U \in F..(N - 1) /\ U \in Int
    BY <1>1, <1>2, <1>3, <1>6
  <2> QED
    BY <1>1, <1>4, <2>1
<1>8. HasOld(h) => Rel(h.iOldShmid, d) = Rel(h.iOldShmid, b) - N
  <2>1. HasOld(h) => Rel(h.iOldShmid, b) \in F..(N - 1)
    BY <1>1, <1>2, <1>3, <1>6, <1>7
  <2> QED
    BY <1>1, <1>4, <2>1
<1> HIDE DEF F, N, U
<1>9. Places1(ch, n, 1 - n, 0, d)
  <2>1. \A i \in 1..(n - 1) : Pos(ch, i, d) \in (1 - n)..(0 - 1)
    BY <1>1, <1>2, <1>5, <1>6
  <2>2. \A i, j \in 1..(n - 1) : Pos(ch, i, d) = Pos(ch, j, d) => i = j
    BY <1>1, <1>2, <1>5
  <2> QED
    BY <1>1, <2>1, <2>2 DEF Places1
<1>10. Front(ch, h, 1 - n, d)
  BY <1>1, <1>2, <1>5, <1>6 DEF Front
<1>11. Chain(ch, n, 1 - n, 0, d)
  <2> SUFFICES ASSUME NEW i \in 1..(n - 1)
               PROVE  IF Pos(ch, i, d) = 0 - 1 THEN ch[i].iNext = 0
                      ELSE ch[i].iNext \in 1..(n - 1)
                           /\ Pos(ch, ch[i].iNext, d) = Pos(ch, i, d) + 1
    BY DEF Chain
  <2>1. IF Pos(ch, i, b) = N - 1 THEN ch[i].iNext = 0
        ELSE ch[i].iNext \in 1..(n - 1) /\ Pos(ch, ch[i].iNext, b) = Pos(ch, i, b) + 1
    BY <1>2 DEF Chain
  <2> QED
    BY <1>1, <1>2, <1>5, <2>1
<1>12. ListOk(h, ch)
  BY <1>9, <1>10, <1>11, PlacesListOk
<1>13. Trees(ch, h)
  <2>1. Pos(ch, h.iWrite[1], d) = -1
    BY <1>1, <1>2, <1>5
  <2>2. h.iWrite[1] = h.iFirst => n = 2
    BY <1>1, <1>2, <1>6
  <2>3. Rel(h.iUsedShmid, d) \in (1 - n)..(-1)
    BY <1>1, <1>2, <1>3, <1>6, <1>7
  <2>4. HasOld(h) => Rel(h.iOldShmid, d) \in Rel(h.iUsedShmid, d)..(-1)
    BY <1>1, <1>2, <1>3, <1>6, <1>7, <1>8
  <2> QED
    BY <1>2, <2>1, <2>2, <2>3, <2>4 DEF Trees
<1> QED
  BY <1>3, <1>12, <1>13

\* The live tree that is made old ends in the last chunk.
LEMMA OldTrees ==
  ASSUME NEW h \in Header, NEW h2 \in Header, NEW ch \in ChunkMap,
         ListOk(h, ch), Trees(ch, h),
         h2.nChunk = h.nChunk, h2.iFirst = h.iFirst, h2.iNextShmid = h.iNextShmid,
         h2.iWrite = h.iWrite, h2.iUsedShmid = h.iUsedShmid,
         h2.iOldShmid = Add(h.iNextShmid, -1)
  PROVE  ListOk(h2, ch) /\ Trees(ch, h2)
<1>1. ListOk(h2, ch)
  BY DEF ListOk, treeCheckLinkedList
<1>2. Rel(h2.iOldShmid, h2.iNextShmid) = -1
  <2>1. Rel(h.iNextShmid, h.iNextShmid) = 0 /\ h.iNextShmid \in Ids
    BY HeaderType, RelZero
  <2>2. 0 + (-1) \in (-2 * MaxShm)..(2 * MaxShm - 1)
    BY Sizes
  <2>3. Rel(Add(h.iNextShmid, -1), h.iNextShmid) = 0 + (-1)
    BY <2>1, <2>2, RelAdd
  <2> QED
    BY <2>3
<1>3. Rel(h.iUsedShmid, h.iNextShmid) \in (1 - h.nChunk)..(-1)
  BY DEF Trees
<1> QED
  BY <1>1, <1>2, <1>3, HeaderType, RelType, Sizes DEF Trees

LEMMA ListCommitted ==
  ASSUME NEW h \in Header, NEW ch \in ChunkMap, ListOk(h, ch), Trees(ch, h)
  PROVE  Committed(ch, h)
<1>1. \A i \in 1..(h.nChunk - 1) : Pos(ch, i, h.iNextShmid) \in (1 - h.nChunk)..(0 - 1)
  BY ListOkPlaces DEF Places1
<1> QED
  BY <1>1, HeaderType, Sizes DEF Committed

----------------------------------------------------------------------------
(* The repair of the list.                                                  *)

LEMMA NatMinimum ==
  ASSUME NEW S \in SUBSET Nat, S # {}
  PROVE  \E x \in S : \A y \in S : x <= y
<1>1. IsWellFoundedOn(OpToRel(<, Nat), Nat)
  BY NatLessThanWellFounded
<1>2. PICK x \in S : \A y \in S : ~ (<<y, x>> \in OpToRel(<, Nat))
  BY <1>1, WFMin
<1>3. \A y \in S : ~(y < x)
  BY <1>2 DEF OpToRel
<1> QED
  BY <1>3

LEMMA FirstType ==
  ASSUME NEW S \in SUBSET Nat, S # {}
  PROVE  First(S) \in S /\ \A j \in S : First(S) <= j
  BY NatMinimum DEF First

\* Among chunks whose ids are near each other one has the smallest id.
LEMMA SmallestChunk ==
  ASSUME NEW ch \in ChunkMap, NEW b \in Ids, NEW n \in 2..(MaxChunk + 1),
         \A i \in 1..(n - 1) : Pos(ch, i, b) \in (-MaxChunk)..(MaxChunk - 1)
  PROVE  \E i \in 1..(n - 1) : \A j \in 1..(n - 1) :
            \/ ch[j].iShmid # ch[i].iShmid /\ shm_sequence_ge(ch[j].iShmid, ch[i].iShmid)
            \/ ch[j].iShmid = ch[i].iShmid /\ j <= i
<1> DEFINE list == 1..(n - 1)
           P(i) == Pos(ch, i, b)
           A == {P(i) + MaxChunk : i \in list}
<1>1. /\ n \in Nat /\ n >= 2 /\ MaxChunk \in Nat /\ list \subseteq Chunks
      /\ \A i \in list : P(i) \in Int /\ P(i) + MaxChunk \in Nat
  BY Sizes DEF Chunks
<1>2. PICK x \in A : \A y \in A : x <= y
  <2>1. A \subseteq Nat
    BY <1>1
  <2>2. P(1) + MaxChunk \in A
    BY <1>1
  <2> HIDE DEF A
  <2> QED
    BY <2>1, <2>2, NatMinimum
<1>3. PICK k \in list : x = P(k) + MaxChunk
  BY <1>2
<1>4. \A j \in list : P(k) <= P(j)
  <2> SUFFICES ASSUME NEW j \in list PROVE P(k) <= P(j)
    OBVIOUS
  <2>1. P(k) + MaxChunk <= P(j) + MaxChunk
    BY <1>2, <1>3
  <2> HIDE DEF P
  <2> QED
    BY <1>1, <2>1
<1> DEFINE B == {n - i : i \in {j \in list : P(j) = P(k)}}
<1>5. PICK z \in B : \A y \in B : z <= y
  <2>1. B \subseteq Nat
    BY <1>1
  <2>2. n - k \in B
    BY <1>3
  <2> HIDE DEF B
  <2> QED
    BY <2>1, <2>2, NatMinimum
<1>6. PICK i \in list : z = n - i /\ P(i) = P(k)
  BY <1>5
<1>7. \A j \in list : P(j) = P(i) => j <= i
  <2> SUFFICES ASSUME NEW j \in list, P(j) = P(i) PROVE j <= i
    OBVIOUS
  <2>1. n - j \in B
    BY <1>6
  <2>2. n - i <= n - j
    BY <1>5, <1>6, <2>1
  <2> QED
    BY <1>1, <2>2
<1>8. ASSUME NEW j \in list
      PROVE  \/ ch[j].iShmid # ch[i].iShmid /\ shm_sequence_ge(ch[j].iShmid, ch[i].iShmid)
             \/ ch[j].iShmid = ch[i].iShmid /\ j <= i
  <2>1. ch[j].iShmid \in Ids /\ ch[i].iShmid \in Ids
    BY <1>1 DEF ChunkMap
  <2>2. CASE ch[j].iShmid = ch[i].iShmid
    BY <1>7, <2>2 DEF Pos
  <2>3. CASE ch[j].iShmid # ch[i].iShmid
    <3>1. P(j) >= P(i) /\ P(i) \in (-MaxChunk)..(MaxChunk - 1)
          /\ P(j) \in (-MaxChunk)..(MaxChunk - 1)
      BY <1>1, <1>4, <1>6
    <3>2. P(j) - P(i) \in (-MaxShm)..(MaxShm - 1)
      <4> HIDE DEF P
      <4> QED
        BY <3>1, Sizes
    <3>3. shm_sequence_ge(ch[j].iShmid, ch[i].iShmid)
      BY <2>1, <3>1, <3>2, RelSequence DEF Pos
    <3> QED
      BY <2>3, <3>3
  <2> QED
    BY <2>2, <2>3
<1> QED
  BY <1>8

\* A repair keeps the chunks typed, and it leaves the id of the chunk that
\* the committed transaction wrote last.
LEMMA RepairType ==
  ASSUME NEW H \in Header, NEW h \in Header, chunk \in ChunkMap,
         Committed(chunk, H), h.nChunk <= H.nChunk
  PROVE  /\ RepairedList(h) \in ChunkMap
         /\ h = H => RepairedList(h)[H.iWrite[1]].iShmid = chunk[H.iWrite[1]].iShmid
         /\ h = H => \A i \in 1..(h.nChunk - 1) :
                      Pos(RepairedList(h), i, H.iNextShmid) <= -1
<1> DEFINE list == 1..(h.nChunk - 1)
           b == H.iNextShmid
           small(i) == \A j \in list :
               \/ chunk[j].iShmid # chunk[i].iShmid
                  /\ shm_sequence_ge(chunk[j].iShmid, chunk[i].iShmid)
               \/ chunk[j].iShmid = chunk[i].iShmid /\ j <= i
           min == CHOOSE i \in list : small(i)
           late == {i \in list \ {h.iFirst} :
                      shm_sequence_ge(chunk[i].iShmid, h.iNextShmid)}
           prev == Add(chunk[min].iShmid, -1 - Cardinality(late))
           fix == RepairedIds(h)
<1>1. /\ h.nChunk \in 2..(MaxChunk + 1) /\ h.nChunk \in Int /\ H.nChunk \in Int
      /\ list \subseteq Chunks /\ b \in Ids /\ MaxChunk \in Nat
      /\ H.nChunk \in 2..(MaxChunk + 1)
  BY HeaderType, Sizes
<1>2. min \in list /\ small(min)
  <2>1. \A i \in list : Pos(chunk, i, b) \in (-MaxChunk)..(MaxChunk - 1)
    BY <1>1 DEF Committed
  <2>2. \E i \in list : small(i)
    BY <1>1, <2>1, SmallestChunk
  <2> HIDE DEF small
  <2> QED
    BY <2>2
<1>3. chunk[min].iShmid \in Ids
  <2> HIDE DEF min
  <2> QED
    BY <1>1, <1>2 DEF ChunkMap
<1>4. IsFiniteSet(list)
  BY <1>1, FirstNumbers
<1>5. ASSUME NEW S \in SUBSET list
      PROVE  Add(chunk[min].iShmid, -1 - Cardinality(S)) \in Ids
  <2>1. Cardinality(S) \in Nat
    BY <1>4, FS_Subset, FS_CardinalityType
  <2> HIDE DEF min
  <2>2. -1 - Cardinality(S) \in Int
    BY <2>1
  <2> QED
    BY <1>3, <2>2, AddType
<1>6. /\ fix.prev = prev
      /\ fix.id = [i \in list |->
                 IF i = h.iFirst
                 THEN IF min # h.iFirst THEN prev ELSE chunk[i].iShmid
                 ELSE IF i \in late
                 THEN Add(chunk[min].iShmid, -1 - Cardinality({j \in late : j < i}))
                 ELSE chunk[i].iShmid]
  BY DEF RepairedIds
<1>7. prev \in Ids
  <2>1. late \in SUBSET list
    OBVIOUS
  <2> HIDE DEF late, min
  <2> QED
    BY <1>5, <2>1
<1>8. \A i \in list : fix.id[i] \in Ids
  <2> SUFFICES ASSUME NEW i \in list PROVE fix.id[i] \in Ids
    OBVIOUS
  <2>1. {j \in late : j < i} \in SUBSET list
    OBVIOUS
  <2>2. chunk[i].iShmid \in Ids
    BY <1>1 DEF ChunkMap
  <2> HIDE DEF late, min, prev, fix
  <2>3. Add(chunk[min].iShmid, -1 - Cardinality({j \in late : j < i})) \in Ids
    BY <1>5, <2>1
  <2> QED
    BY <1>6, <1>7, <2>2, <2>3
<1>9. RepairedList(h) \in ChunkMap
  <2> DEFINE place == Places(h)
             after(i) == {j \in list : place[j] = place[i] + 1}
             next(i) == IF place[i] + 1 >= nSort(h) \/ after(i) = {} THEN 0
                        ELSE First(after(i))
  <2>1. \A i \in list : next(i) \in 0..MaxChunk
    <3> SUFFICES ASSUME NEW i \in list PROVE next(i) \in 0..MaxChunk
      OBVIOUS
    <3>1. after(i) # {} => First(after(i)) \in list
      <4>1. after(i) \in SUBSET Nat /\ after(i) \subseteq list
        BY <1>1
      <4> HIDE DEF after
      <4> QED
        BY <4>1, FirstType
    <3>2. list \subseteq 0..MaxChunk /\ 0 \in 0..MaxChunk
      BY <1>1
    <3> HIDE DEF after, list, place
    <3>3. next(i) = 0 \/ (after(i) # {} /\ next(i) = First(after(i)))
      BY Zenon
    <3> HIDE DEF next
    <3> QED
      BY <3>1, <3>2, <3>3
  <2>2. RepairedList(h) =
          [i \in Chunks |->
             IF i \notin list THEN chunk[i]
             ELSE [iShmid |-> fix.id[i],
                   iNext |-> IF place[i] < nSort(h) THEN next(i) ELSE chunk[i].iNext]]
    BY DEF RepairedList
  <2> HIDE DEF next, fix, place
  <2>3. ASSUME NEW i \in list
        PROVE  [iShmid |-> fix.id[i],
                iNext |-> IF place[i] < nSort(h) THEN next(i) ELSE chunk[i].iNext]
                 \in [iShmid : Ids, iNext : 0..MaxChunk]
    <3>1. chunk[i].iNext \in 0..MaxChunk
      BY <1>1 DEF ChunkMap
    <3> QED
      BY <1>8, <2>1, <3>1
  <2> HIDE DEF list
  <2> QED
    BY <2>2, <2>3 DEF ChunkMap
<1>10. ASSUME h = H
       PROVE  RepairedList(h)[H.iWrite[1]].iShmid = chunk[H.iWrite[1]].iShmid
  <2> DEFINE w == H.iWrite[1]
  <2>1. /\ w \in list /\ Pos(chunk, w, b) = -1 /\ (w = h.iFirst => h.nChunk = 2)
        /\ w \in Chunks
    BY <1>1, <1>10 DEF Committed, Trees
  <2>2. RepairedList(h)[w].iShmid = fix.id[w]
    BY <2>1 DEF RepairedList
  <2>3. CASE w = h.iFirst
    <3>1. list = {w}
      BY <1>1, <2>1, <2>3
    <3>2. min = h.iFirst
      <4> HIDE DEF min
      <4> QED
        BY <1>2, <2>3, <3>1
    <3> HIDE DEF fix, min, prev, late
    <3> QED
      BY <1>6, <2>1, <2>2, <2>3, <3>2
  <2>4. CASE w # h.iFirst
    <3>1. ~shm_sequence_ge(chunk[w].iShmid, h.iNextShmid)
      <4>1. chunk[w].iShmid \in Ids
        BY <2>1 DEF ChunkMap
      <4>2. Rel(chunk[w].iShmid, b) = -1 /\ Rel(b, b) = 0
        BY <1>1, <2>1, RelZero DEF Pos
      <4>3. Rel(chunk[w].iShmid, b) - Rel(b, b) \in (-MaxShm)..(MaxShm - 1)
        BY <4>2, Sizes
      <4> QED
        BY <1>1, <1>10, <4>1, <4>2, <4>3, RelSequence
    <3>2. w \notin late
      BY <3>1
    <3> HIDE DEF fix, min, prev, late
    <3> QED
      BY <1>6, <2>1, <2>2, <2>4, <3>2
  <2> QED
    BY <2>3, <2>4
<1>11. ASSUME h = H, NEW i \in list
       PROVE  Pos(RepairedList(h), i, b) <= -1
  <2> DEFINE m == Rel(chunk[min].iShmid, b)
  <2>1. RepairedList(h)[i].iShmid = fix.id[i]
    BY <1>1 DEF RepairedList
  <2>2. m \in (-MaxChunk)..(-1)
    <3>1. \A j \in list : Pos(chunk, j, b) \in (-MaxChunk)..(MaxChunk - 1)
                        /\ chunk[j].iShmid \in Ids
      BY <1>1, <1>11 DEF Committed, ChunkMap
    <3> DEFINE w == H.iWrite[1]
    <3>2. w \in list /\ Rel(chunk[w].iShmid, b) = -1
      BY <1>11 DEF Committed, Trees, Pos
    <3>3. chunk[w].iShmid = chunk[min].iShmid
          \/ shm_sequence_ge(chunk[w].iShmid, chunk[min].iShmid)
      BY <1>2, <3>2
    <3> HIDE DEF min, small
    <3>4. m \in (-MaxChunk)..(MaxChunk - 1)
      BY <1>2, <3>1 DEF Pos
    <3>5. -1 - m \in (-MaxShm)..(MaxShm - 1)
      BY <3>4, Sizes
    <3>6. -1 >= m
      BY <1>1, <1>3, <3>1, <3>2, <3>3, <3>4, <3>5, RelSequence
    <3> QED
      BY <3>4, <3>6, <1>1
  <2>3. ASSUME NEW S \in SUBSET list
        PROVE  Rel(Add(chunk[min].iShmid, -1 - Cardinality(S)), b) <= -1
    <3>1. Cardinality(S) \in 0..MaxChunk
      <4>1. h.nChunk - 1 \in Nat /\ h.nChunk - 1 <= MaxChunk
        BY <1>1
      <4>2. Cardinality(list) = h.nChunk - 1
        BY <4>1, FirstNumbers
      <4>3. Cardinality(S) <= Cardinality(list) /\ Cardinality(S) \in Nat
        BY <1>4, FS_Subset, FS_CardinalityType
      <4> QED
        BY <1>1, <4>1, <4>2, <4>3
    <3> HIDE DEF min
    <3>2. m + (-1 - Cardinality(S)) \in (-2 * MaxShm)..(2 * MaxShm - 1)
      BY <2>2, <3>1, Sizes
    <3>3. Rel(Add(chunk[min].iShmid, -1 - Cardinality(S)), b) = m + (-1 - Cardinality(S))
      BY <1>1, <1>3, <3>1, <3>2, RelAdd
    <3> QED
      BY <2>2, <3>1, <3>3
  <2>4. late \in SUBSET list /\ {j \in late : j < i} \in SUBSET list
    OBVIOUS
  <2>5. Rel(prev, b) <= -1
        /\ Rel(Add(chunk[min].iShmid, -1 - Cardinality({j \in late : j < i})), b) <= -1
    BY <2>3, <2>4
  <2>6. ~shm_sequence_ge(chunk[i].iShmid, h.iNextShmid) => Rel(chunk[i].iShmid, b) <= -1
    <3>1. Pos(chunk, i, b) \in (-MaxChunk)..(MaxChunk - 1) /\ chunk[i].iShmid \in Ids
      BY <1>1, <1>11 DEF Committed, ChunkMap
    <3>2. Rel(b, b) = 0
      BY <1>1, RelZero
    <3>3. Rel(chunk[i].iShmid, b) - Rel(b, b) \in (-MaxShm)..(MaxShm - 1)
      BY <3>1, <3>2, Sizes DEF Pos
    <3>4. shm_sequence_ge(chunk[i].iShmid, b) <=> Rel(chunk[i].iShmid, b) >= Rel(b, b)
      BY <1>1, <3>1, <3>3, RelSequence
    <3>5. Rel(chunk[i].iShmid, b) \in Int
      BY <3>1 DEF Pos
    <3> QED
      BY <1>11, <3>2, <3>4, <3>5
  <2>7. i # h.iFirst /\ i \notin late => ~shm_sequence_ge(chunk[i].iShmid, h.iNextShmid)
    OBVIOUS
  <2>8. min = h.iFirst => Rel(chunk[h.iFirst].iShmid, b) <= -1
    <3> HIDE DEF min
    <3> QED
      BY <2>2
  <2> HIDE DEF fix, min, prev, late
  <2>9. Rel(fix.id[i], b) <= -1
    BY <1>6, <2>5, <2>6, <2>7, <2>8
  <2> QED
    BY <2>1, <2>9 DEF Pos
<1> QED
  BY <1>9, <1>10, <1>11

\* A list that passes treeCheckLinkedList() after a repair ends at the id
\* before iNextShmid.
LEMMA RepairPasses ==
  ASSUME NEW h \in Header, chunk \in ChunkMap, Committed(chunk, h),
         treeCheckLinkedList(h, RepairedList(h))
  PROVE  ListOk(h, RepairedList(h))
<1> DEFINE n == h.nChunk
           b == h.iNextShmid
           list == 1..(n - 1)
           ch == RepairedList(h)
           w == h.iWrite[1]
           place(i) == (ch[i].iShmid - ch[h.iFirst].iShmid) % ShmidMod
<1>1. /\ n \in 2..(MaxChunk + 1) /\ n \in Int /\ b \in Ids /\ list \subseteq Chunks
  BY HeaderType
<1>2. ch \in ChunkMap /\ ch[w].iShmid = chunk[w].iShmid
      /\ \A i \in list : Pos(ch, i, b) <= -1
  BY <1>1, RepairType
<1>3. w \in list /\ Pos(ch, w, b) = -1
  BY <1>2 DEF Committed, Trees, Pos
<1>4. h.iFirst \in list
      /\ \A i \in list : \/ place(i) = n - 2
                         \/ ch[i].iNext \in list /\ place(ch[i].iNext) = place(i) + 1
  BY DEF treeCheckLinkedList
<1> HIDE DEF ch
<1>5. ASSUME NEW i \in list
      PROVE  /\ place(i) = IF Pos(ch, i, b) >= Pos(ch, h.iFirst, b)
                           THEN Pos(ch, i, b) - Pos(ch, h.iFirst, b)
                           ELSE Pos(ch, i, b) - Pos(ch, h.iFirst, b) + ShmidMod
             /\ Pos(ch, i, b) \in (-2 * MaxShm)..(-1)
             /\ Pos(ch, i, b) \in Int
  <2>1. ch[i].iShmid \in Ids /\ ch[h.iFirst].iShmid \in Ids
    BY <1>1, <1>2, <1>4 DEF ChunkMap
  <2>2. Pos(ch, i, b) \in (-2 * MaxShm)..(2 * MaxShm - 1) /\ Pos(ch, i, b) \in Int
    BY <1>1, <1>2, PosType
  <2>3. Pos(ch, i, b) <= -1
    BY <1>2
  <2> QED
    BY <1>1, <2>1, <2>2, <2>3, RelMinus, Sizes DEF Pos
<1> HIDE DEF place
<1>6. place(w) = -1 - Pos(ch, h.iFirst, b)
  BY <1>3, <1>4, <1>5
<1>7. place(w) = n - 2
  <2> SUFFICES ASSUME ch[w].iNext \in list, place(ch[w].iNext) = place(w) + 1
               PROVE  FALSE
    BY <1>3, <1>4
  <2> DEFINE x == ch[w].iNext
  <2>1. place(x) = 0 - Pos(ch, h.iFirst, b)
    BY <1>4, <1>5, <1>6
  <2> HIDE DEF x
  <2> QED
    BY <1>4, <1>5, <2>1, Sizes DEF x
<1>8. Pos(ch, h.iFirst, b) = 1 - n
  BY <1>1, <1>4, <1>5, <1>6, <1>7
<1>9. ch[h.iFirst].iShmid = Add(b, 1 - n)
  <2>1. Rel(b, b) = 0
    BY <1>1, RelZero
  <2> HIDE DEF n, b
  <2>2. 1 - n \in Int /\ Rel(b, b) + (1 - n) \in (-2 * MaxShm)..(2 * MaxShm - 1)
    BY <1>1, <2>1, Sizes
  <2>3. Rel(Add(b, 1 - n), b) = Rel(b, b) + (1 - n)
    BY <1>1, <2>2, RelAdd
  <2>4. Add(b, 1 - n) \in Ids /\ ch[h.iFirst].iShmid \in Ids
    BY <1>1, <1>2, <1>4, <2>2, AddType DEF ChunkMap
  <2> QED
    BY <1>1, <1>8, <2>1, <2>3, <2>4, RelEq DEF Pos
<1> QED
  BY <1>9 DEF ListOk, ch

----------------------------------------------------------------------------
(* The first state.                                                         *)

LEMMA InitHeaders ==
  /\ InitHeader \in Header /\ AgedHeader \in Header
  /\ Torn \notin Header
<1>1. /\ 0 \in Ids /\ 1 \in Ids /\ 2 \in Ids /\ ShmidMod - 1 \in Ids
  BY Sizes DEF Ids
<1>2. /\ <<1, 0>> \in Chunks \X (0..Room) /\ <<2, 1>> \in Chunks \X (0..Room)
      /\ 1 \in Chunks /\ 2 \in 2..(MaxChunk + 1) /\ 3 \in 2..(MaxChunk + 1)
  BY Sizes DEF Chunks
<1>3. Null \in Ptr /\ Empty \in [Sub -> Nat]
  BY DEF Ptr, Empty
<1>4. InitHeader \in Header
  BY <1>1, <1>2, <1>3 DEF InitHeader, Header
<1>5. AgedHeader \in Header
  <2>1. ASSUME NEW h \in Header, NEW t \in Nat \ {0}, NEW w \in Chunks \X (0..Room),
               NEW n \in 2..(MaxChunk + 1), NEW x \in Ids, NEW u \in Ids
        PROVE  [h EXCEPT !.trans = t, !.iWrite = w, !.nChunk = n, !.iNextShmid = x,
                         !.iUsedShmid = u] \in Header
    BY DEF Header
  <2>2. 2 \in Nat \ {0}
    OBVIOUS
  <2> QED
    BY <1>1, <1>2, <1>4, <2>1, <2>2 DEF AgedHeader
<1>6. Torn.trans = 0
  BY DEF Torn, InitHeader
<1>7. Torn \notin Header
  BY <1>6 DEF Header
<1> QED
  BY <1>4, <1>5, <1>7

LEMMA InvIntro == Types' /\ Main' => Inv'
<1> SUFFICES ASSUME Types', Main', IsLost', writer' # None PROVE FALSE
  BY DEF Inv
<1>1. writer' \in Conn
  BY DEF Types, WriteTypes
<1>2. pc'[writer'] = "lost"
  BY <1>1 DEF IsLost
<1> QED
  BY <1>2 DEF Main, AlivePcs

LEMMA NoPendType ==
  NoPend \in [leaf : Ptr, sub : Sub \cup {None}, chunk : 0..MaxChunk, iLevel : Nat]
BY Sizes DEF NoPend, Ptr

LEMMA InitInv == Init => Inv
<1> SUFFICES ASSUME Init PROVE Inv
  OBVIOUS
<1> DEFINE n == hdr1.nChunk
           b == hdr1.iNextShmid
<1>1. /\ hdr1 \in Header /\ hdr2 = hdr1 /\ hdr1 # Torn /\ Good = hdr1
      /\ hdr1 \in {InitHeader, AgedHeader}
  BY InitHeaders DEF Init, Good
<1>2. /\ n \in 2..(MaxChunk + 1) /\ n \in Int /\ b \in Ids /\ 1..(n - 1) \subseteq Chunks
      /\ MaxChunk \in Nat
  BY <1>1, HeaderType, Sizes
<1>3. chunk \in ChunkMap
  <2> SUFFICES ASSUME NEW i \in Chunks
               PROVE  /\ (IF i < n THEN Add(b, i - n) ELSE 0) \in Ids
                      /\ (IF i + 1 < n THEN i + 1 ELSE 0) \in 0..MaxChunk
    BY DEF Init, ChunkMap
  <2>1. 0 \in Ids /\ i - n \in Int /\ i \in Nat
    BY <1>2, Sizes DEF Chunks, Ids
  <2>2. Add(b, i - n) \in Ids
    BY <1>2, <2>1, AddType
  <2> QED
    BY <1>2, <2>1, <2>2
<1>4. \A i \in 1..(n - 1) : Pos(chunk, i, b) = i - n /\ chunk[i].iNext = IF i + 1 < n THEN i + 1 ELSE 0
  <2> SUFFICES ASSUME NEW i \in 1..(n - 1)
               PROVE  Pos(chunk, i, b) = i - n /\ chunk[i].iNext = IF i + 1 < n THEN i + 1 ELSE 0
    OBVIOUS
  <2>1. i \in Chunks /\ i < n /\ i \in Int /\ i - n \in (1 - n)..(-1)
    BY <1>2
  <2>2. chunk[i] = [iShmid |-> Add(b, i - n), iNext |-> IF i + 1 < n THEN i + 1 ELSE 0]
    BY <2>1 DEF Init
  <2>3. Rel(b, b) = 0
    BY <1>2, RelZero
  <2>4. 0 + (i - n) \in (-2 * MaxShm)..(2 * MaxShm - 1)
    BY <1>2, <2>1, Sizes
  <2>5. Rel(Add(b, i - n), b) = 0 + (i - n)
    BY <1>2, <2>1, <2>3, <2>4, RelAdd
  <2> QED
    BY <1>2, <2>1, <2>2, <2>5 DEF Pos
<1>5. /\ n = 2 \/ n = 3
      /\ hdr1.iFirst = 1 /\ hdr1.iWrite[1] = n - 1 /\ hdr1.iOldShmid = 0
      /\ n = 2 => hdr1.iUsedShmid = 1 /\ b = 2
      /\ n = 3 => hdr1.iUsedShmid = ShmidMod - 1 /\ b = 0
  <2>1. CASE hdr1 = InitHeader
    BY <2>1 DEF InitHeader
  <2>2. CASE hdr1 = AgedHeader
    BY <2>2 DEF InitHeader, AgedHeader
  <2> QED
    BY <1>1, <2>1, <2>2
<1> HIDE DEF n, b
<1>6. ListOk(hdr1, chunk)
  <2>1. Places1(chunk, n, 1 - n, 0, b)
    BY <1>2, <1>4 DEF Places1
  <2>2. Front(chunk, hdr1, 1 - n, b)
    BY <1>2, <1>4, <1>5 DEF Front, n
  <2>3. Chain(chunk, n, 1 - n, 0, b)
    BY <1>2, <1>4 DEF Chain
  <2> QED
    BY <1>1, <1>3, <2>1, <2>2, <2>3, PlacesListOk DEF n, b
<1>7. Trees(chunk, hdr1)
  <2>1. Rel(hdr1.iUsedShmid, b) = -1
    BY <1>5, Sizes DEF Rel
  <2> QED
    BY <1>2, <1>4, <1>5, <2>1 DEF Trees, HasOld, n, b
<1>8. Committed(chunk, Good)
  BY <1>1, <1>3, <1>6, <1>7, ListCommitted
<1>9. Types
  <2>1. HeaderTypes
    BY <1>1 DEF HeaderTypes, Init
  <2>2. ReadTypes
    <3>1. NReader \in Nat /\ 0 \in Ids /\ 0 \in 0..NReader
      BY TreeAssumption, Sizes DEF Ids
    <3> QED
      BY <3>1 DEF ReadTypes, Init
  <2>3. WriteTypes
    <3>1. << >> \in Seq(Ptr) /\ << >> \in Seq([mark : MarkRec, iRollback : Nat])
      OBVIOUS
    <3> QED
      BY <3>1, NoPendType DEF WriteTypes, Init
  <2>4. pc \in [Conn -> AlivePcs \cup ReaderPcs \cup {"end1", "endflag", "lost"}]
    BY DEF Init, ReaderPcs
  <2> QED
    BY <1>3, <2>1, <2>2, <2>3, <2>4 DEF Types
<1>10. Main
  <2>1. \A c \in Conn : hdr[c].nChunk <= Good.nChunk /\ pc[c] \in ReaderPcs
    BY <1>1, <1>2 DEF Init, ReaderPcs, n
  <2> QED
    BY <1>1, <1>6, <1>8, <2>1 DEF Main, Init
<1> QED
  BY <1>9, <1>10 DEF Inv, Init

----------------------------------------------------------------------------
(* Read transactions and snapshots.                                         *)

LEMMA NotLost ==
  ASSUME Inv, NEW c \in Conn, pc[c] # "lost"
  PROVE  Types /\ Main
  BY DEF Inv, IsLost

LEMMA GoodType ==
  ASSUME HeaderTypes
  PROVE  Good \in Header
  BY DEF HeaderTypes, Good

LEMMA WriterPc ==
  ASSUME Types, Main, NEW c \in Conn, pc[c] \notin ReaderPcs
  PROVE  writer = c
  BY DEF Main

LEMMA NoneNotConn == None \notin Conn
  BY TreeAssumption

LEMMA WriterNotReader ==
  ASSUME Types, Main, NEW c \in Conn, pc[c] \in ReaderPcs
  PROVE  writer # c
  BY NoneNotConn DEF Main, AlivePcs, ReaderPcs

\* What a connection that does not write does to its own state is no matter
\* to the list.
LEMMA ReaderFrame ==
  ASSUME Types, Main, NEW c \in Conn, writer # c,
         UNCHANGED <<chunk, hdr1, hdr2, bWriter, writer, marks, rollback, pend>>,
         \A d \in Conn \ {c} : hdr'[d] = hdr[d] /\ pc'[d] = pc[d],
         pc'[c] \in ReaderPcs, hdr'[c].nChunk <= Good.nChunk
  PROVE  Main'
<1>1. Good' = Good
  BY DEF Good
<1>2. writer # None => writer \in Conn \ {c}
  BY DEF Types, WriteTypes
<1>3. writer # None => treehdr' = treehdr /\ pc'[writer'] = pc[writer]
  <2>1. writer' = writer /\ treehdr = hdr[writer] /\ treehdr' = hdr'[writer']
    BY DEF treehdr
  <2>2. writer # None => hdr'[writer] = hdr[writer] /\ pc'[writer] = pc[writer]
    BY <1>2
  <2> QED
    BY <2>1, <2>2
<1>4. writer # None => Top' = Top
  BY <1>3 DEF Top
<1>5. writer # None /\ AliveInv => AliveInv'
  BY <1>1, <1>3, <1>4 DEF AliveInv, MarksInv
<1>6. writer # None /\ EndInv => EndInv'
  BY <1>1, <1>3 DEF EndInv
<1>7. \A d \in Conn : d # writer => hdr'[d].nChunk <= Good.nChunk /\ pc'[d] \in ReaderPcs
  BY DEF Main
<1> QED
  BY <1>1, <1>3, <1>5, <1>6, <1>7 DEF Main

LEMMA ForgetTypes ==
  ASSUME Types, NEW c \in Conn, Forget(c)
  PROVE  /\ pc' \in [Conn -> AlivePcs \cup ReaderPcs \cup {"end1", "endflag", "lost"}]
         /\ hdr' \in [Conn -> Header] /\ client' \in [Conn -> Nat]
         /\ \A d \in Conn \ {c} : hdr'[d] = hdr[d] /\ pc'[d] = pc[d]
         /\ pc'[c] = "idle" /\ hdr'[c].nChunk = 2
<1>1. InitHeader \in Header /\ InitHeader.nChunk = 2
  BY InitHeaders DEF InitHeader
<1> QED
  BY <1>1 DEF Forget, Goto, SetHeader, Types, HeaderTypes, ReadTypes, ReaderPcs

LEMMA LoadHeaderInv ==
  ASSUME Inv, NEW c \in Conn, LoadHeader(c)
  PROVE  Inv'
<1>1. pc[c] = "idle" /\ Types /\ Main
  BY NotLost DEF LoadHeader
<1>2. writer # c
  BY <1>1, WriterNotReader DEF ReaderPcs
<1>3. Good \in Header /\ hdr' = [hdr EXCEPT ![c] = Good] /\ pc' = [pc EXCEPT ![c] = "loaded"]
      /\ client' = [client EXCEPT ![c] = snap]
  BY <1>1, GoodType DEF LoadHeader, SetHeader, Goto, Good, Types
<1>4. Types'
  <2>1. HeaderTypes'
    BY <1>1, <1>3 DEF LoadHeader, shmVars, Types, HeaderTypes
  <2>2. ReadTypes'
    BY <1>1, <1>3 DEF LoadHeader, lockVars, Types, ReadTypes
  <2>3. WriteTypes'
    BY <1>1 DEF LoadHeader, transVars, boundVars, Types, WriteTypes
  <2>4. pc' \in [Conn -> AlivePcs \cup ReaderPcs \cup {"end1", "endflag", "lost"}]
    BY <1>1, <1>3 DEF Types, ReaderPcs
  <2>5. chunk' = chunk
    BY DEF LoadHeader, shmVars
  <2> QED
    BY <1>1, <2>1, <2>2, <2>3, <2>4, <2>5 DEF Types
<1>5. Main'
  <2>1. UNCHANGED <<chunk, hdr1, hdr2, bWriter, writer, marks, rollback, pend>>
    BY DEF LoadHeader, shmVars, transVars
  <2>2. \A d \in Conn \ {c} : hdr'[d] = hdr[d] /\ pc'[d] = pc[d]
    BY <1>1, <1>3 DEF Types, HeaderTypes
  <2>3. pc'[c] \in ReaderPcs /\ hdr'[c].nChunk <= Good.nChunk
    <3>1. hdr'[c] = Good /\ pc'[c] = "loaded"
      BY <1>1, <1>3 DEF Types, HeaderTypes
    <3>2. Good.nChunk \in Int
      BY <1>3, HeaderType
    <3> QED
      BY <3>1, <3>2 DEF ReaderPcs
  <2> QED
    BY <1>1, <1>2, <2>1, <2>2, <2>3, ReaderFrame
<1> QED
  BY <1>4, <1>5, InvIntro

LEMMA ReadlockInv ==
  ASSUME Inv, NEW c \in Conn, Readlock(c)
  PROVE  Inv'
<1> DEFINE iLsm == client[c]
           iShmMax == hdr[c].iUsedShmid
           iShmMin == Add(hdr[c].iNextShmid, 1 - MaxShm)
           want == [iLsmId |-> iLsm, iTreeId |-> iShmMax]
           exact == {i \in 1..NReader : slot[i] = want}
           free == {i \in 1..NReader : Lockable(c, i)}
           usable == {i \in 1..NReader : slotIsUsable(slot[i], iLsm, iShmMin, iShmMax)}
           i == IF exact # {} THEN First(exact)
                ELSE IF free # {} THEN First(free)
                ELSE IF usable # {} THEN First(usable) ELSE 0
           ok == i # 0 /\ hdr[c] \in {hdr1, hdr2} /\ client[c] = snap
<1>1. pc[c] = "loaded" /\ Types /\ Main
  BY NotLost DEF Readlock
<1>2. writer # c
  BY <1>1, WriterNotReader DEF ReaderPcs
<1>3. /\ slot' = IF exact = {} /\ free # {} THEN [slot EXCEPT ![i] = want] ELSE slot
      /\ IF ok
         THEN /\ iReader' = [iReader EXCEPT ![c] = i]
              /\ rlock' = [rlock EXCEPT ![c] = {i}]
              /\ Goto(c, "reading")
              /\ UNCHANGED <<hdr, client>>
         ELSE Forget(c) /\ UNCHANGED <<iReader, rlock, stale>>
      /\ UNCHANGED <<shmVars, snap, writer, transVars, boundVars>>
  BY DEF Readlock
<1>4. i \in 0..NReader
  <2>1. exact \in SUBSET Nat /\ free \in SUBSET Nat /\ usable \in SUBSET Nat
    OBVIOUS
  <2>2. /\ exact # {} => First(exact) \in exact
        /\ free # {} => First(free) \in free
        /\ usable # {} => First(usable) \in usable
    <3> HIDE DEF exact, free, usable
    <3> QED
      BY <2>1, FirstType
  <2>3. /\ exact \subseteq 0..NReader /\ free \subseteq 0..NReader /\ usable \subseteq 0..NReader
        /\ 0 \in 0..NReader
    BY TreeAssumption
  <2> HIDE DEF exact, free, usable
  <2> QED
    BY <2>2, <2>3
<1>5. want \in [iLsmId : Nat, iTreeId : Ids]
  BY <1>1, HeaderType DEF Types, ReadTypes, HeaderTypes
<1>6. i # 0 => i \in 1..NReader
  <2> HIDE DEF i
  <2> QED
    BY <1>4, TreeAssumption
<1> HIDE DEF exact, free, usable, want, i, iLsm, iShmMin, iShmMax
<1>7. slot' \in [1..NReader -> [iLsmId : Nat, iTreeId : Ids]]
  BY <1>1, <1>3, <1>5 DEF Types, ReadTypes
<1>8. /\ pc' \in [Conn -> AlivePcs \cup ReaderPcs \cup {"end1", "endflag", "lost"}]
      /\ hdr' \in [Conn -> Header] /\ client' \in [Conn -> Nat]
      /\ \A d \in Conn \ {c} : hdr'[d] = hdr[d] /\ pc'[d] = pc[d]
      /\ pc'[c] \in ReaderPcs /\ hdr'[c].nChunk <= Good.nChunk
      /\ iReader' \in [Conn -> 0..NReader] /\ rlock' \in [Conn -> SUBSET (1..NReader)]
  <2>1. CASE ok
    <3>1. /\ iReader' = [iReader EXCEPT ![c] = i] /\ rlock' = [rlock EXCEPT ![c] = {i}]
          /\ pc' = [pc EXCEPT ![c] = "reading"] /\ hdr' = hdr /\ client' = client
          /\ i \in 1..NReader
      BY <1>3, <1>6, <2>1 DEF Goto
    <3>2. hdr[c].nChunk <= Good.nChunk
      BY <1>1, <1>2 DEF Main
    <3> QED
      BY <1>1, <1>4, <3>1, <3>2 DEF Types, HeaderTypes, ReadTypes, ReaderPcs
  <2>2. CASE ~ok
    <3>1. Forget(c) /\ iReader' = iReader /\ rlock' = rlock
      BY <1>3, <2>2
    <3>2. 2 <= Good.nChunk
      BY <1>1, GoodType, HeaderType DEF Types
    <3> QED
      BY <1>1, <3>1, <3>2, ForgetTypes DEF Types, ReadTypes, ReaderPcs
  <2> QED
    BY <2>1, <2>2
<1>9. Types'
  <2>1. HeaderTypes'
    BY <1>1, <1>3, <1>8 DEF shmVars, Types, HeaderTypes
  <2>2. ReadTypes'
    BY <1>1, <1>3, <1>7, <1>8 DEF Types, ReadTypes
  <2>3. WriteTypes'
    BY <1>1, <1>3 DEF transVars, boundVars, Types, WriteTypes
  <2>4. chunk' = chunk
    BY <1>3 DEF shmVars
  <2> QED
    BY <1>1, <1>8, <2>1, <2>2, <2>3, <2>4 DEF Types
<1>10. Main'
  <2>1. UNCHANGED <<chunk, hdr1, hdr2, bWriter, writer, marks, rollback, pend>>
    BY <1>3 DEF shmVars, transVars
  <2> QED
    BY <1>1, <1>2, <1>8, <2>1, ReaderFrame
<1> QED
  BY <1>9, <1>10, InvIntro

LEMMA FinishReadTransInv ==
  ASSUME Inv, NEW c \in Conn, FinishReadTrans(c)
  PROVE  Inv'
<1>1. pc[c] = "reading" /\ Types /\ Main
  BY NotLost DEF FinishReadTrans
<1>2. writer # c
  BY <1>1, WriterNotReader DEF ReaderPcs
<1>3. /\ pc' \in [Conn -> AlivePcs \cup ReaderPcs \cup {"end1", "endflag", "lost"}]
      /\ hdr' \in [Conn -> Header] /\ client' \in [Conn -> Nat]
      /\ \A d \in Conn \ {c} : hdr'[d] = hdr[d] /\ pc'[d] = pc[d]
      /\ pc'[c] = "idle" /\ hdr'[c].nChunk = 2
  BY <1>1, ForgetTypes DEF FinishReadTrans
<1>4. Types'
  <2>1. HeaderTypes'
    BY <1>1, <1>3 DEF FinishReadTrans, shmVars, Types, HeaderTypes
  <2>2. ReadTypes'
    <3>1. iReader' \in [Conn -> 0..NReader]
      BY <1>1, TreeAssumption DEF FinishReadTrans, Types, ReadTypes
    <3>2. rlock' \in [Conn -> SUBSET (1..NReader)]
      BY <1>1 DEF FinishReadTrans, Types, ReadTypes
    <3> QED
      BY <1>1, <1>3, <3>1, <3>2 DEF FinishReadTrans, Types, ReadTypes
  <2>3. WriteTypes'
    BY <1>1 DEF FinishReadTrans, transVars, boundVars, Types, WriteTypes
  <2>4. chunk' = chunk
    BY DEF FinishReadTrans, shmVars
  <2> QED
    BY <1>1, <1>3, <2>1, <2>2, <2>3, <2>4 DEF Types
<1>5. Main'
  <2>1. UNCHANGED <<chunk, hdr1, hdr2, bWriter, writer, marks, rollback, pend>>
    BY DEF FinishReadTrans, shmVars, transVars
  <2>2. 2 <= Good.nChunk
    BY <1>1, GoodType, HeaderType DEF Types
  <2> QED
    BY <1>1, <1>2, <1>3, <2>1, <2>2, ReaderFrame DEF ReaderPcs
<1> QED
  BY <1>4, <1>5, InvIntro

LEMMA UnchangedInv ==
  ASSUME Inv,
         UNCHANGED <<chunk, hdr1, hdr2, bWriter, slot, pc, hdr, iReader, rlock, client,
                     writer, marks, rollback, pend, bDiscardOld, nWrite>>,
         snap' \in Nat
  PROVE  Inv'
<1>1. Types'
  BY DEF Inv, Types, HeaderTypes, ReadTypes, WriteTypes
<1>2. IsLost' = IsLost
  BY DEF IsLost
<1>3. Main => Main'
  <2>1. Good' = Good /\ Top' = Top /\ treehdr' = treehdr
    BY DEF Good, Top, treehdr
  <2>2. MarksInv => MarksInv'
    BY <2>1 DEF MarksInv
  <2>3. AliveInv => AliveInv'
    BY <2>1, <2>2 DEF AliveInv
  <2>4. EndInv => EndInv'
    BY <2>1 DEF EndInv
  <2> QED
    BY <2>1, <2>3, <2>4 DEF Main
<1> QED
  BY <1>1, <1>2, <1>3 DEF Inv

LEMMA FlushOldInv ==
  ASSUME Inv, FlushOld
  PROVE  Inv'
<1>1. hdr1 \in Header
  BY DEF Inv, Types, HeaderTypes, FlushOld
<1>2. hdr1.iOldLog \in Nat
  BY <1>1 DEF Header
<1>3. snap' \in Nat
  BY <1>2 DEF FlushOld
<1> QED
  BY <1>3, UnchangedInv DEF FlushOld, shmVars, lockVars, transVars, boundVars

----------------------------------------------------------------------------
(* The steps of the writer.                                                 *)

LEMMA WriterAlive ==
  ASSUME Types, Main, NEW c \in Conn, writer = c, pc[c] \in AlivePcs
  PROVE  AliveInv /\ Committed(chunk, Good) /\ treehdr = hdr[c] /\ hdr[c] \in Header
         /\ Good \in Header /\ chunk \in ChunkMap
<1>1. writer # None
  BY NoneNotConn
<1>2. hdr[c] \in Header /\ Good \in Header /\ chunk \in ChunkMap
  BY GoodType DEF Types, HeaderTypes
<1> QED
  BY <1>1, <1>2 DEF Main, AlivePcs, treehdr

LEMMA WriterTypes ==
  ASSUME Types, NEW c \in Conn, NEW h \in Header,
         NEW at \in AlivePcs \cup ReaderPcs \cup {"end1", "endflag"},
         chunk' \in ChunkMap, hdr' = [hdr EXCEPT ![c] = h], pc' = [pc EXCEPT ![c] = at],
         hdr1' \in Header \cup {Torn}, hdr2' \in Header, bWriter' \in BOOLEAN,
         ReadTypes', WriteTypes'
  PROVE  /\ Types' /\ hdr'[c] = h /\ pc'[c] = at
         /\ \A d \in Conn \ {c} : hdr'[d] = hdr[d] /\ pc'[d] = pc[d]
BY DEF Types, HeaderTypes

LEMMA AliveMain ==
  ASSUME Types, Types', Main, NEW c \in Conn, writer = c, pc'[c] \in AlivePcs,
         UNCHANGED <<hdr1, hdr2, writer>>, bWriter',
         \A d \in Conn \ {c} : hdr'[d] = hdr[d] /\ pc'[d] = pc[d],
         Committed(chunk', Good), AliveInv'
  PROVE  Main'
<1>1. Good' = Good
  BY DEF Good
<1>2. writer # None /\ writer' = c
  BY NoneNotConn
<1> QED
  BY <1>1, <1>2 DEF Main

LEMMA Element ==
  ASSUME NEW S, NEW s \in Seq(S), NEW i \in 1..Len(s)
  PROVE  s[i] \in S
OBVIOUS

LEMMA Prefix ==
  ASSUME NEW S, NEW s \in Seq(S), NEW n \in 0..Len(s)
  PROVE  /\ SubSeq(s, 1, n) \in Seq(S) /\ Len(SubSeq(s, 1, n)) = n
         /\ \A i \in 1..n : SubSeq(s, 1, n)[i] = s[i]
OBVIOUS

LEMMA MarkTypes ==
  ASSUME Types
  PROVE  /\ Len(marks) \in Nat
         /\ \A k \in 1..Len(marks) : marks[k].mark \in MarkRec /\ marks[k].iRollback \in Nat
<1>1. marks \in Seq([mark : MarkRec, iRollback : Nat])
  BY DEF Types, WriteTypes
<1>2. ASSUME NEW k \in 1..Len(marks)
      PROVE  marks[k] \in [mark : MarkRec, iRollback : Nat]
  BY <1>1, Element
<1> QED
  BY <1>1, <1>2

\* A step outside of a rollback: the marks stay.
LEMMA OpenMain ==
  ASSUME Types, Types', Main, NEW c \in Conn, writer = c,
         pc[c] \in AlivePcs \ {"rollback"}, pc'[c] \in AlivePcs \ {"rollback"},
         UNCHANGED <<hdr1, hdr2, writer, bWriter, marks>>,
         \A d \in Conn \ {c} : hdr'[d] = hdr[d] /\ pc'[d] = pc[d],
         Len(rollback') >= Len(rollback),
         NEW ch, NEW h, chunk' = ch, hdr'[c] = h,
         Committed(ch, Good), Above(ch, h, Good),
         \A m \in MarkRec : MarkAbove(chunk, m, hdr[c], Good) => MarkAbove(ch, m, h, Good),
         pc'[c] \in {"open", "leaf", "copy"} =>
           Writable(ch, h, Good, Rel(h.iNextShmid, Good.iNextShmid)),
         pc'[c] \in {"linkleaf", "linkcopy"} =>
           /\ Writable(ch, h, Good, Rel(h.iNextShmid, Good.iNextShmid) - 1)
           /\ pend'.chunk \in 1..(h.nChunk - 1)
           /\ Pos(ch, pend'.chunk, Good.iNextShmid) = Rel(h.iNextShmid, Good.iNextShmid) - 1
  PROVE  Main'
<1>1. Good' = Good
  BY DEF Good
<1>2. AliveInv /\ treehdr = hdr[c] /\ treehdr' = h /\ writer' = c
  BY WriterAlive DEF treehdr
<1>3. Top = Len(marks) /\ Top' = Len(marks)
  BY <1>2 DEF Top
<1>4. MarksInv'
  <2>1. \A k \in 1..Len(marks) :
          marks[k].mark \in MarkRec /\ marks[k].iRollback \in Nat
    BY MarkTypes
  <2>2. Len(rollback) \in Nat /\ Len(rollback') \in Nat
    BY DEF Types, WriteTypes
  <2>3. MarksInv
    BY <1>2 DEF AliveInv
  <2>4. Top' \in 1..Len(marks') /\ marks' = marks
    BY <1>3, <2>3 DEF MarksInv
  <2>5. \A k \in 1..Top' : MarkAbove(ch, marks[k].mark, h, Good)
    BY <1>2, <1>3, <2>1, <2>3 DEF MarksInv
  <2>6. \A k, l \in 1..Top' : k <= l =>
          /\ MarkBelow(marks[k].mark, marks[l].mark, Good.iNextShmid)
          /\ marks[k].iRollback <= marks[l].iRollback
    BY <1>3, <2>3 DEF MarksInv
  <2>7. \A k \in 1..Top' : marks[k].iRollback <= Len(rollback')
    BY <1>3, <2>1, <2>2, <2>3 DEF MarksInv
  <2> QED
    BY <1>1, <1>2, <2>4, <2>5, <2>6, <2>7 DEF MarksInv
<1>5. AliveInv'
  BY <1>1, <1>2, <1>4 DEF AliveInv
<1>6. bWriter' /\ pc'[c] \in AlivePcs
  BY <1>2 DEF AliveInv
<1> QED
  BY <1>5, <1>6, AliveMain

\* What a leaf or a node that is written changes in the header is no matter
\* to the list.
LEMMA SameList ==
  ASSUME NEW H, NEW h, NEW h2, NEW ch, NEW s,
         h2.nChunk = h.nChunk, h2.iNextShmid = h.iNextShmid, h2.iUsedShmid = h.iUsedShmid,
         h2.iOldShmid = h.iOldShmid, h2.iFirst = h.iFirst, h2.iWrite[1] = h.iWrite[1]
  PROVE  /\ Above(ch, h, H) => Above(ch, h2, H)
         /\ Writable(ch, h, H, s) => Writable(ch, h2, H, s)
         /\ \A m : MarkAbove(ch, m, h, H) => MarkAbove(ch, m, h2, H)
<1>1. Above(ch, h, H) => Above(ch, h2, H)
  BY DEF Above, HasOld
<1>2. Writable(ch, h, H, s) => Writable(ch, h2, H, s)
  BY DEF Writable, Front
<1>3. \A m : MarkAbove(ch, m, h, H) => MarkAbove(ch, m, h2, H)
  BY DEF MarkAbove
<1> QED
  BY <1>1, <1>2, <1>3

LEMMA AllocCell ==
  ASSUME NEW h \in Header, ~Full(h)
  PROVE  Alloc(h) \in Cell /\ Alloc(h) \in Ptr /\ Alloc(h) \in Chunks \X (0..Room)
         /\ Alloc(h)[1] = h.iWrite[1]
<1>1. h.iWrite[1] \in Chunks /\ h.iWrite[2] \in 0..Room /\ h.iWrite[2] # Room /\ Room \in Nat
  BY HeaderType, Sizes DEF Full
<1> QED
  BY <1>1 DEF Alloc, Cell, Ptr

LEMMA InsertMain ==
  ASSUME Types, Types', Main, NEW c \in Conn, writer = c,
         pc[c] \in {"open", "leaf", "copy"}, pc'[c] \in {"open", "leaf", "copy"},
         UNCHANGED <<chunk, hdr1, hdr2, writer, bWriter, marks>>,
         \A d \in Conn \ {c} : hdr'[d] = hdr[d] /\ pc'[d] = pc[d],
         Len(rollback') >= Len(rollback),
         NEW h, hdr'[c] = h,
         h.nChunk = hdr[c].nChunk, h.iNextShmid = hdr[c].iNextShmid,
         h.iUsedShmid = hdr[c].iUsedShmid, h.iOldShmid = hdr[c].iOldShmid,
         h.iFirst = hdr[c].iFirst, h.iWrite[1] = hdr[c].iWrite[1]
  PROVE  Main'
<1>1. pc[c] \in AlivePcs \ {"rollback"} /\ pc'[c] \in AlivePcs \ {"rollback"}
  BY DEF AlivePcs
<1>2. /\ AliveInv /\ Committed(chunk, Good) /\ treehdr = hdr[c]
  BY <1>1, WriterAlive
<1>3. Writable(chunk, hdr[c], Good, Rel(hdr[c].iNextShmid, Good.iNextShmid))
      /\ Above(chunk, hdr[c], Good)
  BY <1>2 DEF AliveInv
<1>4. /\ Above(chunk, h, Good)
      /\ Writable(chunk, h, Good, Rel(h.iNextShmid, Good.iNextShmid))
      /\ \A m : MarkAbove(chunk, m, hdr[c], Good) => MarkAbove(chunk, m, h, Good)
  BY <1>3, SameList
<1>5. /\ chunk' = chunk
      /\ \A m \in MarkRec : MarkAbove(chunk, m, hdr[c], Good) => MarkAbove(chunk, m, h, Good)
      /\ ~(pc'[c] \in {"linkleaf", "linkcopy"})
  BY <1>4
<1> QED
  BY <1>1, <1>2, <1>4, <1>5, OpenMain

LEMMA InsertV2Inv ==
  ASSUME Inv, NEW c \in Conn, NEW k \in Sub, InsertV2(c, k)
  PROVE  Inv'
<1> DEFINE h == treehdr
           p == Alloc(h)
           v == nWrite + 1
           h2 == [h EXCEPT !.iWrite = p, !.cur[k] = v]
<1>1. pc[c] \in {"open", "leaf"} /\ writer = c /\ Types /\ Main /\ pc[c] \in AlivePcs
  BY NotLost DEF InsertV2, Writing, AlivePcs
<1>2. h \in Header /\ h = hdr[c] /\ p \in Chunks \X (0..Room) /\ p[1] = h.iWrite[1]
  BY <1>1, WriterAlive, AllocCell DEF InsertV2
<1>3. v \in Nat /\ nWrite' = v /\ h.root \in Ptr
  BY <1>1, <1>2, HeaderType DEF InsertV2, Types, WriteTypes
<1>4. h2 \in Header
  BY <1>2, <1>3 DEF Header
<1>5. /\ h2.nChunk = h.nChunk /\ h2.iNextShmid = h.iNextShmid /\ h2.iUsedShmid = h.iUsedShmid
      /\ h2.iOldShmid = h.iOldShmid /\ h2.iFirst = h.iFirst /\ h2.iWrite[1] = h.iWrite[1]
  BY <1>2 DEF Header
<1>6. /\ hdr' = [hdr EXCEPT ![c] = h2] /\ pc' = [pc EXCEPT ![c] = "open"]
      /\ rollback' = Append(rollback, h.root)
  BY DEF InsertV2, SetHeader, Goto
<1>7. /\ UNCHANGED <<chunk, hdr1, hdr2, bWriter, writer, marks, pend, bDiscardOld, snap, client>>
      /\ UNCHANGED <<slot, iReader, rlock>>
  BY DEF InsertV2, lockVars
<1> HIDE DEF h, p, v, h2
<1>8. rollback' \in Seq(Ptr) /\ Len(rollback') >= Len(rollback)
  BY <1>1, <1>3, <1>6 DEF Types, WriteTypes
<1>9. ReadTypes' /\ WriteTypes' /\ HeaderTypes /\ chunk' \in ChunkMap
  BY <1>1, <1>3, <1>7, <1>8 DEF Types, ReadTypes, WriteTypes
<1>10. /\ Types' /\ hdr'[c] = h2 /\ pc'[c] = "open"
       /\ \A d \in Conn \ {c} : hdr'[d] = hdr[d] /\ pc'[d] = pc[d]
  BY <1>1, <1>4, <1>6, <1>7, <1>9, WriterTypes DEF HeaderTypes, AlivePcs
<1>11. Main'
  BY <1>1, <1>2, <1>5, <1>7, <1>8, <1>10, InsertMain
<1> QED
  BY <1>10, <1>11, InvIntro

LEMMA InsertLeafInv ==
  ASSUME Inv, NEW c \in Conn, NEW k \in Sub, InsertLeaf(c, k)
  PROVE  Inv'
<1> DEFINE h == treehdr
           p == Alloc(h)
           h2 == [h EXCEPT !.iWrite = p]
<1>1. pc[c] \in {"open", "leaf"} /\ writer = c /\ Types /\ Main /\ pc[c] \in AlivePcs
  BY NotLost DEF InsertLeaf, Writing, AlivePcs
<1>2. h \in Header /\ h = hdr[c] /\ p \in Chunks \X (0..Room) /\ p[1] = h.iWrite[1] /\ p \in Ptr
  BY <1>1, WriterAlive, AllocCell DEF InsertLeaf
<1>4. h2 \in Header
  BY <1>2 DEF Header
<1>5. /\ h2.nChunk = h.nChunk /\ h2.iNextShmid = h.iNextShmid /\ h2.iUsedShmid = h.iUsedShmid
      /\ h2.iOldShmid = h.iOldShmid /\ h2.iFirst = h.iFirst /\ h2.iWrite[1] = h.iWrite[1]
  BY <1>2 DEF Header
<1>6. /\ hdr' = [hdr EXCEPT ![c] = h2] /\ pc' = [pc EXCEPT ![c] = "copy"]
      /\ pend' = [pend EXCEPT !.leaf = p, !.sub = k]
  BY DEF InsertLeaf, SetHeader, Goto
<1>7. /\ UNCHANGED <<chunk, hdr1, hdr2, bWriter, writer, marks, rollback, bDiscardOld, snap,
                     client, nWrite>>
      /\ UNCHANGED <<slot, iReader, rlock>>
  BY DEF InsertLeaf, lockVars, boundVars
<1> HIDE DEF h, p, h2
<1>8. pend' \in [leaf : Ptr, sub : Sub \cup {None}, chunk : 0..MaxChunk, iLevel : Nat]
      /\ Len(rollback') >= Len(rollback)
  <2>1. pend' \in [leaf : Ptr, sub : Sub \cup {None}, chunk : 0..MaxChunk, iLevel : Nat]
    BY <1>1, <1>2, <1>6 DEF Types, WriteTypes
  <2>2. Len(rollback) \in Nat /\ rollback' = rollback
    BY <1>1, <1>7 DEF Types, WriteTypes
  <2> QED
    BY <2>1, <2>2
<1>9. ReadTypes' /\ WriteTypes' /\ HeaderTypes /\ chunk' \in ChunkMap
  BY <1>1, <1>7, <1>8 DEF Types, ReadTypes, WriteTypes
<1>10. /\ Types' /\ hdr'[c] = h2 /\ pc'[c] = "copy"
       /\ \A d \in Conn \ {c} : hdr'[d] = hdr[d] /\ pc'[d] = pc[d]
  BY <1>1, <1>4, <1>6, <1>7, <1>9, WriterTypes DEF HeaderTypes, AlivePcs
<1>11. Main'
  BY <1>1, <1>2, <1>5, <1>7, <1>8, <1>10, InsertMain
<1> QED
  BY <1>10, <1>11, InvIntro

LEMMA InsertCopyInv ==
  ASSUME Inv, NEW c \in Conn, InsertCopy(c)
  PROVE  Inv'
<1> DEFINE h == treehdr
           p == Alloc(h)
           v == nWrite + 1
           h2 == [h EXCEPT !.iWrite = p, !.root = p, !.cur[pend.sub] = v]
<1>1. pc[c] = "copy" /\ writer = c /\ Types /\ Main /\ pc[c] \in AlivePcs
  BY NotLost DEF InsertCopy, Writing, AlivePcs
<1>2. h \in Header /\ h = hdr[c] /\ p \in Chunks \X (0..Room) /\ p[1] = h.iWrite[1] /\ p \in Ptr
  BY <1>1, WriterAlive, AllocCell DEF InsertCopy
<1>3. v \in Nat /\ nWrite' = v
  BY <1>1 DEF InsertCopy, Types, WriteTypes
<1>4. h2 \in Header
  BY <1>2, <1>3 DEF Header
<1>5. /\ h2.nChunk = h.nChunk /\ h2.iNextShmid = h.iNextShmid /\ h2.iUsedShmid = h.iUsedShmid
      /\ h2.iOldShmid = h.iOldShmid /\ h2.iFirst = h.iFirst /\ h2.iWrite[1] = h.iWrite[1]
  BY <1>2 DEF Header
<1>6. /\ hdr' = [hdr EXCEPT ![c] = h2] /\ pc' = [pc EXCEPT ![c] = "open"]
      /\ pend' = NoPend
  BY DEF InsertCopy, SetHeader, Goto
<1>7. /\ UNCHANGED <<chunk, hdr1, hdr2, bWriter, writer, marks, rollback, bDiscardOld, snap, client>>
      /\ UNCHANGED <<slot, iReader, rlock>>
  BY DEF InsertCopy, lockVars
<1> HIDE DEF h, p, v, h2
<1>8. pend' \in [leaf : Ptr, sub : Sub \cup {None}, chunk : 0..MaxChunk, iLevel : Nat]
      /\ Len(rollback') >= Len(rollback)
  BY <1>1, <1>6, <1>7, NoPendType DEF Types, WriteTypes
<1>9. ReadTypes' /\ WriteTypes' /\ HeaderTypes /\ chunk' \in ChunkMap
  BY <1>1, <1>3, <1>7, <1>8 DEF Types, ReadTypes, WriteTypes
<1>10. /\ Types' /\ hdr'[c] = h2 /\ pc'[c] = "open"
       /\ \A d \in Conn \ {c} : hdr'[d] = hdr[d] /\ pc'[d] = pc[d]
  BY <1>1, <1>4, <1>6, <1>7, <1>9, WriterTypes DEF HeaderTypes, AlivePcs
<1>11. Main'
  BY <1>1, <1>2, <1>5, <1>7, <1>8, <1>10, InsertMain
<1> QED
  BY <1>10, <1>11, InvIntro

LEMMA ShmallocChunkInv ==
  ASSUME Inv, NEW c \in Conn, ShmallocChunk(c)
  PROVE  Inv'
<1> DEFINE h == treehdr
           id == chunk[h.iFirst].iShmid
           reuse == Recyclable(c, h)
           iNext == IF reuse THEN h.iFirst ELSE h.nChunk
           cleared == IF h.iUsedShmid # id THEN Cleared(c, id) ELSE {}
           h2 == [h EXCEPT !.iNextShmid = Add(@, 1),
                           !.iFirst = IF reuse THEN chunk[@].iNext ELSE @,
                           !.nChunk = IF reuse THEN @ ELSE @ + 1]
           at == IF pc[c] = "open" THEN "linkleaf" ELSE "linkcopy"
           b == Good.iNextShmid
<1>1. pc[c] \in {"open", "copy"} /\ writer = c /\ Types /\ Main /\ pc[c] \in AlivePcs
  BY NotLost DEF ShmallocChunk, Writing, AlivePcs
<1>2. /\ h \in Header /\ h = hdr[c] /\ AliveInv /\ Committed(chunk, Good) /\ Good \in Header
      /\ chunk \in ChunkMap
  BY <1>1, WriterAlive
<1>3. Above(chunk, h, Good) /\ Writable(chunk, h, Good, Rel(h.iNextShmid, b))
  BY <1>1, <1>2 DEF AliveInv
<1>4. /\ chunk' = [chunk EXCEPT ![iNext] = [iShmid |-> h.iNextShmid, iNext |-> 0]]
      /\ hdr' = [hdr EXCEPT ![c] = h2] /\ pc' = [pc EXCEPT ![c] = at]
      /\ pend' = [pend EXCEPT !.chunk = iNext]
      /\ iNext \in Chunks
      /\ slot' = [i \in 1..NReader |->
                    IF i \in cleared THEN [slot[i] EXCEPT !.iLsmId = 0] ELSE slot[i]]
      /\ rlock' = [rlock EXCEPT ![c] = @ \ cleared]
  BY DEF ShmallocChunk, SetHeader, Goto
<1>5. UNCHANGED <<hdr1, hdr2, bWriter, iReader, snap, client, writer, marks, rollback,
                  bDiscardOld, nWrite>>
  BY DEF ShmallocChunk, boundVars
<1>6. at \in {"linkleaf", "linkcopy"}
  OBVIOUS
<1> HIDE DEF cleared, at, h
<1>7. /\ chunk' \in ChunkMap /\ h2 \in Header
      /\ Committed(chunk', Good) /\ Above(chunk', h2, Good)
      /\ Writable(chunk', h2, Good, Rel(h2.iNextShmid, b) - 1)
      /\ iNext \in 1..(h2.nChunk - 1) /\ Pos(chunk', iNext, b) = Rel(h2.iNextShmid, b) - 1
      /\ \A m \in MarkRec : MarkAbove(chunk, m, h, Good) => MarkAbove(chunk', m, h2, Good)
  <2>1. Rel(h.iNextShmid, b) \in Int
    <3>1. Rel(h.iNextShmid, b) \in (-2 * MaxShm)..(2 * MaxShm - 1)
      BY <1>2, HeaderType, RelType
    <3> QED
      BY <3>1, Sizes
  <2>2. CASE reuse
    <3>1. iNext = h.iFirst /\ chunk' = Recycle(chunk, h)
      BY <1>4, <2>2 DEF Recycle
    <3>2. h2 = Recycled(chunk, h)
      <4>1. h2 = [h EXCEPT !.iNextShmid = Add(@, 1), !.iFirst = chunk[@].iNext, !.nChunk = @]
        BY <2>2
      <4> QED
        BY <1>2, <4>1 DEF Recycled, Header
    <3>3. h.iUsedShmid # chunk[h.iFirst].iShmid
      BY <2>2 DEF Recyclable
    <3>4. /\ Recycle(chunk, h) \in ChunkMap /\ Recycled(chunk, h) \in Header
          /\ Committed(Recycle(chunk, h), Good) /\ Above(Recycle(chunk, h), Recycled(chunk, h), Good)
          /\ Rel(Recycled(chunk, h).iNextShmid, b) = Rel(h.iNextShmid, b) + 1
          /\ Writable(Recycle(chunk, h), Recycled(chunk, h), Good, Rel(h.iNextShmid, b))
          /\ h.iFirst \in 1..(Recycled(chunk, h).nChunk - 1)
          /\ Pos(Recycle(chunk, h), h.iFirst, b) = Rel(h.iNextShmid, b)
          /\ \A m \in MarkRec : MarkAbove(chunk, m, h, Good) => MarkAbove(Recycle(chunk, h), m, Recycled(chunk, h), Good)
      BY <1>2, <1>3, <3>1, <3>3, RecycleList
    <3>5. Rel(Recycled(chunk, h).iNextShmid, b) - 1 = Rel(h.iNextShmid, b)
      BY <2>1, <3>4
    <3> HIDE DEF h2, iNext, b
    <3> QED
      BY <3>1, <3>2, <3>4, <3>5
  <2>3. CASE ~reuse
    <3>1. iNext = h.nChunk /\ chunk' = Appended(chunk, h) /\ h.nChunk \in Chunks
      BY <1>4, <2>3 DEF Appended
    <3>2. h2 = Longer(h)
      <4>1. h2 = [h EXCEPT !.iNextShmid = Add(@, 1), !.iFirst = @, !.nChunk = @ + 1]
        BY <2>3
      <4> QED
        BY <1>2, <4>1 DEF Longer, Header
    <3>4. /\ Appended(chunk, h) \in ChunkMap /\ Longer(h) \in Header
          /\ Committed(Appended(chunk, h), Good) /\ Above(Appended(chunk, h), Longer(h), Good)
          /\ Rel(Longer(h).iNextShmid, b) = Rel(h.iNextShmid, b) + 1
          /\ Writable(Appended(chunk, h), Longer(h), Good, Rel(h.iNextShmid, b))
          /\ h.nChunk \in 1..(Longer(h).nChunk - 1)
          /\ Pos(Appended(chunk, h), h.nChunk, b) = Rel(h.iNextShmid, b)
          /\ \A m \in MarkRec : MarkAbove(chunk, m, h, Good) => MarkAbove(Appended(chunk, h), m, Longer(h), Good)
      BY <1>2, <1>3, <3>1, AppendList
    <3>5. Rel(Longer(h).iNextShmid, b) - 1 = Rel(h.iNextShmid, b)
      BY <2>1, <3>4
    <3> HIDE DEF h2, iNext, b
    <3> QED
      BY <3>1, <3>2, <3>4, <3>5
  <2> QED
    BY <2>2, <2>3
<1> HIDE DEF h2, b, reuse, iNext
<1>8. /\ slot' \in [1..NReader -> [iLsmId : Nat, iTreeId : Ids]]
      /\ rlock' \in [Conn -> SUBSET (1..NReader)]
      /\ pend' \in [leaf : Ptr, sub : Sub \cup {None}, chunk : 0..MaxChunk, iLevel : Nat]
      /\ pend'.chunk = iNext
  <2>1. slot' \in [1..NReader -> [iLsmId : Nat, iTreeId : Ids]]
    BY <1>1, <1>4 DEF Types, ReadTypes
  <2>2. rlock' \in [Conn -> SUBSET (1..NReader)]
    BY <1>1, <1>4 DEF Types, ReadTypes
  <2>3. iNext \in 0..MaxChunk
    BY <1>4, Sizes DEF Chunks
  <2>4. pend \in [leaf : Ptr, sub : Sub \cup {None}, chunk : 0..MaxChunk, iLevel : Nat]
    BY <1>1 DEF Types, WriteTypes
  <2>5. /\ pend' \in [leaf : Ptr, sub : Sub \cup {None}, chunk : 0..MaxChunk, iLevel : Nat]
        /\ pend'.chunk = iNext
    BY <1>4, <2>3, <2>4
  <2> QED
    BY <2>1, <2>2, <2>5
<1>9. ReadTypes' /\ WriteTypes' /\ HeaderTypes
  <2>1. ReadTypes'
    BY <1>1, <1>5, <1>8 DEF Types, ReadTypes
  <2>2. WriteTypes'
    BY <1>1, <1>5, <1>8 DEF Types, WriteTypes
  <2> QED
    BY <1>1, <2>1, <2>2 DEF Types
<1>10. /\ Types' /\ hdr'[c] = h2 /\ pc'[c] = at
       /\ \A d \in Conn \ {c} : hdr'[d] = hdr[d] /\ pc'[d] = pc[d]
  BY <1>1, <1>4, <1>5, <1>6, <1>7, <1>9, WriterTypes DEF HeaderTypes, AlivePcs
<1>11. Main'
  <2>1. pc[c] \in AlivePcs \ {"rollback"} /\ pc'[c] \in AlivePcs \ {"rollback"}
        /\ pc'[c] \notin {"open", "leaf", "copy"}
    BY <1>1, <1>6, <1>10 DEF AlivePcs
  <2>2. Len(rollback') >= Len(rollback)
    BY <1>1, <1>5 DEF Types, WriteTypes
  <2>3. /\ Writable(chunk', h2, Good, Rel(h2.iNextShmid, Good.iNextShmid) - 1)
        /\ pend'.chunk \in 1..(h2.nChunk - 1)
        /\ Pos(chunk', pend'.chunk, Good.iNextShmid) = Rel(h2.iNextShmid, Good.iNextShmid) - 1
    BY <1>7, <1>8 DEF b
  <2>4. \A m \in MarkRec : MarkAbove(chunk, m, hdr[c], Good) => MarkAbove(chunk', m, h2, Good)
    BY <1>2, <1>7
  <2> QED
    BY <1>1, <1>5, <1>7, <1>10, <2>1, <2>2, <2>3, <2>4, OpenMain
<1> QED
  BY <1>10, <1>11, InvIntro

LEMMA ShmallocLinkInv ==
  ASSUME Inv, NEW c \in Conn, ShmallocLink(c)
  PROVE  Inv'
<1> DEFINE h == treehdr
           p == pend.chunk
           h2 == WriteIn(h, p)
           at == IF pc[c] = "linkleaf" THEN "leaf" ELSE "copy"
           b == Good.iNextShmid
<1>1. pc[c] \in {"linkleaf", "linkcopy"} /\ writer = c /\ Types /\ Main /\ pc[c] \in AlivePcs
  BY NotLost DEF ShmallocLink, Writing, AlivePcs
<1>2. /\ h \in Header /\ h = hdr[c] /\ AliveInv /\ Committed(chunk, Good) /\ Good \in Header
      /\ chunk \in ChunkMap
  BY <1>1, WriterAlive
<1>3. /\ Above(chunk, h, Good) /\ Writable(chunk, h, Good, Rel(h.iNextShmid, b) - 1)
      /\ p \in 1..(h.nChunk - 1) /\ Pos(chunk, p, b) = Rel(h.iNextShmid, b) - 1
  BY <1>1, <1>2 DEF AliveInv
<1>4. /\ chunk' = LinkedTo(chunk, h, p)
      /\ hdr' = [hdr EXCEPT ![c] = h2] /\ pc' = [pc EXCEPT ![c] = at]
      /\ pend' = [pend EXCEPT !.chunk = 0]
  BY DEF ShmallocLink, SetHeader, Goto, LinkedTo, WriteIn
<1>5. /\ UNCHANGED <<hdr1, hdr2, bWriter, snap, client, writer, marks, rollback,
                     bDiscardOld, nWrite>>
      /\ UNCHANGED <<slot, iReader, rlock>>
  BY DEF ShmallocLink, boundVars, lockVars
<1>6. at \in {"leaf", "copy"}
  OBVIOUS
<1> HIDE DEF h, p, at, h2, b
<1>7. /\ chunk' \in ChunkMap /\ h2 \in Header
      /\ Committed(chunk', Good) /\ Above(chunk', h2, Good)
      /\ Writable(chunk', h2, Good, Rel(h2.iNextShmid, b))
      /\ \A m \in MarkRec : MarkAbove(chunk, m, h, Good) => MarkAbove(chunk', m, h2, Good)
  <2>1. h2.iNextShmid = h.iNextShmid
    BY <1>2 DEF h2, WriteIn, Header
  <2> QED
    BY <1>2, <1>3, <1>4, <2>1, LinkList DEF b, h2
<1>8. pend' \in [leaf : Ptr, sub : Sub \cup {None}, chunk : 0..MaxChunk, iLevel : Nat]
  <2>1. 0 \in 0..MaxChunk
    BY Sizes
  <2> QED
    BY <1>1, <1>4, <2>1 DEF Types, WriteTypes
<1>9. ReadTypes' /\ WriteTypes' /\ HeaderTypes
  <2>1. ReadTypes'
    BY <1>1, <1>5 DEF Types, ReadTypes
  <2>2. WriteTypes'
    BY <1>1, <1>5, <1>8 DEF Types, WriteTypes
  <2> QED
    BY <1>1, <2>1, <2>2 DEF Types
<1>10. /\ Types' /\ hdr'[c] = h2 /\ pc'[c] = at
       /\ \A d \in Conn \ {c} : hdr'[d] = hdr[d] /\ pc'[d] = pc[d]
  BY <1>1, <1>4, <1>5, <1>6, <1>7, <1>9, WriterTypes DEF HeaderTypes, AlivePcs
<1>11. Main'
  <2>1. pc[c] \in AlivePcs \ {"rollback"} /\ pc'[c] \in AlivePcs \ {"rollback"}
        /\ pc'[c] \notin {"linkleaf", "linkcopy"}
    BY <1>1, <1>6, <1>10 DEF AlivePcs
  <2>2. Len(rollback') >= Len(rollback)
    BY <1>1, <1>5 DEF Types, WriteTypes
  <2>3. Writable(chunk', h2, Good, Rel(h2.iNextShmid, Good.iNextShmid))
    BY <1>7 DEF b
  <2>4. \A m \in MarkRec : MarkAbove(chunk, m, hdr[c], Good) => MarkAbove(chunk', m, h2, Good)
    BY <1>2, <1>7
  <2> QED
    BY <1>1, <1>5, <1>7, <1>10, <2>1, <2>2, <2>3, <2>4, OpenMain
<1> QED
  BY <1>10, <1>11, InvIntro

----------------------------------------------------------------------------
(* Transactions begin, nested ones too.                                     *)

LEMMA NewMark ==
  ASSUME NEW H \in Header, NEW h \in Header, NEW ch \in ChunkMap,
         Above(ch, h, H), Writable(ch, h, H, Rel(h.iNextShmid, H.iNextShmid))
  PROVE  MarkAbove(ch, Mark(h), h, H)
<1> DEFINE b == H.iNextShmid
           N == Rel(h.iNextShmid, b)
           n == h.nChunk
           m == Mark(h)
<1>1. m.nChunk = n /\ m.iNextShmid = h.iNextShmid /\ m.iWrite = h.iWrite
  BY DEF Mark
<1>2. /\ n \in 2..(MaxChunk + 1) /\ n \in Int /\ H.nChunk \in Int /\ MaxChunk \in Nat
      /\ 1..(n - 1) \subseteq Chunks /\ N \in Int /\ \A i \in Chunks : Pos(ch, i, b) \in Int
  BY HeaderType, Sizes, RelType, PosType DEF Chunks
<1>3. N >= 0 /\ n >= H.nChunk
  BY DEF Above
<1>4. /\ N - (n - 1) >= 1 - H.nChunk
      /\ \A i \in 1..(n - 1) : Pos(ch, i, b) \in (N - (n - 1))..(N - 1)
      /\ h.iWrite[1] \in 1..(n - 1) /\ Pos(ch, h.iWrite[1], b) = N - 1
  BY DEF Writable, Places1
<1>5. 1 <= H.nChunk
  BY HeaderType
<1> HIDE DEF b, N, n, m
<1>6. n \in H.nChunk..n /\ N \in 0..N /\ N - n >= -H.nChunk
  BY <1>2, <1>3, <1>4
<1>7. \A i \in 1..(n - 1) : Pos(ch, i, b) < N => i < n
  BY <1>2
<1>8. \A i \in H.nChunk..(n - 1) : Pos(ch, i, b) < N
  BY <1>2, <1>4, <1>5
<1> QED
  BY <1>1, <1>4, <1>6, <1>7, <1>8 DEF MarkAbove, b, N, n, m

LEMMA MarkIsMark ==
  ASSUME NEW h \in Header
  PROVE  Mark(h) \in MarkRec
BY DEF Mark, Header, MarkRec

LEMMA BeginNestedInv ==
  ASSUME Inv, NEW c \in Conn, BeginNested(c)
  PROVE  Inv'
<1> DEFINE h == treehdr
           b == Good.iNextShmid
           new == [mark |-> Mark(h), iRollback |-> Len(rollback)]
           n == Len(marks)
<1>1. pc[c] = "open" /\ writer = c /\ Types /\ Main /\ pc[c] \in AlivePcs
  BY NotLost DEF BeginNested, Writing, AlivePcs
<1>2. /\ h \in Header /\ h = hdr[c] /\ AliveInv /\ Committed(chunk, Good) /\ Good \in Header
      /\ chunk \in ChunkMap
  BY <1>1, WriterAlive
<1>3. /\ Above(chunk, h, Good) /\ Writable(chunk, h, Good, Rel(h.iNextShmid, b))
      /\ MarksInv /\ Top = n
  BY <1>1, <1>2 DEF AliveInv, Top
<1>4. MarkAbove(chunk, Mark(h), h, Good) /\ Mark(h) \in MarkRec
  BY <1>2, <1>3, NewMark, MarkIsMark
<1>5. /\ marks' = Append(marks, new)
      /\ UNCHANGED <<chunk, hdr1, hdr2, bWriter, pc, hdr, snap, client, writer, rollback, pend,
                     bDiscardOld, nWrite>>
      /\ UNCHANGED <<slot, iReader, rlock>>
  BY DEF BeginNested, shmVars, lockVars, boundVars
<1>6. /\ n \in Nat /\ Len(rollback) \in Nat
      /\ \A k \in 1..n : marks[k].mark \in MarkRec /\ marks[k].iRollback \in Nat
  BY <1>1, MarkTypes DEF Types, WriteTypes
<1>7. /\ Len(marks') = n + 1 /\ marks'[n + 1] = new
      /\ \A k \in 1..n : marks'[k] = marks[k]
      /\ marks' \in Seq([mark : MarkRec, iRollback : Nat])
  <2>1. new \in [mark : MarkRec, iRollback : Nat]
    BY <1>4, <1>6
  <2>2. marks \in Seq([mark : MarkRec, iRollback : Nat])
    BY <1>1 DEF Types, WriteTypes
  <2> HIDE DEF new
  <2> QED
    BY <1>5, <2>1, <2>2
<1>8. Types'
  <2>1. HeaderTypes' /\ ReadTypes'
    BY <1>1, <1>5 DEF Types, HeaderTypes, ReadTypes
  <2>2. WriteTypes'
    BY <1>1, <1>5, <1>7 DEF Types, WriteTypes
  <2> QED
    BY <1>1, <1>5, <2>1, <2>2 DEF Types
<1>9. Good' = Good /\ treehdr' = h /\ Top' = n + 1
  BY <1>1, <1>5, <1>7 DEF Good, treehdr, Top
<1>10. MarksInv'
  <2>1. Top' \in 1..Len(marks')
    BY <1>3, <1>6, <1>7, <1>9 DEF MarksInv
  <2>2. \A k \in 1..n : /\ MarkAbove(chunk, marks[k].mark, h, Good)
                        /\ marks[k].iRollback <= Len(rollback)
                        /\ MarkBelow(marks[k].mark, Mark(h), b)
    <3>1. \A k \in 1..n : MarkAbove(chunk, marks[k].mark, h, Good)
                          /\ marks[k].iRollback <= Len(rollback)
      BY <1>3 DEF MarksInv
    <3>2. Mark(h).nChunk = h.nChunk /\ Mark(h).iNextShmid = h.iNextShmid
      BY DEF Mark
    <3>3. \A k \in 1..n : MarkBelow(marks[k].mark, Mark(h), b)
      BY <3>1, <3>2 DEF MarkAbove, MarkBelow
    <3> QED
      BY <3>1, <3>3
  <2>3. MarkBelow(Mark(h), Mark(h), b)
    <3>1. h.nChunk \in Int /\ Rel(h.iNextShmid, b) \in Int
      BY <1>2, HeaderType, RelType, Sizes
    <3>2. Mark(h).nChunk = h.nChunk /\ Mark(h).iNextShmid = h.iNextShmid
      BY DEF Mark
    <3> QED
      BY <3>1, <3>2 DEF MarkBelow
  <2>4. \A k \in 1..(n + 1) :
          \/ k \in 1..n /\ marks'[k] = marks[k]
          \/ k = n + 1 /\ marks'[k].mark = Mark(h) /\ marks'[k].iRollback = Len(rollback)
    BY <1>6, <1>7
  <2>5. \A k \in 1..Top' : MarkAbove(chunk, marks'[k].mark, h, Good)
                           /\ marks'[k].iRollback <= Len(rollback)
    BY <1>4, <1>6, <1>9, <2>2, <2>4
  <2>6. \A k, l \in 1..Top' : k <= l =>
          /\ MarkBelow(marks'[k].mark, marks'[l].mark, b)
          /\ marks'[k].iRollback <= marks'[l].iRollback
    <3> SUFFICES ASSUME NEW k \in 1..(n + 1), NEW l \in 1..(n + 1), k <= l
                 PROVE  /\ MarkBelow(marks'[k].mark, marks'[l].mark, b)
                        /\ marks'[k].iRollback <= marks'[l].iRollback
      BY <1>9
    <3>1. CASE l \in 1..n
      <4>1. k \in 1..n
        BY <1>6, <3>1
      <4> QED
        BY <1>3, <1>7, <3>1, <4>1 DEF MarksInv
    <3>2. CASE l = n + 1 /\ k \in 1..n
      BY <2>2, <2>4, <3>2, <1>7
    <3>3. CASE l = n + 1 /\ k = n + 1
      BY <1>6, <2>3, <1>7, <3>3
    <3> QED
      BY <1>6, <3>1, <3>2, <3>3
  <2> QED
    BY <1>5, <1>9, <2>1, <2>5, <2>6 DEF MarksInv
<1>11. AliveInv'
  BY <1>1, <1>2, <1>5, <1>9, <1>10 DEF AliveInv
<1>12. Main'
  <2>1. bWriter' /\ pc'[c] \in AlivePcs
    BY <1>1, <1>2, <1>5 DEF AliveInv
  <2> QED
    BY <1>1, <1>2, <1>5, <1>8, <1>11, <2>1, AliveMain
<1> QED
  BY <1>8, <1>12, InvIntro

LEMMA CommitNestedInv ==
  ASSUME Inv, NEW c \in Conn, CommitNested(c)
  PROVE  Inv'
<1> DEFINE n == Len(marks)
<1>1. pc[c] = "open" /\ writer = c /\ Types /\ Main /\ pc[c] \in AlivePcs /\ n > 1
  BY NotLost DEF CommitNested, Writing, AlivePcs
<1>2. /\ treehdr = hdr[c] /\ AliveInv /\ Committed(chunk, Good) /\ MarksInv /\ Top = n
  BY <1>1, WriterAlive DEF AliveInv, Top
<1>3. /\ marks' = SubSeq(marks, 1, n - 1)
      /\ UNCHANGED <<chunk, hdr1, hdr2, bWriter, pc, hdr, snap, client, writer, rollback, pend,
                     bDiscardOld, nWrite>>
      /\ UNCHANGED <<slot, iReader, rlock>>
  BY DEF CommitNested, shmVars, lockVars, boundVars
<1>4. n \in Nat
  BY <1>1, MarkTypes
<1>5. /\ Len(marks') = n - 1
      /\ \A k \in 1..(n - 1) : marks'[k] = marks[k]
      /\ marks' \in Seq([mark : MarkRec, iRollback : Nat])
  <2>1. marks \in Seq([mark : MarkRec, iRollback : Nat])
    BY <1>1 DEF Types, WriteTypes
  <2>2. n - 1 \in 0..Len(marks)
    BY <1>1, <1>4
  <2> QED
    BY <1>3, <2>1, <2>2, Prefix
<1>6. Types'
  <2>1. HeaderTypes' /\ ReadTypes'
    BY <1>1, <1>3 DEF Types, HeaderTypes, ReadTypes
  <2>2. WriteTypes'
    BY <1>1, <1>3, <1>5 DEF Types, WriteTypes
  <2> QED
    BY <1>1, <1>3, <2>1, <2>2 DEF Types
<1>7. Good' = Good /\ treehdr' = treehdr /\ Top' = n - 1
  BY <1>1, <1>3, <1>5 DEF Good, treehdr, Top
<1>8. MarksInv'
  BY <1>1, <1>2, <1>3, <1>4, <1>5, <1>7 DEF MarksInv
<1>9. AliveInv'
  BY <1>1, <1>2, <1>3, <1>7, <1>8 DEF AliveInv
<1>10. Main'
  <2>1. bWriter' /\ pc'[c] \in AlivePcs
    BY <1>1, <1>2, <1>3 DEF AliveInv
  <2> QED
    BY <1>1, <1>2, <1>3, <1>6, <1>9, <2>1, AliveMain
<1> QED
  BY <1>6, <1>10, InvIntro

LEMMA BeginWriteTransInv ==
  ASSUME Inv, NEW c \in Conn, BeginWriteTrans(c)
  PROVE  Inv'
<1> DEFINE g == hdr[c]
           h == [g EXCEPT !.trans = @ + 1]
           discard == HasOld(h) /\ OldFlushed(h, client[c])
           start == IF discard THEN DiscardOld(h) ELSE h
<1>1. pc[c] = "reading" /\ writer = None /\ ~bWriter /\ hdr1 = g /\ Types /\ Main
  BY NotLost DEF BeginWriteTrans
<1>2. /\ hdr1 = hdr2 /\ ListOk(hdr1, chunk) /\ Committed(chunk, Good)
      /\ \A d \in Conn : hdr[d].nChunk <= Good.nChunk /\ pc[d] \in ReaderPcs
  BY <1>1, NoneNotConn DEF Main
<1>3. Good = g /\ g \in Header /\ chunk \in ChunkMap
  BY <1>1, <1>2 DEF Good, Types, HeaderTypes
<1>4. h \in Header /\ DiscardOld(h) \in Header
  <2>1. g.trans + 1 \in Nat \ {0} /\ 0 \in Ids
    BY <1>3, HeaderType, Sizes DEF Ids
  <2>2. h \in Header
    BY <1>3, <2>1 DEF Header
  <2> QED
    BY <2>1, <2>2 DEF Header, DiscardOld
<1>5. /\ hdr' = [hdr EXCEPT ![c] = start] /\ pc' = [pc EXCEPT ![c] = "open"]
      /\ writer' = c /\ bWriter' = TRUE /\ bDiscardOld' = discard
      /\ marks' = <<[mark |-> Mark(start), iRollback |-> 0]>> /\ rollback' = << >>
      /\ UNCHANGED <<chunk, hdr1, hdr2, snap, client, pend, nWrite>>
      /\ UNCHANGED <<slot, iReader, rlock>>
  BY DEF BeginWriteTrans, SetHeader, Goto, lockVars, boundVars
<1>6. /\ start \in Header
      /\ start.nChunk = g.nChunk /\ start.iFirst = g.iFirst /\ start.iNextShmid = g.iNextShmid
      /\ start.iWrite = g.iWrite
      /\ \/ start.iUsedShmid = g.iUsedShmid /\ start.iOldShmid = g.iOldShmid
         \/ HasOld(g) /\ start.iUsedShmid = g.iOldShmid /\ start.iOldShmid = 0
  BY <1>3, <1>4 DEF HasOld, DiscardOld, Header
<1> HIDE DEF h, discard, start
<1>7. Trees(chunk, g)
  BY <1>2, <1>3 DEF Committed
<1>8. /\ Above(chunk, start, g)
      /\ Writable(chunk, start, g, Rel(start.iNextShmid, g.iNextShmid))
      /\ MarkAbove(chunk, Mark(start), start, g)
  BY <1>1, <1>2, <1>3, <1>6, <1>7, BeginList
<1>9. Mark(start) \in MarkRec /\ discard \in BOOLEAN
  BY <1>6, MarkIsMark DEF discard
<1>10. ReadTypes' /\ WriteTypes' /\ HeaderTypes
  <2>1. ReadTypes'
    BY <1>1, <1>5 DEF Types, ReadTypes
  <2>2. marks' \in Seq([mark : MarkRec, iRollback : Nat])
    BY <1>5, <1>9
  <2>3. rollback' \in Seq(Ptr)
    BY <1>5
  <2>4. WriteTypes'
    BY <1>1, <1>5, <1>9, <2>2, <2>3 DEF Types, WriteTypes
  <2> QED
    BY <1>1, <2>1, <2>4 DEF Types
<1>11. /\ Types' /\ hdr'[c] = start /\ pc'[c] = "open"
       /\ \A d \in Conn \ {c} : hdr'[d] = hdr[d] /\ pc'[d] = pc[d]
  BY <1>1, <1>3, <1>5, <1>6, <1>10, WriterTypes DEF HeaderTypes, AlivePcs
<1>12. Good' = g /\ treehdr' = start /\ Top' = 1 /\ Len(marks') = 1
       /\ marks'[1].mark = Mark(start) /\ marks'[1].iRollback = 0 /\ Len(rollback') = 0
  BY <1>3, <1>5, <1>11 DEF Good, treehdr, Top
<1>13. MarksInv'
  <2>1. MarkBelow(Mark(start), Mark(start), g.iNextShmid)
    <3>1. Mark(start).nChunk \in Int /\ Rel(Mark(start).iNextShmid, g.iNextShmid) \in Int
      BY <1>3, <1>6, HeaderType, RelType, Sizes DEF Mark
    <3> QED
      BY <3>1 DEF MarkBelow
  <2> QED
    BY <1>5, <1>8, <1>12, <2>1 DEF MarksInv
<1>14. AliveInv'
  BY <1>2, <1>5, <1>8, <1>11, <1>12, <1>13 DEF AliveInv
<1>15. Main'
  <2>1. writer' # None /\ pc'[c] \in AlivePcs
    BY <1>5, <1>11, NoneNotConn DEF AlivePcs
  <2>2. \A d \in Conn : d # c => hdr'[d].nChunk <= Good.nChunk /\ pc'[d] \in ReaderPcs
    BY <1>2, <1>11
  <2> QED
    BY <1>2, <1>3, <1>5, <1>12, <1>14, <2>1, <2>2 DEF Main
<1> QED
  BY <1>11, <1>15, InvIntro

----------------------------------------------------------------------------
(* A rollback.                                                              *)

LEMMA RollbackPtrsInv ==
  ASSUME Inv, NEW c \in Conn, NEW iLevel \in 0..Len(marks), RollbackPtrs(c, iLevel)
  PROVE  Inv'
<1> DEFINE h == treehdr
           b == Good.iNextShmid
           n == Len(marks)
           k == IF iLevel = 0 THEN 1 ELSE iLevel
           m == marks[k]
           p == chunk[m.mark.iWrite[1]].iNext
<1>1. pc[c] = "open" /\ writer = c /\ Types /\ Main /\ pc[c] \in AlivePcs
  BY NotLost DEF RollbackPtrs, Writing, AlivePcs
<1>2. /\ h \in Header /\ h = hdr[c] /\ AliveInv /\ Committed(chunk, Good) /\ Good \in Header
      /\ chunk \in ChunkMap
  BY <1>1, WriterAlive
<1>3. /\ Above(chunk, h, Good) /\ Writable(chunk, h, Good, Rel(h.iNextShmid, b))
      /\ MarksInv /\ Top = n
  BY <1>1, <1>2 DEF AliveInv, Top
<1>4. n \in Nat /\ n >= 1 /\ k \in 1..n /\ iLevel \in Nat
  <2>1. n \in Nat /\ n \in 1..n
    BY <1>1, <1>3, MarkTypes DEF MarksInv
  <2> QED
    BY <2>1
<1>5. m.mark \in MarkRec /\ m.iRollback \in Nat /\ MarkAbove(chunk, m.mark, h, Good)
      /\ m.iRollback \in 0..Len(rollback)
  <2>1. m.mark \in MarkRec /\ m.iRollback \in Nat
    BY <1>1, <1>4, MarkTypes
  <2>2. MarkAbove(chunk, m.mark, h, Good) /\ m.iRollback <= Len(rollback)
    BY <1>3, <1>4 DEF MarksInv
  <2>3. Len(rollback) \in Nat
    BY <1>1 DEF Types, WriteTypes
  <2> QED
    BY <2>1, <2>2, <2>3
<1>6. /\ chunk' = CutAt(chunk, m.mark) /\ pc' = [pc EXCEPT ![c] = "rollback"]
      /\ rollback' = SubSeq(rollback, 1, m.iRollback)
      /\ pend' = [pend EXCEPT !.chunk = p, !.iLevel = iLevel]
      /\ UNCHANGED <<hdr1, hdr2, bWriter, hdr, snap, client, writer, marks, bDiscardOld, nWrite>>
      /\ UNCHANGED <<slot, iReader, rlock>>
  BY DEF RollbackPtrs, MarkOf, Goto, CutAt, lockVars, boundVars
<1> HIDE DEF h, b, n, k, m, p
<1>7. /\ chunk' \in ChunkMap /\ Committed(chunk', Good) /\ Above(chunk', h, Good)
      /\ RollingBack(chunk', h, Good, m.mark, p)
      /\ \A m2 \in MarkRec : MarkAbove(chunk, m2, h, Good) => MarkAbove(chunk', m2, h, Good)
  BY <1>2, <1>3, <1>5, <1>6, CutList DEF p, b
<1>8. p \in 0..MaxChunk
  <2>1. m.mark.iWrite[1] \in Chunks
    BY <1>5 DEF MarkRec
  <2> QED
    BY <1>2, <2>1 DEF ChunkMap, p
<1>9. /\ rollback' \in Seq(Ptr) /\ Len(rollback') = m.iRollback
      /\ pend' \in [leaf : Ptr, sub : Sub \cup {None}, chunk : 0..MaxChunk, iLevel : Nat]
      /\ pend'.chunk = p /\ pend'.iLevel = iLevel
  <2>1. rollback \in Seq(Ptr)
        /\ pend \in [leaf : Ptr, sub : Sub \cup {None}, chunk : 0..MaxChunk, iLevel : Nat]
    BY <1>1 DEF Types, WriteTypes
  <2>2. rollback' \in Seq(Ptr) /\ Len(rollback') = m.iRollback
    BY <1>5, <1>6, <2>1, Prefix
  <2> QED
    BY <1>4, <1>6, <1>8, <2>1, <2>2
<1>10. ReadTypes' /\ WriteTypes' /\ HeaderTypes
  <2>1. ReadTypes'
    BY <1>1, <1>6 DEF Types, ReadTypes
  <2>2. WriteTypes'
    BY <1>1, <1>6, <1>9 DEF Types, WriteTypes
  <2> QED
    BY <1>1, <2>1, <2>2 DEF Types
<1>11. /\ Types' /\ hdr'[c] = h /\ pc'[c] = "rollback"
       /\ \A d \in Conn \ {c} : hdr'[d] = hdr[d] /\ pc'[d] = pc[d]
  <2>1. hdr' = [hdr EXCEPT ![c] = h]
    BY <1>2, <1>6, <1>10 DEF HeaderTypes
  <2>2. /\ pc' = [pc EXCEPT ![c] = "rollback"] /\ "rollback" \in AlivePcs
        /\ hdr1' \in Header \cup {Torn} /\ hdr2' \in Header /\ bWriter' \in BOOLEAN
    BY <1>6, <1>10 DEF HeaderTypes, AlivePcs
  <2> QED
    BY <1>1, <1>2, <1>7, <1>10, <2>1, <2>2, WriterTypes, ZenonT(60)
<1>12. Good' = Good /\ treehdr' = h /\ Top' = k /\ writer' = c /\ marks' = marks
  BY <1>1, <1>6, <1>9, <1>11 DEF Good, treehdr, Top, k
<1>13. MarksInv'
  <2>1. Top' \in 1..Len(marks')
    BY <1>4, <1>12 DEF n
  <2>2. \A i \in 1..k : i \in 1..n /\ i <= k
    BY <1>4
  <2>3. \A i \in 1..k : /\ MarkAbove(chunk', marks[i].mark, h, Good)
                        /\ marks[i].iRollback <= m.iRollback
    <3>1. \A i \in 1..k : MarkAbove(chunk, marks[i].mark, h, Good) /\ marks[i].mark \in MarkRec
      BY <1>1, <1>3, <2>2, MarkTypes DEF MarksInv, n, h
    <3>2. \A i \in 1..k : marks[i].iRollback <= marks[k].iRollback
      BY <1>3, <1>4, <2>2 DEF MarksInv
    <3> QED
      BY <1>7, <3>1, <3>2 DEF m
  <2>4. \A i, l \in 1..k : i <= l =>
          /\ MarkBelow(marks[i].mark, marks[l].mark, Good.iNextShmid)
          /\ marks[i].iRollback <= marks[l].iRollback
    BY <1>3, <2>2 DEF MarksInv
  <2> QED
    BY <1>9, <1>12, <2>1, <2>3, <2>4 DEF MarksInv
<1>14. AliveInv'
  <2>1. bWriter' /\ hdr1' = hdr2'
    BY <1>2, <1>6 DEF AliveInv
  <2>2. RollingBack(chunk', treehdr', Good', marks'[Top'].mark, pend'.chunk)
    BY <1>7, <1>9, <1>12 DEF m
  <2> QED
    BY <1>7, <1>11, <1>12, <1>13, <2>1, <2>2 DEF AliveInv
<1>15. Main'
  <2>1. bWriter' /\ pc'[c] \in AlivePcs
    BY <1>2, <1>6, <1>11 DEF AliveInv, AlivePcs
  <2> QED
    BY <1>1, <1>6, <1>7, <1>11, <1>14, <2>1, AliveMain
<1> QED
  BY <1>11, <1>15, InvIntro

LEMMA RollbackFreeInv ==
  ASSUME Inv, NEW c \in Conn, RollbackFree(c)
  PROVE  Inv'
<1> DEFINE h == treehdr
           b == Good.iNextShmid
           i == pend.chunk
           m == marks[Top].mark
           q == chunk[i].iNext
           keep == i < m.nChunk
           ch == IF keep THEN ToFront(chunk, h, i) ELSE chunk
           h2 == IF keep THEN FirstIs(h, i) ELSE h
<1>1. pc[c] = "rollback" /\ writer = c /\ Types /\ Main /\ pc[c] \in AlivePcs /\ i # 0
  BY NotLost DEF RollbackFree, Writing, AlivePcs
<1>2. /\ h \in Header /\ h = hdr[c] /\ AliveInv /\ Committed(chunk, Good) /\ Good \in Header
      /\ chunk \in ChunkMap
  BY <1>1, WriterAlive
<1>3. /\ Above(chunk, h, Good) /\ RollingBack(chunk, h, Good, m, i)
      /\ MarksInv
  BY <1>1, <1>2 DEF AliveInv
<1>4. /\ Top = (IF pend.iLevel = 0 THEN 1 ELSE pend.iLevel) /\ Top \in 1..Len(marks)
      /\ \A k \in 1..Top : k \in 1..Len(marks) /\ marks[k].mark \in MarkRec
  BY <1>1, <1>3, MarkTypes DEF MarksInv, Top
<1>5. m \in MarkRec /\ MarkAbove(chunk, m, h, Good) /\ i \in Nat
  <2>1. Top \in 1..Top
    BY <1>4
  <2>2. i \in 0..MaxChunk
    BY <1>1 DEF Types, WriteTypes
  <2> QED
    BY <1>3, <1>4, <2>1, <2>2 DEF MarksInv
<1>6. /\ pc' = pc /\ pend' = [pend EXCEPT !.chunk = q]
      /\ chunk' = ch /\ hdr' = [hdr EXCEPT ![c] = h2]
      /\ UNCHANGED <<hdr1, hdr2, bWriter, snap, client, writer, marks, rollback, bDiscardOld,
                     nWrite>>
      /\ UNCHANGED <<slot, iReader, rlock>>
  <2>1. MarkOf(pend.iLevel).mark = m
    BY <1>4 DEF MarkOf
  <2>2. hdr = [hdr EXCEPT ![c] = hdr[c]]
    BY <1>1 DEF Types, HeaderTypes
  <2>3. CASE keep
    BY <2>1, <2>3 DEF RollbackFree, lockVars, boundVars, ToFront, FirstIs, SetHeader
  <2>4. CASE ~keep
    BY <1>2, <2>1, <2>2, <2>4 DEF RollbackFree, lockVars, boundVars
  <2> QED
    BY <2>3, <2>4
<1> HIDE DEF h, b, m, q
<1>7. /\ ch \in ChunkMap /\ h2 \in Header /\ Committed(ch, Good) /\ Above(ch, h2, Good)
      /\ RollingBack(ch, h2, Good, m, q)
      /\ \A m2 \in MarkRec : MarkBelow(m2, m, b) /\ MarkAbove(chunk, m2, h, Good)
                               => MarkAbove(ch, m2, h2, Good)
  <2>1. CASE keep
    BY <1>1, <1>2, <1>3, <1>5, <2>1, FreeList DEF q, b
  <2>2. CASE ~keep
    BY <1>1, <1>2, <1>3, <1>5, <2>2, SkipList DEF q
  <2> QED
    BY <2>1, <2>2
<1>8. q \in 0..MaxChunk
  <2>1. i \in 0..MaxChunk /\ i # 0 /\ MaxChunk \in Nat
    BY <1>1, Sizes DEF Types, WriteTypes
  <2>2. i \in Chunks
    BY <2>1 DEF Chunks
  <2> QED
    BY <1>2, <2>2 DEF ChunkMap, q
<1> HIDE DEF ch, h2, i
<1>9. /\ pend' \in [leaf : Ptr, sub : Sub \cup {None}, chunk : 0..MaxChunk, iLevel : Nat]
      /\ pend'.chunk = q /\ pend'.iLevel = pend.iLevel
  <2>1. pend \in [leaf : Ptr, sub : Sub \cup {None}, chunk : 0..MaxChunk, iLevel : Nat]
    BY <1>1 DEF Types, WriteTypes
  <2> QED
    BY <1>6, <1>8, <2>1
<1>10. ReadTypes' /\ WriteTypes' /\ HeaderTypes
  <2>1. ReadTypes'
    BY <1>1, <1>6 DEF Types, ReadTypes
  <2>2. WriteTypes'
    BY <1>1, <1>6, <1>9 DEF Types, WriteTypes
  <2> QED
    BY <1>1, <2>1, <2>2 DEF Types
<1>11. /\ Types' /\ hdr'[c] = h2 /\ pc'[c] = "rollback"
       /\ \A d \in Conn \ {c} : hdr'[d] = hdr[d] /\ pc'[d] = pc[d]
  <2>1. pc' = [pc EXCEPT ![c] = "rollback"]
    BY <1>1, <1>6 DEF Types
  <2> QED
    BY <1>1, <1>2, <1>6, <1>7, <1>10, <2>1, WriterTypes DEF HeaderTypes, AlivePcs
<1>12. Good' = Good /\ treehdr' = h2 /\ Top' = Top /\ writer' = c /\ marks' = marks
  BY <1>1, <1>4, <1>6, <1>9, <1>11 DEF Good, treehdr, Top
<1>13. MarksInv'
  <2>1. Top' \in 1..Len(marks')
    BY <1>4, <1>12
  <2>2. \A k \in 1..Top : MarkAbove(ch, marks[k].mark, h2, Good)
    <3>1. \A k \in 1..Top : MarkAbove(chunk, marks[k].mark, h, Good)
      BY <1>3 DEF MarksInv, h
    <3>2. \A k \in 1..Top : MarkBelow(marks[k].mark, m, b)
      <4>1. \A k \in 1..Top : k <= Top /\ Top \in 1..Top
        BY <1>4
      <4> QED
        BY <1>3, <4>1 DEF MarksInv, m, b
    <3> QED
      BY <1>4, <1>7, <3>1, <3>2
  <2>3. /\ \A k, l \in 1..Top : k <= l =>
             /\ MarkBelow(marks[k].mark, marks[l].mark, Good.iNextShmid)
             /\ marks[k].iRollback <= marks[l].iRollback
        /\ \A k \in 1..Top : marks[k].iRollback <= Len(rollback)
    BY <1>3 DEF MarksInv
  <2> QED
    BY <1>6, <1>12, <2>1, <2>2, <2>3 DEF MarksInv
<1>14. AliveInv'
  <2>1. bWriter' /\ hdr1' = hdr2'
    BY <1>2, <1>6 DEF AliveInv
  <2>2. RollingBack(chunk', treehdr', Good', marks'[Top'].mark, pend'.chunk)
    BY <1>6, <1>7, <1>9, <1>12 DEF m
  <2> QED
    BY <1>6, <1>7, <1>11, <1>12, <1>13, <2>1, <2>2 DEF AliveInv
<1>15. Main'
  <2>1. bWriter' /\ pc'[c] \in AlivePcs
    BY <1>2, <1>6, <1>11 DEF AliveInv, AlivePcs
  <2> QED
    BY <1>1, <1>6, <1>7, <1>11, <1>14, <2>1, AliveMain
<1> QED
  BY <1>11, <1>15, InvIntro

LEMMA RollbackNestedInv ==
  ASSUME Inv, NEW c \in Conn, RollbackNested(c)
  PROVE  Inv'
<1> DEFINE h == treehdr
           b == Good.iNextShmid
           t == pend.iLevel
           m == marks[t].mark
           h2 == RestoredTo(h, m)
<1>1. /\ pc[c] = "rollback" /\ writer = c /\ Types /\ Main /\ pc[c] \in AlivePcs
      /\ pend.chunk = 0 /\ t > 0
  BY NotLost DEF RollbackNested, Writing, AlivePcs
<1>2. /\ h \in Header /\ h = hdr[c] /\ AliveInv /\ Committed(chunk, Good) /\ Good \in Header
      /\ chunk \in ChunkMap
  BY <1>1, WriterAlive
<1>3. t \in Nat /\ t # 0 /\ Top = t
  BY <1>1 DEF Types, WriteTypes, Top
<1>4. /\ Above(chunk, h, Good) /\ RollingBack(chunk, h, Good, m, 0)
      /\ MarksInv
  BY <1>1, <1>2, <1>3 DEF AliveInv
<1>5. /\ t \in 1..Len(marks) /\ Len(marks) \in Nat
      /\ \A k \in 1..t : k \in 1..Len(marks) /\ marks[k].mark \in MarkRec
  BY <1>1, <1>3, <1>4, MarkTypes DEF MarksInv
<1>6. m \in MarkRec /\ MarkAbove(chunk, m, h, Good)
  <2>1. t \in 1..t
    BY <1>5
  <2> QED
    BY <1>3, <1>4, <1>5, <2>1 DEF MarksInv
<1>7. /\ pc' = [pc EXCEPT ![c] = "open"] /\ pend' = NoPend
      /\ hdr' = [hdr EXCEPT ![c] = h2] /\ marks' = SubSeq(marks, 1, t)
      /\ UNCHANGED <<chunk, hdr1, hdr2, bWriter, snap, client, writer, rollback, bDiscardOld,
                     nWrite>>
      /\ UNCHANGED <<slot, iReader, rlock>>
  BY <1>3 DEF RollbackNested, Goto, SetHeader, Restored, RestoredTo, MarkOf, shmVars, lockVars,
              boundVars
<1> HIDE DEF h, b, m, h2, t
<1>8. /\ h2 \in Header /\ Above(chunk, h2, Good)
      /\ Writable(chunk, h2, Good, Rel(h2.iNextShmid, b))
      /\ \A m2 \in MarkRec : MarkBelow(m2, m, b) /\ MarkAbove(chunk, m2, h, Good)
                               => MarkAbove(chunk, m2, h2, Good)
  BY <1>2, <1>4, <1>6, RestoreList DEF h2, b
<1>9. /\ Len(marks') = t /\ \A k \in 1..t : marks'[k] = marks[k]
      /\ marks' \in Seq([mark : MarkRec, iRollback : Nat])
  <2>1. marks \in Seq([mark : MarkRec, iRollback : Nat]) /\ t \in 0..Len(marks)
    BY <1>1, <1>5 DEF Types, WriteTypes
  <2> QED
    BY <1>7, <2>1, Prefix
<1>10. ReadTypes' /\ WriteTypes' /\ HeaderTypes /\ chunk' \in ChunkMap
  <2>1. ReadTypes'
    BY <1>1, <1>7 DEF Types, ReadTypes
  <2>2. WriteTypes'
    BY <1>1, <1>7, <1>9, NoPendType DEF Types, WriteTypes
  <2> QED
    BY <1>1, <1>2, <1>7, <2>1, <2>2 DEF Types
<1>11. /\ Types' /\ hdr'[c] = h2 /\ pc'[c] = "open"
       /\ \A d \in Conn \ {c} : hdr'[d] = hdr[d] /\ pc'[d] = pc[d]
  <2>1. /\ "open" \in AlivePcs
        /\ hdr1' \in Header \cup {Torn} /\ hdr2' \in Header /\ bWriter' \in BOOLEAN
    BY <1>7, <1>10 DEF HeaderTypes, AlivePcs
  <2> QED
    BY <1>1, <1>7, <1>8, <1>10, <2>1, WriterTypes
<1>12. Good' = Good /\ treehdr' = h2 /\ Top' = t /\ writer' = c
  BY <1>1, <1>7, <1>9, <1>11 DEF Good, treehdr, Top
<1>13. MarksInv'
  <2>1. Top' \in 1..Len(marks')
    BY <1>5, <1>9, <1>12
  <2>2. \A k \in 1..t : MarkAbove(chunk, marks[k].mark, h2, Good)
    <3>1. \A k \in 1..t : MarkAbove(chunk, marks[k].mark, h, Good)
      BY <1>3, <1>4 DEF MarksInv, h
    <3>2. \A k \in 1..t : MarkBelow(marks[k].mark, m, b)
      <4>1. \A k \in 1..t : k <= t /\ t \in 1..t
        BY <1>5
      <4> QED
        BY <1>3, <1>4, <4>1 DEF MarksInv, m, b
    <3> QED
      BY <1>5, <1>8, <3>1, <3>2
  <2>3. /\ \A k, l \in 1..t : k <= l =>
             /\ MarkBelow(marks[k].mark, marks[l].mark, Good.iNextShmid)
             /\ marks[k].iRollback <= marks[l].iRollback
        /\ \A k \in 1..t : marks[k].iRollback <= Len(rollback)
    BY <1>3, <1>4 DEF MarksInv
  <2> QED
    BY <1>7, <1>9, <1>12, <2>1, <2>2, <2>3 DEF MarksInv
<1>14. AliveInv'
  <2>1. bWriter' /\ hdr1' = hdr2'
    BY <1>2, <1>7 DEF AliveInv
  <2>2. Writable(chunk', treehdr', Good', Rel(treehdr'.iNextShmid, Good'.iNextShmid))
        /\ Above(chunk', treehdr', Good')
    BY <1>7, <1>8, <1>12 DEF b
  <2> QED
    BY <1>11, <1>12, <1>13, <2>1, <2>2 DEF AliveInv
<1>15. Main'
  <2>1. bWriter' /\ pc'[c] \in AlivePcs /\ Committed(chunk', Good)
    BY <1>2, <1>7, <1>11 DEF AliveInv, AlivePcs
  <2> QED
    BY <1>1, <1>7, <1>11, <1>14, <2>1, AliveMain
<1> QED
  BY <1>11, <1>15, InvIntro

----------------------------------------------------------------------------
(* The end of a transaction.                                                *)

LEMMA EndMain ==
  ASSUME Types, Types', Main, NEW c \in Conn, writer = c, pc[c] \in AlivePcs,
         UNCHANGED <<chunk, hdr1, bWriter, writer>>, pc'[c] = "end1",
         \A d \in Conn \ {c} : hdr'[d] = hdr[d] /\ pc'[d] = pc[d],
         NEW h, hdr'[c] = h, hdr2' = h,
         ListOk(h, chunk), Trees(chunk, h), Good.nChunk <= h.nChunk
  PROVE  Main'
<1>1. AliveInv /\ Committed(chunk, Good) /\ writer' # None
  BY WriterAlive, NoneNotConn
<1>2. hdr1 = hdr2 /\ bWriter
  BY <1>1 DEF AliveInv
<1>3. hdr1 # Torn
  BY <1>2, InitHeaders DEF Types, HeaderTypes
<1>4. Good' = Good /\ treehdr' = h
  BY <1>3 DEF Good, treehdr
<1>5. EndInv'
  BY <1>2, <1>4 DEF EndInv
<1>6. \A d \in Conn : d # c => hdr'[d].nChunk <= Good.nChunk /\ pc'[d] \in ReaderPcs
  BY DEF Main
<1> QED
  BY <1>1, <1>2, <1>4, <1>5, <1>6 DEF Main

LEMMA RollbackAllInv ==
  ASSUME Inv, NEW c \in Conn, RollbackAll(c)
  PROVE  Inv'
<1> DEFINE h == treehdr
           b == Good.iNextShmid
           m == marks[1].mark
           h2 == RestoredTo(h, m)
<1>1. /\ pc[c] = "rollback" /\ writer = c /\ Types /\ Main /\ pc[c] \in AlivePcs
      /\ pend.chunk = 0 /\ pend.iLevel = 0
  BY NotLost DEF RollbackAll, Writing, AlivePcs
<1>2. /\ h \in Header /\ h = hdr[c] /\ AliveInv /\ Committed(chunk, Good) /\ Good \in Header
      /\ chunk \in ChunkMap
  BY <1>1, WriterAlive
<1>3. Top = 1
  BY <1>1 DEF Top
<1>4. /\ Above(chunk, h, Good) /\ RollingBack(chunk, h, Good, m, 0)
      /\ MarksInv
  BY <1>1, <1>2, <1>3 DEF AliveInv
<1>5. m \in MarkRec /\ MarkAbove(chunk, m, h, Good)
  <2>1. 1 \in 1..Len(marks) /\ 1 \in 1..1
    BY <1>3, <1>4 DEF MarksInv
  <2> QED
    BY <1>1, <1>3, <1>4, <2>1, MarkTypes DEF MarksInv
<1>6. /\ pc' = [pc EXCEPT ![c] = "end1"] /\ pend' = NoPend /\ bDiscardOld' = FALSE
      /\ hdr' = [hdr EXCEPT ![c] = h2] /\ hdr2' = h2
      /\ UNCHANGED <<chunk, hdr1, bWriter, snap, client, writer, marks, rollback, nWrite>>
      /\ UNCHANGED <<slot, iReader, rlock>>
  BY DEF RollbackAll, Publish, Goto, SetHeader, Restored, RestoredTo, MarkOf, lockVars, boundVars
<1> HIDE DEF h, b, m, h2
<1>7. /\ h2 \in Header /\ Above(chunk, h2, Good)
      /\ Writable(chunk, h2, Good, Rel(h2.iNextShmid, b))
  BY <1>2, <1>4, <1>5, RestoreList DEF h2, b
<1>8. ListOk(h2, chunk) /\ Trees(chunk, h2) /\ Good.nChunk <= h2.nChunk
  BY <1>2, <1>7, PublishList DEF b
<1>9. ReadTypes' /\ WriteTypes' /\ HeaderTypes /\ chunk' \in ChunkMap
  <2>1. ReadTypes'
    BY <1>1, <1>6 DEF Types, ReadTypes
  <2>2. WriteTypes'
    BY <1>1, <1>6, NoPendType DEF Types, WriteTypes
  <2> QED
    BY <1>1, <1>2, <1>6, <2>1, <2>2 DEF Types
<1>10. /\ Types' /\ hdr'[c] = h2 /\ pc'[c] = "end1"
       /\ \A d \in Conn \ {c} : hdr'[d] = hdr[d] /\ pc'[d] = pc[d]
  <2>1. hdr1' \in Header \cup {Torn} /\ hdr2' \in Header /\ bWriter' \in BOOLEAN
    BY <1>6, <1>7, <1>9 DEF HeaderTypes
  <2> QED
    BY <1>1, <1>6, <1>7, <1>9, <2>1, WriterTypes
<1>11. Main'
  BY <1>1, <1>6, <1>8, <1>10, EndMain
<1> QED
  BY <1>10, <1>11, InvIntro

LEMMA CommitInv ==
  ASSUME Inv, NEW c \in Conn, Commit(c)
  PROVE  Inv'
<1> DEFINE h == treehdr
           b == Good.iNextShmid
<1>1. pc[c] = "open" /\ writer = c /\ Types /\ Main /\ pc[c] \in AlivePcs
  BY NotLost DEF Commit, Writing, AlivePcs
<1>2. /\ h \in Header /\ h = hdr[c] /\ AliveInv /\ Committed(chunk, Good) /\ Good \in Header
      /\ chunk \in ChunkMap
  BY <1>1, WriterAlive
<1>3. Above(chunk, h, Good) /\ Writable(chunk, h, Good, Rel(h.iNextShmid, b))
  BY <1>1, <1>2 DEF AliveInv
<1>4. ListOk(h, chunk) /\ Trees(chunk, h) /\ Good.nChunk <= h.nChunk
  BY <1>2, <1>3, PublishList
<1>5. PICK bFlush \in BOOLEAN :
        /\ Publish(c, IF bFlush /\ ~HasOld(h) THEN MakeOld(h) ELSE h)
        /\ bDiscardOld' = (bDiscardOld /\ ~bFlush)
  BY DEF Commit
<1> DEFINE h2 == IF bFlush /\ ~HasOld(h) THEN MakeOld(h) ELSE h
<1>6. /\ pc' = [pc EXCEPT ![c] = "end1"] /\ bDiscardOld' \in BOOLEAN
      /\ hdr' = [hdr EXCEPT ![c] = h2] /\ hdr2' = h2
      /\ UNCHANGED <<chunk, hdr1, bWriter, snap, client, writer, marks, rollback, pend, nWrite>>
      /\ UNCHANGED <<slot, iReader, rlock>>
  BY <1>5 DEF Commit, Publish, Goto, SetHeader, lockVars, boundVars
<1> HIDE DEF h
<1>7. /\ MakeOld(h) \in Header /\ MakeOld(h).nChunk = h.nChunk /\ MakeOld(h).iFirst = h.iFirst
      /\ MakeOld(h).iNextShmid = h.iNextShmid /\ MakeOld(h).iWrite = h.iWrite
      /\ MakeOld(h).iUsedShmid = h.iUsedShmid
      /\ MakeOld(h).iOldShmid = Add(h.iNextShmid, -1)
  <2>1. Add(h.iNextShmid, -1) \in Ids
    BY <1>2, HeaderType, AddType
  <2>2. h.iOldLog + 1 \in Nat /\ Null \in Ptr /\ Empty \in [Sub -> Nat] /\ h.root \in Ptr
        /\ h.trans \in Nat /\ h.cur \in [Sub -> Nat] /\ 1 \in Nat \ {0}
    BY <1>2 DEF Header, Ptr, Empty
  <2> DEFINE x == Add(h.iNextShmid, -1)
             l == h.iOldLog + 1
             g == [h EXCEPT !.iOldShmid = x, !.iOldLog = l,
                            !.oldroot = h.root, !.oldtrans = h.trans, !.oldcur = h.cur]
             e == Empty
             g2 == [g EXCEPT !.root = Null, !.trans = 1, !.cur = e]
  <2>3. MakeOld(h) = g2
    BY DEF MakeOld
  <2>4. x \in Ids /\ l \in Nat /\ e \in [Sub -> Nat]
    BY <2>1, <2>2
  <2> HIDE DEF x, l, e
  <2>5. /\ g \in Header /\ g.nChunk = h.nChunk /\ g.iFirst = h.iFirst
        /\ g.iNextShmid = h.iNextShmid /\ g.iWrite = h.iWrite
        /\ g.iUsedShmid = h.iUsedShmid /\ g.iOldShmid = x
    BY <1>2, <2>2, <2>4, ZenonT(60) DEF Header
  <2> HIDE DEF g
  <2>6. /\ g2 \in Header /\ g2.nChunk = g.nChunk /\ g2.iFirst = g.iFirst
        /\ g2.iNextShmid = g.iNextShmid /\ g2.iWrite = g.iWrite
        /\ g2.iUsedShmid = g.iUsedShmid /\ g2.iOldShmid = g.iOldShmid
    BY <2>2, <2>4, <2>5 DEF Header
  <2> HIDE DEF g2
  <2> QED
    BY <2>3, <2>5, <2>6 DEF x
<1>8. /\ h2 \in Header /\ ListOk(h2, chunk) /\ Trees(chunk, h2) /\ Good.nChunk <= h2.nChunk
  <2>1. ListOk(MakeOld(h), chunk) /\ Trees(chunk, MakeOld(h))
    BY <1>2, <1>4, <1>7, OldTrees
  <2> QED
    BY <1>2, <1>4, <1>7, <2>1
<1> HIDE DEF h2, b
<1>9. ReadTypes' /\ WriteTypes' /\ HeaderTypes /\ chunk' \in ChunkMap
  <2>1. ReadTypes'
    BY <1>1, <1>6 DEF Types, ReadTypes
  <2>2. WriteTypes'
    BY <1>1, <1>6 DEF Types, WriteTypes
  <2> QED
    BY <1>1, <1>2, <1>6, <2>1, <2>2 DEF Types
<1>10. /\ Types' /\ hdr'[c] = h2 /\ pc'[c] = "end1"
       /\ \A d \in Conn \ {c} : hdr'[d] = hdr[d] /\ pc'[d] = pc[d]
  <2>1. hdr1' \in Header \cup {Torn} /\ hdr2' \in Header /\ bWriter' \in BOOLEAN
    BY <1>6, <1>8, <1>9 DEF HeaderTypes
  <2> QED
    BY <1>1, <1>6, <1>8, <1>9, <2>1, WriterTypes
<1>11. Main'
  BY <1>1, <1>6, <1>8, <1>10, EndMain
<1> QED
  BY <1>10, <1>11, InvIntro

LEMMA EndHdr1Inv ==
  ASSUME Inv, NEW c \in Conn, EndHdr1(c)
  PROVE  Inv'
<1> DEFINE h == treehdr
<1>1. pc[c] = "end1" /\ writer = c /\ Types /\ Main
  BY NotLost DEF EndHdr1, Writing
<1>2. EndInv /\ h = hdr[c] /\ h \in Header /\ h # Torn /\ Good \in Header /\ writer # None
  BY <1>1, NoneNotConn, InitHeaders, GoodType
     DEF Main, AlivePcs, treehdr, Types, HeaderTypes
<1>3. bWriter /\ hdr2 = h /\ ListOk(h, chunk) /\ Trees(chunk, h) /\ Good.nChunk <= h.nChunk
  BY <1>2 DEF EndInv
<1>4. Committed(chunk, h)
  BY <1>1, <1>2, <1>3, ListCommitted DEF Types
<1>5. /\ hdr1' = IF hdr1 = Torn THEN h ELSE Torn
      /\ pc' = [pc EXCEPT ![c] = IF hdr1 = Torn THEN "endflag" ELSE "end1"]
      /\ UNCHANGED <<chunk, hdr2, bWriter, hdr, snap, client, writer, marks, rollback, pend,
                     bDiscardOld, nWrite>>
      /\ UNCHANGED <<slot, iReader, rlock>>
  <2>1. CASE hdr1 = Torn
    BY <2>1 DEF EndHdr1, Goto, lockVars, transVars, boundVars
  <2>2. CASE hdr1 # Torn
    <3>1. pc = [pc EXCEPT ![c] = "end1"]
      BY <1>1 DEF Types
    <3> QED
      BY <2>2, <3>1 DEF EndHdr1, lockVars, transVars, boundVars
  <2> QED
    BY <2>1, <2>2
<1> HIDE DEF h
<1>6. /\ Good' = h /\ treehdr' = h
  BY <1>1, <1>2, <1>3, <1>5 DEF Good, treehdr, h
<1>7. pc'[c] \in {"end1", "endflag"} /\ (pc'[c] = "endflag" => hdr1' = h)
      /\ \A d \in Conn \ {c} : pc'[d] = pc[d]
  BY <1>1, <1>2, <1>5 DEF Types
<1>8. Types'
  <2>1. HeaderTypes'
    BY <1>1, <1>2, <1>5 DEF Types, HeaderTypes
  <2>2. ReadTypes'
    BY <1>1, <1>5 DEF Types, ReadTypes
  <2>3. WriteTypes'
    BY <1>1, <1>5 DEF Types, WriteTypes
  <2>4. pc' \in [Conn -> AlivePcs \cup ReaderPcs \cup {"end1", "endflag", "lost"}]
    BY <1>1, <1>5 DEF Types
  <2> QED
    BY <1>1, <1>5, <2>1, <2>2, <2>3, <2>4 DEF Types
<1>9. EndInv'
  <2>1. h.nChunk \in Int
    BY <1>2, HeaderType
  <2> QED
    BY <1>1, <1>3, <1>5, <1>6, <1>7, <2>1 DEF EndInv
<1>10. Main'
  <2>1. \A d \in Conn : d # c => hdr[d].nChunk <= h.nChunk /\ pc'[d] \in ReaderPcs
    <3>1. \A d \in Conn : d # c => hdr[d].nChunk <= Good.nChunk /\ pc[d] \in ReaderPcs
      BY <1>1 DEF Main
    <3>2. Good.nChunk \in Int /\ h.nChunk \in Int /\ \A d \in Conn : hdr[d].nChunk \in Int
      BY <1>1, <1>2, HeaderType DEF Types, HeaderTypes
    <3> QED
      BY <1>3, <1>7, <3>1, <3>2
  <2> QED
    BY <1>1, <1>2, <1>3, <1>4, <1>5, <1>6, <1>7, <1>9, <2>1 DEF Main
<1> QED
  BY <1>8, <1>10, InvIntro

LEMMA EndTransactionInv ==
  ASSUME Inv, NEW c \in Conn, EndTransaction(c)
  PROVE  Inv'
<1> DEFINE want == [iLsmId |-> client[c], iTreeId |-> treehdr.iUsedShmid]
           free == {i \in 1..NReader : Lockable(c, i)}
           set == bDiscardOld /\ free # {} /\ \A i \in 1..NReader : slot[i] # want
           f == First(free)
<1>1. pc[c] = "endflag" /\ writer = c /\ Types /\ Main
  BY NotLost DEF EndTransaction, Writing
<1>2. EndInv /\ treehdr = hdr[c] /\ treehdr \in Header /\ treehdr # Torn
  BY <1>1, NoneNotConn, InitHeaders DEF Main, AlivePcs, treehdr, Types, HeaderTypes
<1>3. /\ hdr1 = hdr2 /\ hdr2 = treehdr /\ ListOk(hdr2, chunk) /\ Good = treehdr
  BY <1>1, <1>2 DEF EndInv, Good
<1>4. /\ bWriter' = FALSE /\ writer' = None /\ marks' = << >> /\ rollback' = << >>
      /\ bDiscardOld' = FALSE /\ pc' = [pc EXCEPT ![c] = "reading"]
      /\ slot' = IF set THEN [slot EXCEPT ![f] = want] ELSE slot
      /\ rlock' = IF set THEN [rlock EXCEPT ![c] = @ \ {f}] ELSE rlock
      /\ UNCHANGED <<chunk, hdr1, hdr2, iReader, snap, hdr, client, pend, nWrite>>
  BY DEF EndTransaction, Goto
<1> HIDE DEF set, f, free
<1>5. want \in [iLsmId : Nat, iTreeId : Ids]
  BY <1>1, <1>2, HeaderType DEF Types, ReadTypes
<1> HIDE DEF want
<1>6. Types'
  <2>1. HeaderTypes'
    BY <1>1, <1>4 DEF Types, HeaderTypes
  <2>2. slot' \in [1..NReader -> [iLsmId : Nat, iTreeId : Ids]]
    BY <1>1, <1>4, <1>5 DEF Types, ReadTypes
  <2>3. rlock' \in [Conn -> SUBSET (1..NReader)]
    BY <1>1, <1>4 DEF Types, ReadTypes
  <2>4. ReadTypes'
    BY <1>1, <1>4, <2>2, <2>3 DEF Types, ReadTypes
  <2>5. WriteTypes'
    <3>1. marks' \in Seq([mark : MarkRec, iRollback : Nat]) /\ rollback' \in Seq(Ptr)
      BY <1>4
    <3> QED
      BY <1>1, <1>4, <3>1 DEF Types, WriteTypes
  <2>6. pc' \in [Conn -> AlivePcs \cup ReaderPcs \cup {"end1", "endflag", "lost"}]
    BY <1>1, <1>4 DEF Types, ReaderPcs
  <2> QED
    BY <1>1, <1>4, <2>1, <2>4, <2>5, <2>6 DEF Types
<1>7. Main'
  <2>1. Good' = Good
    BY <1>4 DEF Good
  <2>2. \A d \in Conn : hdr'[d].nChunk <= Good.nChunk /\ pc'[d] \in ReaderPcs
    <3>1. hdr[c].nChunk <= Good.nChunk
      BY <1>2, <1>3, HeaderType
    <3>2. \A d \in Conn : d # c => hdr[d].nChunk <= Good.nChunk /\ pc[d] \in ReaderPcs
      BY <1>1 DEF Main
    <3>3. pc'[c] = "reading" /\ \A d \in Conn : d # c => pc'[d] = pc[d]
      BY <1>1, <1>4 DEF Types
    <3> QED
      BY <1>4, <3>1, <3>2, <3>3 DEF ReaderPcs
  <2> QED
    BY <1>1, <1>3, <1>4, <2>1, <2>2 DEF Main
<1> QED
  BY <1>6, <1>7, InvIntro

----------------------------------------------------------------------------
(* The death of a writer and the repair.                                    *)

LEMMA DieInv ==
  ASSUME Inv, NEW c \in Conn, Die(c)
  PROVE  Inv'
<1>1. writer = c /\ writer # None /\ Types /\ Main
  BY NoneNotConn DEF Die, Inv
<1>2. /\ pc' \in [Conn -> AlivePcs \cup ReaderPcs \cup {"end1", "endflag", "lost"}]
      /\ hdr' \in [Conn -> Header] /\ client' \in [Conn -> Nat]
      /\ \A d \in Conn \ {c} : hdr'[d] = hdr[d] /\ pc'[d] = pc[d]
      /\ pc'[c] = "idle" /\ hdr'[c].nChunk = 2
  BY <1>1, ForgetTypes DEF Die
<1>3. /\ iReader' = [iReader EXCEPT ![c] = 0] /\ rlock' = [rlock EXCEPT ![c] = {}]
      /\ writer' = None /\ marks' = << >> /\ rollback' = << >>
      /\ pend' = NoPend /\ bDiscardOld' = FALSE
      /\ UNCHANGED <<chunk, hdr1, hdr2, bWriter, slot, snap, nWrite>>
  BY DEF Die, shmVars
<1>4. Types'
  <2>1. HeaderTypes'
    BY <1>1, <1>2, <1>3 DEF Types, HeaderTypes
  <2>2. iReader' \in [Conn -> 0..NReader]
    BY <1>1, <1>3, TreeAssumption DEF Types, ReadTypes
  <2>3. ReadTypes'
    BY <1>1, <1>2, <1>3, <2>2 DEF Types, ReadTypes
  <2>4. WriteTypes'
    <3>1. marks' \in Seq([mark : MarkRec, iRollback : Nat]) /\ rollback' \in Seq(Ptr)
      BY <1>3
    <3> QED
      BY <1>1, <1>3, <3>1, NoPendType DEF Types, WriteTypes
  <2> QED
    BY <1>1, <1>2, <1>3, <2>1, <2>3, <2>4 DEF Types
<1>5. bWriter /\ Good' = Good
  BY <1>1, <1>3 DEF Main, AliveInv, EndInv, Good
<1>6. \A d \in Conn : hdr'[d].nChunk <= Good.nChunk /\ pc'[d] \in ReaderPcs
  <2>1. 2 <= Good.nChunk
    BY <1>1, GoodType, HeaderType DEF Types
  <2>2. \A d \in Conn : d # c => hdr[d].nChunk <= Good.nChunk /\ pc[d] \in ReaderPcs
    BY <1>1 DEF Main
  <2> QED
    BY <1>2, <2>1, <2>2 DEF ReaderPcs
<1>7. Main'
  BY <1>1, <1>3, <1>5, <1>6 DEF Main
<1> QED
  BY <1>4, <1>7, InvIntro

LEMMA RepairInv ==
  ASSUME Inv, NEW c \in Conn, Repair(c)
  PROVE  Inv'
<1> DEFINE h == hdr[c]
           list == RepairedList(h)
           misled == h # Good \/ BehindEnd(h) \/ ~treeCheckLinkedList(h, list)
<1>1. pc[c] = "reading" /\ writer = None /\ Types /\ Main
  BY NotLost DEF Repair
<1>2. /\ hdr1' = Good /\ hdr2' = Good /\ chunk' = list
      /\ bWriter' = ~treeCheckLinkedList(h, list)
      /\ IF misled THEN pc' = [d \in Conn |-> "lost"] ELSE pc' = pc
      /\ UNCHANGED <<snap, hdr, client, writer, marks, rollback, pend, bDiscardOld, nWrite>>
      /\ UNCHANGED <<slot, iReader, rlock>>
  BY DEF Repair, Good, lockVars, transVars, boundVars
<1>3. /\ Good \in Header /\ Good # Torn /\ h \in Header /\ chunk \in ChunkMap
      /\ Committed(chunk, Good)
      /\ \A d \in Conn : hdr[d].nChunk <= Good.nChunk /\ pc[d] \in ReaderPcs
  BY <1>1, GoodType, InitHeaders, NoneNotConn DEF Types, HeaderTypes, Main
<1>4. /\ list \in ChunkMap
      /\ h = Good => list[Good.iWrite[1]].iShmid = chunk[Good.iWrite[1]].iShmid
      /\ h = Good /\ treeCheckLinkedList(h, list) => ListOk(h, list)
  BY <1>3, RepairType, RepairPasses
<1> HIDE DEF list, h
<1>5. Types'
  <2>1. HeaderTypes'
    BY <1>1, <1>2, <1>3 DEF Types, HeaderTypes
  <2>2. ReadTypes'
    BY <1>1, <1>2 DEF Types, ReadTypes
  <2>3. WriteTypes'
    BY <1>1, <1>2 DEF Types, WriteTypes
  <2>4. pc' \in [Conn -> AlivePcs \cup ReaderPcs \cup {"end1", "endflag", "lost"}]
    BY <1>1, <1>2 DEF Types
  <2> QED
    BY <1>2, <1>4, <2>1, <2>2, <2>3, <2>4 DEF Types
<1>6. CASE misled
  BY <1>1, <1>2, <1>5, <1>6 DEF Inv, IsLost
<1>7. CASE ~misled
  <2>1. h = Good /\ ListOk(Good, list) /\ pc' = pc
    BY <1>2, <1>4, <1>7
  <2>2. Good' = Good
    BY <1>2, <1>3 DEF Good
  <2>3. Trees(list, Good)
    BY <1>3, <1>4, <2>1 DEF Committed, Trees, Pos
  <2>4. Committed(list, Good)
    BY <1>3, <1>4, <2>1, <2>3, ListCommitted
  <2>5. Main'
    BY <1>1, <1>2, <1>3, <2>1, <2>2, <2>4 DEF Main
  <2> QED
    BY <1>5, <2>5, InvIntro
<1> QED
  BY <1>6, <1>7

----------------------------------------------------------------------------
(* The theorems.                                                            *)

LEMMA NextInv == Inv /\ [Next]_vars => Inv'
<1> SUFFICES ASSUME Inv, [Next]_vars PROVE Inv'
  OBVIOUS
<1>1. CASE UNCHANGED vars
  <2>1. UNCHANGED <<chunk, hdr1, hdr2, bWriter, slot, pc, hdr, iReader, rlock, client,
                    writer, marks, rollback, pend, bDiscardOld, nWrite>> /\ snap' = snap
    BY <1>1 DEF vars, shmVars, lockVars, transVars, boundVars
  <2>2. snap \in Nat
    BY DEF Inv, Types, ReadTypes
  <2> QED
    BY <2>1, <2>2, UnchangedInv
<1>2. CASE Next
  <2>1. CASE Lost
    BY <1>1, <2>1 DEF Lost
  <2>2. CASE FlushOld
    BY <2>2, FlushOldInv
  <2>3. ASSUME NEW c \in Conn,
               \/ LoadHeader(c) \/ Readlock(c) \/ FinishReadTrans(c)
               \/ Repair(c) \/ BeginWriteTrans(c)
               \/ BeginNested(c) \/ ShmallocChunk(c) \/ ShmallocLink(c)
               \/ InsertCopy(c)
               \/ (\E k \in Sub : InsertV2(c, k) \/ InsertLeaf(c, k))
               \/ (\E iLevel \in 0..Len(marks) : RollbackPtrs(c, iLevel))
               \/ RollbackFree(c) \/ RollbackNested(c) \/ RollbackAll(c)
               \/ CommitNested(c) \/ Commit(c)
               \/ EndHdr1(c) \/ EndTransaction(c)
               \/ Die(c)
        PROVE  Inv'
    BY <2>3, LoadHeaderInv, ReadlockInv, FinishReadTransInv, RepairInv, BeginWriteTransInv,
       BeginNestedInv, ShmallocChunkInv, ShmallocLinkInv, InsertCopyInv, InsertV2Inv,
       InsertLeafInv, RollbackPtrsInv, RollbackFreeInv, RollbackNestedInv, RollbackAllInv,
       CommitNestedInv, CommitInv, EndHdr1Inv, EndTransactionInv, DieInv
  <2> QED
    BY <1>2, <2>1, <2>2, <2>3 DEF Next
<1> QED
  BY <1>1, <1>2

LEMMA SpecInv == Spec => []Inv
BY InitInv, NextInv, PTL DEF Spec

\* Every chunk number and slot the connections keep is one of the chunks and
\* slots there are: whatever is written, rolled back, left behind by a death or
\* repaired, the first chunk of a writer's list (treehdr.iFirst, which
\* treeShmalloc() recycles and lsmTreeRollback() replaces) is a chunk, and the
\* list never becomes empty.
THEOREM TreeTypes == Spec => []TypeOK
<1>1. Inv => TypeOK
  <2> SUFFICES ASSUME Inv PROVE TypeOK
    OBVIOUS
  <2>1. Types
    BY DEF Inv
  <2>2. \A c \in Conn : hdr[c].iFirst \in Chunks /\ hdr[c].nChunk \in 2..(MaxChunk + 1)
    BY <2>1, HeaderType DEF Types, HeaderTypes
  <2>3. chunk \in [Chunks -> [iShmid : 0..(ShmidMod - 1), iNext : 0..MaxChunk]]
    BY <2>1 DEF Types, ChunkMap, Ids
  <2> QED
    BY <2>1, <2>2, <2>3 DEF TypeOK, Types, HeaderTypes, ReadTypes, WriteTypes
<1> QED
  BY <1>1, SpecInv, PTL

\* Whenever bWriter is clear, the chunks of the tree-header are linked in the
\* order of their ids and the ids end at iNextShmid - 1: what treeShmalloc()
\* asserts before it recycles the first chunk, and what lsmTreeRollback() and
\* treeRepairList() have to restore by renumbering the chunks they free.
THEOREM TreeChunksLinked == Spec => []ChunksLinked
<1>1. Inv => ChunksLinked
  BY DEF Inv, Main, ChunksLinked
<1> QED
  BY <1>1, SpecInv, PTL
=============================================================================
