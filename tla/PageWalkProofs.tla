---------------------------- MODULE PageWalkProofs ----------------------------
(***************************************************************************)
(* Facts about table walks, for any contents m of the table pages.  They   *)
(* rest on the shape of the tables, given by two functions: lv[t], the     *)
(* level of table page t (0: not in use as a table), and up[t], the entry  *)
(* that points to it.                                                      *)
(***************************************************************************)
EXTENDS PageWalk, TLAPS

TableContents == [TablePage -> [Slot -> Page \cup {Nil}]]
Levels == [TablePage -> 0 .. Depth]
Parents == [TablePage -> TablePage \X Slot]

\* An entry above the last level points to a table page of the next level, which
\* no other entry points to.
GoodEntry(m, lv, up, t, j) ==
    lv[t] \in 1 .. Depth - 1 /\ m[t][j] # Nil =>
        /\ m[t][j] \in TablePage
        /\ lv[m[t][j]] = lv[t] + 1
        /\ up[m[t][j]] = <<t, j>>

\* The tables form trees: the roots have level 1, pages that are no tables are
\* empty, and every entry is good.
Shape(m, lv, up) ==
    /\ m \in TableContents /\ lv \in Levels /\ up \in Parents
    /\ \A t \in TablePage : lv[t] = 1 <=> t \in Roots
    /\ \A t \in TablePage : lv[t] = 0 => \A j \in Slot : m[t][j] = Nil
    /\ \A t \in TablePage, j \in Slot : GoodEntry(m, lv, up, t, j)

\* Entry j of table page t is set to e, no other entry changes.
Written(m, w, t, j, e) == w = [m EXCEPT ![t][j] = e]

\* The number of levels, and the entries a page selects.
LEMMA DepthFacts ==
    /\ Depth \in Nat /\ Depth \in {2, 4}
    /\ Roots \subseteq TablePage /\ TablePage \subseteq Page /\ Nil \notin TablePage
    /\ \A va \in Page, i \in 1 .. Depth : Index[va][i] \in Slot
  BY ArchAssumption, PageAssumption, IndexAssumption DEF Depth, TablePage

\* A walk goes on from the table it has reached.
LEMMA TableStep ==
    ASSUME NEW m, NEW r, NEW va, NEW i \in 1 .. Depth - 1
    PROVE  TableIn(m, r, va, i + 1) = Entry(m, TableIn(m, r, va, i), va, i)
<1>1. i \in {1, 2, 3}
  BY DepthFacts
<1>2. CASE i = 1
  BY <1>2 DEF TableIn, Table2
<1>3. CASE i = 2
  BY <1>3 DEF TableIn, Table3
<1>4. CASE i = 3
  BY <1>4 DEF TableIn, Table4
<1>5. QED
  BY <1>1, <1>2, <1>3, <1>4

\* The table a walk reaches at level i is a table page of level i.
LEMMA TableLevel ==
    ASSUME NEW m, NEW lv, NEW up, Shape(m, lv, up),
           NEW r \in Roots, NEW va \in Page, NEW i \in 1 .. Depth,
           TableIn(m, r, va, i) # Nil
    PROVE  TableIn(m, r, va, i) \in TablePage /\ lv[TableIn(m, r, va, i)] = i
<1> DEFINE Ok(k) == TableIn(m, r, va, k) # Nil =>
                        TableIn(m, r, va, k) \in TablePage /\ lv[TableIn(m, r, va, k)] = k
<1>1. Ok(1)
  BY DepthFacts DEF TableIn, Shape
<1>2. ASSUME NEW k \in 1 .. Depth - 1, Ok(k)
      PROVE  Ok(k + 1)
  <2>1. CASE TableIn(m, r, va, k) = Nil
    BY <2>1, TableStep DEF Entry
  <2>2. CASE TableIn(m, r, va, k) # Nil
    <3> DEFINE t == TableIn(m, r, va, k)
    <3>1. TableIn(m, r, va, k + 1) = m[t][Index[va][k]]
      BY <2>2, TableStep DEF Entry
    <3>2. t \in TablePage /\ lv[t] = k /\ Index[va][k] \in Slot
      BY <1>2, <2>2, DepthFacts
    <3>3. GoodEntry(m, lv, up, t, Index[va][k])
      BY <3>2 DEF Shape
    <3> HIDE DEF t
    <3>4. QED
      BY <3>1, <3>2, <3>3 DEF GoodEntry
  <2>3. QED
    BY <2>1, <2>2
<1> HIDE DEF Ok
<1>3. Depth > 1 /\ (Depth = 2 \/ Depth = 4)
  BY DepthFacts
<1>4. Ok(2)
  BY <1>1, <1>2, <1>3
<1>5. Depth = 4 => Ok(3)
  BY <1>4, <1>2, <1>3
<1>6. Depth = 4 => Ok(4)
  BY <1>5, <1>2, <1>3
<1>7. Ok(i)
  BY <1>1, <1>3, <1>4, <1>5, <1>6
<1>8. QED
  BY <1>7 DEF Ok

\* Two walks that meet came from the same table through the same entry.
LEMMA SameParent ==
    ASSUME NEW m, NEW lv, NEW up, Shape(m, lv, up),
           NEW r \in Roots, NEW s \in Roots, NEW va \in Page, NEW vb \in Page,
           NEW i \in 1 .. Depth - 1,
           TableIn(m, r, va, i + 1) = TableIn(m, s, vb, i + 1),
           TableIn(m, r, va, i + 1) # Nil
    PROVE  /\ TableIn(m, r, va, i) = TableIn(m, s, vb, i)
           /\ TableIn(m, r, va, i) # Nil
           /\ Index[va][i] = Index[vb][i]
<1> DEFINE t == TableIn(m, r, va, i)
           u == TableIn(m, s, vb, i)
<1>1. TableIn(m, r, va, i + 1) = Entry(m, t, va, i)
      /\ TableIn(m, s, vb, i + 1) = Entry(m, u, vb, i)
  BY TableStep
<1>2. t # Nil /\ u # Nil
  BY <1>1 DEF Entry
<1>3. i \in 1 .. Depth
  BY DepthFacts
<1>4. t \in TablePage /\ lv[t] = i
  BY <1>2, <1>3, TableLevel
<1>5. u \in TablePage /\ lv[u] = i
  BY <1>2, <1>3, TableLevel
<1> HIDE DEF t, u
<1>6. Index[va][i] \in Slot /\ Index[vb][i] \in Slot
  BY <1>3, DepthFacts
<1>7. GoodEntry(m, lv, up, t, Index[va][i]) /\ GoodEntry(m, lv, up, u, Index[vb][i])
  BY <1>4, <1>5, <1>6 DEF Shape
<1>8. m[t][Index[va][i]] = m[u][Index[vb][i]] /\ m[t][Index[va][i]] # Nil
  BY <1>1, <1>2 DEF Entry
<1>9. <<t, Index[va][i]>> = <<u, Index[vb][i]>>
  BY <1>4, <1>5, <1>7, <1>8 DEF GoodEntry
<1>10. t = u /\ Index[va][i] = Index[vb][i]
  BY <1>9
<1>11. QED
  BY <1>2, <1>10 DEF t, u

\* Two walks that meet started at the same root and took the same entries.
LEMMA SamePath ==
    ASSUME NEW m, NEW lv, NEW up, Shape(m, lv, up),
           NEW r \in Roots, NEW s \in Roots, NEW va \in Page, NEW vb \in Page,
           NEW i \in 1 .. Depth,
           TableIn(m, r, va, i) = TableIn(m, s, vb, i),
           TableIn(m, r, va, i) # Nil
    PROVE  r = s /\ \A k \in 1 .. i - 1 : Index[va][k] = Index[vb][k]
<1> DEFINE Meet(n) == TableIn(m, r, va, n) = TableIn(m, s, vb, n) /\ TableIn(m, r, va, n) # Nil
           Ok(n) == Meet(n) => r = s /\ \A k \in 1 .. n - 1 : Index[va][k] = Index[vb][k]
<1>1. Ok(1)
  BY DEF TableIn
<1>2. ASSUME NEW n \in 1 .. Depth - 1, Ok(n)
      PROVE  Ok(n + 1)
  <2>1. Meet(n + 1) => Meet(n) /\ Index[va][n] = Index[vb][n]
    BY SameParent
  <2>2. \A k \in 1 .. (n + 1) - 1 : k = n \/ k \in 1 .. n - 1
    BY DepthFacts
  <2> HIDE DEF Meet
  <2>3. QED
    BY <1>2, <2>1, <2>2
<1> HIDE DEF Ok
<1>3. Depth > 1 /\ (Depth = 2 \/ Depth = 4)
  BY DepthFacts
<1>4. Ok(2)
  BY <1>1, <1>2, <1>3
<1>5. Depth = 4 => Ok(3)
  BY <1>4, <1>2, <1>3
<1>6. Depth = 4 => Ok(4)
  BY <1>5, <1>2, <1>3
<1>7. Ok(i)
  BY <1>1, <1>3, <1>4, <1>5, <1>6
<1>8. QED
  BY <1>7 DEF Ok

----------------------------------------------------------------------------
\* An entry of the last level is written (mem_map_pa() and mem_unmap_va() at their
\* end): the tables keep their shape and every walk meets the same tables.
LEMMA LeafWriteShape ==
    ASSUME NEW m, NEW lv, NEW up, Shape(m, lv, up),
           NEW t \in TablePage, lv[t] = Depth, NEW j \in Slot,
           NEW e \in Page \cup {Nil}, NEW w, Written(m, w, t, j, e)
    PROVE  Shape(w, lv, up)
<1>1. w \in TableContents
  BY DEF Shape, TableContents, Written
<1>2. \A u \in TablePage : u # t => w[u] = m[u]
  BY DEF Shape, TableContents, Written
<1>3. Depth # 0 /\ Depth \notin 1 .. Depth - 1
  BY DepthFacts
<1>4. \A u \in TablePage : lv[u] = 0 => \A k \in Slot : w[u][k] = Nil
  BY <1>2, <1>3 DEF Shape
<1>5. \A u \in TablePage, k \in Slot : GoodEntry(w, lv, up, u, k)
  BY <1>2, <1>3 DEF Shape, GoodEntry
<1>6. QED
  BY <1>1, <1>4, <1>5 DEF Shape

\* ... and every walk meets the tables it met before.
LEMMA LeafWriteTables ==
    ASSUME NEW m, NEW lv, NEW up, Shape(m, lv, up),
           NEW t \in TablePage, lv[t] = Depth, NEW j \in Slot,
           NEW e \in Page \cup {Nil}, NEW w, Written(m, w, t, j, e),
           NEW r \in Roots, NEW va \in Page, NEW i \in 1 .. Depth
    PROVE  TableIn(w, r, va, i) = TableIn(m, r, va, i)
<1> DEFINE Ok(n) == TableIn(w, r, va, n) = TableIn(m, r, va, n)
<1>1. Ok(1)
  BY DEF TableIn
<1>2. ASSUME NEW n \in 1 .. Depth - 1, Ok(n)
      PROVE  Ok(n + 1)
  <2> DEFINE u == TableIn(m, r, va, n)
  <2>1. n \in 1 .. Depth /\ n # Depth
    BY DepthFacts
  <2>2. u # Nil => u \in TablePage /\ lv[u] = n
    BY <2>1, TableLevel
  <2>3. \A x \in TablePage : x # t => w[x] = m[x]
    BY DEF Shape, TableContents, Written
  <2>4. TableIn(w, r, va, n + 1) = Entry(w, TableIn(w, r, va, n), va, n)
        /\ TableIn(m, r, va, n + 1) = Entry(m, u, va, n)
    BY TableStep
  <2>5. TableIn(w, r, va, n) = u
    BY <1>2
  <2> HIDE DEF u
  <2>6. Entry(w, u, va, n) = Entry(m, u, va, n)
    BY <2>1, <2>2, <2>3 DEF Entry
  <2>7. QED
    BY <2>4, <2>5, <2>6
<1> HIDE DEF Ok
<1>3. Depth > 1 /\ (Depth = 2 \/ Depth = 4)
  BY DepthFacts
<1>4. Ok(2)
  BY <1>1, <1>2, <1>3
<1>5. Depth = 4 => Ok(3)
  BY <1>4, <1>2, <1>3
<1>6. Depth = 4 => Ok(4)
  BY <1>5, <1>2, <1>3
<1>7. Ok(i)
  BY <1>1, <1>3, <1>4, <1>5, <1>6
<1>8. QED
  BY <1>7 DEF Ok

\* That write changes what page va of root r maps to, and no other page of any root.
LEMMA LeafWriteMap ==
    ASSUME NEW m, NEW lv, NEW up, Shape(m, lv, up),
           NEW r \in Roots, NEW va \in Page, LeafIn(m, r, va) # Nil,
           NEW e \in Page \cup {Nil}, NEW w,
           Written(m, w, LeafIn(m, r, va), Index[va][Depth], e),
           NEW s \in Roots, NEW vb \in Page
    PROVE  MapsTo(w, s, vb) = IF s = r /\ vb = va THEN e ELSE MapsTo(m, s, vb)
<1> DEFINE t == LeafIn(m, r, va)
           j == Index[va][Depth]
           u == LeafIn(m, s, vb)
<1>1. Depth \in 1 .. Depth /\ j \in Slot /\ Index[vb][Depth] \in Slot
  BY DepthFacts
<1>2. t \in TablePage /\ lv[t] = Depth
  BY <1>1, TableLevel DEF LeafIn
<1>3. LeafIn(w, s, vb) = u
  <2>1. Written(m, w, t, j, e)
    OBVIOUS
  <2> HIDE DEF t, j
  <2>2. TableIn(w, s, vb, Depth) = TableIn(m, s, vb, Depth)
    BY <1>1, <1>2, <2>1, LeafWriteTables
  <2>3. QED
    BY <2>2 DEF LeafIn
<1>4. MapsTo(w, s, vb) = Entry(w, u, vb, Depth) /\ MapsTo(m, s, vb) = Entry(m, u, vb, Depth)
  BY <1>3 DEF MapsTo
<1>5. u # Nil => u \in TablePage
  BY <1>1, TableLevel DEF LeafIn
<1>6. \A x \in TablePage, k \in Slot : w[x][k] = IF x = t /\ k = j THEN e ELSE m[x][k]
  BY <1>1, <1>2 DEF Shape, TableContents, Written
<1>7. CASE s = r /\ vb = va
  <2>1. u = t /\ Index[vb][Depth] = j
    BY <1>7
  <2> HIDE DEF u, t, j
  <2>2. Entry(w, u, vb, Depth) = e
    BY <1>1, <1>2, <1>6, <2>1, DepthFacts DEF Entry
  <2>3. QED
    BY <1>4, <1>7, <2>2
<1>8. CASE ~ (s = r /\ vb = va)
  <2>1. ~ (u = t /\ Index[vb][Depth] = j)
    <3>1. SUFFICES ASSUME u = t, Index[vb][Depth] = j PROVE FALSE
      OBVIOUS
    <3>2. s = r /\ \A k \in 1 .. Depth - 1 : Index[vb][k] = Index[va][k]
      BY <1>1, <3>1, SamePath DEF LeafIn
    <3>3. \A k \in 1 .. Depth : k = Depth \/ k \in 1 .. Depth - 1
      BY DepthFacts
    <3>4. \A k \in 1 .. Depth : Index[vb][k] = Index[va][k]
      BY <3>1, <3>2, <3>3
    <3>5. vb = va
      BY <3>4, IndexAssumption
    <3>6. QED
      BY <1>8, <3>2, <3>5
  <2> HIDE DEF u, t, j
  <2>2. Entry(w, u, vb, Depth) = Entry(m, u, vb, Depth)
    BY <1>1, <1>5, <1>6, <2>1 DEF Entry
  <2>3. QED
    BY <1>4, <1>8, <2>2
<1>9. QED
  BY <1>7, <1>8

----------------------------------------------------------------------------
\* A page p that is no table yet is entered at a free entry above the last level.
Linked(m, lv, up, t, j, p, w) ==
    /\ Shape(m, lv, up)
    /\ t \in TablePage /\ lv[t] \in 1 .. Depth - 1 /\ j \in Slot /\ m[t][j] = Nil
    /\ p \in PoolPages /\ lv[p] = 0
    /\ Written(m, w, t, j, p)

\* What a link changes: one entry.
LEMMA LinkFacts ==
    ASSUME NEW m, NEW lv, NEW up, NEW t, NEW j, NEW p, NEW w,
           Linked(m, lv, up, t, j, p, w)
    PROVE  /\ w \in TableContents /\ p \in TablePage /\ p # Nil /\ p \notin Roots /\ p # t
           /\ \A u \in TablePage, k \in Slot :
                 w[u][k] = IF u = t /\ k = j THEN p ELSE m[u][k]
           /\ \A k \in Slot : m[p][k] = Nil /\ w[p][k] = Nil
<1>1. p \in TablePage /\ p # Nil /\ p \notin Roots
  BY PageAssumption, PoolAssumption DEF Linked, TablePage
<1>2. p # t
  BY DepthFacts DEF Linked
<1>3. w \in TableContents
  BY <1>1, DepthFacts DEF Linked, Written, Shape, TableContents
<1>4. \A u \in TablePage, k \in Slot : w[u][k] = IF u = t /\ k = j THEN p ELSE m[u][k]
  BY DEF Linked, Written, Shape, TableContents
<1>5. \A k \in Slot : m[p][k] = Nil
  BY <1>1 DEF Linked, Shape
<1>6. QED
  BY <1>1, <1>2, <1>3, <1>4, <1>5

\* The tables keep their shape; p has its level and its place now.
LEMMA LinkShape ==
    ASSUME NEW m, NEW lv, NEW up, NEW t, NEW j, NEW p, NEW w,
           Linked(m, lv, up, t, j, p, w)
    PROVE  Shape(w, [lv EXCEPT ![p] = lv[t] + 1], [up EXCEPT ![p] = <<t, j>>])
<1> DEFINE l2 == [lv EXCEPT ![p] = lv[t] + 1]
           u2 == [up EXCEPT ![p] = <<t, j>>]
<1>1. p \in TablePage /\ p # Nil /\ p \notin Roots /\ p # t /\ w \in TableContents
  BY LinkFacts
<1>2. \A u \in TablePage, k \in Slot : w[u][k] = IF u = t /\ k = j THEN p ELSE m[u][k]
  BY LinkFacts
<1>3. \A k \in Slot : w[p][k] = Nil
  BY LinkFacts
<1>4. t \in TablePage /\ j \in Slot /\ lv[t] \in 1 .. Depth - 1 /\ lv[t] + 1 \in 2 .. Depth
      /\ lv[p] = 0
  BY DepthFacts DEF Linked
<1>5. l2 \in Levels /\ u2 \in Parents
  BY <1>1, <1>4, DepthFacts DEF Linked, Shape, Levels, Parents
<1>6. /\ \A u \in TablePage : l2[u] = IF u = p THEN lv[t] + 1 ELSE lv[u]
      /\ \A u \in TablePage : u2[u] = IF u = p THEN <<t, j>> ELSE up[u]
  BY DEF Linked, Shape, Levels, Parents
<1>7. Shape(m, lv, up)
  BY DEF Linked
<1> HIDE DEF l2, u2
<1>8. \A u \in TablePage : l2[u] = 1 <=> u \in Roots
  BY <1>1, <1>4, <1>6, <1>7 DEF Shape
<1>9. \A u \in TablePage : l2[u] = 0 => \A k \in Slot : w[u][k] = Nil
  BY <1>1, <1>2, <1>4, <1>6, <1>7 DEF Shape
<1>10. ASSUME NEW u \in TablePage, NEW k \in Slot
       PROVE  GoodEntry(w, l2, u2, u, k)
  <2>1. CASE u = p
    BY <1>3, <2>1 DEF GoodEntry
  <2>2. CASE u = t /\ k = j
    <3>1. w[u][k] = p /\ l2[p] = lv[t] + 1 /\ l2[u] = lv[t] /\ u2[p] = <<t, j>>
      BY <1>1, <1>2, <1>4, <1>6, <2>2
    <3>2. QED
      BY <1>1, <2>2, <3>1 DEF GoodEntry
  <2>3. CASE u # p /\ ~ (u = t /\ k = j)
    <3>1. w[u][k] = m[u][k] /\ l2[u] = lv[u]
      BY <1>2, <1>6, <2>3
    <3>2. GoodEntry(m, lv, up, u, k)
      BY <1>7 DEF Shape
    <3>3. SUFFICES ASSUME l2[u] \in 1 .. Depth - 1, w[u][k] # Nil
                   PROVE  /\ w[u][k] \in TablePage
                          /\ l2[w[u][k]] = l2[u] + 1
                          /\ u2[w[u][k]] = <<u, k>>
      BY DEF GoodEntry
    <3>4. m[u][k] \in TablePage /\ lv[m[u][k]] = lv[u] + 1 /\ up[m[u][k]] = <<u, k>>
      BY <3>1, <3>2, <3>3 DEF GoodEntry
    <3>5. lv[u] + 1 # 0
      BY <3>1, <3>3, DepthFacts
    <3>6. m[u][k] # p
      BY <1>4, <3>4, <3>5
    <3>7. QED
      BY <1>6, <3>1, <3>4, <3>6
  <2>4. QED
    BY <2>1, <2>2, <2>3
<1>11. QED
  BY <1>1, <1>5, <1>8, <1>9, <1>10 DEF Shape, l2, u2

\* A walk meets the tables it met before, and after them p or nothing.
LEMMA LinkTables ==
    ASSUME NEW m, NEW lv, NEW up, NEW t, NEW j, NEW p, NEW w,
           Linked(m, lv, up, t, j, p, w),
           NEW r \in Roots, NEW va \in Page, NEW i \in 1 .. Depth
    PROVE  /\ TableIn(m, r, va, i) # Nil => TableIn(w, r, va, i) = TableIn(m, r, va, i)
           /\ TableIn(w, r, va, i) \in {TableIn(m, r, va, i), p, Nil}
<1> DEFINE Ok(n) == /\ TableIn(m, r, va, n) # Nil => TableIn(w, r, va, n) = TableIn(m, r, va, n)
                    /\ TableIn(w, r, va, n) \in {TableIn(m, r, va, n), p, Nil}
<1>1. Ok(1)
  BY DEF TableIn
<1>2. ASSUME NEW n \in 1 .. Depth - 1, Ok(n)
      PROVE  Ok(n + 1)
  <2> DEFINE x == TableIn(m, r, va, n)
             y == TableIn(w, r, va, n)
             k == Index[va][n]
  <2>1. n \in 1 .. Depth /\ k \in Slot
    BY DepthFacts
  <2>2. TableIn(m, r, va, n + 1) = Entry(m, x, va, n)
        /\ TableIn(w, r, va, n + 1) = Entry(w, y, va, n)
    BY TableStep
  <2>3. x # Nil => x \in TablePage
    <3>1. Shape(m, lv, up)
      BY DEF Linked
    <3>2. QED
      BY <2>1, <3>1, TableLevel
  <2>4. (x # Nil => y = x) /\ y \in {x, p, Nil}
    BY <1>2
  <2>5. /\ \A u \in TablePage, l \in Slot : w[u][l] = IF u = t /\ l = j THEN p ELSE m[u][l]
        /\ \A l \in Slot : w[p][l] = Nil
    BY LinkFacts
  <2>6. m[t][j] = Nil
    BY DEF Linked
  <2>7. Entry(m, x, va, n) = (IF x = Nil THEN Nil ELSE m[x][k])
        /\ Entry(w, y, va, n) = (IF y = Nil THEN Nil ELSE w[y][k])
    BY DEF Entry
  <2> HIDE DEF x, y, k
  <2>8. /\ Entry(m, x, va, n) # Nil => Entry(w, y, va, n) = Entry(m, x, va, n)
        /\ Entry(w, y, va, n) \in {Entry(m, x, va, n), p, Nil}
    <3>1. CASE x # Nil
      BY <2>1, <2>3, <2>4, <2>5, <2>6, <2>7, <3>1
    <3>2. CASE x = Nil
      BY <2>1, <2>4, <2>5, <2>7, <3>2
    <3>3. QED
      BY <3>1, <3>2
  <2>9. QED
    BY <2>2, <2>8
<1> HIDE DEF Ok
<1>3. Depth > 1 /\ (Depth = 2 \/ Depth = 4)
  BY DepthFacts
<1>4. Ok(2)
  BY <1>1, <1>2, <1>3
<1>5. Depth = 4 => Ok(3)
  BY <1>4, <1>2, <1>3
<1>6. Depth = 4 => Ok(4)
  BY <1>5, <1>2, <1>3
<1>7. Ok(i)
  BY <1>1, <1>3, <1>4, <1>5, <1>6
<1>8. QED
  BY <1>7 DEF Ok

\* No page is mapped or unmapped by a link: p is empty.
LEMMA LinkMap ==
    ASSUME NEW m, NEW lv, NEW up, NEW t, NEW j, NEW p, NEW w,
           Linked(m, lv, up, t, j, p, w),
           NEW r \in Roots, NEW va \in Page
    PROVE  MapsTo(w, r, va) = MapsTo(m, r, va)
<1> DEFINE x == LeafIn(m, r, va)
           y == LeafIn(w, r, va)
           k == Index[va][Depth]
<1>1. Depth \in 1 .. Depth /\ k \in Slot
  BY DepthFacts
<1>2. (x # Nil => y = x) /\ y \in {x, p, Nil}
  BY <1>1, LinkTables DEF LeafIn
<1>3. x # Nil => x \in TablePage /\ lv[x] = Depth
  <2>1. Shape(m, lv, up)
    BY DEF Linked
  <2>2. QED
    BY <1>1, <2>1, TableLevel DEF LeafIn
<1>4. lv[t] # Depth
  BY DepthFacts DEF Linked
<1>5. /\ \A u \in TablePage, l \in Slot : w[u][l] = IF u = t /\ l = j THEN p ELSE m[u][l]
      /\ \A l \in Slot : w[p][l] = Nil
  BY LinkFacts
<1>6. MapsTo(m, r, va) = (IF x = Nil THEN Nil ELSE m[x][k])
      /\ MapsTo(w, r, va) = (IF y = Nil THEN Nil ELSE w[y][k])
  BY DEF MapsTo, Entry
<1> HIDE DEF x, y, k
<1>7. QED
  BY <1>1, <1>2, <1>3, <1>4, <1>5, <1>6

\* Above a leaf there is a table at every level.
LEMMA LeafAbove ==
    ASSUME NEW m, NEW r, NEW va, NEW i \in 1 .. Depth, LeafIn(m, r, va) # Nil
    PROVE  TableIn(m, r, va, i) # Nil
<1> DEFINE Ok(n) == TableIn(m, r, va, n) # Nil
<1>1. ASSUME NEW n \in 1 .. Depth - 1, Ok(n + 1)
      PROVE  Ok(n)
  BY <1>1, TableStep DEF Entry
<1>2. Ok(Depth)
  BY DEF LeafIn
<1> HIDE DEF Ok
<1>3. Depth = 2 \/ Depth = 4
  BY DepthFacts
<1>4. Depth = 4 => Ok(3)
  BY <1>1, <1>2
<1>5. Depth = 4 => Ok(2)
  BY <1>1, <1>4
<1>6. Ok(2)
  BY <1>2, <1>3, <1>5
<1>7. Ok(1)
  BY <1>1, <1>3, <1>6
<1>8. Ok(i)
  BY <1>2, <1>3, <1>4, <1>6, <1>7
<1>9. QED
  BY <1>8 DEF Ok

\* Pages that select the same entries above the last level have the same leaf.
LEMMA LeafOfRegion ==
    ASSUME NEW m, NEW r, NEW va \in Page, NEW vb \in Page,
           \A i \in 1 .. Depth - 1 : Index[va][i] = Index[vb][i]
    PROVE  LeafIn(m, r, va) = LeafIn(m, r, vb)
<1> DEFINE Ok(n) == TableIn(m, r, va, n) = TableIn(m, r, vb, n)
<1>1. Ok(1)
  BY DEF TableIn
<1>2. ASSUME NEW n \in 1 .. Depth - 1, Ok(n)
      PROVE  Ok(n + 1)
  BY <1>2, TableStep DEF Entry
<1> HIDE DEF Ok
<1>3. Depth > 1 /\ (Depth = 2 \/ Depth = 4)
  BY DepthFacts
<1>4. Ok(2)
  BY <1>1, <1>2, <1>3
<1>5. Depth = 4 => Ok(3)
  BY <1>4, <1>2, <1>3
<1>6. Depth = 4 => Ok(4)
  BY <1>5, <1>2, <1>3
<1>7. Ok(Depth)
  BY <1>3, <1>4, <1>6
<1>8. QED
  BY <1>7 DEF Ok, LeafIn
=============================================================================
