----------------------------- MODULE ImageProofs -----------------------------
(***************************************************************************)
(* What the page tables are for, proved for every layout and program that  *)
(* meets the assumptions of ImageCalls: an image with its MMU on reaches   *)
(* all its table pages, so that mem_map_pa() never aborts; no page is      *)
(* accessed through an entry only the TLB still has; what the boot code    *)
(* and the loader copy stays as copied; no page is used before it is       *)
(* mapped.                                                                 *)
(***************************************************************************)
EXTENDS MemoryProofs, FiniteSetTheorems

(***************************************************************************)
(* How the steps change the tables.                                        *)
(***************************************************************************)
\* Page va of space r now has the frame e (or Nil); no other page changes.
Sets(r, va, e) ==
    \A s \in Roots, vb \in Page :
        MapsTo(pt', s, vb) = IF s = r /\ vb = va THEN e ELSE MapsTo(pt, s, vb)

\* No walk meets another table than before.
SameTables ==
    \A s \in Roots, vb \in Page, i \in 1 .. Depth :
        TableIn(pt', s, vb, i) = TableIn(pt, s, vb, i)

\* Some walks from root r meet the table page p now where they ended before.
Enters(r, p) ==
    \A s \in Roots, vb \in Page, i \in 1 .. Depth :
        /\ TableIn(pt, s, vb, i) # Nil => TableIn(pt', s, vb, i) = TableIn(pt, s, vb, i)
        /\ TableIn(pt', s, vb, i) \in {TableIn(pt, s, vb, i), p, Nil}
        /\ TableIn(pt', s, vb, i) = p => s = r

\* What an activation knows of itself.
LEMMA TopTypes ==
    ASSUME TablesNow, frames # <<>>
    PROVE  /\ Len(frames) \in {1, 2} /\ Top \in FrameType /\ frames[1] \in FrameType
           /\ Len(frames) = 1 => Top = frames[1]
           /\ FrameOk(Top, pt, mmu) /\ FrameOk(frames[1], pt, mmu)
           /\ Top.img \in Image /\ Root[Top.img] \in Roots /\ Top.va \in Page /\ Top.pa \in Page
           /\ Outer(frames[1], pc)
           /\ Len(frames) = 2 => Inner(frames[1], Top)
           /\ pc \in Nat /\ pc - 1 \in 1 .. Len(Program) /\ (pc - 1) + 1 = pc
<1>1. TablesOk(pt, next, frames, mmu, pc)
  BY DEF TablesNow
<1>2. /\ Len(frames) \in {1, 2} /\ Top \in FrameType /\ frames[1] \in FrameType
      /\ FrameOk(Top, pt, mmu) /\ FrameOk(frames[1], pt, mmu)
  BY <1>1, TopFacts DEF Top
<1>3. Len(frames) = 1 => Top = frames[1]
  BY DEF Top
<1>4. Outer(frames[1], pc) /\ (Len(frames) = 2 => Inner(frames[1], Top))
  BY <1>1, <1>2 DEF TablesOk, Stack, Top
<1>5. Top.img \in Image /\ Top.va \in Page /\ Top.pa \in Page
  BY <1>2 DEF FrameType
<1>6. Root[Top.img] \in Roots
  BY <1>5, CallFacts
<1>7. pc \in 1 .. Len(Program) + 1 /\ Len(Program) \in Nat /\ pc > 1
  BY <1>1, <1>4, CallFacts DEF TablesOk, ValuesOk, Outer
<1>8. pc \in Nat /\ pc - 1 \in 1 .. Len(Program) /\ (pc - 1) + 1 = pc
  BY <1>7
<1>9. QED
  BY <1>2, <1>3, <1>4, <1>5, <1>6, <1>8

\* The entry of the last level is set to what is asked, or, while the MMU is off,
\* left as it was.
LEMMA SetLeafFacts ==
    ASSUME TablesNow, SetLeaf
    PROVE  /\ SameTables
           /\ \E e \in Page : /\ Sets(Root[Top.img], Top.va, e)
                              /\ e = Top.pa \/ (~ mmu[Top.img] /\ pt' = pt)
           /\ Len(frames) = 1 => frames' = <<>>
           /\ Len(frames) = 2 => Len(frames') = 1 /\ frames'[1] = frames[1]
<1> DEFINE f == Top
           r == Root[f.img]
           t == LeafIn(pt, r, f.va)
           j == Index[f.va][Depth]
<1>1. frames # <<>> /\ f.lvl = Depth
  BY DEF SetLeaf, Walking
<1>2. /\ Len(frames) \in {1, 2} /\ f \in FrameType /\ FrameOk(f, pt, mmu)
      /\ r \in Roots /\ f.va \in Page /\ f.pa \in Page /\ f.img \in Image
  BY <1>1, TopTypes
<1>3. f.tbl = t /\ t # Nil /\ t \in TablePage /\ j \in Slot
  BY <1>1, <1>2, DepthFacts DEF FrameOk, LeafIn, FrameType
<1>4. PICK lv, up : Shape(pt, lv, up)
  BY DEF TablesNow, TablesOk, Trees, TreesGiven
<1>5. /\ Len(frames) = 1 => frames' = <<>>
      /\ Len(frames) = 2 => Len(frames') = 1 /\ frames'[1] = frames[1]
  <2>1. frames' = SubSeq(frames, 1, Len(frames) - 1) /\ frames \in Seq(FrameType)
    BY DEF SetLeaf, TablesNow, TablesOk, ValuesOk
  <2>2. /\ Len(frames') = Len(frames) - 1
        /\ Len(frames) = 2 => frames'[1] = frames[1]
        /\ Len(frames) = 1 => frames' = <<>>
    BY <1>2, <2>1, PopTop
  <2>3. QED
    BY <2>2
<1>6. MapsTo(pt, r, f.va) = pt[t][j]
  BY <1>3 DEF MapsTo, Entry
<1>7. CASE pt' = pt /\ ~ mmu[f.img] /\ pt[t][j] # Nil
  <2>1. SameTables /\ Sets(r, f.va, pt[t][j])
    BY <1>6, <1>7 DEF SameTables, Sets
  <2>2. pt[t][j] \in Page
    BY <1>3, <1>4, <1>7 DEF Shape, TableContents
  <2>3. QED
    BY <1>5, <1>7, <2>1, <2>2
<1>8. CASE Written(pt, pt', t, j, f.pa)
  <2>1. lv[t] = Depth /\ Depth \in 1 .. Depth
    BY <1>2, <1>3, <1>4, TableLevel, DepthFacts DEF LeafIn
  <2> HIDE DEF t, j, f, r
  <2>2. SameTables
    BY <1>2, <1>3, <1>4, <1>8, <2>1, LeafWriteTables DEF SameTables
  <2>3. Sets(r, f.va, f.pa)
    BY <1>2, <1>3, <1>4, <1>8, LeafWriteMap DEF Sets, t, j
  <2>4. QED
    BY <1>2, <1>5, <2>2, <2>3 DEF f, r
<1>9. \/ pt' = pt /\ ~ mmu[f.img] /\ pt[t][j] # Nil
      \/ Written(pt, pt', t, j, f.pa)
  BY <1>1, <1>3 DEF SetLeaf, WriteHere, Written, Here
<1>10. QED
  BY <1>7, <1>8, <1>9

\* mem_unmap_va() clears the entry of the page it is given.
LEMMA UnmapFacts ==
    ASSUME TablesNow, Unmap
    PROVE  /\ SameTables /\ Sets(R, Op.va, Nil)
           /\ frames = <<>> /\ frames' = <<>> /\ pc' = pc + 1 /\ pc \in 1 .. Len(Program)
           /\ next' = next /\ mmu' = mmu /\ Op.op = "unmap" /\ R = Op.root
           /\ R \in Roots /\ Op.va \in Page
<1> DEFINE va == Op.va
           t == LeafIn(pt, R, va)
           j == Index[va][Depth]
<1>1. /\ frames = <<>> /\ pc <= Len(Program) /\ Op.op = "unmap"
      /\ frames' = <<>> /\ pc' = pc + 1 /\ next' = next /\ mmu' = mmu
      /\ mem_unmap_va(Op.img, va)
  BY DEF Unmap, At, Ready, Return
<1>2. pc \in 1 .. Len(Program)
  BY <1>1, CallFacts DEF TablesNow, TablesOk, ValuesOk
<1>3. va \in Page /\ R \in Roots /\ R = Op.root
  BY <1>1, <1>2, CallFacts DEF Op, R
<1>4. PICK lv, up : Shape(pt, lv, up)
  BY DEF TablesNow, TablesOk, Trees, TreesGiven
<1>5. CASE t = Nil
  <2>1. pt' = pt
    BY <1>1, <1>5 DEF mem_unmap_va, R, Leaf
  <2>2. MapsTo(pt, R, va) = Nil
    BY <1>5 DEF MapsTo, Entry
  <2>3. SameTables /\ Sets(R, va, Nil)
    BY <2>1, <2>2 DEF SameTables, Sets
  <2>4. QED
    BY <1>1, <1>2, <1>3, <2>3
<1>6. CASE t # Nil
  <2> DEFINE e == Nil
  <2>1. Written(pt, pt', t, j, e)
    BY <1>1, <1>6 DEF mem_unmap_va, R, Leaf, Written
  <2>2. Depth \in 1 .. Depth /\ j \in Slot /\ e \in Page \cup {Nil}
    BY <1>3, DepthFacts
  <2>3. t \in TablePage /\ lv[t] = Depth
    BY <1>3, <1>4, <1>6, <2>2, TableLevel DEF LeafIn
  <2> HIDE DEF t, j, va, e
  <2>4. SameTables
    <3>1. ASSUME NEW s \in Roots, NEW vb \in Page, NEW i \in 1 .. Depth
          PROVE  TableIn(pt', s, vb, i) = TableIn(pt, s, vb, i)
      BY <1>4, <2>1, <2>2, <2>3, LeafWriteTables
    <3>2. QED
      BY <3>1 DEF SameTables
  <2>5. Sets(R, va, e)
    BY <1>3, <1>4, <1>6, <2>1, <2>2, LeafWriteMap DEF Sets, t, j
  <2>6. QED
    BY <1>1, <1>2, <1>3, <2>4, <2>5 DEF va, e
<1>7. QED
  BY <1>5, <1>6

\* A page that is no table yet is entered where the walk of the only activation
\* has come to an end.
LEMMA EnterFacts ==
    ASSUME TablesNow, frames # <<>>, Len(frames) = 1, Top.lvl < Depth, Here(Top) = Nil,
           NEW lv, NEW up, TreesGiven(lv, up, pt, next, frames),
           NEW p \in PoolPages, lv[p] = 0, WriteHere(Top, p)
    PROVE  /\ Enters(Root[Top.img], p)
           /\ Top.lvl + 1 \in 2 .. Depth
           /\ TableIn(pt, Root[Top.img], Top.va, Top.lvl + 1) = Nil
           /\ TableIn(pt', Root[Top.img], Top.va, Top.lvl + 1) = p
           /\ p \in TablePage /\ p # Nil
<1> DEFINE f == Top
           r == Root[f.img]
           t == f.tbl
           j == Index[f.va][f.lvl]
           l2 == [lv EXCEPT ![p] = lv[t] + 1]
           u2 == [up EXCEPT ![p] = <<t, j>>]
<1>1. f \in FrameType /\ FrameOk(f, pt, mmu)
  BY TopTypes
<1>2. Shape(pt, lv, up)
  BY DEF TreesGiven
<1>3. /\ t \in TablePage /\ lv[t] = f.lvl /\ f.lvl \in 1 .. Depth /\ j \in Slot
      /\ t = TableIn(pt, r, f.va, f.lvl) /\ r \in Roots /\ f.va \in Page
  BY <1>1, <1>2, FrameFacts
<1>4. f.lvl \in 1 .. Depth - 1 /\ f.lvl + 1 \in 1 .. Depth /\ f.lvl + 1 \in 2 .. Depth /\ t # Nil
  BY <1>3, DepthFacts
<1>5. pt[t][j] = Nil /\ Written(pt, pt', t, j, p)
  BY DEF Here, WriteHere, Written
<1> HIDE DEF f, r, t, j
<1>6. Linked(pt, lv, up, t, j, p, pt')
  BY <1>2, <1>3, <1>4, <1>5 DEF Linked
<1>7. p \in TablePage /\ p # Nil /\ pt'[t][j] = p
  BY <1>3, <1>6, LinkFacts
<1>8. Shape(pt', l2, u2)
  BY <1>6, LinkShape
<1>9. \A s \in Roots, vb \in Page, i \in 1 .. Depth :
         /\ TableIn(pt, s, vb, i) # Nil => TableIn(pt', s, vb, i) = TableIn(pt, s, vb, i)
         /\ TableIn(pt', s, vb, i) \in {TableIn(pt, s, vb, i), p, Nil}
  BY <1>6, LinkTables
<1> HIDE DEF l2, u2
<1>10. TableIn(pt, r, f.va, f.lvl + 1) = Nil
  <2>1. TableIn(pt, r, f.va, f.lvl + 1) = Entry(pt, t, f.va, f.lvl)
    BY <1>3, <1>4, TableStep
  <2>2. QED
    BY <1>4, <1>5, <2>1 DEF Entry, j
<1>11. TableIn(pt', r, f.va, f.lvl + 1) = p
  <2>1. TableIn(pt', r, f.va, f.lvl) = t
    BY <1>3, <1>4, <1>9
  <2>2. TableIn(pt', r, f.va, f.lvl + 1) = Entry(pt', t, f.va, f.lvl)
    BY <1>4, <2>1, TableStep
  <2>3. QED
    BY <1>4, <1>7, <2>2 DEF Entry, j
<1>12. ASSUME NEW s \in Roots, NEW vb \in Page, NEW i \in 1 .. Depth,
              TableIn(pt', s, vb, i) = p
       PROVE  s = r
  <2>1. l2[p] = i
    BY <1>7, <1>8, <1>12, TableLevel
  <2>2. l2[p] = f.lvl + 1
    BY <1>3, <1>4, <1>7, <1>8, <1>11, TableLevel
  <2>3. TableIn(pt', s, vb, i) = TableIn(pt', r, f.va, i)
    BY <1>11, <1>12, <2>1, <2>2
  <2>4. QED
    BY <1>3, <1>7, <1>8, <1>12, <2>3, SamePath
<1>13. Enters(r, p)
  BY <1>9, <1>12 DEF Enters
<1>14. QED
  BY <1>4, <1>7, <1>10, <1>11, <1>13 DEF f, r

\* map_va_to_pa() enters a page of the boot pool.
LEMMA BootGrowFacts ==
    ASSUME TablesNow, BootGrow
    PROVE  LET I == Top.img
               p == Pool[I][BootPool][next[I][BootPool]]
           IN  /\ Enters(Root[I], p) /\ p \in PoolPages
               /\ Top.lvl + 1 \in 2 .. Depth
               /\ TableIn(pt, Root[I], Top.va, Top.lvl + 1) = Nil
               /\ TableIn(pt', Root[I], Top.va, Top.lvl + 1) = p /\ p # Nil
               /\ frames # <<>> /\ Len(frames) = 1 /\ frames' # <<>> /\ Len(frames') = 1
               /\ frames'[1] = Below(Top, p)
               /\ ~ mmu[I] /\ mmu' = mmu
               /\ next[I][BootPool] \in 1 .. Len(Pool[I][BootPool])
               /\ next' = [next EXCEPT ![I][BootPool] = @ + 1]
<1> DEFINE I == Top.img
           k == BootPool
           p == Pool[I][k][next[I][k]]
<1>1. /\ frames # <<>> /\ Top.lvl < Depth /\ Here(Top) = Nil /\ ~ mmu[I] /\ mmu' = mmu
      /\ next[I][k] <= Len(Pool[I][k]) /\ WriteHere(Top, p)
      /\ frames' = SetTop(Below(Top, p)) /\ next' = [next EXCEPT ![I][k] = @ + 1]
  BY DEF BootGrow, Walking, CanAllocate, Allocated, mem_allocate_pa
<1>2. TablesOk(pt, next, frames, mmu, pc) /\ next \in [Image -> [PoolName -> Nat \ {0}]]
      /\ frames \in Seq(FrameType)
  BY DEF TablesNow, TablesOk, ValuesOk
<1>3. Innermost(frames, Top) /\ Holds(pt, Top, Nil)
  BY <1>1 DEF Innermost, Holds, Top, Here
<1>4. Len(frames) = 1
  BY <1>1, <1>2, <1>3, NoThird
<1>5. I \in Image /\ k \in PoolName /\ Top \in FrameType
  BY <1>1, TopTypes DEF BootPool, PoolName
<1>6. Len(Pool[I][k]) \in Nat /\ next[I][k] \in Nat \ {0}
  BY <1>2, <1>5, CallFacts
<1>7. next[I][k] \in 1 .. Len(Pool[I][k])
  BY <1>1, <1>6
<1>8. p \in PoolPages
  BY <1>5, <1>7, CallFacts
<1>9. PICK lv, up : TreesGiven(lv, up, pt, next, frames)
  BY <1>2 DEF TablesOk, Trees
<1>10. lv[p] = 0
  BY <1>5, <1>6, <1>7, <1>9 DEF TreesGiven, FreshFree
<1>11. frames' # <<>> /\ Len(frames') = 1 /\ frames'[1] = Below(Top, p)
  <2>1. p \in TablePage /\ Top.lvl + 1 \in 1 .. Depth
    BY <1>1, <1>5, <1>8, DepthFacts DEF FrameType, TablePage
  <2>2. Below(Top, p) \in FrameType
    BY <1>5, <2>1 DEF Below, FrameType
  <2>3. Replaced(frames, frames', Below(Top, p))
    BY <1>1 DEF SetTop, Replaced
  <2> DEFINE g == Below(Top, p)
  <2> HIDE DEF g
  <2>4. g \in FrameType /\ Replaced(frames, frames', g)
    BY <2>2, <2>3 DEF g
  <2>5. frames' # <<>> /\ Len(frames') = Len(frames) /\ frames'[Len(frames)] = g
    BY <1>2, <1>4, <2>4, ReplaceTop
  <2>6. QED
    BY <1>4, <2>5 DEF g
<1> HIDE DEF I, k, p
<1>12. /\ Enters(Root[Top.img], p) /\ Top.lvl + 1 \in 2 .. Depth
       /\ TableIn(pt, Root[Top.img], Top.va, Top.lvl + 1) = Nil
       /\ TableIn(pt', Root[Top.img], Top.va, Top.lvl + 1) = p /\ p # Nil
  BY <1>1, <1>4, <1>8, <1>9, <1>10, EnterFacts
<1>13. QED
  BY <1>1, <1>4, <1>7, <1>8, <1>11, <1>12 DEF I, k, p

\* mem_map_pa() enters the page it has just mapped.
LEMMA LinkedFacts ==
    ASSUME TablesNow, Link
    PROVE  /\ Enters(Root[Top.img], Top.new) /\ Top.new \in PoolPages
           /\ frames # <<>> /\ Len(frames) = 1 /\ frames' # <<>> /\ Len(frames') = 1
           /\ frames'[1] = Below(Top, Top.new) /\ mmu[Top.img]
           /\ next' = next /\ mmu' = mmu
<1> DEFINE p == Top.new
<1>1. /\ frames # <<>> /\ p # Nil /\ WriteHere(Top, p) /\ frames' = SetTop(Below(Top, p))
      /\ next' = next /\ mmu' = mmu
  BY DEF Link
<1>2. /\ Len(frames) \in {1, 2} /\ Top \in FrameType /\ FrameOk(Top, pt, mmu)
      /\ Len(frames) = 1 => Top = frames[1]
      /\ Len(frames) = 2 => Inner(frames[1], Top)
  BY <1>1, TopTypes
<1>3. Len(frames) = 1 /\ Top = frames[1]
  BY <1>1, <1>2 DEF Inner
<1>4. p \in PoolPages /\ Top.lvl < Depth /\ Here(Top) = Nil /\ mmu[Top.img]
  BY <1>1, <1>2 DEF FrameType, FrameOk, Here
<1>5. PICK lv, up : TreesGiven(lv, up, pt, next, frames)
  BY DEF TablesNow, TablesOk, Trees
<1>6. lv[p] = 0
  BY <1>1, <1>3, <1>5 DEF TreesGiven, NewFree
<1>7. frames' # <<>> /\ Len(frames') = 1 /\ frames'[1] = Below(Top, p)
  <2>0. frames \in Seq(FrameType)
    BY DEF TablesNow, TablesOk, ValuesOk
  <2>1. p \in TablePage /\ Top.lvl + 1 \in 1 .. Depth
    BY <1>2, <1>4, DepthFacts DEF FrameType, TablePage
  <2>2. Below(Top, p) \in FrameType
    BY <1>2, <2>1 DEF Below, FrameType
  <2>3. Replaced(frames, frames', Below(Top, p))
    BY <1>1 DEF SetTop, Replaced
  <2> DEFINE g == Below(Top, p)
  <2> HIDE DEF g
  <2>4. g \in FrameType /\ Replaced(frames, frames', g)
    BY <2>2, <2>3 DEF g
  <2>5. frames' # <<>> /\ Len(frames') = Len(frames) /\ frames'[Len(frames)] = g
    BY <1>3, <2>0, <2>4, ReplaceTop
  <2>6. QED
    BY <1>3, <2>5 DEF g
<1> HIDE DEF p
<1>8. Enters(Root[Top.img], p)
  BY <1>1, <1>3, <1>4, <1>5, <1>6, EnterFacts
<1>9. QED
  BY <1>1, <1>3, <1>4, <1>7, <1>8 DEF p

\* mem_map_pa() calls itself for the next page of its pool.
LEMMA GrowFacts ==
    ASSUME TablesNow, Grow
    PROVE  LET I == Top.img
               p == Pool[I]["pa"][next[I]["pa"]]
           IN  /\ frames # <<>> /\ Len(frames) = 1 /\ frames' # <<>> /\ Len(frames') = 2
               /\ frames'[1] = [Top EXCEPT !.new = p] /\ frames'[2] = Frame(I, p, p, TRUE)
               /\ mmu[I] /\ mmu' = mmu /\ pt' = pt /\ I \in Image /\ p \in PoolPages
               /\ next[I]["pa"] \in 1 .. Len(Pool[I]["pa"])
               /\ next' = [next EXCEPT ![I]["pa"] = @ + 1]
<1> DEFINE I == Top.img
           p == Pool[I]["pa"][next[I]["pa"]]
           q == SetTop([Top EXCEPT !.new = p])
           h == Frame(I, p, p, TRUE)
<1>1. /\ frames # <<>> /\ Top.lvl < Depth /\ Here(Top) = Nil /\ mmu[I] /\ mmu' = mmu
      /\ next[I]["pa"] <= Len(Pool[I]["pa"]) /\ pt' = pt
      /\ frames' = Append(q, h) /\ next' = [next EXCEPT ![I]["pa"] = @ + 1]
  BY DEF Grow, Walking, CanAllocate, Allocated, mem_allocate_pa
<1>2. TablesOk(pt, next, frames, mmu, pc) /\ next \in [Image -> [PoolName -> Nat \ {0}]]
      /\ frames \in Seq(FrameType)
  BY DEF TablesNow, TablesOk, ValuesOk
<1>3. Innermost(frames, Top) /\ Holds(pt, Top, Nil)
  BY <1>1 DEF Innermost, Holds, Top, Here
<1>4. Len(frames) = 1
  BY <1>1, <1>2, <1>3, NoThird
<1>5. I \in Image /\ "pa" \in PoolName /\ Top \in FrameType
  BY <1>1, TopTypes DEF PoolName
<1>6. Len(Pool[I]["pa"]) \in Nat /\ next[I]["pa"] \in Nat \ {0}
  BY <1>2, <1>5, CallFacts
<1>7. next[I]["pa"] \in 1 .. Len(Pool[I]["pa"])
  <2>1. \A a, b : a \in Nat \ {0} /\ b \in Nat /\ a <= b => a \in 1 .. b
    OBVIOUS
  <2>2. QED
    BY <1>1, <1>6, <2>1, Zenon
<1>8. p \in PoolPages /\ p \in Page
  BY <1>5, <1>7, CallFacts
<1>9. h \in FrameType
  BY <1>5, <1>8, CallFacts, DepthFacts DEF Frame, FrameType
<1>10. Len(q) = 1 /\ q[1] = [Top EXCEPT !.new = p] /\ q \in Seq(FrameType)
  <2> DEFINE g == [Top EXCEPT !.new = p]
  <2>1. g \in FrameType
    BY <1>5, <1>8 DEF FrameType
  <2>2. Replaced(frames, q, g)
    BY DEF SetTop, Replaced
  <2> HIDE DEF g, q
  <2>3. q \in Seq(FrameType) /\ Len(q) = Len(frames) /\ q[Len(frames)] = g
    BY <1>2, <1>4, <2>1, <2>2, ReplaceTop
  <2>4. QED
    BY <1>4, <2>3 DEF g
<1> HIDE DEF q, h
<1>11. frames' # <<>> /\ Len(frames') = 2 /\ frames'[1] = q[1] /\ frames'[2] = h
  BY <1>1, <1>9, <1>10, PushTop
<1>12. QED
  BY <1>1, <1>4, <1>5, <1>7, <1>8, <1>10, <1>11 DEF h

(***************************************************************************)
(* Every table page can be reached.                                        *)
(***************************************************************************)
\* The MMU of an image is on from its mmu_on call on.
OnBooted == \A I \in Image : mmu[I] <=> Booted(I, pc)

\* The heap of an image has been used by its heap calls.
HeapUsed == \A I \in Image : heap[I] = Cardinality(HeapCalls(I, pc)) + 1

\* The call in progress changes the page its outer activation is at.
InProgress == frames # <<>> => Changes(pc - 1, Root[frames[1].img], frames[1].va)

\* What can become a table page is mapped at its own address or not at all.
SelfMapped == \A r \in Roots, p \in TablePage : MapsTo(pt, r, p) \in {Nil, p}

\* What a call of map_pa has mapped of them stays mapped.
ShownMapped ==
    \A n \in 1 .. pc - 1 :
        /\ Program[n].op = "map_pa" /\ Program[n].va \in TablePage
        /\ frames = <<>> \/ n < pc - 1
        => MapsTo(pt, Root[Program[n].img], Program[n].va) # Nil

\* So do the root of an image with its MMU on and the page that an activation is
\* about to enter, once the inner call has returned.
RootsMapped == \A I \in Image : mmu[I] => MapsTo(pt, Root[I], Root[I]) # Nil
NewMapped ==
    frames # <<>> /\ Len(frames) = 1 /\ frames[1].new # Nil =>
        MapsTo(pt, Root[frames[1].img], frames[1].new) # Nil

\* Page p was handed out to an image with root r that is booting.
BootPage(on, n, nx, r, p) ==
    \E I \in Image : /\ Root[I] = r /\ ~ on[I] /\ Begun(I, n)
                     /\ \E k \in 1 .. Len(Pool[I][BootPool]) :
                           k < nx[I][BootPool] /\ p = Pool[I][BootPool][k]

\* A table page is mapped, or its image is still booting.
TablesMapped ==
    \A r \in Roots, va \in Page, i \in 1 .. Depth :
        LET t == TableIn(pt, r, va, i)
        IN  t \in {Nil, r} \/ MapsTo(pt, r, t) # Nil \/ BootPage(mmu, pc, next, r, t)

\* The places, among those the calls before n ask for, that have a table in m: an
\* image that is booting has taken no more pages than that and its map_va calls.
Filled(m, I, n) ==
    {x \in Steps(I, n) : TableIn(m, Root[I], Program[x[1]].va, x[2]) # Nil}
Grown(m, I, n) == {Prefix(Program[x[1]].va, x[2]) : x \in Filled(m, I, n)}
WithinDemand ==
    \A I \in Image : ~ mmu[I] =>
        next[I][BootPool] - 1 <= Cardinality(PagesFor(I, pc)) + Cardinality(Grown(pt, I, pc))

ReachInv == /\ OnBooted /\ HeapUsed /\ InProgress
            /\ SelfMapped /\ ShownMapped /\ RootsMapped /\ NewMapped
            /\ TablesMapped /\ WithinDemand

----------------------------------------------------------------------------
\* What is counted is finite.
LEMMA DemandFinite ==
    ASSUME NEW m, NEW I, NEW n \in Nat
    PROVE  /\ IsFiniteSet(PagesFor(I, n)) /\ IsFiniteSet(TablesFor(I, n))
           /\ IsFiniteSet(Grown(m, I, n)) /\ Grown(m, I, n) \subseteq TablesFor(I, n)
           /\ IsFiniteSet(HeapCalls(I, n))
<1>1. IsFiniteSet(1 .. n - 1) /\ IsFiniteSet(2 .. Depth)
  BY FS_Interval, DepthFacts
<1>2. BootCalls(I, n) \in SUBSET (1 .. n - 1) /\ HeapCalls(I, n) \in SUBSET (1 .. n - 1)
  BY DEF BootCalls, HeapCalls
<1>3. IsFiniteSet(BootCalls(I, n)) /\ IsFiniteSet(HeapCalls(I, n))
  BY <1>1, <1>2, FS_Subset
<1>4. PagesFor(I, n) \in SUBSET BootCalls(I, n)
  BY DEF PagesFor
<1>5. IsFiniteSet(PagesFor(I, n))
  BY <1>3, <1>4, FS_Subset
<1>6. IsFiniteSet(Steps(I, n))
  BY <1>1, <1>3, FS_Product DEF Steps
<1>7. IsFiniteSet(TablesFor(I, n))
  <2> DEFINE S == Steps(I, n)
             T == TablesFor(I, n)
             g == [x \in S |-> Prefix(Program[x[1]].va, x[2])]
  <2>1. g \in Surjection(S, T)
    BY DEF Surjection, TablesFor
  <2> HIDE DEF g, S, T
  <2>2. IsFiniteSet(S)
    BY <1>6 DEF S
  <2>3. IsFiniteSet(T)
    BY <2>1, <2>2, FS_Surjection
  <2>4. QED
    BY <2>3 DEF T
<1>8. Grown(m, I, n) \in SUBSET TablesFor(I, n)
  BY DEF Grown, TablesFor, Filled
<1>9. IsFiniteSet(Grown(m, I, n))
  BY <1>7, <1>8, FS_Subset
<1>10. QED
  BY <1>3, <1>5, <1>7, <1>8, <1>9

\* A finite set and a part of it.
LEMMA PartCounts ==
    ASSUME NEW S, NEW T, IsFiniteSet(T), S \subseteq T
    PROVE  Cardinality(S) \in Nat /\ Cardinality(T) \in Nat /\ Cardinality(S) <= Cardinality(T)
<1>1. S \in SUBSET T
  OBVIOUS
<1>2. IsFiniteSet(S) /\ Cardinality(S) <= Cardinality(T)
  BY <1>1, FS_Subset
<1>3. QED
  BY <1>2, FS_CardinalityType

\* A finite set and one element more.
LEMMA OneMoreCounts ==
    ASSUME NEW S, NEW T, NEW x, IsFiniteSet(T), S \subseteq T, x \in T, x \notin S
    PROVE  /\ Cardinality(S) \in Nat /\ Cardinality(T) \in Nat
           /\ Cardinality(S) + 1 <= Cardinality(T)
<1>1. S \in SUBSET T /\ S \cup {x} \in SUBSET T
  OBVIOUS
<1>2. IsFiniteSet(S)
  BY <1>1, FS_Subset
<1>3. IsFiniteSet(S \cup {x}) /\ Cardinality(S \cup {x}) = Cardinality(S) + 1
  BY <1>2, FS_AddElement
<1>4. Cardinality(S \cup {x}) <= Cardinality(T)
  BY <1>1, FS_Subset
<1>5. QED
  BY <1>2, <1>3, <1>4, FS_CardinalityType

\* Pages that select the same entries down to a level meet the same table there.
LEMMA SamePrefix ==
    ASSUME NEW m, NEW r, NEW va \in Page, NEW vb \in Page, NEW i \in 1 .. Depth,
           \A k \in 1 .. i - 1 : Index[va][k] = Index[vb][k]
    PROVE  TableIn(m, r, va, i) = TableIn(m, r, vb, i)
<1> DEFINE Ok(n) == TableIn(m, r, va, n) = TableIn(m, r, vb, n)
<1>1. Ok(1)
  BY DEF TableIn
<1>2. ASSUME NEW n \in 1 .. Depth - 1, Index[va][n] = Index[vb][n], Ok(n)
      PROVE  Ok(n + 1)
  BY <1>2, TableStep DEF Entry
<1> HIDE DEF Ok
<1>3. Depth > 1 /\ (Depth = 2 \/ Depth = 4)
  BY DepthFacts
<1>4. i > 1 => Ok(2)
  BY <1>1, <1>2, <1>3
<1>5. i > 2 => Ok(3)
  BY <1>4, <1>2, <1>3
<1>6. i > 3 => Ok(4)
  BY <1>5, <1>2, <1>3
<1>7. Ok(i)
  BY <1>1, <1>3, <1>4, <1>5, <1>6
<1>8. QED
  BY <1>7 DEF Ok

\* The calls before the next one.
LEMMA CallsBefore ==
    ASSUME NEW n \in Nat \ {0}
    PROVE  /\ \A m : m \in 1 .. (n + 1) - 1 <=> m \in 1 .. n - 1 \/ m = n
           /\ n \notin 1 .. n - 1 /\ n \in 1 .. (n + 1) - 1
           /\ \A I : Booted(I, n + 1) <=>
                        Booted(I, n) \/ (Program[n].op = "mmu_on" /\ Program[n].img = I)
           /\ \A I : Begun(I, n + 1) <=> Begun(I, n) \/ Program[n].img = I
<1>1. /\ \A m : m \in 1 .. (n + 1) - 1 <=> m \in 1 .. n - 1 \/ m = n
      /\ n \notin 1 .. n - 1
  OBVIOUS
<1>2. QED
  BY <1>1 DEF Booted, Begun

\* What an image may have taken does not shrink.
NoLoss(m, w, r) ==
    \A va \in Page, i \in 1 .. Depth :
        TableIn(m, r, va, i) # Nil => TableIn(w, r, va, i) # Nil
LEMMA DemandGrows ==
    ASSUME NEW m, NEW w, NEW I \in Image, NEW n \in Nat \ {0}, NEW k \in {n, n + 1},
           k <= Len(Program) + 1, NoLoss(m, w, Root[I])
    PROVE  /\ PagesFor(I, n) \subseteq PagesFor(I, k)
           /\ Grown(m, I, n) \subseteq Grown(w, I, k)
           /\ IsFiniteSet(PagesFor(I, k)) /\ IsFiniteSet(Grown(w, I, k))
           /\ Cardinality(PagesFor(I, n)) \in Nat /\ Cardinality(PagesFor(I, k)) \in Nat
           /\ Cardinality(Grown(m, I, n)) \in Nat /\ Cardinality(Grown(w, I, k)) \in Nat
           /\ Cardinality(PagesFor(I, n)) <= Cardinality(PagesFor(I, k))
           /\ Cardinality(Grown(m, I, n)) <= Cardinality(Grown(w, I, k))
<1>1. k \in Nat /\ \A x \in 1 .. n - 1 : x \in 1 .. k - 1
  OBVIOUS
<1>2. BootCalls(I, n) \subseteq BootCalls(I, k)
  BY <1>1 DEF BootCalls
<1>3. PagesFor(I, n) \subseteq PagesFor(I, k)
  BY <1>2 DEF PagesFor
<1>4. \A x \in Steps(I, n) : x \in Steps(I, k) /\ Program[x[1]].va \in Page /\ x[2] \in 1 .. Depth
  <2>1. TAKE x \in Steps(I, n)
  <2>2. x \in Steps(I, k) /\ x[1] \in BootCalls(I, n) /\ x[2] \in 2 .. Depth
    BY <1>2 DEF Steps
  <2>3. x[1] \in 1 .. Len(Program)
    BY <2>2, CallFacts DEF BootCalls
  <2>4. QED
    BY <2>2, <2>3, CallFacts, DepthFacts
<1>5. Filled(m, I, n) \subseteq Filled(w, I, k)
  BY <1>4 DEF Filled, NoLoss
<1>6. Grown(m, I, n) \subseteq Grown(w, I, k)
  BY <1>5 DEF Grown
<1>7. IsFiniteSet(PagesFor(I, k)) /\ IsFiniteSet(Grown(w, I, k))
  BY <1>1, DemandFinite
<1>8. /\ Cardinality(PagesFor(I, n)) \in Nat /\ Cardinality(PagesFor(I, k)) \in Nat
      /\ Cardinality(PagesFor(I, n)) <= Cardinality(PagesFor(I, k))
  BY <1>3, <1>7, PartCounts
<1>9. /\ Cardinality(Grown(m, I, n)) \in Nat /\ Cardinality(Grown(w, I, k)) \in Nat
      /\ Cardinality(Grown(m, I, n)) <= Cardinality(Grown(w, I, k))
  BY <1>6, <1>7, PartCounts
<1>10. QED
  BY <1>3, <1>6, <1>7, <1>8, <1>9

----------------------------------------------------------------------------
\* What most steps leave true: a table page that is mapped stays mapped, and no
\* walk loses a table.
Keeps ==
    /\ \A r \in Roots, p \in TablePage :
          MapsTo(pt, r, p) # Nil => MapsTo(pt', r, p) # Nil
    /\ \A s \in Roots, vb \in Page, i \in 1 .. Depth :
          TableIn(pt, s, vb, i) # Nil => TableIn(pt', s, vb, i) # Nil
Forward == /\ pc' \in {pc, pc + 1} /\ mmu' = mmu
           /\ \A I \in Image : /\ next'[I][BootPool] \in Nat
                               /\ next'[I][BootPool] >= next[I][BootPool]

\* The values the proofs below count with.
LEMMA ReachTypes ==
    ASSUME TablesNow
    PROVE  /\ pc \in Nat \ {0} /\ pc \in 1 .. Len(Program) + 1 /\ Len(Program) \in Nat
           /\ BootPool \in PoolName /\ mmu \in [Image -> BOOLEAN]
           /\ next \in [Image -> [PoolName -> Nat \ {0}]]
           /\ \A I \in Image : next[I][BootPool] \in Nat \ {0}
<1>1. /\ pc \in 1 .. Len(Program) + 1 /\ Len(Program) \in Nat
      /\ next \in [Image -> [PoolName -> Nat \ {0}]] /\ mmu \in [Image -> BOOLEAN]
  BY CallFacts DEF TablesNow, TablesOk, ValuesOk
<1>2. BootPool \in PoolName
  BY DEF BootPool, PoolName
<1>3. QED
  BY <1>1, <1>2

\* A page that is handed out to a booting image stays so.
LEMMA BootPageStays ==
    ASSUME TablesNow, Forward, NEW r, NEW p, BootPage(mmu, pc, next, r, p)
    PROVE  BootPage(mmu', pc', next', r, p)
<1>1. PICK I \in Image : /\ Root[I] = r /\ ~ mmu[I] /\ Begun(I, pc)
                         /\ \E k \in 1 .. Len(Pool[I][BootPool]) :
                               k < next[I][BootPool] /\ p = Pool[I][BootPool][k]
  BY DEF BootPage
<1>2. PICK k \in 1 .. Len(Pool[I][BootPool]) :
         k < next[I][BootPool] /\ p = Pool[I][BootPool][k]
  BY <1>1
<1>3. pc \in Nat \ {0} /\ next[I][BootPool] \in Nat
  BY ReachTypes
<1>4. Begun(I, pc')
  BY <1>1, <1>3, CallsBefore DEF Forward
<1>5. k < next'[I][BootPool]
  BY <1>2, <1>3 DEF Forward
<1>6. QED
  BY <1>1, <1>2, <1>4, <1>5 DEF BootPage, Forward

\* Tables that stay mapped or are being handed out may be met by more walks.
LEMMA TablesMappedKept ==
    ASSUME TablesNow, TablesMapped, Forward, Keeps,
           TablesThen,
           \A s \in Roots, vb \in Page, i \in 1 .. Depth :
              LET t == TableIn(pt', s, vb, i)
              IN  \/ t \in {Nil, TableIn(pt, s, vb, i)} \/ MapsTo(pt', s, t) # Nil
                  \/ BootPage(mmu', pc', next', s, t)
    PROVE  TablesMapped'
<1>1. ASSUME NEW s \in Roots, NEW vb \in Page, NEW i \in 1 .. Depth
      PROVE  LET t == TableIn(pt', s, vb, i)
             IN  t \in {Nil, s} \/ MapsTo(pt', s, t) # Nil \/ BootPage(mmu', pc', next', s, t)
  <2> DEFINE t == TableIn(pt', s, vb, i)
  <2>1. CASE t = TableIn(pt, s, vb, i) /\ t # Nil
    <3>1. PICK lv, up : Shape(pt, lv, up)
      BY DEF TablesNow, TablesOk, Trees, TreesGiven
    <3>2. t \in TablePage
      BY <2>1, <3>1, TableLevel
    <3>3. t \in {Nil, s} \/ MapsTo(pt, s, t) # Nil \/ BootPage(mmu, pc, next, s, t)
      BY <2>1 DEF TablesMapped
    <3> HIDE DEF t
    <3>4. BootPage(mmu, pc, next, s, t) => BootPage(mmu', pc', next', s, t)
      BY BootPageStays
    <3>5. MapsTo(pt, s, t) # Nil => MapsTo(pt', s, t) # Nil
      BY <3>2 DEF Keeps
    <3>6. QED
      BY <3>3, <3>4, <3>5 DEF t
  <2>2. QED
    BY <2>1
<1>2. QED
  BY <1>1 DEF TablesMapped

\* A booting image that takes no table from its pool stays within its demand.
LEMMA WithinDemandKept ==
    ASSUME TablesNow, WithinDemand, Forward, Keeps, pc' <= Len(Program) + 1,
           \A I \in Image : ~ mmu[I] => next'[I][BootPool] = next[I][BootPool]
    PROVE  WithinDemand'
<1>1. ASSUME NEW I \in Image, ~ mmu[I]
      PROVE  next'[I][BootPool] - 1
                <= Cardinality(PagesFor(I, pc')) + Cardinality(Grown(pt', I, pc'))
  <2>0. pc' <= Len(Program) + 1
    OBVIOUS
  <2>1. /\ pc \in Nat \ {0} /\ next[I][BootPool] \in Nat /\ Root[I] \in Roots
        /\ pc' \in {pc, pc + 1}
    BY ReachTypes, CallFacts DEF Forward
  <2>2. NoLoss(pt, pt', Root[I])
    BY <2>1 DEF Keeps, NoLoss
  <2>3. /\ Cardinality(PagesFor(I, pc)) \in Nat /\ Cardinality(PagesFor(I, pc')) \in Nat
        /\ Cardinality(Grown(pt, I, pc)) \in Nat /\ Cardinality(Grown(pt', I, pc')) \in Nat
        /\ Cardinality(PagesFor(I, pc)) <= Cardinality(PagesFor(I, pc'))
        /\ Cardinality(Grown(pt, I, pc)) <= Cardinality(Grown(pt', I, pc'))
    <3> DEFINE n == pc
               k == pc'
               m == pt
               w == pt'
    <3>1. n \in Nat \ {0} /\ k \in {n, n + 1} /\ k <= Len(Program) + 1
      BY <2>0, <2>1
    <3>2. NoLoss(m, w, Root[I])
      BY <2>2
    <3> HIDE DEF n, k, m, w
    <3>3. /\ Cardinality(PagesFor(I, n)) \in Nat /\ Cardinality(PagesFor(I, k)) \in Nat
          /\ Cardinality(Grown(m, I, n)) \in Nat /\ Cardinality(Grown(w, I, k)) \in Nat
          /\ Cardinality(PagesFor(I, n)) <= Cardinality(PagesFor(I, k))
          /\ Cardinality(Grown(m, I, n)) <= Cardinality(Grown(w, I, k))
      BY <3>1, <3>2, DemandGrows, ZenonT(30)
    <3>4. QED
      BY <3>3 DEF n, k, m, w
  <2>4. next[I][BootPool] - 1 <= Cardinality(PagesFor(I, pc)) + Cardinality(Grown(pt, I, pc))
    BY <1>1 DEF WithinDemand
  <2>5. next'[I][BootPool] = next[I][BootPool]
    BY <1>1
  <2>6. QED
    BY <2>1, <2>3, <2>4, <2>5
<1>2. mmu' = mmu
  BY DEF Forward
<1>3. QED
  BY <1>1, <1>2 DEF WithinDemand

\* The MMUs that are on stay on, and their roots mapped.
LEMMA OnBootedKept ==
    ASSUME TablesNow, OnBooted, Forward, pc' = pc + 1 => Program[pc].op # "mmu_on"
    PROVE  OnBooted'
<1>1. pc \in Nat \ {0} /\ mmu' = mmu /\ pc' \in {pc, pc + 1}
  BY ReachTypes DEF Forward
<1>2. \A I \in Image : Booted(I, pc') <=> Booted(I, pc)
  BY <1>1, CallsBefore
<1>3. QED
  BY <1>1, <1>2 DEF OnBooted

\* So does the root of an image with its MMU on.
LEMMA RootsMappedKept ==
    ASSUME RootsMapped, Forward, Keeps
    PROVE  RootsMapped'
  BY CallFacts DEF RootsMapped, Forward, Keeps

\* The heaps are used by the heap calls alone.
LEMMA HeapUsedKept ==
    ASSUME TablesNow, HeapUsed, pc' \in {pc, pc + 1}, heap' = heap,
           pc' = pc + 1 => Program[pc].op # "heap"
    PROVE  HeapUsed'
<1>1. pc \in Nat \ {0}
  BY ReachTypes
<1>2. \A I \in Image : HeapCalls(I, pc') = HeapCalls(I, pc)
  BY <1>1, CallsBefore DEF HeapCalls
<1>3. QED
  BY <1>2 DEF HeapUsed

\* What was shown stays shown; the call that has returned has shown its page.
LEMMA ShownMappedKept ==
    ASSUME TablesNow, ShownMapped, Keeps, pc' \in {pc, pc + 1}, pc' <= Len(Program) + 1,
           pc' = pc + 1 => frames = <<>> /\ (frames' # <<>> \/ Program[pc].op # "map_pa"),
           frames # <<>> => pc' = pc,
           frames # <<>> /\ frames' = <<>> /\ Program[pc - 1].op = "map_pa" =>
              MapsTo(pt', Root[Program[pc - 1].img], Program[pc - 1].va) # Nil
    PROVE  ShownMapped'
<1>1. ASSUME NEW n \in 1 .. pc' - 1, Program[n].op = "map_pa", Program[n].va \in TablePage,
             frames' = <<>> \/ n < pc' - 1
      PROVE  MapsTo(pt', Root[Program[n].img], Program[n].va) # Nil
  <2>1. /\ pc \in Nat \ {0} /\ Len(Program) \in Nat
        /\ pc' \in {pc, pc + 1} /\ pc' <= Len(Program) + 1 /\ n \in 1 .. pc' - 1
    BY ReachTypes
  <2>2. n \in 1 .. Len(Program)
    <3>1. \A k : k \in {pc, pc + 1} /\ k <= Len(Program) + 1 /\ n \in 1 .. k - 1 =>
             n \in 1 .. Len(Program)
      BY <2>1
    <3>2. QED
      BY <2>1, <3>1
  <2>3. Root[Program[n].img] \in Roots
    BY <2>2, CallFacts
  <2>4. CASE n \in 1 .. pc - 1 /\ (frames = <<>> \/ n < pc - 1)
    BY <1>1, <2>3, <2>4 DEF ShownMapped, Keeps
  <2>5. CASE pc' = pc /\ frames # <<>> /\ n = pc - 1 /\ frames' = <<>>
    BY <1>1, <2>5
  <2>6. CASE pc' = pc + 1
    <3>1. (n \in 1 .. pc - 1 \/ n = pc) /\ (n = pc => ~ (n < pc' - 1))
      BY <2>1, <2>6
    <3>2. frames = <<>> /\ (frames' # <<>> \/ Program[pc].op # "map_pa")
      BY <2>6
    <3>3. n # pc
      BY <1>1, <3>1, <3>2
    <3>4. QED
      BY <2>4, <3>1, <3>2, <3>3
  <2>7. CASE pc' = pc
    <3>1. n \in 1 .. pc - 1 /\ (n < pc - 1 \/ n = pc - 1) /\ (n = pc - 1 => ~ (n < pc' - 1))
      BY <2>1, <2>7
    <3>2. CASE n < pc - 1 \/ frames = <<>>
      BY <2>4, <3>1, <3>2
    <3>3. CASE n = pc - 1 /\ frames # <<>>
      BY <1>1, <2>5, <2>7, <3>1, <3>3
    <3>4. QED
      BY <3>1, <3>2, <3>3
  <2>8. QED
    BY <2>1, <2>6, <2>7
<1>2. QED
  BY <1>1 DEF ShownMapped

\* The tables are untouched, or a page that is no table yet is entered.
LEMMA SameTablesKeep ==
    ASSUME SameTables,
           \A r \in Roots, p \in TablePage : MapsTo(pt, r, p) # Nil => MapsTo(pt', r, p) # Nil
    PROVE  Keeps
  BY DEF SameTables, Keeps

\* A page that is entered changes no mapping and ends no walk.
LEMMA EntersKeep ==
    ASSUME NEW r, NEW p, Enters(r, p), SameMaps
    PROVE  Keeps
  BY DepthFacts DEF Enters, SameMaps, Keeps

----------------------------------------------------------------------------
\* Calls that look at memory, and steps that change nothing.
LEMMA QuietReach ==
    ASSUME TablesNow, TablesThen, ReachInv, pt' = pt, next' = next, frames' = frames,
           mmu' = mmu, heap' = heap, pc' \in {pc, pc + 1},
           pc' = pc + 1 => frames = <<>> /\ Program[pc].op \notin {"map_pa", "heap", "mmu_on"}
    PROVE  ReachInv'
<1>1. pc' <= Len(Program) + 1 /\ pc' \in Nat /\ pc \in Nat \ {0}
  BY CallFacts, ReachTypes DEF TablesThen, TablesOk, ValuesOk
<1>2. Forward /\ Keeps
  BY ReachTypes DEF Forward, Keeps
<1>3. TablesMapped'
  BY <1>2, TablesMappedKept DEF ReachInv
<1>4. WithinDemand'
  BY <1>1, <1>2, WithinDemandKept DEF ReachInv
<1>5. OnBooted' /\ RootsMapped' /\ HeapUsed'
  BY <1>2, OnBootedKept, RootsMappedKept, HeapUsedKept DEF ReachInv
<1>6. ShownMapped'
  <2>1. pc' = pc + 1 => frames = <<>> /\ (frames' # <<>> \/ Program[pc].op # "map_pa")
    OBVIOUS
  <2>2. frames # <<>> => pc' = pc
    OBVIOUS
  <2>3. QED
    BY <1>1, <1>2, <2>1, <2>2, ShownMappedKept DEF ReachInv
<1>7. InProgress'
  BY DEF ReachInv, InProgress
<1>8. SelfMapped' /\ NewMapped'
  BY DEF ReachInv, SelfMapped, NewMapped
<1>9. QED
  BY <1>3, <1>4, <1>5, <1>6, <1>7, <1>8 DEF ReachInv

\* A call that maps begins.
LEMMA StartReach ==
    ASSUME TablesNow, TablesThen, ReachInv, Ready, NEW va \in Page, NEW pa, Map(va, pa),
           Op.op # "mmu_on", Forward, Changes(pc, R, va), HeapUsed', WithinDemand'
    PROVE  ReachInv'
<1>1. pc' <= Len(Program) + 1 /\ pc \in Nat \ {0} /\ pc' = pc + 1
  BY CallFacts, ReachTypes DEF TablesThen, TablesOk, ValuesOk, Map, Return
<1>2. /\ pt' = pt /\ mmu' = mmu /\ frames = <<>> /\ frames' = <<Frame(Op.img, va, pa, Op.user)>>
      /\ frames' # <<>> /\ Len(frames') = 1 /\ frames'[1].img = Op.img /\ frames'[1].va = va
      /\ frames'[1].new = Nil
  BY DEF Map, Ready, Frame
<1>3. Keeps
  BY <1>2 DEF Keeps
<1>4. TablesMapped'
  BY <1>2, <1>3, TablesMappedKept DEF ReachInv
<1>5. OnBooted' /\ RootsMapped'
  BY <1>1, <1>3, OnBootedKept, RootsMappedKept DEF ReachInv, Op
<1>6. ShownMapped'
  BY <1>1, <1>2, <1>3, ShownMappedKept DEF ReachInv
<1>7. InProgress'
  <2>1. pc' - 1 = pc
    BY <1>1
  <2>2. QED
    BY <1>2, <2>1 DEF InProgress, R
<1>8. SelfMapped' /\ NewMapped'
  BY <1>2 DEF ReachInv, SelfMapped, NewMapped
<1>9. QED
  BY <1>4, <1>5, <1>6, <1>7, <1>8 DEF ReachInv

\* map_va takes a page: its call counts it.
LEMMA PageTaken ==
    ASSUME TablesNow, ReachInv, Ready, Op.op = "map_va", pt' = pt, mmu' = mmu, pc' = pc + 1,
           next' = [next EXCEPT ![Op.img]["pa"] = @ + 1], pc' <= Len(Program) + 1
    PROVE  WithinDemand'
<1>1. ASSUME NEW I \in Image, ~ mmu[I]
      PROVE  next'[I][BootPool] - 1
                <= Cardinality(PagesFor(I, pc')) + Cardinality(Grown(pt', I, pc'))
  <2>1. /\ pc \in Nat \ {0} /\ next \in [Image -> [PoolName -> Nat \ {0}]]
        /\ next[I][BootPool] \in Nat /\ BootPool \in PoolName
    BY ReachTypes
  <2>2. /\ PagesFor(I, pc) \subseteq PagesFor(I, pc')
        /\ IsFiniteSet(PagesFor(I, pc'))
        /\ Cardinality(PagesFor(I, pc)) \in Nat /\ Cardinality(PagesFor(I, pc')) \in Nat
        /\ Cardinality(Grown(pt, I, pc)) \in Nat /\ Cardinality(Grown(pt', I, pc')) \in Nat
        /\ Cardinality(PagesFor(I, pc)) <= Cardinality(PagesFor(I, pc'))
        /\ Cardinality(Grown(pt, I, pc)) <= Cardinality(Grown(pt', I, pc'))
    <3>1. NoLoss(pt, pt', Root[I])
      BY DEF NoLoss
    <3>2. QED
      BY <2>1, <3>1, DemandGrows
  <2>3. next[I][BootPool] - 1 <= Cardinality(PagesFor(I, pc)) + Cardinality(Grown(pt, I, pc))
    BY <1>1 DEF ReachInv, WithinDemand
  <2>4. CASE I = Op.img
    <3>1. pc \in PagesFor(I, pc') /\ pc \notin PagesFor(I, pc)
      BY <2>1, <2>4, CallsBefore DEF PagesFor, BootCalls, Op
    <3>2. Cardinality(PagesFor(I, pc)) + 1 <= Cardinality(PagesFor(I, pc'))
      BY <2>2, <3>1, OneMoreCounts
    <3>3. next'[I][BootPool] \in {next[I][BootPool], next[I][BootPool] + 1}
      BY <2>1, <2>4 DEF PoolName
    <3>4. QED
      BY <2>1, <2>2, <2>3, <3>2, <3>3
  <2>5. CASE I # Op.img
    <3>1. next'[I][BootPool] = next[I][BootPool]
      BY <2>1, <2>5
    <3>2. QED
      BY <2>1, <2>2, <2>3, <3>1
  <2>6. QED
    BY <2>4, <2>5
<1>2. QED
  BY <1>1 DEF WithinDemand

\* A call of mem_heap_allocate() takes the next page of the heap.
LEMMA HeapCounted ==
    ASSUME TablesNow, ReachInv, heap \in [Image -> Nat \ {0}], Ready, Op.op = "heap",
           pc' = pc + 1, heap' = [heap EXCEPT ![Op.img] = @ + 1]
    PROVE  HeapUsed'
<1>1. ASSUME NEW I \in Image
      PROVE  heap'[I] = Cardinality(HeapCalls(I, pc')) + 1
  <2>1. pc \in Nat \ {0} /\ pc \notin HeapCalls(I, pc)
    BY ReachTypes, CallsBefore DEF HeapCalls
  <2>2. heap[I] = Cardinality(HeapCalls(I, pc)) + 1
    BY DEF ReachInv, HeapUsed
  <2>3. IsFiniteSet(HeapCalls(I, pc))
    BY <2>1, DemandFinite
  <2>4. Cardinality(HeapCalls(I, pc)) \in Nat
    BY <2>3, FS_CardinalityType
  <2>5. CASE I = Op.img
    <3>1. HeapCalls(I, pc') = HeapCalls(I, pc) \cup {pc}
      BY <2>1, <2>5, CallsBefore DEF HeapCalls, Op
    <3>2. Cardinality(HeapCalls(I, pc')) = Cardinality(HeapCalls(I, pc)) + 1
      BY <2>1, <2>3, <3>1, FS_AddElement
    <3>3. heap'[I] = heap[I] + 1
      BY <2>5
    <3>4. QED
      BY <2>2, <2>4, <3>2, <3>3
  <2>6. CASE I # Op.img
    <3>1. HeapCalls(I, pc') = HeapCalls(I, pc)
      BY <2>1, <2>6, CallsBefore DEF HeapCalls, Op
    <3>2. heap'[I] = heap[I]
      BY <2>6
    <3>3. QED
      BY <2>2, <3>1, <3>2
  <2>7. QED
    BY <2>5, <2>6
<1>2. QED
  BY <1>1 DEF HeapUsed

\* The calls that map a page.
LEMMA MapCallsReach ==
    ASSUME MemTypeOK, TablesNow, TablesThen, ReachInv,
           mem_map_pa \/ MapRef \/ mem_map_va \/ mem_heap_allocate
    PROVE  ReachInv'
<1>1. Ready /\ pc \in 1 .. Len(Program)
  BY CallFacts DEF mem_map_pa, MapRef, mem_map_va, mem_heap_allocate, At, Ready,
                   TablesNow, TablesOk, ValuesOk
<1>2. Op.img \in Image /\ Op.va \in Page /\ Op.root = R /\ Op.root = Program[pc].root
  BY <1>1, CallFacts DEF Op, R
<1>3. /\ pc' = pc + 1 /\ mmu' = mmu /\ pt' = pt /\ pc \in Nat \ {0} /\ pc' <= Len(Program) + 1
  BY <1>1, ReachTypes DEF mem_map_pa, MapRef, mem_map_va, mem_heap_allocate, Map, Return
<1>4. heap \in [Image -> Nat \ {0}] /\ next \in [Image -> [PoolName -> Nat \ {0}]]
  BY ReachTypes DEF MemTypeOK
<1>5. Keeps
  BY <1>3 DEF Keeps
<1>6. CASE mem_map_pa \/ MapRef
  <2>1. /\ next' = next /\ heap' = heap /\ Op.op \in {"map_pa", "map_ref"}
        /\ \E pa : Map(Op.va, pa)
    BY <1>6 DEF mem_map_pa, MapRef, At
  <2>2. Forward
    BY <1>3, <2>1, ReachTypes DEF Forward
  <2>3. HeapUsed'
    BY <1>3, <2>1, HeapUsedKept DEF ReachInv, Op
  <2>4. WithinDemand'
    BY <1>3, <1>5, <2>1, <2>2, WithinDemandKept DEF ReachInv
  <2>5. Changes(pc, R, Op.va)
    BY <1>2, <2>1 DEF Changes, Op
  <2>6. PICK pa : Map(Op.va, pa)
    BY <2>1
  <2>7. QED
    BY <1>1, <1>2, <2>1, <2>2, <2>3, <2>4, <2>5, <2>6, StartReach
<1>7. ASSUME mem_allocate_pa(Op.img, "pa")
      PROVE  /\ Forward /\ next' = [next EXCEPT ![Op.img]["pa"] = @ + 1]
             /\ \A I \in Image : I # Op.img => next'[I][BootPool] = next[I][BootPool]
  <2>1. next' = [next EXCEPT ![Op.img]["pa"] = @ + 1]
    BY <1>7 DEF mem_allocate_pa
  <2>2. ASSUME NEW I \in Image
        PROVE  /\ next'[I][BootPool] \in {next[I][BootPool], next[I][BootPool] + 1}
               /\ I # Op.img => next'[I][BootPool] = next[I][BootPool]
    BY <1>4, <2>1, ReachTypes DEF PoolName
  <2>3. \A I \in Image : /\ next'[I][BootPool] \in Nat /\ next'[I][BootPool] >= next[I][BootPool]
    BY <2>2, ReachTypes
  <2>4. QED
    BY <1>3, <2>1, <2>2, <2>3 DEF Forward
<1>8. CASE mem_map_va
  <2>1. /\ mem_allocate_pa(Op.img, "pa") /\ heap' = heap /\ Op.op = "map_va"
        /\ Map(Op.va, Allocated(Op.img, "pa"))
    BY <1>8 DEF mem_map_va, At
  <2>2. WithinDemand'
    BY <1>1, <1>3, <1>7, <2>1, PageTaken
  <2>3. HeapUsed'
    BY <1>3, <2>1, HeapUsedKept DEF ReachInv, Op
  <2>4. Changes(pc, R, Op.va)
    BY <1>2, <2>1 DEF Changes, Op
  <2>5. QED
    BY <1>1, <1>2, <1>7, <2>1, <2>2, <2>3, <2>4, StartReach
<1>9. CASE mem_heap_allocate
  <2> DEFINE hp == Heap[Op.img][heap[Op.img]]
  <2>1. /\ mem_allocate_pa(Op.img, "pa") /\ heap' = [heap EXCEPT ![Op.img] = @ + 1]
        /\ Op.op = "heap" /\ Map(hp, Allocated(Op.img, "pa"))
        /\ heap[Op.img] <= Len(Heap[Op.img])
    BY <1>9 DEF mem_heap_allocate, At
  <2>2. Heap[Op.img] \in Seq(Page) /\ Len(Heap[Op.img]) \in Nat
    BY <1>2, HeapAssumption, LenProperties
  <2>3. heap[Op.img] \in 1 .. Len(Heap[Op.img])
    BY <1>2, <1>4, <2>1, <2>2
  <2>4. hp \in Page
    BY <2>2, <2>3, ElementOfSeq
  <2>5. heap[Op.img] = Cardinality(HeapCalls(Op.img, pc)) + 1
    BY <1>2 DEF ReachInv, HeapUsed
  <2>6. Changes(pc, R, hp)
    BY <1>2, <2>1, <2>3, <2>5 DEF Changes, Op
  <2> HIDE DEF hp
  <2>7. mmu[Op.img]
    BY <1>1, <1>2, <2>1, BootAssumption DEF ReachInv, OnBooted, Op
  <2>8. WithinDemand'
    BY <1>3, <1>5, <1>7, <2>1, <2>7, WithinDemandKept DEF ReachInv
  <2>9. HeapUsed'
    BY <1>1, <1>3, <1>4, <2>1, HeapCounted
  <2>10. QED
    BY <1>1, <1>7, <2>1, <2>4, <2>6, <2>8, <2>9, StartReach
<1>10. QED
  BY <1>6, <1>8, <1>9

\* mem_unmap_va() is never asked to unmap what can become a table page.
LEMMA UnmapReach ==
    ASSUME TablesNow, TablesThen, ReachInv, Unmap
    PROVE  ReachInv'
<1>1. /\ SameTables /\ Sets(R, Op.va, Nil) /\ frames = <<>> /\ frames' = <<>>
      /\ pc' = pc + 1 /\ pc \in 1 .. Len(Program) /\ next' = next /\ mmu' = mmu
      /\ Op.op = "unmap" /\ R \in Roots /\ Op.va \in Page
  BY UnmapFacts
<1>2. heap' = heap /\ Program[pc].op = "unmap"
  BY <1>1 DEF Unmap, Op
<1>3. Op.va \notin TablePage
  BY <1>1, TablePageAssumption DEF Op
<1>4. \A r \in Roots, p \in TablePage : MapsTo(pt', r, p) = MapsTo(pt, r, p)
  BY <1>1, <1>3, DepthFacts DEF Sets
<1>5. Keeps /\ Forward
  BY <1>1, <1>4, ReachTypes, SameTablesKeep DEF Forward
<1>6. TablesMapped'
  BY <1>1, <1>5, TablesMappedKept DEF ReachInv, SameTables
<1>7. WithinDemand'
  BY <1>1, <1>5, ReachTypes, WithinDemandKept DEF ReachInv
<1>8. OnBooted' /\ RootsMapped' /\ HeapUsed'
  BY <1>1, <1>2, <1>5, OnBootedKept, RootsMappedKept, HeapUsedKept DEF ReachInv
<1>9. ShownMapped'
  BY <1>1, <1>2, <1>5, ReachTypes, ShownMappedKept DEF ReachInv
<1>10. InProgress' /\ NewMapped'
  BY <1>1 DEF InProgress, NewMapped
<1>11. SelfMapped'
  BY <1>4 DEF ReachInv, SelfMapped
<1>12. QED
  BY <1>6, <1>7, <1>8, <1>9, <1>10, <1>11 DEF ReachInv

\* When an image turns its MMU on, the root and every table it has built are mapped.
LEMMA BootedMapped ==
    ASSUME TablesNow, ReachInv, frames = <<>>, pc \in 1 .. Len(Program),
           Program[pc].op = "mmu_on", NEW I, I = Program[pc].img, NEW p \in TablePage,
           ~ mmu[I],
           p = Root[I] \/ \E k \in 1 .. Len(Pool[I][BootPool]) :
                             k < next[I][BootPool] /\ p = Pool[I][BootPool][k]
    PROVE  MapsTo(pt, Root[I], p) # Nil
<1>1. I \in Image /\ pc \in Nat \ {0} /\ next[I][BootPool] \in Nat
  BY CallFacts, ReachTypes
<1>2. ASSUME Shown(p, I, pc) PROVE MapsTo(pt, Root[I], p) # Nil
  BY <1>2 DEF Shown, ReachInv, ShownMapped
<1>3. CASE p = Root[I]
  BY <1>2, <1>3, BootAssumption
<1>4. CASE \E k \in 1 .. Len(Pool[I][BootPool]) :
              k < next[I][BootPool] /\ p = Pool[I][BootPool][k]
  <2>1. PICK k \in 1 .. Len(Pool[I][BootPool]) :
           k < next[I][BootPool] /\ p = Pool[I][BootPool][k]
    BY <1>4
  <2>2. next[I][BootPool] - 1 <= Cardinality(PagesFor(I, pc)) + Cardinality(Grown(pt, I, pc))
    BY <1>1 DEF ReachInv, WithinDemand
  <2>3. /\ IsFiniteSet(PagesFor(I, pc)) /\ IsFiniteSet(TablesFor(I, pc))
        /\ Grown(pt, I, pc) \subseteq TablesFor(I, pc)
    BY <1>1, DemandFinite
  <2>4. /\ Cardinality(PagesFor(I, pc)) \in Nat
        /\ Cardinality(Grown(pt, I, pc)) \in Nat /\ Cardinality(TablesFor(I, pc)) \in Nat
        /\ Cardinality(Grown(pt, I, pc)) <= Cardinality(TablesFor(I, pc))
    BY <2>3, PartCounts, FS_CardinalityType
  <2>5. k <= Demand(I, pc)
    BY <1>1, <2>1, <2>2, <2>4 DEF Demand
  <2>6. Shown(p, I, pc)
    BY <2>1, <2>5, BootAssumption
  <2>7. QED
    BY <1>2, <2>6
<1>5. QED
  BY <1>3, <1>4

\* The MMU goes on: the window the image has mapped holds all the tables it has taken.
LEMMA MmuOnReach ==
    ASSUME TablesNow, TablesThen, ReachInv, MmuOn
    PROVE  ReachInv'
<1> DEFINE I0 == Program[pc].img
<1>1. /\ frames = <<>> /\ frames' = <<>> /\ pc' = pc + 1 /\ pt' = pt /\ next' = next
      /\ heap' = heap /\ mmu' = [mmu EXCEPT ![I0] = TRUE] /\ Program[pc].op = "mmu_on"
      /\ pc <= Len(Program)
  BY DEF MmuOn, At, Ready, Return, Op
<1>2. /\ pc \in 1 .. Len(Program) /\ pc \in Nat \ {0} /\ mmu \in [Image -> BOOLEAN]
      /\ pc + 1 <= Len(Program) + 1
  BY <1>1, ReachTypes
<1>3. I0 \in Image
  BY <1>2, CallFacts
<1> HIDE DEF I0
<1>4. \A I \in Image : mmu'[I] = IF I = I0 THEN TRUE ELSE mmu[I]
  BY <1>1, <1>2, <1>3
<1>5. OnBooted'
  <2>1. \A I \in Image : Booted(I, pc + 1) <=> Booted(I, pc) \/ I = I0
    BY <1>1, <1>2, CallsBefore DEF I0
  <2>2. \A I \in Image : mmu[I] <=> Booted(I, pc)
    BY DEF ReachInv, OnBooted
  <2>3. QED
    BY <1>1, <1>4, <2>1, <2>2 DEF OnBooted
<1>6. HeapUsed'
  BY <1>1, HeapUsedKept DEF ReachInv
<1>7. InProgress' /\ NewMapped'
  BY <1>1 DEF InProgress, NewMapped
<1>8. SelfMapped'
  BY <1>1 DEF ReachInv, SelfMapped
<1>9. Keeps
  BY <1>1 DEF Keeps
<1>10. ShownMapped'
  BY <1>1, <1>2, <1>9, ShownMappedKept DEF ReachInv
<1>11. RootsMapped'
  <2>1. ASSUME NEW I \in Image, mmu'[I]
        PROVE  MapsTo(pt, Root[I], Root[I]) # Nil
    <3>1. CASE mmu[I]
      BY <3>1 DEF ReachInv, RootsMapped
    <3>2. CASE ~ mmu[I]
      <4>1. I = I0 /\ Root[I] \in TablePage
        BY <1>4, <2>1, <3>2, CallFacts
      <4>2. QED
        BY <1>1, <1>2, <3>2, <4>1, BootedMapped DEF I0
    <3>3. QED
      BY <3>1, <3>2
  <2>2. QED
    BY <1>1, <2>1 DEF RootsMapped
<1>12. TablesMapped'
  <2>1. ASSUME NEW r \in Roots, NEW t \in TablePage, BootPage(mmu, pc, next, r, t)
        PROVE  MapsTo(pt, r, t) # Nil \/ BootPage(mmu', pc', next', r, t)
    <3>1. PICK I \in Image : /\ Root[I] = r /\ ~ mmu[I] /\ Begun(I, pc)
                             /\ \E k \in 1 .. Len(Pool[I][BootPool]) :
                                   k < next[I][BootPool] /\ t = Pool[I][BootPool][k]
      BY <2>1 DEF BootPage
    <3>2. CASE I = I0
      BY <1>1, <1>2, <3>1, <3>2, BootedMapped DEF I0
    <3>3. CASE I # I0
      <4>1. ~ mmu'[I] /\ Begun(I, pc')
        BY <1>1, <1>2, <1>4, <3>1, <3>3, CallsBefore
      <4>2. QED
        BY <1>1, <3>1, <4>1 DEF BootPage
    <3>4. QED
      BY <3>2, <3>3
  <2>2. PICK lv, up : Shape(pt, lv, up)
    BY DEF TablesNow, TablesOk, Trees, TreesGiven
  <2>3. ASSUME NEW r \in Roots, NEW va \in Page, NEW i \in 1 .. Depth
        PROVE  LET t == TableIn(pt, r, va, i)
               IN  t \in {Nil, r} \/ MapsTo(pt, r, t) # Nil \/ BootPage(mmu', pc', next', r, t)
    <3> DEFINE t == TableIn(pt, r, va, i)
    <3>1. t # Nil => t \in TablePage
      BY <2>2, TableLevel
    <3>2. t \in {Nil, r} \/ MapsTo(pt, r, t) # Nil \/ BootPage(mmu, pc, next, r, t)
      BY DEF ReachInv, TablesMapped
    <3> HIDE DEF t
    <3>3. t \in {Nil, r} \/ MapsTo(pt, r, t) # Nil \/ BootPage(mmu', pc', next', r, t)
      BY <2>1, <3>1, <3>2
    <3>4. QED
      BY <3>3 DEF t
  <2>4. QED
    BY <1>1, <2>3 DEF TablesMapped
<1>13. WithinDemand'
  <2>1. ASSUME NEW I \in Image, ~ mmu[I]
        PROVE  next[I][BootPool] - 1
                  <= Cardinality(PagesFor(I, pc')) + Cardinality(Grown(pt', I, pc'))
    <3>1. /\ Cardinality(PagesFor(I, pc)) \in Nat /\ Cardinality(PagesFor(I, pc')) \in Nat
          /\ Cardinality(Grown(pt, I, pc)) \in Nat /\ Cardinality(Grown(pt', I, pc')) \in Nat
          /\ Cardinality(PagesFor(I, pc)) <= Cardinality(PagesFor(I, pc'))
          /\ Cardinality(Grown(pt, I, pc)) <= Cardinality(Grown(pt', I, pc'))
      <4>1. NoLoss(pt, pt', Root[I])
        BY <1>1 DEF NoLoss
      <4>2. QED
        BY <1>1, <1>2, <4>1, DemandGrows
    <3>2. next[I][BootPool] - 1 <= Cardinality(PagesFor(I, pc)) + Cardinality(Grown(pt, I, pc))
      BY <2>1 DEF ReachInv, WithinDemand
    <3>3. next[I][BootPool] \in Nat
      BY ReachTypes
    <3>4. QED
      BY <3>1, <3>2, <3>3
  <2>2. \A I \in Image : ~ mmu'[I] => ~ mmu[I]
    BY <1>4
  <2>3. QED
    BY <1>1, <2>1, <2>2 DEF WithinDemand
<1>14. QED
  BY <1>5, <1>6, <1>7, <1>8, <1>10, <1>11, <1>12, <1>13 DEF ReachInv

----------------------------------------------------------------------------
\* The outer activation stays at its page, whatever a walk does.
OuterStays == frames' # <<>> => /\ frames # <<>> /\ frames'[1].img = frames[1].img
                                /\ frames'[1].va = frames[1].va

\* A step of a walk that only follows or extends it.
LEMMA OnTheWay ==
    ASSUME TablesNow, TablesThen, ReachInv, frames # <<>>, frames' # <<>>, OuterStays,
           pc' = pc, heap' = heap, mmu' = mmu, SameMaps, NewMapped', WithinDemand', Forward,
           TablesMapped'
    PROVE  ReachInv'
<1>1. pc' <= Len(Program) + 1 /\ pc \in Nat
  BY ReachTypes
<1>2. OnBooted' /\ HeapUsed'
  BY <1>1, OnBootedKept, HeapUsedKept DEF ReachInv
<1>3. \A r \in Roots, p \in TablePage : MapsTo(pt', r, p) = MapsTo(pt, r, p)
  BY DepthFacts DEF SameMaps
<1>4. SelfMapped'
  BY <1>3 DEF ReachInv, SelfMapped
<1>5. ShownMapped'
  <2>1. ASSUME NEW n \in 1 .. pc - 1, Program[n].va \in TablePage
        PROVE  Root[Program[n].img] \in Roots
    <3>1. n \in 1 .. Len(Program)
      BY ReachTypes
    <3>2. QED
      BY <3>1, CallFacts
  <2>2. QED
    BY <1>3, <2>1 DEF ReachInv, ShownMapped
<1>6. RootsMapped'
  BY <1>3, CallFacts DEF ReachInv, RootsMapped
<1>7. InProgress'
  BY DEF ReachInv, InProgress, OuterStays
<1>8. QED
  BY <1>2, <1>4, <1>5, <1>6, <1>7 DEF ReachInv

\* mem_map_pa() follows a descriptor.
LEMMA DescendReach ==
    ASSUME TablesNow, TablesThen, ReachInv, Descend, pc' = pc, heap' = heap
    PROVE  ReachInv'
<1> DEFINE f == Below(Top, Here(Top))
<1>1. /\ frames # <<>> /\ frames' = SetTop(f) /\ pt' = pt /\ next' = next /\ mmu' = mmu
  BY DEF Descend, Walking
<1>2. /\ Len(frames) \in {1, 2} /\ Len(frames') \in {1, 2}
      /\ Len(frames) = 1 => Top = frames[1]
      /\ frames \in Seq(FrameType) /\ frames' \in Seq(FrameType)
  <2>1. frames # <<>> => /\ Len(frames) \in {1, 2} /\ frames \in Seq(FrameType)
                         /\ Len(frames) = 1 => Top = frames[1]
    BY TopTypes DEF TablesNow, TablesOk, ValuesOk
  <2>2. frames' \in Seq(FrameType)
    BY DEF TablesThen, TablesOk, ValuesOk
  <2>3. Len(frames') = Len(frames)
    BY <1>1, <2>1, LenProperties DEF SetTop
  <2>4. QED
    BY <1>1, <2>1, <2>2, <2>3
<1>3. /\ Len(frames') = Len(frames) /\ frames' # <<>>
      /\ Len(frames) = 2 => frames'[1] = frames[1]
      /\ Len(frames) = 1 => frames'[1] = f
  BY <1>1, <1>2 DEF SetTop
<1>a. f.img = Top.img /\ f.va = Top.va /\ f.new = Nil
  BY <1>1, TopTypes DEF Below, FrameType
<1> HIDE DEF f
<1>4. OuterStays /\ NewMapped'
  <2>1. frames'[1].img = frames[1].img /\ frames'[1].va = frames[1].va
    BY <1>2, <1>3, <1>a
  <2>2. Len(frames') = 1 => frames'[1].new = Nil
    BY <1>2, <1>3, <1>a
  <2>3. QED
    BY <1>1, <2>1, <2>2 DEF OuterStays, NewMapped
<1>5. SameMaps /\ Keeps /\ Forward
  BY <1>1, ReachTypes DEF SameMaps, Keeps, Forward
<1>6. TablesMapped'
  BY <1>1, <1>5, TablesMappedKept DEF ReachInv
<1>7. WithinDemand'
  BY <1>1, <1>5, ReachTypes, WithinDemandKept DEF ReachInv
<1>8. QED
  BY <1>1, <1>3, <1>4, <1>5, <1>6, <1>7, OnTheWay

\* mem_map_pa() takes a page and calls itself; its image runs with the MMU on.
LEMMA GrowReach ==
    ASSUME TablesNow, TablesThen, ReachInv, Grow, pc' = pc, heap' = heap
    PROVE  ReachInv'
<1> DEFINE I == Top.img
           p == Pool[I]["pa"][next[I]["pa"]]
<1>1. /\ frames # <<>> /\ Len(frames) = 1 /\ frames' # <<>> /\ Len(frames') = 2
      /\ frames'[1] = [Top EXCEPT !.new = p] /\ mmu[I] /\ mmu' = mmu /\ pt' = pt
      /\ I \in Image /\ next' = [next EXCEPT ![I]["pa"] = @ + 1]
  BY GrowFacts
<1>2. Top \in FrameType /\ Top = frames[1]
  BY <1>1, TopTypes
<1>3. OuterStays
  BY <1>1, <1>2 DEF OuterStays, FrameType
<1>4. NewMapped'
  BY <1>1 DEF NewMapped
<1> HIDE DEF I, p
<1>5. ASSUME NEW J \in Image
      PROVE  /\ next'[J][BootPool] \in {next[J][BootPool], next[J][BootPool] + 1}
             /\ ~ mmu[J] => next'[J][BootPool] = next[J][BootPool]
  <2>1. /\ next \in [Image -> [PoolName -> Nat \ {0}]] /\ BootPool \in PoolName
        /\ "pa" \in PoolName
    BY ReachTypes DEF PoolName
  <2>2. J # I => next'[J] = next[J]
    BY <1>1, <2>1
  <2>3. next'[I] = [next[I] EXCEPT !["pa"] = @ + 1]
    BY <1>1, <2>1
  <2>4. next'[I][BootPool] \in {next[I][BootPool], next[I][BootPool] + 1}
    BY <1>1, <2>1, <2>3
  <2>5. QED
    BY <1>1, <2>2, <2>4
<1>6. SameMaps /\ Keeps
  BY <1>1 DEF SameMaps, Keeps
<1>7. Forward
  <2>1. \A J \in Image : next'[J][BootPool] \in Nat /\ next'[J][BootPool] >= next[J][BootPool]
    BY <1>5, ReachTypes
  <2>2. QED
    BY <1>1, <2>1 DEF Forward
<1>8. TablesMapped'
  BY <1>1, <1>6, <1>7, TablesMappedKept DEF ReachInv
<1>9. WithinDemand'
  BY <1>5, <1>6, <1>7, ReachTypes, WithinDemandKept DEF ReachInv
<1>10. QED
  BY <1>1, <1>3, <1>4, <1>6, <1>7, <1>8, <1>9, OnTheWay

\* mem_map_pa() enters the page that the inner call has mapped.
LEMMA LinkReach ==
    ASSUME TablesNow, TablesThen, ReachInv, Link, pc' = pc, heap' = heap
    PROVE  ReachInv'
<1> DEFINE p == Top.new
           r == Root[Top.img]
<1>1. /\ Enters(r, p) /\ p \in PoolPages /\ frames # <<>> /\ Len(frames) = 1
      /\ frames' # <<>> /\ Len(frames') = 1 /\ frames'[1] = Below(Top, p) /\ mmu[Top.img]
      /\ next' = next /\ mmu' = mmu
  BY LinkedFacts
<1>2. Top \in FrameType /\ Top = frames[1]
  BY <1>1, TopTypes
<1>3. OuterStays /\ NewMapped'
  BY <1>1, <1>2 DEF OuterStays, NewMapped, FrameType, Below
<1>4. MapsTo(pt, r, p) # Nil
  BY <1>1, <1>2, DepthFacts DEF ReachInv, NewMapped, Link
<1> HIDE DEF p, r
<1>5. SameMaps
  BY LinkStep
<1>6. Keeps
  BY <1>1, <1>5, EntersKeep
<1>7. Forward
  BY <1>1, ReachTypes DEF Forward
<1>8. p \in Page
  BY <1>1 DEF PoolPages
<1>9. ASSUME NEW s \in Roots, NEW vb \in Page, NEW i \in 1 .. Depth
      PROVE  LET t == TableIn(pt', s, vb, i)
             IN  t \in {Nil, TableIn(pt, s, vb, i)} \/ MapsTo(pt', s, t) # Nil
  <2>1. CASE TableIn(pt', s, vb, i) = p
    <3>1. s = r
      BY <1>1, <2>1 DEF Enters
    <3>2. MapsTo(pt', s, p) # Nil
      BY <1>4, <1>5, <1>8, <3>1 DEF SameMaps
    <3>3. QED
      BY <2>1, <3>2
  <2>2. CASE TableIn(pt', s, vb, i) # p
    <3>1. TableIn(pt', s, vb, i) \in {Nil, TableIn(pt, s, vb, i)}
      BY <1>1, <2>2 DEF Enters
    <3>2. QED
      BY <3>1
  <2>3. QED
    BY <2>1, <2>2
<1>10. TablesMapped'
  BY <1>6, <1>7, <1>9, TablesMappedKept DEF ReachInv
<1>11. WithinDemand'
  BY <1>1, <1>6, <1>7, ReachTypes, WithinDemandKept DEF ReachInv
<1>12. QED
  BY <1>1, <1>3, <1>5, <1>7, <1>10, <1>11, OnTheWay

\* A booting image takes a table where its call at hand finds none.
LEMMA TableTaken ==
    ASSUME TablesNow, ReachInv, BootGrow, pc' = pc
    PROVE  WithinDemand'
<1> DEFINE I == Top.img
           va == Top.va
           l == Top.lvl + 1
<1>1. /\ TableIn(pt, Root[I], va, l) = Nil /\ TableIn(pt', Root[I], va, l) # Nil
      /\ l \in 2 .. Depth /\ ~ mmu[I] /\ frames # <<>> /\ Len(frames) = 1
      /\ next' = [next EXCEPT ![I][BootPool] = @ + 1] /\ mmu' = mmu
      /\ Enters(Root[I], Pool[I][BootPool][next[I][BootPool]])
  BY BootGrowFacts
<1>2. SameMaps
  BY BootGrowStep
<1>3. Keeps
  BY <1>1, <1>2, EntersKeep
<1>4. /\ Top = frames[1] /\ Outer(Top, pc) /\ I \in Image /\ va \in Page /\ Top.pa \in Page
      /\ Root[I] \in Roots /\ pc - 1 \in 1 .. Len(Program) /\ (pc - 1) + 1 = pc
      /\ pc \in Nat \ {0}
  BY <1>1, TopTypes, ReachTypes
<1> DEFINE n == pc - 1
<1>5. /\ n \in 1 .. Len(Program) /\ n \in Nat \ {0} /\ pc = n + 1
      /\ Program[n].img = I /\ Spaces!Asked(Program[n], Root[I], va, Top.pa)
  BY <1>4 DEF Outer
<1> HIDE DEF I, va, l, n
<1>6. ~ Booted(I, n)
  BY <1>1, <1>4, <1>5, CallsBefore DEF ReachInv, OnBooted
<1>7. Program[n].op \notin {"heap", "map_ref"}
  BY <1>5, <1>6, BootAssumption
<1>8. Program[n].op \in {"map_pa", "map_va"} /\ Program[n].va = va
  <2>1. Top.pa # Nil
    BY <1>4, PageAssumption
  <2>2. QED
    BY <1>5, <1>7, <2>1 DEF Spaces!Asked
<1>9. n \in BootCalls(I, pc)
  BY <1>5, <1>8, CallsBefore DEF BootCalls
<1>10. <<n, l>> \in Filled(pt', I, pc)
  BY <1>1, <1>8, <1>9 DEF Filled, Steps
<1>11. Prefix(va, l) \in Grown(pt', I, pc)
  BY <1>8, <1>10 DEF Grown
<1>12. Prefix(va, l) \notin Grown(pt, I, pc)
  <2>1. ASSUME NEW x \in Filled(pt, I, pc), Prefix(Program[x[1]].va, x[2]) = Prefix(va, l)
        PROVE  FALSE
    <3> DEFINE vb == Program[x[1]].va
    <3>1. /\ x[1] \in BootCalls(I, pc) /\ x[2] \in 2 .. Depth
          /\ TableIn(pt, Root[I], vb, x[2]) # Nil
      BY DEF Filled, Steps
    <3>2. x[1] \in 1 .. Len(Program)
      BY <1>4, <3>1, CallFacts DEF BootCalls
    <3>3. vb \in Page
      BY <3>2, CallFacts
    <3> HIDE DEF vb
    <3>4. x[2] = l /\ [k \in 1 .. x[2] - 1 |-> Index[vb][k]] = [k \in 1 .. l - 1 |-> Index[va][k]]
      BY <2>1 DEF Prefix, vb
    <3>5. \A k \in 1 .. l - 1 : Index[vb][k] = Index[va][k]
      BY <3>4
    <3>6. l \in 1 .. Depth
      BY <1>1, DepthFacts
    <3>7. TableIn(pt, Root[I], vb, l) = TableIn(pt, Root[I], va, l)
      BY <1>4, <3>3, <3>5, <3>6, SamePrefix DEF va
    <3>8. QED
      BY <1>1, <3>1, <3>4, <3>7
  <2>2. QED
    BY <2>1 DEF Grown
<1>13. ASSUME NEW J \in Image, ~ mmu[J]
       PROVE  next'[J][BootPool] - 1
                 <= Cardinality(PagesFor(J, pc)) + Cardinality(Grown(pt', J, pc))
  <2>1. /\ next \in [Image -> [PoolName -> Nat \ {0}]] /\ BootPool \in PoolName
        /\ next[J][BootPool] \in Nat /\ Root[J] \in Roots /\ pc <= Len(Program) + 1
    BY ReachTypes, CallFacts
  <2>2. NoLoss(pt, pt', Root[J])
    BY <1>3, <2>1 DEF Keeps, NoLoss
  <2>3. /\ Grown(pt, J, pc) \subseteq Grown(pt', J, pc) /\ IsFiniteSet(Grown(pt', J, pc))
        /\ Cardinality(PagesFor(J, pc)) \in Nat
        /\ Cardinality(Grown(pt, J, pc)) \in Nat /\ Cardinality(Grown(pt', J, pc)) \in Nat
        /\ Cardinality(Grown(pt, J, pc)) <= Cardinality(Grown(pt', J, pc))
    BY <1>4, <2>1, <2>2, DemandGrows
  <2>4. next[J][BootPool] - 1 <= Cardinality(PagesFor(J, pc)) + Cardinality(Grown(pt, J, pc))
    BY <1>13 DEF ReachInv, WithinDemand
  <2>5. CASE J = I
    <3>1. Cardinality(Grown(pt, J, pc)) + 1 <= Cardinality(Grown(pt', J, pc))
      BY <1>11, <1>12, <2>3, <2>5, OneMoreCounts
    <3>2. next'[J][BootPool] = next[J][BootPool] + 1
      BY <1>1, <2>1, <2>5
    <3>3. QED
      BY <2>1, <2>3, <2>4, <3>1, <3>2
  <2>6. CASE J # I
    <3>1. next'[J][BootPool] = next[J][BootPool]
      BY <1>1, <2>1, <2>6
    <3>2. QED
      BY <2>1, <2>3, <2>4, <3>1
  <2>7. QED
    BY <2>5, <2>6
<1>14. QED
  BY <1>1, <1>13 DEF WithinDemand

\* map_va_to_pa() enters a page of the pool, which is mapped by the time the MMU is on.
LEMMA BootGrowReach ==
    ASSUME TablesNow, TablesThen, ReachInv, BootGrow, pc' = pc, heap' = heap
    PROVE  ReachInv'
<1> DEFINE I == Top.img
           p == Pool[I][BootPool][next[I][BootPool]]
<1>1. /\ Enters(Root[I], p) /\ frames # <<>> /\ Len(frames) = 1
      /\ frames' # <<>> /\ Len(frames') = 1 /\ frames'[1] = Below(Top, p)
      /\ ~ mmu[I] /\ mmu' = mmu /\ next[I][BootPool] \in 1 .. Len(Pool[I][BootPool])
      /\ next' = [next EXCEPT ![I][BootPool] = @ + 1]
  BY BootGrowFacts
<1>2. /\ Top \in FrameType /\ Top = frames[1] /\ I \in Image /\ Outer(Top, pc)
      /\ pc - 1 \in 1 .. Len(Program)
  BY <1>1, TopTypes
<1>3. OuterStays /\ NewMapped'
  BY <1>1, <1>2 DEF OuterStays, NewMapped, FrameType, Below
<1>4. Begun(I, pc)
  BY <1>2 DEF Begun, Outer
<1> HIDE DEF I
<1>5. SameMaps
  BY BootGrowStep
<1> HIDE DEF p
<1>6. Keeps
  BY <1>1, <1>5, EntersKeep
<1>7. /\ next \in [Image -> [PoolName -> Nat \ {0}]] /\ BootPool \in PoolName
      /\ \A J \in Image : next[J][BootPool] \in Nat
  BY ReachTypes
<1>8. next'[I][BootPool] = next[I][BootPool] + 1
  BY <1>1, <1>2, <1>7
<1>9. Forward
  <2>1. \A J \in Image : next'[J][BootPool] \in {next[J][BootPool], next[J][BootPool] + 1}
    BY <1>1, <1>2, <1>7
  <2>2. \A J \in Image : next'[J][BootPool] \in Nat /\ next'[J][BootPool] >= next[J][BootPool]
    BY <1>7, <2>1
  <2>3. QED
    BY <1>1, <2>2 DEF Forward
<1>10. BootPage(mmu', pc', next', Root[I], p)
  <2>1. next[I][BootPool] < next'[I][BootPool]
    BY <1>2, <1>7, <1>8
  <2>2. QED
    BY <1>1, <1>2, <1>4, <2>1 DEF BootPage, p
<1>11. TablesMapped'
  <2>1. ASSUME NEW s \in Roots, NEW vb \in Page, NEW i \in 1 .. Depth
        PROVE  LET t == TableIn(pt', s, vb, i)
               IN  \/ t \in {Nil, TableIn(pt, s, vb, i)} \/ MapsTo(pt', s, t) # Nil
                   \/ BootPage(mmu', pc', next', s, t)
    BY <1>1, <1>10 DEF Enters
  <2>2. QED
    BY <1>6, <1>9, <2>1, TablesMappedKept DEF ReachInv
<1>12. WithinDemand'
  BY TableTaken
<1>13. QED
  BY <1>1, <1>3, <1>5, <1>9, <1>11, <1>12, OnTheWay

\* The last level: the page that is mapped is the one the call at hand changes, or
\* a table page at its own address.
LEMMA SetLeafReach ==
    ASSUME TablesNow, TablesThen, ReachInv, SetLeaf, pc' = pc, heap' = heap
    PROVE  ReachInv'
<1> DEFINE r == Root[Top.img]
           va == Top.va
<1>1. /\ SameTables
      /\ Len(frames) = 1 => frames' = <<>>
      /\ Len(frames) = 2 => Len(frames') = 1 /\ frames'[1] = frames[1]
      /\ \E e \in Page : Sets(r, va, e) /\ (e = Top.pa \/ (~ mmu[Top.img] /\ pt' = pt))
  BY SetLeafFacts
<1>2. PICK e \in Page : Sets(r, va, e) /\ (e = Top.pa \/ (~ mmu[Top.img] /\ pt' = pt))
  BY <1>1
<1>3. frames # <<>> /\ next' = next /\ mmu' = mmu
  BY DEF SetLeaf, Walking
<1>4. /\ Len(frames) \in {1, 2} /\ Top \in FrameType /\ frames[1] \in FrameType
      /\ Len(frames) = 1 => Top = frames[1]
      /\ Top.img \in Image /\ r \in Roots /\ va \in Page /\ Top.pa \in Page
      /\ Outer(frames[1], pc)
      /\ Len(frames) = 2 => Inner(frames[1], Top)
      /\ pc \in Nat /\ pc - 1 \in 1 .. Len(Program)
  BY <1>3, TopTypes
<1>5. e # Nil
  BY PageAssumption
<1> HIDE DEF r, va
<1>6. \A s \in Roots, p \in TablePage : MapsTo(pt', s, p) = MapsTo(pt, s, p) \/ MapsTo(pt', s, p) = e
  BY <1>2, DepthFacts DEF Sets
<1>7. Keeps
  BY <1>1, <1>5, <1>6, SameTablesKeep
<1>8. Forward
  BY <1>3, ReachTypes DEF Forward
<1>9. TablesMapped'
  BY <1>1, <1>7, <1>8, TablesMappedKept DEF ReachInv, SameTables
<1>10. WithinDemand'
  BY <1>3, <1>7, <1>8, ReachTypes, WithinDemandKept DEF ReachInv
<1>11. OnBooted' /\ RootsMapped' /\ HeapUsed'
  BY <1>4, <1>7, <1>8, OnBootedKept, RootsMappedKept, HeapUsedKept DEF ReachInv
<1>12. InProgress'
  <2>1. CASE Len(frames) = 1
    BY <1>1, <2>1 DEF InProgress
  <2>2. CASE Len(frames) = 2
    BY <1>1, <1>3, <2>2 DEF ReachInv, InProgress
  <2>3. QED
    BY <1>4, <2>1, <2>2
<1>13. NewMapped'
  <2>1. CASE Len(frames) = 1
    BY <1>1, <2>1 DEF NewMapped
  <2>2. CASE Len(frames) = 2
    <3>1. frames'[1].new = va /\ Root[frames'[1].img] = r
      BY <1>1, <1>4, <2>2 DEF Inner, r, va
    <3>2. MapsTo(pt', r, va) = e
      BY <1>2, <1>4 DEF Sets
    <3>3. QED
      BY <1>5, <3>1, <3>2 DEF NewMapped
  <2>3. QED
    BY <1>4, <2>1, <2>2
<1>14. ShownMapped'
  <2>1. ASSUME frames' = <<>>, Program[pc - 1].op = "map_pa"
        PROVE  MapsTo(pt', Root[Program[pc - 1].img], Program[pc - 1].va) # Nil
    <3>1. Len(frames) = 1 /\ Top = frames[1]
      BY <1>1, <1>4, <2>1
    <3>2. Program[pc - 1].va = va /\ Root[Program[pc - 1].img] = r
      BY <1>4, <2>1, <3>1 DEF Outer, Spaces!Asked, r, va
    <3>3. QED
      BY <1>2, <1>4, <1>5, <3>2 DEF Sets
  <2>2. pc' = pc /\ pc' <= Len(Program) + 1 /\ pc' # pc + 1
    BY ReachTypes
  <2>3. QED
    BY <1>3, <1>7, <2>1, <2>2, ShownMappedKept DEF ReachInv
<1>15. SelfMapped'
  <2>1. CASE pt' = pt
    BY <2>1 DEF ReachInv, SelfMapped
  <2>2. CASE e = Top.pa
    <3>1. va \in TablePage => Top.pa = va
      <4>1. CASE Len(frames) = 2
        BY <1>4, <4>1 DEF Inner, va
      <4>2. CASE Len(frames) = 1
        <5> DEFINE n == pc - 1
        <5>1. /\ n \in 1 .. Len(Program) /\ Program[n].img = Top.img
              /\ Spaces!Asked(Program[n], r, va, Top.pa) /\ Changes(n, r, va)
          BY <1>3, <1>4, <4>2 DEF Outer, ReachInv, InProgress, r, va
        <5>2. Program[n].img \in Image
          BY <1>4, <5>1
        <5> HIDE DEF n
        <5>3. ASSUME va \in TablePage
              PROVE  Top.pa = va
          <6>1. Program[n].op # "heap"
            BY <5>1, <5>2, <5>3, TablePageAssumption DEF Changes
          <6>2. Program[n].op = "map_pa" /\ Program[n].pa = Program[n].va /\ Program[n].va = va
            BY <5>1, <5>3, <6>1, TablePageAssumption DEF Changes
          <6>3. QED
            BY <5>1, <6>2 DEF Spaces!Asked
        <5>4. QED
          BY <5>3
      <4>3. QED
        BY <1>4, <4>1, <4>2
    <3>2. ASSUME NEW s \in Roots, NEW p \in TablePage
          PROVE  MapsTo(pt', s, p) \in {Nil, p}
      <4>1. p \in Page
        BY DepthFacts
      <4>2. CASE s = r /\ p = va
        BY <1>2, <2>2, <3>1, <4>1, <4>2 DEF Sets
      <4>3. CASE ~ (s = r /\ p = va)
        <5>1. MapsTo(pt', s, p) = MapsTo(pt, s, p)
          BY <1>2, <4>1, <4>3 DEF Sets
        <5>2. QED
          BY <5>1 DEF ReachInv, SelfMapped
      <4>4. QED
        BY <4>2, <4>3
    <3>3. QED
      BY <3>2 DEF SelfMapped
  <2>3. QED
    BY <1>2, <2>1, <2>2
<1>16. QED
  BY <1>9, <1>10, <1>11, <1>12, <1>13, <1>14, <1>15 DEF ReachInv

----------------------------------------------------------------------------
\* At reset nothing is mapped and no image has begun.
LEMMA ReachInit == MemInit => ReachInv
<1> SUFFICES ASSUME MemInit PROVE ReachInv
  OBVIOUS
<1>1. /\ pt = [t \in TablePage |-> [j \in Slot |-> Nil]] /\ frames = <<>>
      /\ next = [I \in Image |-> [k \in PoolName |-> 1]]
      /\ mmu = [I \in Image |-> FALSE] /\ heap = [I \in Image |-> 1] /\ pc = 1
  BY DEF MemInit, PtInit
<1>2. TablesNow
  BY MemInitInv DEF MemInv, TablesNow
<1>3. 1 .. pc - 1 = {}
  BY <1>1
<1>4. OnBooted
  BY <1>1, <1>3 DEF OnBooted, Booted
<1>5. HeapUsed
  <2>1. \A I \in Image : HeapCalls(I, pc) = {}
    BY <1>3 DEF HeapCalls
  <2>2. Cardinality({}) = 0
    BY FS_EmptySet
  <2>3. ASSUME NEW I \in Image
        PROVE  heap[I] = Cardinality(HeapCalls(I, pc)) + 1
    <3>1. Cardinality(HeapCalls(I, pc)) = 0 /\ heap[I] = 1
      BY <1>1, <2>1, <2>2, Zenon
    <3>2. QED
      BY <3>1
  <2>4. QED
    BY <2>3 DEF HeapUsed
<1>6. InProgress /\ NewMapped /\ ShownMapped /\ RootsMapped
  BY <1>1, <1>3 DEF InProgress, NewMapped, ShownMapped, RootsMapped
<1>7. \A t \in TablePage, j \in Slot : pt[t][j] = Nil
  BY <1>1
<1>8. PICK lv, up : Shape(pt, lv, up)
  BY <1>2 DEF TablesNow, TablesOk, Trees, TreesGiven
<1>9. SelfMapped
  <2>1. ASSUME NEW r \in Roots, NEW va \in Page
        PROVE  MapsTo(pt, r, va) = Nil
    <3>1. LeafIn(pt, r, va) # Nil => LeafIn(pt, r, va) \in TablePage
      BY <1>2, WalkTypes DEF Leaf
    <3>2. Index[va][Depth] \in Slot
      BY DepthFacts
    <3>3. QED
      BY <1>7, <3>1, <3>2 DEF MapsTo, Entry
  <2>2. QED
    BY <2>1, DepthFacts DEF SelfMapped
<1>10. TablesMapped
  <2>1. ASSUME NEW r \in Roots, NEW va \in Page, NEW i \in 1 .. Depth
        PROVE  TableIn(pt, r, va, i) \in {Nil, r}
    <3>1. CASE i = 1
      BY <3>1 DEF TableIn
    <3>2. CASE i # 1
      <4>1. i - 1 \in 1 .. Depth - 1 /\ (i - 1) + 1 = i /\ i - 1 \in 1 .. Depth
        BY <3>2, DepthFacts
      <4> DEFINE t == TableIn(pt, r, va, i - 1)
      <4>2. TableIn(pt, r, va, (i - 1) + 1) = Entry(pt, t, va, i - 1)
        BY <4>1, TableStep
      <4>3. t # Nil => t \in TablePage
        BY <1>8, <4>1, TableLevel
      <4>4. Index[va][i - 1] \in Slot
        BY <4>1, DepthFacts
      <4> HIDE DEF t
      <4>5. QED
        BY <1>7, <4>1, <4>2, <4>3, <4>4 DEF Entry
    <3>3. QED
      BY <3>1, <3>2
  <2>2. QED
    BY <2>1 DEF TablesMapped
<1>11. WithinDemand
  <2>1. ASSUME NEW I \in Image
        PROVE  next[I][BootPool] - 1
                  <= Cardinality(PagesFor(I, pc)) + Cardinality(Grown(pt, I, pc))
    <3>1. next[I][BootPool] = 1
      BY <1>1, <1>2, ReachTypes
    <3>2. IsFiniteSet(PagesFor(I, pc)) /\ IsFiniteSet(Grown(pt, I, pc))
      BY <1>1, DemandFinite
    <3>3. Cardinality(PagesFor(I, pc)) \in Nat /\ Cardinality(Grown(pt, I, pc)) \in Nat
      BY <3>2, FS_CardinalityType
    <3>4. QED
      BY <3>1, <3>3
  <2>2. QED
    BY <2>1 DEF WithinDemand
<1>12. QED
  BY <1>4, <1>5, <1>6, <1>9, <1>10, <1>11 DEF ReachInv

\* Every step keeps it.
LEMMA ReachNext ==
    ASSUME MemInv, MemInv', ReachInv, [Next]_vars
    PROVE  ReachInv'
<1>1. TablesNow /\ MemTypeOK /\ TablesThen
  BY DEF MemInv, TablesNow, TablesThen
<1>2. CASE mem_map_pa \/ MapRef \/ mem_map_va \/ mem_heap_allocate
  BY <1>1, <1>2, MapCallsReach
<1>3. CASE Walk
  <2>1. WalkStep /\ pc' = pc /\ heap' = heap
    BY <1>3 DEF Walk
  <2>2. QED
    BY <1>1, <2>1, DescendReach, BootGrowReach, GrowReach, LinkReach, SetLeafReach DEF WalkStep
<1>4. CASE Unmap
  BY <1>1, <1>4, UnmapReach
<1>5. CASE MmuOn
  BY <1>1, <1>5, MmuOnReach
<1>6. CASE Lookup \/ Access \/ Copy \/ Abort \/ UNCHANGED vars
  <2>1. /\ pt' = pt /\ next' = next /\ frames' = frames /\ mmu' = mmu /\ heap' = heap
        /\ pc' \in {pc, pc + 1}
    BY <1>6 DEF Lookup, Access, Copy, Abort, Return, vars, ptvars, memvars
  <2>2. pc' = pc + 1 => frames = <<>> /\ Program[pc].op \notin {"map_pa", "heap", "mmu_on"}
    <3>1. CASE Lookup \/ Access \/ Copy
      <4>1. frames = <<>> /\ Op.op \in {"lookup", "block", "use", "check", "entry", "copy"}
        BY <3>1 DEF Lookup, Access, Copy, At, Ready
      <4>2. QED
        BY <4>1 DEF Op
    <3>2. CASE Abort \/ UNCHANGED vars
      BY <1>1, <3>2, ReachTypes DEF Abort, vars, memvars
    <3>3. QED
      BY <1>6, <3>1, <3>2
  <2>3. QED
    BY <1>1, <2>1, <2>2, QuietReach
<1>7. QED
  BY <1>2, <1>3, <1>4, <1>5, <1>6 DEF Next, Step, Finished

\* The invariant of what is mapped.
THEOREM ReachInvariant == Spec => []ReachInv
  BY MemInvariant, ReachInit, ReachNext, PTL DEF Spec

\* Whoever runs is not interrupted while it builds tables under a root it shares.
LEMMA RunningSettled ==
    ASSUME TablesNow, ReachInv, NEW I \in Running, mmu[I]
    PROVE  I \in Image /\ \A J \in Image : Root[J] = Root[I] /\ Begun(J, pc) => mmu[J]
<1>1. /\ pc \in Nat \ {0} /\ pc \in 1 .. Len(Program) + 1 /\ Len(Program) \in Nat
  BY ReachTypes
<1>2. \A J \in Image : mmu[J] <=> Booted(J, pc)
  BY DEF ReachInv, OnBooted
<1>3. CASE frames # <<>>
  <2> DEFINE n == pc - 1
  <2>1. /\ n \in 1 .. Len(Program) /\ pc = n + 1 /\ n \in Nat \ {0} /\ I \in Image
        /\ I = Program[n].img
    <3>1. I = Top.img
      BY <1>3 DEF Running
    <3>2. /\ pc - 1 \in 1 .. Len(Program) /\ Top.img \in Image
          /\ Outer(frames[1], pc) /\ Len(frames) \in {1, 2}
          /\ Len(frames) = 1 => Top = frames[1]
          /\ Len(frames) = 2 => Inner(frames[1], Top)
      BY <1>3, TopTypes
    <3>3. Top.img = frames[1].img
      BY <3>2 DEF Inner
    <3>4. QED
      BY <1>1, <3>1, <3>2, <3>3 DEF Outer
  <2>2. \/ Program[n].op = "mmu_on" \/ Booted(I, n)
    BY <1>2, <2>1, CallsBefore
  <2>3. Program[n].op # "mmu_on"
    <3>1. Outer(frames[1], pc)
      BY <1>3, TopTypes
    <3>2. QED
      BY <3>1 DEF Outer, Spaces!Asked
  <2>4. Settled(Root[I], n)
    BY <2>1, <2>2, <2>3, CallFacts, OrderAssumption
  <2> HIDE DEF n
  <2>5. ASSUME NEW J \in Image, Root[J] = Root[I], Begun(J, pc)
        PROVE  mmu[J]
    <3>1. Begun(J, n) \/ J = I
      BY <2>1, <2>5, CallsBefore
    <3>2. Booted(J, n) => Booted(J, pc)
      BY <2>1, CallsBefore
    <3>3. QED
      BY <1>2, <2>4, <2>5, <3>1, <3>2 DEF Settled
  <2>6. QED
    BY <2>1, <2>5
<1>4. CASE frames = <<>> /\ pc > Len(Program)
  <2>1. I \in Image /\ pc = Len(Program) + 1
    BY <1>1, <1>4 DEF Running, AtEnd
  <2>2. Settled(Root[I], pc)
    BY <2>1, CallFacts, OrderAssumption
  <2>3. QED
    BY <1>2, <2>1, <2>2 DEF Settled
<1>5. CASE frames = <<>> /\ ~ (pc > Len(Program))
  <2>1. pc \in 1 .. Len(Program)
    BY <1>1, <1>5
  <2>2. I = Program[pc].img
    BY <1>5 DEF Running, AtEnd, Op
  <2>3. I \in Image /\ Program[pc].root = Root[I]
    BY <2>1, <2>2, CallFacts
  <2>4. Settled(Root[I], pc)
    BY <1>2, <2>1, <2>2, <2>3, OrderAssumption
  <2>5. QED
    BY <1>2, <2>3, <2>4 DEF Settled
<1>6. QED
  BY <1>3, <1>4, <1>5

\* Whenever an image runs with its MMU on, every table page a walk can meet is
\* mapped at its own address: mem_map_pa() and mem_unmap_va() can follow and
\* change all their tables.
THEOREM TablesReachableCorrect == Spec => []TablesReachable
<1>1. ASSUME MemInv, ReachInv
      PROVE  TablesReachable
  <2>1. TablesNow
    BY <1>1 DEF MemInv, TablesNow
  <2>2. ASSUME NEW I \in Running, NEW va \in Page, NEW i \in 1 .. Depth,
               TableIn(pt, Root[I], va, i) # Nil, mmu[I]
        PROVE  MapsTo(pt, Root[I], TableIn(pt, Root[I], va, i)) = TableIn(pt, Root[I], va, i)
    <3> DEFINE t == TableIn(pt, Root[I], va, i)
               r == Root[I]
    <3>1. I \in Image /\ \A J \in Image : Root[J] = Root[I] /\ Begun(J, pc) => mmu[J]
      BY <1>1, <2>1, <2>2, RunningSettled
    <3>2. r \in Roots
      BY <3>1, CallFacts
    <3>3. PICK lv, up : Shape(pt, lv, up)
      BY <2>1 DEF TablesNow, TablesOk, Trees, TreesGiven
    <3>4. t \in TablePage
      BY <2>2, <3>2, <3>3, TableLevel
    <3>5. t \in {Nil, r} \/ MapsTo(pt, r, t) # Nil \/ BootPage(mmu, pc, next, r, t)
      BY <1>1, <3>2 DEF ReachInv, TablesMapped
    <3>6. MapsTo(pt, r, r) # Nil
      BY <1>1, <2>2, <3>1 DEF ReachInv, RootsMapped
    <3> HIDE DEF t
    <3>7. MapsTo(pt, r, t) # Nil
      BY <2>2, <3>1, <3>5, <3>6 DEF BootPage, t
    <3>8. MapsTo(pt, r, t) = t
      BY <1>1, <3>2, <3>4, <3>7 DEF ReachInv, SelfMapped
    <3>9. QED
      BY <3>8 DEF t
  <2>3. QED
    BY <2>2 DEF TablesReachable, WalkAccessible, Accessible, Table, Translate
<1>2. QED
  BY <1>1, MemInvariant, ReachInvariant, PTL

\* The next table page of a walk can always be accessed: mem_map_pa() and
\* map_va_to_pa() never end in a data abort.
THEOREM WalksNeverFault == Spec => []~ WalkFaults
<1>1. ASSUME MemInv, ReachInv, TablesReachable
      PROVE  ~ WalkFaults
  <2>1. SUFFICES ASSUME frames # <<>> PROVE Accessible(Top.img, Top.tbl)
    BY DEF WalkFaults
  <2>2. TablesNow
    BY <1>1 DEF MemInv, TablesNow
  <2>3. Top \in FrameType /\ FrameOk(Top, pt, mmu) /\ Top.va \in Page
    BY <2>1, <2>2, TopTypes
  <2>4. Top.img \in Running
    BY <2>1 DEF Running
  <2>5. /\ Top.lvl \in 1 .. Depth /\ Top.tbl # Nil
        /\ Top.tbl = Table(Root[Top.img], Top.va, Top.lvl)
    BY <2>3, DepthFacts DEF FrameType, FrameOk, Table
  <2>6. QED
    BY <1>1, <2>3, <2>4, <2>5 DEF TablesReachable, WalkAccessible
<1>2. QED
  BY <1>1, MemInvariant, ReachInvariant, TablesReachableCorrect, PTL

(***************************************************************************)
(* What the TLB still holds.                                               *)
(***************************************************************************)
\* A page that was used since its entry changed was used by an earlier call; an entry
\* that only the TLB may hold is older than the call that changed the page.
TouchedUsed ==
    status = "run" =>
        \A x \in touched : \E k \in 1 .. pc - 1 : Cached(k, x[1], x[2], pc)
StaleOutdated ==
    \A x \in stale : x[2] \in TablePage \/ Outdated(x[1], x[2], pc)

TlbInv == TouchedUsed /\ StaleOutdated

\* A call that does not empty the TLB leaves what it holds.
LEMMA StillCached ==
    ASSUME NEW n \in Nat \ {0}, NEW r, NEW va, ~ Drops(n, r)
    PROVE  /\ \A k \in 1 .. n - 1 : Cached(k, r, va, n) => Cached(k, r, va, n + 1)
           /\ Outdated(r, va, n) => Outdated(r, va, n + 1)
           /\ Uses(n, r, va) => Cached(n, r, va, n + 1)
           /\ Changes(n, r, va) /\ (\E k \in 1 .. n - 1 : Cached(k, r, va, n))
                 => Outdated(r, va, n + 1)
<1>1. \A k \in 1 .. n : \A j : j \in k .. (n + 1) - 1 <=> j \in k .. n - 1 \/ j = n
  OBVIOUS
<1>2. /\ \A k \in 1 .. n - 1 : k \in 1 .. n /\ k \in 1 .. (n + 1) - 1
      /\ n \in 1 .. n /\ n \in 1 .. (n + 1) - 1
      /\ \A m \in 1 .. n - 1 : \A k \in 1 .. m - 1 : k \in 1 .. n - 1
      /\ \A j : j \notin n .. n - 1
  OBVIOUS
<1>3. \A k \in 1 .. n - 1 : Cached(k, r, va, n) => Cached(k, r, va, n + 1)
  BY <1>1, <1>2 DEF Cached
<1>4. Outdated(r, va, n) => Outdated(r, va, n + 1)
  BY <1>2, <1>3 DEF Outdated
<1>5. Uses(n, r, va) => Cached(n, r, va, n + 1)
  BY <1>1, <1>2 DEF Cached
<1>6. Changes(n, r, va) /\ (\E k \in 1 .. n - 1 : Cached(k, r, va, n)) => Outdated(r, va, n + 1)
  BY <1>2, <1>3 DEF Outdated
<1>7. QED
  BY <1>3, <1>4, <1>5, <1>6

\* Two pages have one last-level entry only if they are one page.
LEMMA SameCell ==
    ASSUME TablesNow, NEW r \in Roots, NEW s \in Roots, NEW va \in Page, NEW vb \in Page,
           LeafIn(pt, r, va) = LeafIn(pt, s, vb), LeafIn(pt, r, va) # Nil,
           Index[va][Depth] = Index[vb][Depth]
    PROVE  r = s /\ va = vb
<1>1. PICK lv, up : Shape(pt, lv, up)
  BY DEF TablesNow, TablesOk, Trees, TreesGiven
<1>2. Depth \in 1 .. Depth /\ \A i \in 1 .. Depth : i = Depth \/ i \in 1 .. Depth - 1
  BY DepthFacts
<1>3. r = s /\ \A i \in 1 .. Depth - 1 : Index[va][i] = Index[vb][i]
  BY <1>1, <1>2, SamePath DEF LeafIn
<1>4. \A i \in 1 .. Depth : Index[va][i] = Index[vb][i]
  BY <1>2, <1>3
<1>5. QED
  BY <1>3, <1>4, IndexAssumption

\* A mapped page has a last-level table.
LEMMA MappedLeaf ==
    ASSUME NEW m, NEW r, NEW va, MapsTo(m, r, va) # Nil
    PROVE  LeafIn(m, r, va) # Nil
  BY DEF MapsTo, Entry

\* The view of a page is what it maps to and whether EL0 may use it.
LEMMA SameView ==
    ASSUME NEW s, NEW vb, MapsTo(pt', s, vb) = MapsTo(pt, s, vb),
           LeafIn(pt', s, vb) = LeafIn(pt, s, vb),
           <<LeafIn(pt, s, vb), Index[vb][Depth]>> \in user' <=>
              <<LeafIn(pt, s, vb), Index[vb][Depth]>> \in user
    PROVE  View(s, vb)' = View(s, vb)
<1>1. Translate(s, vb)' = Translate(s, vb)
  BY DEF Translate
<1>2. UserCan(s, vb)' = UserCan(s, vb)
  <2>1. UserCan(s, vb)' <=> <<LeafIn(pt', s, vb), Index[vb][Depth]>> \in user'
    BY DEF UserCan, Leaf
  <2>2. UserCan(s, vb) <=> <<LeafIn(pt, s, vb), Index[vb][Depth]>> \in user
    BY DEF UserCan, Leaf
  <2>3. UserCan(s, vb)' <=> UserCan(s, vb)
    BY <2>1, <2>2
  <2>4. UserCan(s, vb)' \in BOOLEAN /\ UserCan(s, vb) \in BOOLEAN
    BY DEF UserCan
  <2>5. QED
    BY <2>3, <2>4
<1>3. QED
  BY <1>1, <1>2 DEF View

\* The last step of a walk changes the view of its own page at most.
LEMMA SetLeafView ==
    ASSUME TablesNow, SetLeaf, NEW s \in Roots, NEW vb \in Page, Translate(s, vb) # Nil,
           View(s, vb)' # View(s, vb)
    PROVE  s = Root[Top.img] /\ vb = Top.va
<1> DEFINE f == Top
           r == Root[f.img]
           cell == <<f.tbl, Index[f.va][f.lvl]>>
<1>1. frames # <<>> /\ f.lvl = Depth
  BY DEF SetLeaf, Walking
<1>2. f \in FrameType /\ FrameOk(f, pt, mmu) /\ r \in Roots /\ f.va \in Page
  BY <1>1, TopTypes
<1>3. f.tbl = LeafIn(pt, r, f.va) /\ f.tbl # Nil
  BY <1>1, <1>2, DepthFacts DEF FrameOk, LeafIn, FrameType
<1>4. SUFFICES ASSUME ~ (s = r /\ vb = f.va) PROVE FALSE
  OBVIOUS
<1>5. MapsTo(pt', s, vb) = MapsTo(pt, s, vb) /\ LeafIn(pt', s, vb) = LeafIn(pt, s, vb)
  <2>1. SameTables /\ \E e \in Page : Sets(r, f.va, e)
    BY SetLeafFacts
  <2>2. Depth \in 1 .. Depth
    BY DepthFacts
  <2>3. QED
    BY <1>4, <2>1, <2>2 DEF Sets, SameTables, LeafIn
<1>6. LeafIn(pt, s, vb) # Nil
  BY MappedLeaf DEF Translate
<1>7. <<LeafIn(pt, s, vb), Index[vb][Depth]>> # cell
  BY <1>1, <1>2, <1>3, <1>4, <1>6, SameCell
<1>8. user' \in {user, user \cup {cell}, user \ {cell}}
  BY DEF SetLeaf
<1> HIDE DEF cell, f, r
<1>9. <<LeafIn(pt, s, vb), Index[vb][Depth]>> \in user' <=>
         <<LeafIn(pt, s, vb), Index[vb][Depth]>> \in user
  BY <1>7, <1>8
<1>10. View(s, vb)' = View(s, vb)
  BY <1>5, <1>9, SameView
<1>11. QED
  BY <1>10

\* So does mem_unmap_va().
LEMMA UnmapView ==
    ASSUME TablesNow, Unmap, NEW s \in Roots, NEW vb \in Page, Translate(s, vb) # Nil,
           View(s, vb)' # View(s, vb)
    PROVE  s = R /\ vb = Op.va
<1> DEFINE t == LeafIn(pt, R, Op.va)
           cell == <<t, Index[Op.va][Depth]>>
<1>1. /\ SameTables /\ Sets(R, Op.va, Nil) /\ R \in Roots /\ Op.va \in Page
      /\ mem_unmap_va(Op.img, Op.va)
  BY UnmapFacts DEF Unmap
<1>2. SUFFICES ASSUME ~ (s = R /\ vb = Op.va) PROVE FALSE
  OBVIOUS
<1>3. MapsTo(pt', s, vb) = MapsTo(pt, s, vb) /\ LeafIn(pt', s, vb) = LeafIn(pt, s, vb)
  <2>1. Depth \in 1 .. Depth
    BY DepthFacts
  <2>2. QED
    BY <1>1, <1>2, <2>1 DEF Sets, SameTables, LeafIn
<1>4. LeafIn(pt, s, vb) # Nil
  BY MappedLeaf DEF Translate
<1>5. user' = user \/ (t # Nil /\ user' = user \ {cell})
  BY <1>1 DEF mem_unmap_va, Leaf, R
<1>6. <<LeafIn(pt, s, vb), Index[vb][Depth]>> # cell
  BY <1>1, <1>2, <1>4, SameCell
<1> HIDE DEF cell, t
<1>7. <<LeafIn(pt, s, vb), Index[vb][Depth]>> \in user' <=>
         <<LeafIn(pt, s, vb), Index[vb][Depth]>> \in user
  BY <1>5, <1>6
<1>8. View(s, vb)' = View(s, vb)
  BY <1>3, <1>7, SameView
<1>9. QED
  BY <1>8

\* No other step of a walk changes the view of a mapped page.
LEMMA WalkView ==
    ASSUME TablesNow, Walk, NEW s \in Roots, NEW vb \in Page, Translate(s, vb) # Nil,
           View(s, vb)' # View(s, vb)
    PROVE  SetLeaf
<1>1. LeafIn(pt, s, vb) # Nil /\ Depth \in 1 .. Depth /\ pc' = pc
  BY MappedLeaf, DepthFacts DEF Translate, Walk
<1>2. ASSUME Descend \/ BootGrow \/ Grow \/ Link
      PROVE  View(s, vb)' = View(s, vb)
  <2>1. user' = user
    BY <1>2 DEF Descend, BootGrow, Grow, Link
  <2>2. MapsTo(pt', s, vb) = MapsTo(pt, s, vb)
    BY <1>1, <1>2, DescendStep, BootGrowStep, GrowStep, LinkStep DEF SameMaps
  <2>3. LeafIn(pt', s, vb) = LeafIn(pt, s, vb)
    <3>1. CASE Descend \/ Grow
      BY <3>1 DEF Descend, Grow
    <3>2. CASE BootGrow
      <4>1. \E r, p : Enters(r, p)
        BY <3>2, BootGrowFacts
      <4>2. QED
        BY <1>1, <4>1 DEF Enters, LeafIn
    <3>3. CASE Link
      <4>1. \E r, p : Enters(r, p)
        BY <3>3, LinkedFacts
      <4>2. QED
        BY <1>1, <4>1 DEF Enters, LeafIn
    <3>4. QED
      BY <1>2, <3>1, <3>2, <3>3
  <2>4. QED
    BY <2>1, <2>2, <2>3, SameView
<1>3. QED
  BY <1>2 DEF Walk, WalkStep

\* A call begins, or is done at once.
LEMMA NextCallTlb ==
    ASSUME TlbInv, status = "run", pc \in Nat \ {0}, pc' = pc + 1,
           \A x \in touched' : /\ ~ Drops(pc, x[1])
                               /\ x \in touched \/ Uses(pc, x[1], x[2]),
           \A x \in stale' : \/ x \in stale /\ ~ Drops(pc, x[1])
                             \/ Outdated(x[1], x[2], pc')
    PROVE  TlbInv'
<1>1. ASSUME NEW x \in touched'
      PROVE  \E k \in 1 .. pc' - 1 : Cached(k, x[1], x[2], pc')
  <2> DEFINE r == x[1]
             va == x[2]
  <2>1. ~ Drops(pc, r)
    BY <1>1
  <2>2. x \in touched => \E k \in 1 .. pc - 1 : Cached(k, r, va, pc)
    BY DEF TlbInv, TouchedUsed
  <2>3. x \in touched \/ Uses(pc, r, va)
    BY <1>1
  <2> HIDE DEF r, va
  <2>4. /\ \A k \in 1 .. pc - 1 : Cached(k, r, va, pc) => Cached(k, r, va, pc + 1)
        /\ Uses(pc, r, va) => Cached(pc, r, va, pc + 1)
    BY <2>1, StillCached
  <2>5. pc \in 1 .. pc' - 1 /\ \A k \in 1 .. pc - 1 : k \in 1 .. pc' - 1
    OBVIOUS
  <2>6. \E k \in 1 .. pc' - 1 : Cached(k, r, va, pc')
    BY <2>2, <2>3, <2>4, <2>5
  <2>7. QED
    BY <2>6 DEF r, va
<1>2. ASSUME NEW x \in stale'
      PROVE  x[2] \in TablePage \/ Outdated(x[1], x[2], pc')
  <2> DEFINE r == x[1]
             va == x[2]
  <2>1. x \in stale => va \in TablePage \/ Outdated(r, va, pc)
    BY DEF TlbInv, StaleOutdated
  <2>2. (x \in stale /\ ~ Drops(pc, r)) \/ Outdated(r, va, pc')
    BY <1>2
  <2> HIDE DEF r, va
  <2>3. ~ Drops(pc, r) /\ Outdated(r, va, pc) => Outdated(r, va, pc + 1)
    BY StillCached
  <2>4. va \in TablePage \/ Outdated(r, va, pc')
    BY <2>1, <2>2, <2>3
  <2>5. QED
    BY <2>4 DEF r, va
<1>3. QED
  BY <1>1, <1>2 DEF TlbInv, TouchedUsed, StaleOutdated

\* A step of a walk leaves behind entries of the page it is at.
LEMMA WalkTlb ==
    ASSUME TablesNow, TlbOk, ReachInv, TlbInv, Walk
    PROVE  TlbInv'
<1>1. status = "run" /\ Remember /\ pc' = pc /\ status' = status
  BY DEF Walk
<1>2. touched' \subseteq touched
  BY <1>1 DEF Remember
<1>3. TouchedUsed'
  BY <1>1, <1>2 DEF TlbInv, TouchedUsed
<1>4. ASSUME NEW x \in touched, View(x[1], x[2])' # View(x[1], x[2])
      PROVE  x[2] \in TablePage \/ Outdated(x[1], x[2], pc)
  <2>1. x[1] \in Roots /\ x[2] \in Page /\ Translate(x[1], x[2]) # Nil
    BY DEF TlbOk, TouchedMapped
  <2> DEFINE r == x[1]
             va == x[2]
  <2> HIDE DEF r, va
  <2>2. r \in Roots /\ va \in Page /\ Translate(r, va) # Nil /\ View(r, va)' # View(r, va)
    BY <1>4, <2>1 DEF r, va
  <2>3. SetLeaf
    BY <2>2, WalkView
  <2>4. r = Root[Top.img] /\ va = Top.va
    BY <2>2, <2>3, SetLeafView
  <2>5. frames # <<>>
    BY <2>3 DEF SetLeaf, Walking
  <2>6. /\ Len(frames) \in {1, 2}
        /\ Len(frames) = 1 => Top = frames[1]
        /\ Len(frames) = 2 => Inner(frames[1], Top)
        /\ Top.img \in Image /\ Outer(frames[1], pc)
        /\ pc \in Nat /\ pc - 1 \in 1 .. Len(Program) /\ (pc - 1) + 1 = pc
    BY <2>5, TopTypes
  <2>7. CASE Len(frames) = 2
    <3>1. Top.va \in PaPool(Top.img)
      BY <2>6, <2>7 DEF Inner
    <3>2. Top.va \in TablePage
      BY <2>6, <3>1, CallFacts DEF PaPool, PoolName
    <3>3. QED
      BY <2>4, <3>2 DEF va
  <2>8. CASE Len(frames) = 1
    <3> DEFINE n == pc - 1
    <3>1. Changes(n, r, va) /\ Spaces!Asked(Program[n], Root[Top.img], Top.va, Top.pa)
      BY <2>4, <2>5, <2>6, <2>8 DEF ReachInv, InProgress, Outer
    <3>2. Program[n].op \notin {"use", "check", "entry", "copy"}
      BY <3>1 DEF Spaces!Asked
    <3>3. PICK k \in 1 .. pc - 1 : Cached(k, r, va, pc)
      BY <1>1 DEF TlbInv, TouchedUsed, r, va
    <3>4. k # n
      BY <3>2, <3>3 DEF Cached, Uses
    <3>5. k \in 1 .. n - 1 /\ n \in 1 .. pc - 1
      BY <2>6, <3>3, <3>4
    <3>6. Outdated(r, va, pc)
      BY <3>1, <3>3, <3>5 DEF Outdated
    <3>7. QED
      BY <3>6 DEF r, va
  <2>9. QED
    BY <2>6, <2>7, <2>8
<1>5. ASSUME NEW y \in stale'
      PROVE  y[2] \in TablePage \/ Outdated(y[1], y[2], pc)
  <2>1. CASE y \in stale
    BY <2>1 DEF TlbInv, StaleOutdated
  <2>2. CASE \E x \in touched :
                /\ View(x[1], x[2])' # View(x[1], x[2])
                /\ y = <<x[1], x[2], Translate(x[1], x[2]), UserCan(x[1], x[2])>>
    BY <1>4, <2>2
  <2>3. QED
    BY <1>1, <2>1, <2>2 DEF Remember
<1>6. QED
  BY <1>1, <1>3, <1>5 DEF TlbInv, StaleOutdated

\* mem_unmap_va() leaves behind the entry of the page it unmaps.
LEMMA UnmapTlb ==
    ASSUME TablesNow, TlbOk, TlbInv, Unmap
    PROVE  TlbInv'
<1>1. /\ status = "run" /\ Remember /\ pc' = pc + 1 /\ Op.op = "unmap" /\ R = Op.root
      /\ R \in Roots
  BY UnmapFacts DEF Unmap, At, Ready
<1>2. touched' \subseteq touched
  BY <1>1 DEF Remember
<1>3. pc \in Nat \ {0}
  BY ReachTypes
<1>4. \A r : ~ Drops(pc, r)
  BY <1>1 DEF Drops, Op
<1>5. ASSUME NEW x \in touched, View(x[1], x[2])' # View(x[1], x[2])
      PROVE  Outdated(x[1], x[2], pc')
  <2> DEFINE r == x[1]
             va == x[2]
  <2>1. r \in Roots /\ va \in Page /\ Translate(r, va) # Nil
    BY DEF TlbOk, TouchedMapped
  <2>2. \E k \in 1 .. pc - 1 : Cached(k, r, va, pc)
    BY <1>1 DEF TlbInv, TouchedUsed
  <2> HIDE DEF r, va
  <2>3. View(r, va)' # View(r, va)
    BY <1>5 DEF r, va
  <2>4. r = R /\ va = Op.va
    BY <2>1, <2>3, UnmapView
  <2>5. Changes(pc, r, va)
    BY <1>1, <2>4 DEF Changes, Op
  <2>6. Outdated(r, va, pc + 1)
    BY <1>3, <1>4, <2>2, <2>5, StillCached
  <2>7. QED
    BY <1>1, <2>6 DEF r, va
<1>6. ASSUME NEW y \in stale', y \notin stale
      PROVE  Outdated(y[1], y[2], pc')
  <2>1. PICK x \in touched :
           /\ View(x[1], x[2])' # View(x[1], x[2])
           /\ y = <<x[1], x[2], Translate(x[1], x[2]), UserCan(x[1], x[2])>>
    BY <1>1, <1>6 DEF Remember
  <2>2. Outdated(x[1], x[2], pc')
    BY <1>5, <2>1
  <2>3. y[1] = x[1] /\ y[2] = x[2]
    BY <2>1
  <2>4. QED
    BY <2>2, <2>3
<1>7. QED
  BY <1>1, <1>2, <1>3, <1>4, <1>6, NextCallTlb

\* Accesses and copies use pages; a call that maps changes nothing yet.
LEMMA CallTlb ==
    ASSUME TablesNow, TlbInv,
           \/ mem_map_pa \/ MapRef \/ mem_map_va \/ mem_heap_allocate
           \/ MmuOn \/ Lookup \/ Access \/ Copy
    PROVE  TlbInv'
<1>1. /\ status = "run" /\ pc \in Nat \ {0} /\ pc <= Len(Program) /\ R = Program[pc].root
  <2>1. status = "run" /\ pc <= Len(Program)
    BY DEF mem_map_pa, MapRef, mem_map_va, mem_heap_allocate, MmuOn, Lookup, Access, Copy,
           At, Ready
  <2>2. pc \in 1 .. Len(Program)
    BY <2>1, ReachTypes
  <2>3. QED
    BY <2>1, <2>2, ReachTypes, CallFacts DEF R, Op
<1>2. CASE mem_map_pa \/ MapRef \/ mem_map_va \/ mem_heap_allocate \/ Lookup
  <2>1. /\ pc' = pc + 1 /\ touched' = touched /\ stale' = stale
        /\ Program[pc].op \in {"map_pa", "map_ref", "map_va", "heap", "lookup", "block"}
    BY <1>2 DEF mem_map_pa, MapRef, mem_map_va, mem_heap_allocate, Lookup, Map, Return, At, Op
  <2>2. \A r : ~ Drops(pc, r)
    BY <2>1 DEF Drops
  <2>3. QED
    BY <1>1, <2>1, <2>2, NextCallTlb
<1>3. CASE MmuOn
  <2>1. pc' = pc + 1 /\ touched' \subseteq touched /\ stale' \subseteq stale
    BY <1>3 DEF MmuOn, Return
  <2>2. \A x \in touched' : ~ Drops(pc, x[1])
    BY <1>1, <1>3 DEF MmuOn, Drops
  <2>3. \A x \in stale' : ~ Drops(pc, x[1])
    BY <1>1, <1>3 DEF MmuOn, Drops
  <2>4. QED
    BY <1>1, <2>1, <2>2, <2>3, NextCallTlb
<1>4. CASE Access
  <2>1. /\ Program[pc].op \in {"use", "check", "entry"} /\ stale' = stale /\ Touch({Op.va})
        /\ (pc' = pc + 1 /\ status' = status) \/ (pc' = pc /\ status' = "exit")
    BY <1>4 DEF Access, At, Op
  <2>2. \A r : ~ Drops(pc, r)
    BY <2>1 DEF Drops
  <2>3. CASE pc' = pc + 1 /\ status' = status
    <3>1. \A x \in touched' : x \in touched \/ x = <<R, Op.va>>
      BY <2>1 DEF Touch
    <3>2. Uses(pc, R, Op.va)
      BY <1>1, <2>1 DEF Uses, Op
    <3>3. \A x \in touched' : x \in touched \/ Uses(pc, x[1], x[2])
      BY <3>1, <3>2
    <3>4. QED
      BY <1>1, <2>1, <2>2, <2>3, <3>3, NextCallTlb
  <2>4. CASE pc' = pc /\ status' = "exit"
    BY <2>1, <2>4 DEF TlbInv, TouchedUsed, StaleOutdated
  <2>5. QED
    BY <2>1, <2>3, <2>4
<1>5. CASE Copy
  <2>1. /\ Program[pc].op = "copy" /\ stale' = stale /\ Touch({Op.pa, Op.va}) /\ pc' = pc + 1
    BY <1>5 DEF Copy, At, Op, Return
  <2>2. \A r : ~ Drops(pc, r)
    BY <2>1 DEF Drops
  <2>3. \A x \in touched' : x \in touched \/ x = <<R, Op.va>> \/ x = <<R, Op.pa>>
    BY <2>1 DEF Touch
  <2>4. Uses(pc, R, Op.va) /\ Uses(pc, R, Op.pa)
    BY <1>1, <2>1 DEF Uses, Op
  <2>5. \A x \in touched' : x \in touched \/ Uses(pc, x[1], x[2])
    BY <2>3, <2>4
  <2>6. QED
    BY <1>1, <2>1, <2>2, <2>5, NextCallTlb
<1>6. QED
  BY <1>2, <1>3, <1>4, <1>5

\* At reset the TLB holds nothing.
LEMMA TlbInit == MemInit => TlbInv
  BY DEF MemInit, TlbInv, TouchedUsed, StaleOutdated

\* Every step keeps it.
LEMMA TlbNext ==
    ASSUME MemInv, ReachInv, TlbInv, [Next]_vars
    PROVE  TlbInv'
<1>1. TablesNow /\ TlbOk
  BY TypeParts DEF MemInv, TablesNow
<1>2. CASE Abort \/ UNCHANGED vars
  <2>1. /\ touched' = touched /\ stale' = stale /\ pc' = pc
        /\ status' = "run" => status = "run"
    BY <1>2 DEF Abort, vars, memvars
  <2>2. QED
    BY <2>1 DEF TlbInv, TouchedUsed, StaleOutdated
<1>3. QED
  BY <1>1, <1>2, WalkTlb, UnmapTlb, CallTlb DEF Next, Step, Finished

\* The invariant of what the TLB holds.
THEOREM TlbInvariant == Spec => []TlbInv
  BY MemInvariant, ReachInvariant, TlbInit, TlbNext, PTL DEF Spec

\* No code of the images is run and no data is read or written through an entry
\* that only the TLB still holds, although mem_map_pa() and mem_unmap_va()
\* invalidate none.
THEOREM NoStaleUseCorrect == Spec => []NoStaleUse
<1>1. ASSUME MemInv, TlbInv
      PROVE  NoStaleUse
  <2>1. TablesNow
    BY <1>1 DEF MemInv, TablesNow
  <2>2. ASSUME At({"use", "check", "copy"}), NEW va \in {Op.va, Op.pa}, Uses(pc, R, va)
        PROVE  Kept(va) = {}
    <3>1. pc \in 1 .. Len(Program) /\ Program[pc].op \in {"use", "check", "copy"}
      BY <2>1, <2>2, ReachTypes DEF At, Ready, Op
    <3>2. R = Program[pc].root
      BY <3>1, CallFacts DEF R, Op
    <3>3. va \notin TablePage /\ ~ Outdated(R, va, pc)
      BY <2>2, <3>1, <3>2, UseAssumption DEF Op
    <3>4. \A y \in stale : ~ (y[1] = R /\ y[2] = va)
      BY <1>1, <3>3 DEF TlbInv, StaleOutdated
    <3>5. QED
      BY <3>4 DEF Kept
  <2>3. At({"use", "check", "copy"}) => Uses(pc, R, Op.va)
    <3>1. At({"use", "check", "copy"}) => pc \in 1 .. Len(Program)
      BY <2>1, ReachTypes DEF At, Ready
    <3>2. QED
      BY <3>1, CallFacts DEF At, Uses, R, Op
  <2>4. At({"copy"}) => Uses(pc, R, Op.pa)
    <3>1. At({"copy"}) => pc \in 1 .. Len(Program)
      BY <2>1, ReachTypes DEF At, Ready
    <3>2. QED
      BY <3>1, CallFacts DEF At, Uses, R, Op
  <2>5. At({"copy"}) => At({"use", "check", "copy"})
    BY DEF At
  <2>6. QED
    BY <2>2, <2>3, <2>4, <2>5 DEF NoStaleUse
<1>2. QED
  BY <1>1, MemInvariant, TlbInvariant, PTL

(***************************************************************************)
(* What is copied stays as copied.                                         *)
(***************************************************************************)
\* Pool page f was handed out, and neither is a table page nor will be one.
IsTable(m, f) == \E s \in Roots, vb \in Page, i \in 1 .. Depth : TableIn(m, s, vb, i) = f
Data(f, m, nx, fr) ==
    f \in PoolPages /\ Taken(f, nx) /\ ~ IsTable(m, f) /\ \A i \in 1 .. Len(fr) : fr[i].new # f

\* Some call of the program copies to page va of space r.
Dest(r, va) == \E n \in 1 .. Len(Program) : /\ Program[n].op = "copy"
                                            /\ Program[n].root = r /\ Program[n].va = va
Dests == {x \in Roots \X Page : Dest(x[1], x[2])}
FrameOf(x) == MapsTo(pt, x[1], x[2])

\* The page a call is still to copy from is mapped at its own address or not at all,
\* and what was flash at reset is as it was.
SourcesInPlace ==
    \A n \in pc .. Len(Program) : Program[n].op = "copy" =>
        MapsTo(pt, Program[n].root, Program[n].pa) \in {Nil, Program[n].pa}
FlashKept == \A f \in Page : f \notin PoolPages => mem[f] = f

\* The pages that are copied to have frames of their own, which are no tables: those
\* that are mapped, and the one that is being mapped.
DestData == \A x \in Dests : FrameOf(x) # Nil => Data(FrameOf(x), pt, next, frames)
DestApart == \A x, y \in Dests : FrameOf(x) # Nil /\ FrameOf(x) = FrameOf(y) => x = y
DestPending ==
    frames # <<>> /\ <<Root[frames[1].img], frames[1].va>> \in Dests =>
        /\ Data(frames[1].pa, pt, next, frames)
        /\ \A x \in Dests : FrameOf(x) # frames[1].pa

\* The call that maps such a page is made before the page is mapped...
DestOnce ==
    \A x \in Dests : FrameOf(x) # Nil =>
        \E m \in 1 .. pc - 1 : Changes(m, x[1], x[2]) /\ (frames = <<>> \/ m < pc - 1)

\* ...and a page that was copied to is mapped and holds what was copied.
CopiedKept ==
    \A c \in copied :
        /\ \E n \in 1 .. Len(Program) : /\ Program[n].op = "copy" /\ Program[n].root = c[1]
                                        /\ Program[n].va = c[2] /\ Program[n].pa = c[3]
        /\ MapsTo(pt, c[1], c[2]) # Nil /\ mem[MapsTo(pt, c[1], c[2])] = c[3]

CopyInv == /\ SourcesInPlace /\ FlashKept /\ DestData /\ DestApart /\ DestPending
           /\ DestOnce /\ CopiedKept

\* The step takes no page that holds data for a table.
DataStays == \A f \in Page : Data(f, pt, next, frames) => Data(f, pt', next', frames')

----------------------------------------------------------------------------
\* What the assumptions say of a page that is copied to.
LEMMA DestFacts ==
    ASSUME NEW x \in Dests
    PROVE  /\ x[1] \in Roots /\ x[2] \in Page /\ x = <<x[1], x[2]>> /\ x[2] \notin TablePage
           /\ \A m \in 1 .. Len(Program) : Changes(m, x[1], x[2]) =>
                 /\ Program[m].op = "map_va"
                 /\ \A k \in 1 .. Len(Program) : Changes(k, x[1], x[2]) => k = m
<1>1. x[1] \in Roots /\ x[2] \in Page /\ x = <<x[1], x[2]>> /\ Dest(x[1], x[2])
  BY DEF Dests
<1>2. PICK n \in 1 .. Len(Program) :
         Program[n].op = "copy" /\ Program[n].root = x[1] /\ Program[n].va = x[2]
  BY <1>1 DEF Dest
<1>3. Uses(n, Program[n].root, Program[n].va)
  BY <1>2 DEF Uses
<1>4. x[2] \notin TablePage
  BY <1>2, <1>3, UseAssumption
<1>5. QED
  BY <1>1, <1>2, <1>4, CopyAssumption

\* What a call copies from is mapped at its own address, and no table page.
LEMMA SourceFacts ==
    ASSUME NEW n \in 1 .. Len(Program), Program[n].op = "copy"
    PROVE  /\ Program[n].root \in Roots /\ Program[n].pa \in Page /\ Program[n].va \in Page
           /\ Program[n].pa \notin TablePage
           /\ \A m \in 1 .. Len(Program) :
                 Changes(m, Program[n].root, Program[n].pa) /\ m < n =>
                    Program[m].op = "map_pa" /\ Program[m].pa = Program[n].pa
           /\ <<Program[n].root, Program[n].va>> \in Dests
<1>1. Program[n].root \in Roots /\ Program[n].pa \in Page /\ Program[n].va \in Page
  BY CallFacts
<1>2. Uses(n, Program[n].root, Program[n].pa)
  BY DEF Uses
<1>3. Program[n].pa \notin TablePage
  BY <1>2, UseAssumption
<1>4. <<Program[n].root, Program[n].va>> \in Dests
  BY <1>1 DEF Dests, Dest
<1>5. QED
  BY <1>1, <1>3, <1>4, CopyAssumption

\* A page pointer that grows leaves what was handed out.
LEMMA StillTaken ==
    ASSUME NEW nx \in [Image -> [PoolName -> Nat \ {0}]],
           NEW nx2 \in [Image -> [PoolName -> Nat \ {0}]],
           \A I \in Image, k \in PoolName : nx2[I][k] >= nx[I][k],
           NEW f, Taken(f, nx)
    PROVE  Taken(f, nx2)
<1>1. ASSUME NEW I \in Image, NEW k \in PoolName, NEW i \in 1 .. Len(Pool[I][k]), i >= nx2[I][k]
      PROVE  Pool[I][k][i] # f
  <2>1. nx[I][k] \in Nat /\ nx2[I][k] \in Nat /\ i \in Int /\ nx2[I][k] >= nx[I][k]
    OBVIOUS
  <2>2. i >= nx[I][k]
    BY <1>1, <2>1
  <2>3. QED
    BY <2>2 DEF Taken
<1>2. QED
  BY <1>1 DEF Taken

\* The page that is handed out next held no data.
LEMMA NotTaken ==
    ASSUME NEW I \in Image, NEW k \in PoolName, NEW nx \in [Image -> [PoolName -> Nat \ {0}]],
           nx[I][k] \in 1 .. Len(Pool[I][k]), NEW f, Taken(f, nx)
    PROVE  Pool[I][k][nx[I][k]] # f
<1>1. nx[I][k] >= nx[I][k]
  OBVIOUS
<1>2. QED
  BY <1>1 DEF Taken

\* One pool pointer of an image moves on.
LEMMA OneOn ==
    ASSUME NEW I \in Image, NEW k \in PoolName, NEW nx \in [Image -> [PoolName -> Nat \ {0}]]
    PROVE  LET nx2 == [nx EXCEPT ![I][k] = @ + 1]
           IN  /\ nx2 \in [Image -> [PoolName -> Nat \ {0}]]
               /\ \A J \in Image, l \in PoolName : nx2[J][l] >= nx[J][l]
               /\ nx2[I][k] = nx[I][k] + 1
<1> DEFINE nx2 == [nx EXCEPT ![I][k] = @ + 1]
<1>1. ASSUME NEW J \in Image, NEW l \in PoolName
      PROVE  nx2[J][l] \in {nx[J][l], nx[J][l] + 1} /\ nx[J][l] \in Nat \ {0}
  OBVIOUS
<1>2. nx2[I][k] = nx[I][k] + 1
  OBVIOUS
<1>3. nx2 \in [Image -> [PoolName -> Nat \ {0}]]
  OBVIOUS
<1> HIDE DEF nx2
<1>4. \A J \in Image, l \in PoolName : nx2[J][l] >= nx[J][l]
  BY <1>1
<1>5. QED
  BY <1>2, <1>3, <1>4 DEF nx2

----------------------------------------------------------------------------
\* A step keeps the data pages if it takes no page back, enters none of them as a
\* table and plans to enter none.
LEMMA DataStaysIf ==
    ASSUME TablesNow, TablesThen,
           \A I \in Image, k \in PoolName : next'[I][k] >= next[I][k],
           \A f \in Page : Data(f, pt, next, frames) =>
              /\ \A s \in Roots, vb \in Page, i \in 1 .. Depth :
                    TableIn(pt', s, vb, i) = f => TableIn(pt, s, vb, i) = f
              /\ \A i \in 1 .. Len(frames') : frames'[i].new # f
    PROVE  DataStays
<1>1. /\ next \in [Image -> [PoolName -> Nat \ {0}]]
      /\ next' \in [Image -> [PoolName -> Nat \ {0}]]
  BY DEF TablesNow, TablesThen, TablesOk, ValuesOk
<1>2. ASSUME NEW f \in Page, Data(f, pt, next, frames)
      PROVE  Data(f, pt', next', frames')
  <2>1. Taken(f, next')
    BY <1>1, <1>2, StillTaken DEF Data
  <2>2. ~ IsTable(pt', f)
    BY <1>2 DEF Data, IsTable
  <2>3. QED
    BY <1>2, <2>1, <2>2 DEF Data
<1>3. QED
  BY <1>2 DEF DataStays

\* A walk takes its tables from what the pools have not handed out.
LEMMA WalkData ==
    ASSUME TablesNow, TablesThen, WalkStep
    PROVE  DataStays
<1>1. /\ next \in [Image -> [PoolName -> Nat \ {0}]] /\ frames \in Seq(FrameType)
      /\ frames' \in Seq(FrameType)
  BY DEF TablesNow, TablesThen, TablesOk, ValuesOk
<1>2. /\ frames # <<>> => /\ Len(frames) \in {1, 2}
                          /\ Len(frames) = 1 => Top = frames[1]
                          /\ Top \in FrameType
      /\ Nil \notin Page
  BY TopTypes, PageAssumption
<1>a. /\ \A I \in Image, k \in PoolName : next[I][k] >= next[I][k]
      /\ BootPool \in PoolName /\ "pa" \in PoolName
  BY <1>1, ReachTypes DEF PoolName
<1>3. CASE Descend
  <2> DEFINE g == Below(Top, Here(Top))
  <2>1. frames # <<>> /\ frames' = SetTop(g) /\ pt' = pt /\ next' = next
    BY <1>3 DEF Descend, Walking
  <2>2. g.new = Nil
    BY <1>2, <2>1 DEF Below, FrameType
  <2> HIDE DEF g
  <2>3. \A i \in 1 .. Len(frames') : frames'[i].new = Nil \/ (i \in 1 .. Len(frames) /\ frames'[i] = frames[i])
    BY <1>1, <1>2, <2>1, <2>2 DEF SetTop
  <2>4. \A f \in Page : Data(f, pt, next, frames) => \A i \in 1 .. Len(frames') : frames'[i].new # f
    BY <1>2, <2>3 DEF Data
  <2>5. QED
    BY <1>a, <2>1, <2>4, DataStaysIf
<1>4. CASE BootGrow
  <2> DEFINE I == Top.img
             k == BootPool
             p == Pool[I][k][next[I][k]]
  <2>1. /\ Enters(Root[I], p) /\ frames # <<>> /\ Len(frames') = 1
        /\ frames'[1] = Below(Top, p) /\ next' = [next EXCEPT ![I][k] = @ + 1]
        /\ next[I][k] \in 1 .. Len(Pool[I][k])
    BY <1>4, BootGrowFacts
  <2>2. I \in Image /\ k \in PoolName /\ frames'[1].new = Nil
    BY <1>2, <1>a, <2>1 DEF Below, FrameType
  <2> HIDE DEF I, k
  <2>3. \A J \in Image, l \in PoolName : next'[J][l] >= next[J][l]
    BY <1>1, <2>1, <2>2, OneOn
  <2>4. ASSUME NEW f \in Page, Data(f, pt, next, frames)
        PROVE  p # f
    BY <1>1, <2>1, <2>2, <2>4, NotTaken DEF Data
  <2> HIDE DEF p
  <2>5. ASSUME NEW f \in Page, Data(f, pt, next, frames)
        PROVE  /\ \A s \in Roots, vb \in Page, i \in 1 .. Depth :
                     TableIn(pt', s, vb, i) = f => TableIn(pt, s, vb, i) = f
               /\ \A i \in 1 .. Len(frames') : frames'[i].new # f
    <3>1. \A i \in 1 .. Len(frames') : i = 1
      BY <2>1
    <3>2. \A s \in Roots, vb \in Page, i \in 1 .. Depth :
             TableIn(pt', s, vb, i) \in {TableIn(pt, s, vb, i), p, Nil}
      BY <2>1 DEF Enters
    <3>3. p # f /\ f # Nil
      BY <1>2, <2>4, <2>5
    <3>4. QED
      BY <2>2, <3>1, <3>2, <3>3
  <2>6. QED
    BY <2>3, <2>5, DataStaysIf
<1>5. CASE Grow
  <2> DEFINE I == Top.img
             p == Pool[I]["pa"][next[I]["pa"]]
  <2>1. /\ frames # <<>> /\ Len(frames') = 2 /\ pt' = pt /\ I \in Image
        /\ frames'[1] = [Top EXCEPT !.new = p] /\ frames'[2] = Frame(I, p, p, TRUE)
        /\ next[I]["pa"] \in 1 .. Len(Pool[I]["pa"])
        /\ next' = [next EXCEPT ![I]["pa"] = @ + 1]
    BY <1>5, GrowFacts
  <2>2. frames'[1].new = p /\ frames'[2].new = Nil
    BY <1>2, <2>1 DEF Frame, FrameType
  <2> HIDE DEF I
  <2>3. \A J \in Image, l \in PoolName : next'[J][l] >= next[J][l]
    BY <1>1, <1>a, <2>1, OneOn
  <2>4. ASSUME NEW f \in Page, Data(f, pt, next, frames)
        PROVE  p # f
    <3> DEFINE k == "pa"
    <3>1. k \in PoolName /\ next[I][k] \in 1 .. Len(Pool[I][k])
      BY <1>a, <2>1
    <3> HIDE DEF k
    <3>2. Taken(f, next) /\ I \in Image
      BY <2>1, <2>4 DEF Data
    <3>3. Pool[I][k][next[I][k]] # f
      BY <1>1, <3>1, <3>2, NotTaken
    <3>4. QED
      BY <3>3 DEF k
  <2> HIDE DEF p
  <2>5. \A i \in 1 .. Len(frames') : i = 1 \/ i = 2
    BY <2>1
  <2>6. \A f \in Page : Data(f, pt, next, frames) => \A i \in 1 .. Len(frames') : frames'[i].new # f
    BY <1>2, <2>2, <2>4, <2>5
  <2>7. QED
    BY <2>1, <2>3, <2>6, DataStaysIf
<1>6. CASE Link
  <2> DEFINE p == Top.new
  <2>1. /\ Enters(Root[Top.img], p) /\ frames # <<>> /\ Len(frames) = 1 /\ Len(frames') = 1
        /\ frames'[1] = Below(Top, p) /\ next' = next
    BY <1>6, LinkedFacts
  <2>2. frames'[1].new = Nil /\ frames[1].new = p
    BY <1>2, <2>1 DEF Below, FrameType
  <2> HIDE DEF p
  <2>3. \A i \in 1 .. Len(frames') : i = 1
    BY <2>1
  <2>4. ASSUME NEW f \in Page, Data(f, pt, next, frames)
        PROVE  /\ \A s \in Roots, vb \in Page, i \in 1 .. Depth :
                     TableIn(pt', s, vb, i) = f => TableIn(pt, s, vb, i) = f
               /\ \A i \in 1 .. Len(frames') : frames'[i].new # f
    <3>1. 1 \in 1 .. Len(frames)
      BY <2>1
    <3>2. p # f /\ f # Nil
      BY <1>2, <2>2, <2>4, <3>1 DEF Data
    <3>3. \A s \in Roots, vb \in Page, i \in 1 .. Depth :
             TableIn(pt', s, vb, i) \in {TableIn(pt, s, vb, i), p, Nil}
      BY <2>1 DEF Enters
    <3>4. QED
      BY <2>2, <2>3, <3>2, <3>3
  <2>5. QED
    BY <1>a, <2>1, <2>4, DataStaysIf
<1>7. CASE SetLeaf
  <2>1. /\ SameTables /\ next' = next
        /\ Len(frames) = 1 => frames' = <<>>
        /\ Len(frames) = 2 => Len(frames') = 1 /\ frames'[1] = frames[1]
        /\ frames # <<>>
    BY <1>7, SetLeafFacts DEF SetLeaf, Walking
  <2>2. \A i \in 1 .. Len(frames') : i \in 1 .. Len(frames) /\ frames'[i] = frames[i]
    BY <1>2, <2>1
  <2>3. \A f \in Page : Data(f, pt, next, frames) => \A i \in 1 .. Len(frames') : frames'[i].new # f
    BY <2>2 DEF Data
  <2>4. QED
    BY <1>a, <2>1, <2>3, DataStaysIf DEF SameTables
<1>8. QED
  BY <1>3, <1>4, <1>5, <1>6, <1>7 DEF WalkStep

\* So does a call that begins, or is done at once.
LEMMA CallData ==
    ASSUME TablesNow, TablesThen, frames = <<>>, SameTables,
           frames' = <<>> \/ (Len(frames') = 1 /\ frames'[1].new = Nil),
           \A I \in Image, k \in PoolName : next'[I][k] >= next[I][k]
    PROVE  DataStays
<1>1. \A i \in 1 .. Len(frames') : i = 1 /\ frames'[1].new = Nil
  <2>1. CASE frames' = <<>>
    <3>1. Len(frames') = 0
      BY <2>1
    <3>2. QED
      BY <3>1
  <2>2. CASE Len(frames') = 1 /\ frames'[1].new = Nil
    BY <2>2
  <2>3. QED
    BY <2>1, <2>2
<1>2. \A f \in Page : \A i \in 1 .. Len(frames') : frames'[i].new # f
  BY <1>1, PageAssumption
<1>3. QED
  BY <1>2, DataStaysIf DEF SameTables

----------------------------------------------------------------------------
\* A step that changes no mapping and copies nothing.
LEMMA SameMapsCopy ==
    ASSUME TablesNow, CopyInv, SameMaps, mem' = mem, copied' = copied, DataStays, DestPending',
           pc' \in {pc, pc + 1}, frames # <<>> => pc' = pc /\ frames' # <<>>,
           frames = <<>> /\ frames' # <<>> => pc' = pc + 1
    PROVE  CopyInv'
<1>1. pc \in Nat \ {0} /\ Len(Program) \in Nat
  BY ReachTypes
<1>2. \A x \in Dests : MapsTo(pt', x[1], x[2]) = FrameOf(x)
  BY DestFacts DEF SameMaps, FrameOf
<1>3. \A x \in Dests : FrameOf(x)' = MapsTo(pt', x[1], x[2])
  BY DEF FrameOf
<1>4. \A x \in Dests : FrameOf(x) \in Page \cup {Nil}
  BY DestFacts, WalkTypes DEF FrameOf, Translate
<1>5. SourcesInPlace'
  <2>1. ASSUME NEW n \in pc' .. Len(Program), Program[n].op = "copy"
        PROVE  MapsTo(pt', Program[n].root, Program[n].pa) \in {Nil, Program[n].pa}
    <3>1. n \in pc .. Len(Program) /\ n \in 1 .. Len(Program)
      BY <1>1
    <3>2. MapsTo(pt', Program[n].root, Program[n].pa) = MapsTo(pt, Program[n].root, Program[n].pa)
      BY <2>1, <3>1, SourceFacts DEF SameMaps
    <3>3. QED
      BY <2>1, <3>1, <3>2 DEF CopyInv, SourcesInPlace
  <2>2. QED
    BY <2>1 DEF SourcesInPlace
<1>6. FlashKept'
  BY DEF CopyInv, FlashKept
<1>7. DestData'
  BY <1>2, <1>3, <1>4 DEF CopyInv, DestData, DataStays
<1>8. DestApart'
  BY <1>2, <1>3 DEF CopyInv, DestApart
<1>9. DestOnce'
  <2>1. ASSUME NEW x \in Dests, FrameOf(x) # Nil
        PROVE  \E m \in 1 .. pc' - 1 : Changes(m, x[1], x[2]) /\ (frames' = <<>> \/ m < pc' - 1)
    <3>1. PICK m \in 1 .. pc - 1 : Changes(m, x[1], x[2]) /\ (frames = <<>> \/ m < pc - 1)
      BY <2>1 DEF CopyInv, DestOnce
    <3>a. \A k \in {pc, pc + 1} : m \in 1 .. k - 1 /\ m < pc
      BY <1>1
    <3>2. m \in 1 .. pc' - 1 /\ m < pc
      BY <3>a
    <3>3. CASE frames' = <<>>
      BY <3>1, <3>2, <3>3
    <3>4. CASE frames' # <<>> /\ frames = <<>>
      <4>1. pc' - 1 = pc
        BY <1>1, <3>4
      <4>2. QED
        BY <3>1, <3>2, <4>1
    <3>5. CASE frames # <<>>
      BY <3>1, <3>2, <3>5
    <3>6. QED
      BY <3>3, <3>4, <3>5
  <2>2. QED
    BY <1>2, <1>3, <2>1 DEF DestOnce
<1>10. CopiedKept'
  <2>1. ASSUME NEW c \in copied
        PROVE  MapsTo(pt', c[1], c[2]) = MapsTo(pt, c[1], c[2])
    <3>1. c[1] \in Roots /\ c[2] \in Page
      BY CallFacts DEF CopyInv, CopiedKept
    <3>2. QED
      BY <3>1 DEF SameMaps
  <2>2. QED
    BY <2>1 DEF CopyInv, CopiedKept
<1>11. QED
  BY <1>5, <1>6, <1>7, <1>8, <1>9, <1>10 DEF CopyInv

\* The last entry of a walk is set: on the page of the call at hand, or on a page
\* that can become a table.
LEMMA SetLeafCopy ==
    ASSUME TablesNow, TablesThen, ReachInv, CopyInv, SetLeaf, pc' = pc, mem' = mem,
           copied' = copied
    PROVE  CopyInv'
<1> DEFINE r == Root[Top.img]
           va == Top.va
           n0 == pc - 1
<1>1. /\ Len(frames) = 1 => frames' = <<>>
      /\ Len(frames) = 2 => Len(frames') = 1 /\ frames'[1] = frames[1]
      /\ \E e \in Page : Sets(r, va, e) /\ (e = Top.pa \/ (~ mmu[Top.img] /\ pt' = pt))
  BY SetLeafFacts
<1>2. frames # <<>> /\ next' = next
  BY DEF SetLeaf, Walking
<1>3. /\ Len(frames) \in {1, 2} /\ Top \in FrameType /\ frames[1] \in FrameType
      /\ Len(frames) = 1 => Top = frames[1]
      /\ Top.img \in Image /\ r \in Roots /\ va \in Page /\ Top.pa \in Page
      /\ Outer(frames[1], pc)
      /\ Len(frames) = 2 => Inner(frames[1], Top)
      /\ pc \in Nat /\ n0 \in 1 .. Len(Program) /\ n0 + 1 = pc
  BY <1>2, TopTypes
<1>4. DataStays
  BY WalkData DEF WalkStep
<1>5. \A x \in Dests : FrameOf(x)' = MapsTo(pt', x[1], x[2]) /\ FrameOf(x) \in Page \cup {Nil}
  BY DestFacts, WalkTypes DEF FrameOf, Translate
<1>6. Len(frames) = 2 => va \in TablePage
  BY <1>3, CallFacts DEF Inner, PaPool, PoolName
<1>7. Len(frames) = 1 =>
         /\ Changes(n0, r, va) /\ Spaces!Asked(Program[n0], r, va, Top.pa)
         /\ Program[n0].img = Top.img
  BY <1>2, <1>3 DEF Outer, ReachInv, InProgress
<1> HIDE DEF n0
<1>8. PICK e \in Page : Sets(r, va, e) /\ (e = Top.pa \/ pt' = pt)
  BY <1>1
<1>9. \A x \in Dests : FrameOf(x)' = IF x = <<r, va>> THEN e ELSE FrameOf(x)
  <2>1. TAKE x \in Dests
  <2>2. x[1] \in Roots /\ x[2] \in Page /\ x = <<x[1], x[2]>>
    BY DestFacts
  <2>3. x = <<r, va>> <=> x[1] = r /\ x[2] = va
    BY <2>2
  <2>4. QED
    BY <1>5, <1>8, <2>2, <2>3 DEF Sets, FrameOf
<1>10. <<r, va>> \in Dests => Len(frames) = 1 /\ Top = frames[1]
  BY <1>3, <1>6, DestFacts
<1>11. CASE pt' = pt /\ Len(frames) = 2
  <2>1. SameMaps /\ frames' # <<>>
    BY <1>1, <1>11 DEF SameMaps
  <2>2. DestPending'
    BY <1>1, <1>2, <1>3, <1>4, <1>11 DEF CopyInv, DestPending, DataStays, FrameOf, FrameType
  <2>3. QED
    BY <1>2, <1>4, <2>1, <2>2, SameMapsCopy
<1>12. FlashKept'
  BY DEF CopyInv, FlashKept
<1>13. SourcesInPlace'
  <2>1. ASSUME NEW n \in pc .. Len(Program), Program[n].op = "copy"
        PROVE  MapsTo(pt', Program[n].root, Program[n].pa) \in {Nil, Program[n].pa}
    <3> DEFINE s == Program[n].root
               vb == Program[n].pa
    <3>1. n \in 1 .. Len(Program) /\ n0 < n
      BY <1>3, CallFacts
    <3>2. /\ s \in Roots /\ vb \in Page /\ vb \notin TablePage
          /\ \A m \in 1 .. Len(Program) :
                Changes(m, s, vb) /\ m < n => Program[m].op = "map_pa" /\ Program[m].pa = vb
      BY <2>1, <3>1, SourceFacts
    <3>3. MapsTo(pt, s, vb) \in {Nil, vb}
      BY <2>1 DEF CopyInv, SourcesInPlace
    <3> HIDE DEF s, vb
    <3>4. CASE s = r /\ vb = va /\ e = Top.pa
      <4>1. Len(frames) = 1
        BY <1>3, <1>6, <3>2, <3>4
      <4>2. Program[n0].op = "map_pa" /\ Program[n0].pa = va
        BY <1>3, <1>7, <3>1, <3>2, <3>4, <4>1
      <4>3. Top.pa = va
        BY <1>7, <4>1, <4>2 DEF Spaces!Asked
      <4>4. MapsTo(pt', s, vb) = va
        BY <1>8, <3>2, <3>4, <4>3 DEF Sets
      <4>5. QED
        BY <3>4, <4>4 DEF s, vb
    <3>5. CASE ~ (s = r /\ vb = va /\ e = Top.pa)
      <4>1. MapsTo(pt', s, vb) = MapsTo(pt, s, vb)
        BY <1>8, <3>2, <3>5 DEF Sets
      <4>2. QED
        BY <3>3, <4>1 DEF s, vb
    <3>6. QED
      BY <3>4, <3>5
  <2>2. QED
    BY <2>1 DEF SourcesInPlace
<1>14. <<r, va>> \in Dests /\ e = Top.pa =>
          /\ Data(e, pt, next, frames)
          /\ \A x \in Dests : FrameOf(x) # e
          /\ n0 \in 1 .. pc - 1 /\ frames' = <<>>
          /\ FrameOf(<<r, va>>) = Nil
  <2>1. SUFFICES ASSUME <<r, va>> \in Dests, e = Top.pa
                 PROVE  /\ Data(e, pt, next, frames)
                        /\ \A x \in Dests : FrameOf(x) # e
                        /\ n0 \in 1 .. pc - 1 /\ frames' = <<>>
                        /\ FrameOf(<<r, va>>) = Nil
    OBVIOUS
  <2>2. Len(frames) = 1 /\ Top = frames[1]
    BY <1>10, <2>1
  <2>3. Data(e, pt, next, frames) /\ \A x \in Dests : FrameOf(x) # e
    BY <1>2, <2>1, <2>2 DEF CopyInv, DestPending
  <2>4. n0 \in 1 .. pc - 1 /\ frames' = <<>>
    BY <1>1, <1>3, <2>2
  <2>5. FrameOf(<<r, va>>) = Nil
    <3>1. SUFFICES ASSUME FrameOf(<<r, va>>) # Nil PROVE FALSE
      OBVIOUS
    <3> DEFINE x == <<r, va>>
    <3>2. x \in Dests /\ FrameOf(x) # Nil /\ x[1] = r /\ x[2] = va
      BY <2>1, <3>1
    <3> HIDE DEF x, r, va
    <3>3. PICK m \in 1 .. pc - 1 : Changes(m, x[1], x[2]) /\ (frames = <<>> \/ m < pc - 1)
      BY <3>2 DEF CopyInv, DestOnce
    <3>4. m \in 1 .. Len(Program) /\ m < n0
      BY <1>2, <1>3, <3>3, CallFacts DEF n0
    <3>5. Changes(n0, x[1], x[2])
      BY <1>7, <2>2, <3>2
    <3>6. m = n0
      BY <1>3, <3>2, <3>3, <3>4, <3>5, DestFacts
    <3>7. QED
      BY <1>3, <3>4, <3>6
  <2>6. QED
    BY <2>3, <2>4, <2>5
<1>15. DestData'
  <2>1. ASSUME NEW x \in Dests, FrameOf(x)' # Nil
        PROVE  Data(FrameOf(x)', pt', next', frames')
    <3> DEFINE g == FrameOf(x)'
    <3>1. Data(g, pt, next, frames) /\ g \in Page
      <4>1. CASE pt' = pt
        BY <1>5, <2>1, <4>1 DEF CopyInv, DestData, FrameOf
      <4>2. CASE x = <<r, va>> /\ e = Top.pa
        BY <1>9, <1>14, <4>2
      <4>3. CASE x # <<r, va>>
        BY <1>5, <1>9, <2>1, <4>3 DEF CopyInv, DestData
      <4>4. QED
        BY <1>8, <4>1, <4>2, <4>3
    <3> HIDE DEF g
    <3>2. Data(g, pt', next', frames')
      BY <1>4, <3>1 DEF DataStays
    <3>3. QED
      BY <3>2 DEF g
  <2>2. QED
    BY <2>1 DEF DestData
<1>16. DestApart'
  <2>1. CASE pt' = pt
    BY <2>1 DEF CopyInv, DestApart, FrameOf
  <2>2. CASE e = Top.pa
    <3>1. ASSUME NEW x \in Dests, NEW y \in Dests, FrameOf(x)' # Nil, FrameOf(x)' = FrameOf(y)'
          PROVE  x = y
      <4>1. CASE x # <<r, va>> /\ y # <<r, va>>
        BY <1>9, <3>1, <4>1 DEF CopyInv, DestApart
      <4>2. CASE x = <<r, va>> /\ y # <<r, va>>
        BY <1>9, <1>14, <2>2, <3>1, <4>2
      <4>3. CASE x # <<r, va>> /\ y = <<r, va>>
        BY <1>9, <1>14, <2>2, <3>1, <4>3
      <4>4. QED
        BY <4>1, <4>2, <4>3
    <3>2. QED
      BY <3>1 DEF DestApart
  <2>3. QED
    BY <1>8, <2>1, <2>2
<1>17. DestPending'
  <2>1. CASE Len(frames) = 1
    BY <1>1, <2>1 DEF DestPending
  <2>2. CASE Len(frames) = 2
    <3>1. frames'[1] = frames[1]
      BY <1>1, <2>2
    <3>2. \A x \in Dests : FrameOf(x)' = FrameOf(x)
      BY <1>9, <1>10, <2>2
    <3>3. frames[1].pa \in Page
      BY <1>3 DEF FrameType
    <3>4. QED
      BY <1>2, <1>4, <3>1, <3>2, <3>3 DEF CopyInv, DestPending, DataStays
  <2>3. QED
    BY <1>3, <2>1, <2>2
<1>18. DestOnce'
  <2>1. ASSUME NEW x \in Dests, FrameOf(x)' # Nil
        PROVE  \E m \in 1 .. pc - 1 : Changes(m, x[1], x[2]) /\ (frames' = <<>> \/ m < pc - 1)
    <3>1. CASE FrameOf(x) # Nil
      BY <1>2, <3>1 DEF CopyInv, DestOnce
    <3>2. CASE FrameOf(x) = Nil
      <4>1. x = <<r, va>> /\ e = Top.pa
        <5>1. CASE pt' = pt
          BY <2>1, <3>2, <5>1 DEF FrameOf
        <5>2. CASE e = Top.pa
          BY <1>9, <2>1, <3>2, <5>2
        <5>3. QED
          BY <1>8, <5>1, <5>2
      <4>2. n0 \in 1 .. pc - 1 /\ frames' = <<>> /\ Len(frames) = 1
        BY <1>10, <1>14, <4>1
      <4>3. Changes(n0, x[1], x[2])
        BY <1>7, <4>1, <4>2
      <4>4. QED
        BY <4>2, <4>3
    <3>3. QED
      BY <3>1, <3>2
  <2>2. QED
    BY <2>1 DEF DestOnce
<1>19. CopiedKept'
  <2>1. ASSUME NEW c \in copied
        PROVE  MapsTo(pt', c[1], c[2]) = MapsTo(pt, c[1], c[2])
    <3> DEFINE x == <<c[1], c[2]>>
    <3>1. x \in Dests /\ FrameOf(x) # Nil /\ x[1] = c[1] /\ x[2] = c[2]
      <4>1. PICK n \in 1 .. Len(Program) :
               Program[n].op = "copy" /\ Program[n].root = c[1] /\ Program[n].va = c[2]
        BY DEF CopyInv, CopiedKept
      <4>2. QED
        BY <4>1, SourceFacts DEF CopyInv, CopiedKept, FrameOf
    <3>2. CASE pt' = pt
      BY <3>2
    <3>3. CASE e = Top.pa
      <4>1. x # <<r, va>>
        BY <1>14, <3>1, <3>3
      <4>2. FrameOf(x)' = FrameOf(x)
        BY <1>9, <3>1, <4>1
      <4>3. QED
        BY <1>5, <3>1, <4>2 DEF FrameOf
    <3>4. QED
      BY <1>8, <3>2, <3>3
  <2>2. QED
    BY <2>1 DEF CopyInv, CopiedKept
<1>20. QED
  BY <1>12, <1>13, <1>15, <1>16, <1>17, <1>18, <1>19 DEF CopyInv

\* mem_unmap_va() is asked to unmap neither a page to copy to nor one to copy from.
LEMMA UnmapCopy ==
    ASSUME TablesNow, TablesThen, CopyInv, Unmap
    PROVE  CopyInv'
<1>1. /\ SameTables /\ Sets(R, Op.va, Nil) /\ frames = <<>> /\ frames' = <<>>
      /\ pc' = pc + 1 /\ pc \in 1 .. Len(Program) /\ next' = next
      /\ Op.op = "unmap" /\ R = Op.root /\ R \in Roots /\ Op.va \in Page
  BY UnmapFacts
<1>2. mem' = mem /\ copied' = copied
  BY DEF Unmap
<1>3. Changes(pc, R, Op.va)
  BY <1>1 DEF Changes, Op
<1>4. <<R, Op.va>> \notin Dests
  <2> DEFINE x == <<R, Op.va>>
  <2>1. Changes(pc, x[1], x[2]) /\ Program[pc].op = "unmap"
    BY <1>1, <1>3 DEF Op
  <2> HIDE DEF x
  <2>2. x \notin Dests
    BY <1>1, <2>1, DestFacts
  <2>3. QED
    BY <2>2 DEF x
<1>5. \A I \in Image, k \in PoolName : next'[I][k] >= next[I][k]
  <2>1. next \in [Image -> [PoolName -> Nat \ {0}]]
    BY ReachTypes
  <2>2. QED
    BY <1>1, <2>1
<1>6. DataStays
  BY <1>1, <1>5, CallData
<1>7. \A x \in Dests : FrameOf(x)' = FrameOf(x) /\ FrameOf(x) \in Page \cup {Nil}
  <2>1. TAKE x \in Dests
  <2>2. x[1] \in Roots /\ x[2] \in Page /\ x = <<x[1], x[2]>>
    BY DestFacts
  <2>3. ~ (x[1] = R /\ x[2] = Op.va)
    BY <1>4, <2>2
  <2>4. MapsTo(pt', x[1], x[2]) = MapsTo(pt, x[1], x[2])
    BY <1>1, <2>2, <2>3 DEF Sets
  <2>5. QED
    BY <2>2, <2>4, WalkTypes DEF FrameOf, Translate
<1>8. SourcesInPlace'
  <2>1. ASSUME NEW n \in pc' .. Len(Program), Program[n].op = "copy"
        PROVE  MapsTo(pt', Program[n].root, Program[n].pa) \in {Nil, Program[n].pa}
    <3>1. n \in pc .. Len(Program) /\ n \in 1 .. Len(Program)
      <4>1. n \in pc + 1 .. Len(Program)
        BY <1>1
      <4>2. QED
        BY <1>1, <4>1
    <3>2. Program[n].root \in Roots /\ Program[n].pa \in Page
      BY <2>1, <3>1, SourceFacts
    <3>3. MapsTo(pt', Program[n].root, Program[n].pa)
             \in {Nil, MapsTo(pt, Program[n].root, Program[n].pa)}
      BY <1>1, <3>2 DEF Sets
    <3>4. QED
      BY <2>1, <3>1, <3>3 DEF CopyInv, SourcesInPlace
  <2>2. QED
    BY <2>1 DEF SourcesInPlace
<1>9. FlashKept' /\ DestPending'
  BY <1>1, <1>2 DEF CopyInv, FlashKept, DestPending
<1>10. DestData' /\ DestApart'
  BY <1>6, <1>7 DEF CopyInv, DestData, DestApart, DataStays
<1>11. DestOnce'
  <2>1. \A m \in 1 .. pc - 1 : m \in 1 .. (pc + 1) - 1
    BY <1>1
  <2>2. QED
    BY <1>1, <1>7, <2>1 DEF CopyInv, DestOnce
<1>12. CopiedKept'
  <2>1. ASSUME NEW c \in copied
        PROVE  MapsTo(pt', c[1], c[2]) = MapsTo(pt, c[1], c[2])
    <3> DEFINE x == <<c[1], c[2]>>
    <3>1. x \in Dests /\ x[1] = c[1] /\ x[2] = c[2]
      BY SourceFacts DEF CopyInv, CopiedKept
    <3>2. QED
      BY <1>7, <3>1 DEF FrameOf
  <2>2. QED
    BY <1>2, <2>1 DEF CopyInv, CopiedKept
<1>13. QED
  BY <1>8, <1>9, <1>10, <1>11, <1>12 DEF CopyInv

\* A call that maps a page to copy to takes a page for it that holds nothing yet.
LEMMA StartCopy ==
    ASSUME MemTypeOK, TablesNow, TablesThen, ReachInv, CopyInv,
           mem_map_pa \/ MapRef \/ mem_map_va \/ mem_heap_allocate
    PROVE  CopyInv'
<1>1. Ready /\ pc \in 1 .. Len(Program) /\ frames = <<>>
  BY CallFacts DEF mem_map_pa, MapRef, mem_map_va, mem_heap_allocate, At, Ready,
                   TablesNow, TablesOk, ValuesOk
<1>2. Op.img \in Image /\ Op.va \in Page /\ R = Op.root
  BY <1>1, CallFacts DEF Op, R
<1>3. SameMaps /\ mem' = mem /\ copied' = copied /\ pc' = pc + 1 /\ pt' = pt
  BY MapCalls DEF mem_map_pa, MapRef, mem_map_va, mem_heap_allocate, Map
<1>4. PICK va, pa : frames' = <<Frame(Op.img, va, pa, Op.user)>>
  BY DEF mem_map_pa, MapRef, mem_map_va, mem_heap_allocate, Map
<1>5. /\ Len(frames') = 1 /\ frames' # <<>> /\ frames'[1].new = Nil /\ frames'[1].va = va
      /\ frames'[1].img = Op.img /\ frames'[1].pa = pa
  BY <1>4 DEF Frame
<1>6. next' = next \/ next' = [next EXCEPT ![Op.img]["pa"] = @ + 1]
  BY DEF mem_map_pa, MapRef, mem_map_va, mem_heap_allocate, mem_allocate_pa
<1>7. next \in [Image -> [PoolName -> Nat \ {0}]] /\ "pa" \in PoolName
  BY ReachTypes DEF PoolName
<1>8. \A I \in Image, k \in PoolName : next'[I][k] >= next[I][k]
  BY <1>2, <1>6, <1>7, OneOn
<1>9. DataStays
  BY <1>1, <1>3, <1>5, <1>8, CallData DEF SameTables
<1>10. ReachInv'
  BY MapCallsReach
<1>11. Changes(pc, R, va)
  <2>1. pc' - 1 = pc /\ Root[Op.img] = R
    BY <1>1, <1>3 DEF R
  <2>2. Changes(pc' - 1, Root[frames'[1].img], frames'[1].va)
    BY <1>5, <1>10 DEF ReachInv, InProgress
  <2>3. QED
    BY <1>5, <2>1, <2>2
<1>12. DestPending'
  <2>1. ASSUME <<R, va>> \in Dests
        PROVE  /\ Data(pa, pt', next', frames')
               /\ \A x \in Dests : FrameOf(x) # pa
    <3> DEFINE y == <<R, va>>
    <3>1. y \in Dests /\ Changes(pc, y[1], y[2])
      BY <1>11, <2>1
    <3> HIDE DEF y
    <3>2. Op.op = "map_va"
      BY <1>1, <3>1, DestFacts DEF Op
    <3>3. mem_map_va
      BY <3>2 DEF mem_map_pa, MapRef, mem_heap_allocate, At
    <3> DEFINE k == "pa"
               p == Pool[Op.img][k][next[Op.img][k]]
    <3>4. /\ next' = [next EXCEPT ![Op.img][k] = @ + 1]
          /\ next[Op.img][k] <= Len(Pool[Op.img][k])
          /\ frames' = <<Frame(Op.img, Op.va, p, Op.user)>>
      BY <3>3 DEF mem_map_va, Map, Allocated, CanAllocate, mem_allocate_pa
    <3>5. pa = p
      BY <1>5, <3>4 DEF Frame
    <3>6. k \in PoolName /\ Len(Pool[Op.img][k]) \in Nat
      BY <1>2, <1>7, CallFacts
    <3> HIDE DEF k
    <3>7. next[Op.img][k] \in 1 .. Len(Pool[Op.img][k])
      BY <1>2, <1>7, <3>4, <3>6
    <3>8. p \in PoolPages /\ p \in Page
      BY <1>2, <3>6, <3>7, CallFacts
    <3>9. \A x \in Dests : FrameOf(x) # p
      <4>1. ASSUME NEW x \in Dests, FrameOf(x) = p
            PROVE  FALSE
        <5>1. FrameOf(x) # Nil
          BY <3>8, <4>1, PageAssumption
        <5>2. Taken(p, next)
          BY <4>1, <5>1 DEF CopyInv, DestData, Data
        <5>3. QED
          BY <1>2, <1>7, <3>6, <3>7, <5>2, NotTaken
      <4>2. QED
        BY <4>1
    <3>10. Taken(p, next')
      <4>1. Hands(Op.img, k, p, next, next')
        BY <1>2, <1>7, <3>4, <3>6 DEF Hands
      <4>2. QED
        BY <4>1, HandedOut DEF Moved
    <3>11. ~ IsTable(pt', p)
      <4>1. PICK lv, up : TreesGiven(lv, up, pt, next, frames)
        BY DEF TablesNow, TablesOk, Trees
      <4>2. next[Op.img][k] >= next[Op.img][k]
        BY <1>2, <1>7, <3>6, <3>7
      <4>3. lv[p] = 0
        BY <1>2, <3>6, <3>7, <4>1, <4>2 DEF TreesGiven, FreshFree
      <4>4. ASSUME NEW s \in Roots, NEW vb \in Page, NEW i \in 1 .. Depth,
                   TableIn(pt, s, vb, i) = p
            PROVE  FALSE
        <5>1. TableIn(pt, s, vb, i) # Nil
          BY <3>8, <4>4, PageAssumption
        <5>2. lv[p] = i
          BY <4>1, <4>4, <5>1, TableLevel DEF TreesGiven
        <5>3. QED
          BY <4>3, <5>2
      <4>5. QED
        BY <1>3, <4>4 DEF IsTable
    <3>12. \A i \in 1 .. Len(frames') : frames'[i].new # p
      <4>1. \A i \in 1 .. Len(frames') : i = 1
        BY <1>5
      <4>2. QED
        BY <1>5, <3>8, <4>1, PageAssumption
    <3> HIDE DEF p
    <3>13. Data(p, pt', next', frames')
      BY <3>8, <3>10, <3>11, <3>12 DEF Data
    <3>14. QED
      BY <3>5, <3>9, <3>13
  <2>2. \A x \in Dests : FrameOf(x)' = FrameOf(x)
    BY <1>3 DEF FrameOf
  <2>3. Root[Op.img] = R
    BY DEF R
  <2>4. QED
    BY <1>5, <2>1, <2>2, <2>3 DEF DestPending
<1>13. QED
  BY <1>1, <1>3, <1>5, <1>9, <1>12, SameMapsCopy

\* The outermost call goes on to map what it was asked for.
LEMMA PendingStays ==
    ASSUME TablesNow, CopyInv, SameMaps, DataStays, frames # <<>>,
           frames'[1].img = frames[1].img, frames'[1].va = frames[1].va,
           frames'[1].pa = frames[1].pa
    PROVE  DestPending'
<1>1. frames[1].pa \in Page
  BY TopTypes DEF FrameType
<1>2. \A x \in Dests : FrameOf(x)' = FrameOf(x)
  BY DestFacts DEF SameMaps, FrameOf
<1>3. QED
  BY <1>1, <1>2 DEF CopyInv, DestPending, DataStays

\* While a call goes on, its outermost activation keeps what it was asked for.
LEMMA OuterKept ==
    ASSUME TablesNow, Descend \/ BootGrow \/ Grow \/ Link
    PROVE  /\ frames # <<>> /\ frames' # <<>>
           /\ frames'[1].img = frames[1].img /\ frames'[1].va = frames[1].va
           /\ frames'[1].pa = frames[1].pa /\ frames'[1].user = frames[1].user
<1>1. frames # <<>>
  BY DEF Descend, BootGrow, Grow, Link, Walking
<1>2. /\ Len(frames) \in {1, 2} /\ Top \in FrameType /\ frames \in Seq(FrameType)
      /\ Len(frames) = 1 => Top = frames[1]
  BY <1>1, TopTypes DEF TablesNow, TablesOk, ValuesOk
<1>3. /\ frames' # <<>>
      /\ frames'[1].img = frames[1].img /\ frames'[1].va = frames[1].va
      /\ frames'[1].pa = frames[1].pa /\ frames'[1].user = frames[1].user
  <2>1. CASE Descend
    <3> DEFINE g == Below(Top, Here(Top))
    <3>1. frames' = SetTop(g)
      BY <2>1 DEF Descend
    <3>2. g.img = Top.img /\ g.va = Top.va /\ g.pa = Top.pa /\ g.user = Top.user
      BY <1>2 DEF Below, FrameType
    <3> HIDE DEF g
    <3>3. Len(frames') = Len(frames) /\ frames' # <<>>
      BY <1>2, <3>1, LenProperties DEF SetTop
    <3>4. /\ Len(frames) = 2 => frames'[1] = frames[1]
          /\ Len(frames) = 1 => frames'[1] = g
      BY <1>2, <3>1 DEF SetTop
    <3>5. QED
      BY <1>2, <3>2, <3>3, <3>4
  <2>2. CASE BootGrow
    <3> DEFINE p == Pool[Top.img][BootPool][next[Top.img][BootPool]]
    <3>1. frames' # <<>> /\ frames'[1] = Below(Top, p) /\ Len(frames) = 1
      BY <2>2, BootGrowFacts
    <3> HIDE DEF p
    <3>2. QED
      BY <1>2, <3>1 DEF Below, FrameType
  <2>3. CASE Grow
    <3> DEFINE p == Pool[Top.img]["pa"][next[Top.img]["pa"]]
    <3>1. frames' # <<>> /\ frames'[1] = [Top EXCEPT !.new = p] /\ Len(frames) = 1
      BY <2>3, GrowFacts
    <3> HIDE DEF p
    <3>2. QED
      BY <1>2, <3>1 DEF FrameType
  <2>4. CASE Link
    <3>1. frames' # <<>> /\ frames'[1] = Below(Top, Top.new) /\ Len(frames) = 1
      BY <2>4, LinkedFacts
    <3>2. QED
      BY <1>2, <3>1 DEF Below, FrameType
  <2>5. QED
    BY <2>1, <2>2, <2>3, <2>4
<1>4. QED
  BY <1>1, <1>3

\* A step of a walk that does not end it.
LEMMA OnTheWayCopy ==
    ASSUME TablesNow, TablesThen, CopyInv, pc' = pc, mem' = mem, copied' = copied,
           Descend \/ BootGrow \/ Grow \/ Link
    PROVE  CopyInv'
<1>1. DataStays
  BY WalkData DEF WalkStep
<1>2. SameMaps
  BY DescendStep, BootGrowStep, GrowStep, LinkStep
<1>3. DestPending'
  BY <1>1, <1>2, OuterKept, PendingStays
<1>4. QED
  BY <1>1, <1>2, <1>3, OuterKept, SameMapsCopy

\* A step that leaves the tables and the pools alone.
LEMMA QuietCopy ==
    ASSUME TablesNow, CopyInv, pt' = pt, next' = next, frames' = frames,
           mem' = mem, copied' = copied, pc' \in {pc, pc + 1}, frames # <<>> => pc' = pc
    PROVE  CopyInv'
<1>1. SameMaps /\ DataStays
  BY DEF SameMaps, DataStays
<1>2. DestPending'
  BY DEF CopyInv, DestPending, FrameOf
<1>3. QED
  BY <1>1, <1>2, SameMapsCopy

\* The step that copies a page.
LEMMA CopyDone ==
    ASSUME MemTypeOK, TablesNow, CopyInv, NoStaleUse, Copy
    PROVE  CopyInv'
<1> DEFINE d == <<R, Op.va>>
           a == Op.pa
<1>1. /\ frames = <<>> /\ pc \in 1 .. Len(Program) /\ Program[pc].op = "copy"
      /\ pt' = pt /\ next' = next /\ frames' = frames /\ pc' = pc + 1
      /\ copied' = copied \cup {<<R, Op.va, Op.pa>>}
      /\ At({"copy"}) /\ At({"use", "check", "copy"})
  BY ReachTypes DEF Copy, At, Ready, Return, ptvars, Op
<1>2. /\ R = Program[pc].root /\ R \in Roots /\ Op.va \in Page /\ a \in Page
      /\ a \notin TablePage /\ d \in Dests /\ Len(Program) \in Nat
  BY <1>1, SourceFacts, CallFacts DEF R, Op
<1>3. PICK f \in Reached(a), g \in Reached(Op.va) : mem' = [mem EXCEPT ![g] = mem[f]]
  BY DEF Copy
<1>4. f = MapsTo(pt, R, a) /\ f # Nil /\ g = FrameOf(d) /\ g # Nil
  BY <1>1, <1>3 DEF NoStaleUse, Reached, Current, FrameOf, Translate
<1>5. f = a /\ mem[f] = a
  <2>1. f = a
    BY <1>1, <1>2, <1>4 DEF CopyInv, SourcesInPlace, Op
  <2>2. a \notin PoolPages
    BY <1>2, <1>1 DEF TablePage
  <2>3. QED
    BY <1>2, <2>1, <2>2 DEF CopyInv, FlashKept
<1>6. g \in PoolPages /\ g \in Page
  <2>1. g \in PoolPages
    BY <1>2, <1>4 DEF CopyInv, DestData, Data
  <2>2. QED
    BY <2>1 DEF PoolPages
<1>7. /\ mem'[g] = a /\ \A h \in Page : h # g => mem'[h] = mem[h]
  BY <1>3, <1>5, <1>6 DEF MemTypeOK
<1> HIDE DEF d, a
<1>8. FlashKept'
  BY <1>6, <1>7 DEF CopyInv, FlashKept
<1>9. DestData' /\ DestApart' /\ DestPending'
  BY <1>1 DEF CopyInv, DestData, DestApart, DestPending, FrameOf
<1>10. SourcesInPlace'
  <2>1. \A n \in pc + 1 .. Len(Program) : n \in pc .. Len(Program)
    BY <1>1, <1>2
  <2>2. QED
    BY <1>1, <2>1 DEF CopyInv, SourcesInPlace
<1>11. DestOnce'
  <2>1. \A m \in 1 .. pc - 1 : m \in 1 .. (pc + 1) - 1
    BY <1>1
  <2>2. QED
    BY <1>1, <2>1 DEF CopyInv, DestOnce, FrameOf
<1>12. CopiedKept'
  <2>1. ASSUME NEW c \in copied
        PROVE  /\ \E n \in 1 .. Len(Program) : /\ Program[n].op = "copy"
                                               /\ Program[n].root = c[1]
                                               /\ Program[n].va = c[2] /\ Program[n].pa = c[3]
               /\ MapsTo(pt, c[1], c[2]) # Nil /\ mem'[MapsTo(pt, c[1], c[2])] = c[3]
    <3> DEFINE x == <<c[1], c[2]>>
               h == MapsTo(pt, c[1], c[2])
    <3>1. PICK n \in 1 .. Len(Program) : /\ Program[n].op = "copy" /\ Program[n].root = c[1]
                                         /\ Program[n].va = c[2] /\ Program[n].pa = c[3]
      BY DEF CopyInv, CopiedKept
    <3>2. h # Nil /\ mem[h] = c[3]
      BY DEF CopyInv, CopiedKept
    <3>3. x \in Dests /\ FrameOf(x) = h
      BY <3>1, SourceFacts DEF FrameOf
    <3>4. h \in Page
      BY <3>2, <3>3, DestFacts, WalkTypes DEF FrameOf, Translate
    <3> HIDE DEF h
    <3>5. mem'[h] = c[3]
      <4>1. CASE h = g
        <5>1. x = d
          BY <1>2, <1>4, <3>3, <4>1 DEF CopyInv, DestApart
        <5>2. c[1] = R /\ c[2] = Op.va
          BY <5>1 DEF d
        <5>3. Program[n].pa = Program[pc].pa
          BY <1>1, <1>2, <3>1, <5>2, CopyAssumption DEF Op
        <5>4. QED
          BY <1>7, <3>1, <4>1, <5>3 DEF a, Op
      <4>2. CASE h # g
        BY <1>7, <3>2, <3>4, <4>2
      <4>3. QED
        BY <4>1, <4>2
    <3>6. QED
      BY <3>1, <3>2, <3>5 DEF h
  <2>2. ASSUME NEW c \in copied', c \notin copied
        PROVE  /\ \E n \in 1 .. Len(Program) : /\ Program[n].op = "copy"
                                               /\ Program[n].root = c[1]
                                               /\ Program[n].va = c[2] /\ Program[n].pa = c[3]
               /\ MapsTo(pt, c[1], c[2]) # Nil /\ mem'[MapsTo(pt, c[1], c[2])] = c[3]
    <3>1. c[1] = R /\ c[2] = Op.va /\ c[3] = a
      BY <1>1, <2>2 DEF a
    <3>2. MapsTo(pt, c[1], c[2]) = g
      BY <1>4, <3>1 DEF d, FrameOf
    <3>3. QED
      BY <1>1, <1>2, <1>4, <1>7, <3>1, <3>2 DEF a, Op
  <2>3. QED
    BY <1>1, <2>1, <2>2 DEF CopiedKept
<1>13. QED
  BY <1>8, <1>9, <1>10, <1>11, <1>12 DEF CopyInv

\* At reset nothing is mapped, flash is as it was and nothing is copied.
LEMMA CopyInit == MemInit => CopyInv
<1>1. SUFFICES ASSUME MemInit PROVE CopyInv
  OBVIOUS
<1>2. /\ frames = <<>> /\ copied = {} /\ mem = [f \in Page |-> f]
  BY <1>1 DEF MemInit, PtInit
<1>3. \A r \in Roots, va \in Page : MapsTo(pt, r, va) = Nil
  BY <1>1, SpacesInit DEF Spaces!Init, Mapping, Translate
<1>4. \A x \in Dests : FrameOf(x) = Nil
  BY <1>3, DestFacts DEF FrameOf
<1>5. SourcesInPlace
  <2>1. ASSUME NEW n \in pc .. Len(Program), Program[n].op = "copy"
        PROVE  MapsTo(pt, Program[n].root, Program[n].pa) = Nil
    <3>1. n \in 1 .. Len(Program)
      BY <1>1 DEF MemInit
    <3>2. QED
      BY <1>3, <2>1, <3>1, SourceFacts
  <2>2. QED
    BY <2>1 DEF SourcesInPlace
<1>6. FlashKept /\ DestPending /\ CopiedKept
  BY <1>2 DEF FlashKept, DestPending, CopiedKept
<1>7. DestData /\ DestApart /\ DestOnce
  BY <1>4 DEF DestData, DestApart, DestOnce
<1>8. QED
  BY <1>5, <1>6, <1>7 DEF CopyInv


\* Every step keeps it.
LEMMA CopyNext ==
    ASSUME MemInv, MemInv', ReachInv, NoStaleUse, CopyInv, [Next]_vars
    PROVE  CopyInv'
<1>1. TablesNow /\ MemTypeOK /\ TablesThen
  BY DEF MemInv, TablesNow, TablesThen
<1>2. CASE mem_map_pa \/ MapRef \/ mem_map_va \/ mem_heap_allocate
  BY <1>1, <1>2, StartCopy
<1>3. CASE Walk
  <2>1. WalkStep /\ pc' = pc /\ mem' = mem /\ copied' = copied
    BY <1>3 DEF Walk
  <2>2. QED
    BY <1>1, <2>1, OnTheWayCopy, SetLeafCopy DEF WalkStep
<1>4. CASE Unmap
  BY <1>1, <1>4, UnmapCopy
<1>5. CASE Copy
  BY <1>1, <1>5, CopyDone
<1>6. CASE MmuOn \/ Lookup \/ Access \/ Abort \/ UNCHANGED vars
  <2>1. /\ pt' = pt /\ next' = next /\ frames' = frames /\ mem' = mem /\ copied' = copied
        /\ pc' \in {pc, pc + 1}
        /\ frames # <<>> => pc' = pc
    BY <1>6 DEF MmuOn, Lookup, Access, Abort, At, Ready, Return, vars, ptvars, memvars
  <2>2. QED
    BY <1>1, <2>1, QuietCopy
<1>7. QED
  BY <1>2, <1>3, <1>4, <1>5, <1>6 DEF Next, Step, Finished

\* The invariant of what is copied.
THEOREM CopyInvariant == Spec => []CopyInv
<1>1. MemInv /\ ReachInv /\ NoStaleUse /\ CopyInv /\ [Next]_vars /\ MemInv' => CopyInv'
  BY CopyNext
<1>2. QED
  BY <1>1, MemInvariant, ReachInvariant, NoStaleUseCorrect, CopyInit, PTL DEF Spec

\* Every page that the boot code or the loader has copied in stays mapped and keeps
\* its contents for good, and its frame never serves as a table page.
THEOREM ImageIntactCorrect == Spec => []ImageIntact
<1>1. ASSUME CopyInv
      PROVE  ImageIntact
  <2>1. ASSUME NEW c \in copied
        PROVE  LET g == Translate(c[1], c[2])
               IN  g # Nil /\ mem[g] = c[3] /\ \A y \in Places : y[1] # g
    <3> DEFINE x == <<c[1], c[2]>>
               g == Translate(c[1], c[2])
    <3>1. g # Nil /\ mem[g] = c[3] /\ FrameOf(x) = g
      BY <1>1 DEF CopyInv, CopiedKept, FrameOf, Translate
    <3>2. x \in Dests
      BY <1>1, SourceFacts DEF CopyInv, CopiedKept
    <3>3. ~ IsTable(pt, g)
      BY <1>1, <3>1, <3>2 DEF CopyInv, DestData, Data
    <3> HIDE DEF g
    <3>4. ASSUME NEW y \in Places
          PROVE  y[1] # g
      <4>1. PICK r \in Roots, va \in Page, i \in 1 .. Depth : y[1] = TableIn(pt, r, va, i)
        BY DEF Places, Table
      <4>2. QED
        BY <3>3, <4>1 DEF IsTable
    <3>5. QED
      BY <3>1, <3>4 DEF g
  <2>2. QED
    BY <2>1 DEF ImageIntact
<1>2. QED
  BY <1>1, CopyInvariant, PTL

(***************************************************************************)
(* Each page is mapped when it is used.                                    *)
(***************************************************************************)
\* The first call that has not returned.
Unfinished == IF frames = <<>> THEN pc ELSE pc - 1

\* The outer activation gives EL0 access if the call at hand asks for it.
CallUser == frames # <<>> => frames[1].user = Program[pc - 1].user

\* Only a page that some call has changed is mapped...
ChangedOnly ==
    \A r \in Roots, va \in Page \ TablePage :
        MapsTo(pt, r, va) # Nil => \E k \in 1 .. Unfinished - 1 : Changes(k, r, va)

\* ...and a page that the calls have provided is.
ProvidedMapped ==
    \A r \in Roots, va \in Page \ TablePage, u \in BOOLEAN :
        Provided(Unfinished, r, va, u) =>
            MapsTo(pt, r, va) # Nil /\ (u => <<LeafIn(pt, r, va), Index[va][Depth]>> \in user)

UseInv == CallUser /\ ChangedOnly /\ ProvidedMapped

\* The step leaves page va of space r as it is, for the code and for EL0.
Same(r, va) ==
    /\ MapsTo(pt', r, va) # Nil <=> MapsTo(pt, r, va) # Nil
    /\ MapsTo(pt, r, va) # Nil =>
          (<<LeafIn(pt', r, va), Index[va][Depth]>> \in user' <=>
           <<LeafIn(pt, r, va), Index[va][Depth]>> \in user)

\* A call changes one page.
LEMMA ChangesOne ==
    ASSUME NEW n \in 1 .. Len(Program), NEW r, NEW va, NEW s, NEW vb,
           Changes(n, r, va), Changes(n, s, vb)
    PROVE  s = r /\ vb = va
<1>1. r = Program[n].root /\ s = Program[n].root
  BY DEF Changes
<1>2. CASE Program[n].op = "heap"
  BY <1>1, <1>2 DEF Changes
<1>3. CASE Program[n].op # "heap"
  BY <1>1, <1>3 DEF Changes
<1>4. QED
  BY <1>2, <1>3

\* What the calls up to the n-th provide was provided before, or is by the n-th.
LEMMA ProvidedBefore ==
    ASSUME NEW n \in Nat \ {0}, NEW r, NEW va, NEW u, Provided(n + 1, r, va, u)
    PROVE  /\ Changes(n, r, va) => Maps(n, r, va, u)
           /\ \/ Provided(n, r, va, u)
              \/ /\ Maps(n, r, va, u)
                 /\ u => Overwrites(n) \/ \A k \in 1 .. n - 1 : ~ Changes(k, r, va)
<1>1. PICK m \in 1 .. n :
          /\ Maps(m, r, va, u)
          /\ u => Overwrites(m) \/ \A k \in 1 .. m - 1 : ~ Changes(k, r, va)
          /\ \A k \in m .. n : Changes(k, r, va) => Maps(k, r, va, u)
  <2>1. (n + 1) - 1 = n
    OBVIOUS
  <2>2. QED
    BY <2>1 DEF Provided
<1>2. n \in m .. n
  BY <1>1
<1>3. CASE m = n
  BY <1>1, <1>2, <1>3
<1>4. CASE m # n
  <2>1. m \in 1 .. n - 1 /\ \A k \in m .. n - 1 : k \in m .. n
    BY <1>4
  <2>2. Provided(n, r, va, u)
    BY <1>1, <2>1 DEF Provided
  <2>3. QED
    BY <1>1, <1>2, <2>2
<1>5. QED
  BY <1>3, <1>4

\* The call that has not returned is one of the program, or the program is over.
LEMMA UnfinishedType ==
    ASSUME TablesNow
    PROVE  /\ Unfinished \in Nat \ {0}
           /\ frames # <<>> => Unfinished \in 1 .. Len(Program) /\ Unfinished + 1 = pc
<1>1. pc \in Nat \ {0}
  BY ReachTypes
<1>2. CASE frames = <<>>
  BY <1>1, <1>2 DEF Unfinished
<1>3. CASE frames # <<>>
  <2>1. pc \in Nat /\ pc - 1 \in 1 .. Len(Program) /\ (pc - 1) + 1 = pc
    BY <1>3, TopTypes
  <2>2. Len(Program) \in Nat
    BY ReachTypes
  <2>3. QED
    BY <1>3, <2>1, <2>2 DEF Unfinished
<1>4. QED
  BY <1>2, <1>3

\* A step that leaves every page but the one of a call that returns, which is mapped
\* as the call asks.
LEMMA UseKept ==
    ASSUME TablesNow, UseInv, CallUser', NEW n2, Unfinished' = n2,
           n2 \in {Unfinished, Unfinished + 1},
           \A r \in Roots, va \in Page \ TablePage :
              ~ (n2 = Unfinished + 1 /\ Changes(Unfinished, r, va)) => Same(r, va),
           \A r \in Roots, va \in Page \ TablePage, u \in BOOLEAN :
              /\ n2 = Unfinished + 1 /\ Maps(Unfinished, r, va, u)
              /\ u => \/ Overwrites(Unfinished)
                      \/ \A k \in 1 .. Unfinished - 1 : ~ Changes(k, r, va)
                      \/ <<LeafIn(pt, r, va), Index[va][Depth]>> \in user
              => /\ MapsTo(pt', r, va) # Nil
                 /\ u => <<LeafIn(pt', r, va), Index[va][Depth]>> \in user'
    PROVE  UseInv'
<1> DEFINE n == Unfinished
<1>1. n \in Nat \ {0} /\ n2 \in {n, n + 1}
  BY UnfinishedType
<1> HIDE DEF n
<1>2. ASSUME NEW r \in Roots, NEW va \in Page \ TablePage, MapsTo(pt', r, va) # Nil
      PROVE  \E k \in 1 .. n2 - 1 : Changes(k, r, va)
  <2>1. CASE n2 = n + 1 /\ Changes(n, r, va)
    <3>1. n \in 1 .. n2 - 1
      BY <1>1, <2>1
    <3>2. QED
      BY <2>1, <3>1
  <2>2. CASE ~ (n2 = n + 1 /\ Changes(n, r, va))
    <3>1. MapsTo(pt, r, va) # Nil
      BY <1>2, <2>2 DEF Same, n
    <3>2. PICK k \in 1 .. n - 1 : Changes(k, r, va)
      BY <3>1 DEF UseInv, ChangedOnly, n
    <3>3. k \in 1 .. n2 - 1
      BY <1>1, <3>2
    <3>4. QED
      BY <3>2, <3>3
  <2>3. QED
    BY <2>1, <2>2
<1>3. ASSUME NEW r \in Roots, NEW va \in Page \ TablePage, NEW u \in BOOLEAN,
             Provided(n2, r, va, u)
      PROVE  /\ MapsTo(pt', r, va) # Nil
             /\ u => <<LeafIn(pt', r, va), Index[va][Depth]>> \in user'
  <2>1. Provided(n, r, va, u) =>
           /\ MapsTo(pt, r, va) # Nil
           /\ u => <<LeafIn(pt, r, va), Index[va][Depth]>> \in user
    BY DEF UseInv, ProvidedMapped, n
  <2>2. CASE n2 = n
    <3>1. n2 # n + 1
      BY <1>1, <2>2
    <3>2. Same(r, va)
      BY <3>1 DEF n
    <3>3. QED
      BY <1>3, <2>1, <2>2, <3>2 DEF Same
  <2>3. CASE n2 = n + 1
    <3>1. /\ Changes(n, r, va) => Maps(n, r, va, u)
          /\ \/ Provided(n, r, va, u)
             \/ /\ Maps(n, r, va, u)
                /\ u => Overwrites(n) \/ \A k \in 1 .. n - 1 : ~ Changes(k, r, va)
      BY <1>1, <1>3, <2>3, ProvidedBefore
    <3>2. CASE Changes(n, r, va)
      BY <2>1, <2>3, <3>1, <3>2 DEF n
    <3>3. CASE ~ Changes(n, r, va)
      <4>1. Same(r, va) /\ Provided(n, r, va, u)
        BY <3>1, <3>3 DEF Maps, n
      <4>2. QED
        BY <2>1, <4>1 DEF Same
    <3>4. QED
      BY <3>2, <3>3
  <2>4. QED
    BY <1>1, <2>2, <2>3
<1>4. ChangedOnly'
  BY <1>2 DEF ChangedOnly
<1>5. ProvidedMapped'
  BY <1>3 DEF ProvidedMapped
<1>6. QED
  BY <1>4, <1>5 DEF UseInv

\* A page stays as it is if its frame and, as far as it is mapped, its view do.
LEMMA SameIf ==
    ASSUME NEW s, NEW vb, MapsTo(pt', s, vb) = MapsTo(pt, s, vb),
           Translate(s, vb) # Nil => View(s, vb)' = View(s, vb)
    PROVE  Same(s, vb)
<1>1. ASSUME MapsTo(pt, s, vb) # Nil
      PROVE  UserCan(s, vb)' = UserCan(s, vb)
  BY <1>1 DEF View, Translate
<1>2. /\ UserCan(s, vb)' <=> <<LeafIn(pt', s, vb), Index[vb][Depth]>> \in user'
      /\ UserCan(s, vb) <=> <<LeafIn(pt, s, vb), Index[vb][Depth]>> \in user
  BY DEF UserCan, Leaf
<1>3. QED
  BY <1>1, <1>2 DEF Same

\* Calls that begin, calls that look at memory, and steps that change nothing.
LEMMA QuietUse ==
    ASSUME TablesNow, UseInv, pt' = pt, user' = user, pc' \in {pc, pc + 1},
           frames # <<>> => pc' = pc /\ frames' = frames,
           frames = <<>> /\ frames' # <<>> =>
              pc' = pc + 1 /\ frames'[1].user = Program[pc].user,
           frames = <<>> /\ frames' = <<>> /\ pc' = pc + 1 =>
              Program[pc].op \notin {"map_pa", "map_va", "map_ref", "heap", "unmap"}
    PROVE  UseInv'
<1>1. pc \in Nat \ {0} /\ \A k : k = pc + 1 => k - 1 = pc
  BY ReachTypes
<1>2. CallUser'
  <2>1. CASE frames # <<>>
    BY <2>1 DEF UseInv, CallUser
  <2>2. CASE frames = <<>> /\ frames' # <<>>
    BY <1>1, <2>2 DEF CallUser
  <2>3. CASE frames' = <<>>
    BY <2>3 DEF CallUser
  <2>4. QED
    BY <2>1, <2>2, <2>3
<1>3. \A r \in Roots, va \in Page \ TablePage : Same(r, va)
  BY DEF Same
<1>4. CASE frames # <<>> \/ frames' # <<>> \/ pc' = pc
  <2>1. Unfinished' = Unfinished
    BY <1>1, <1>4 DEF Unfinished
  <2>2. Unfinished # Unfinished + 1
    BY UnfinishedType
  <2>3. QED
    BY <1>2, <1>3, <2>1, <2>2, UseKept
<1>5. CASE frames = <<>> /\ frames' = <<>> /\ pc' = pc + 1
  <2>1. Unfinished = pc /\ Unfinished' = Unfinished + 1
    BY <1>5 DEF Unfinished
  <2>2. \A r \in Roots, va \in Page \ TablePage, u \in BOOLEAN : ~ Maps(Unfinished, r, va, u)
    BY <1>5, <2>1 DEF Maps, Changes
  <2>3. QED
    BY <1>2, <1>3, <2>1, <2>2, UseKept
<1>6. QED
  BY <1>4, <1>5

\* mem_unmap_va() takes one page away.
LEMMA UnmapUse ==
    ASSUME TablesNow, UseInv, Unmap
    PROVE  UseInv'
<1>1. /\ Sets(R, Op.va, Nil) /\ frames = <<>> /\ frames' = <<>>
      /\ pc' = pc + 1 /\ pc \in 1 .. Len(Program)
      /\ Op.op = "unmap" /\ R = Op.root /\ R \in Roots /\ Op.va \in Page
  BY UnmapFacts
<1>2. Unfinished = pc /\ Unfinished' = Unfinished + 1 /\ CallUser'
  BY <1>1 DEF Unfinished, CallUser
<1>3. \A r \in Roots, va \in Page \ TablePage, u \in BOOLEAN : ~ Maps(Unfinished, r, va, u)
  BY <1>1, <1>2 DEF Maps, Op
<1>4. ASSUME NEW r \in Roots, NEW va \in Page \ TablePage, ~ Changes(Unfinished, r, va)
      PROVE  Same(r, va)
  <2>1. ~ (r = R /\ va = Op.va)
    BY <1>1, <1>2, <1>4 DEF Changes, Op
  <2>2. MapsTo(pt', r, va) = MapsTo(pt, r, va)
    BY <1>1, <2>1 DEF Sets
  <2>3. Translate(r, va) # Nil => View(r, va)' = View(r, va)
    BY <2>1, UnmapView
  <2>4. QED
    BY <2>2, <2>3, SameIf
<1>5. QED
  BY <1>2, <1>3, <1>4, UseKept

\* A step of a walk that does not end it.
LEMMA OnTheWayUse ==
    ASSUME TablesNow, UseInv, Walk, Descend \/ BootGrow \/ Grow \/ Link
    PROVE  UseInv'
<1>1. pc' = pc /\ frames # <<>> /\ frames' # <<>> /\ frames'[1].user = frames[1].user
  BY OuterKept DEF Walk
<1>2. CallUser' /\ Unfinished' = Unfinished /\ Unfinished # Unfinished + 1
  BY <1>1, UnfinishedType DEF UseInv, CallUser, Unfinished
<1>3. SameMaps
  BY <1>1, DescendStep, BootGrowStep, GrowStep, LinkStep
<1>4. ASSUME NEW r \in Roots, NEW va \in Page, Translate(r, va) # Nil
      PROVE  View(r, va)' = View(r, va)
  <2>1. CASE SetLeaf
    <3>1. Top.new = Nil /\ ~ (Top.lvl < Depth)
      BY <2>1, DepthFacts DEF SetLeaf, Walking
    <3>2. Top.lvl < Depth \/ Top.new # Nil
      BY DEF Descend, BootGrow, Grow, Link
    <3>3. QED
      BY <3>1, <3>2
  <2>2. CASE ~ SetLeaf
    BY <1>4, <2>2, WalkView
  <2>3. QED
    BY <2>1, <2>2
<1>5. \A r \in Roots, va \in Page \ TablePage : Same(r, va)
  BY <1>3, <1>4, SameIf DEF SameMaps
<1>6. QED
  BY <1>2, <1>5, UseKept

\* The last step of a walk maps the page of the call at hand, or a page that can
\* become a table.
LEMMA SetLeafUse ==
    ASSUME TablesNow, ReachInv, UseInv, Walk, SetLeaf
    PROVE  UseInv'
<1> DEFINE r == Root[Top.img]
           va == Top.va
           cell == <<LeafIn(pt, r, va), Index[va][Depth]>>
           n == Unfinished
<1>1. /\ SameTables
      /\ Len(frames) = 1 => frames' = <<>>
      /\ Len(frames) = 2 => Len(frames') = 1 /\ frames'[1] = frames[1]
      /\ \E e \in Page : Sets(r, va, e)
  BY SetLeafFacts
<1>2. frames # <<>> /\ Top.lvl = Depth /\ pc' = pc
  BY DEF SetLeaf, Walking, Walk
<1>3. /\ Len(frames) \in {1, 2} /\ Top \in FrameType /\ FrameOk(Top, pt, mmu)
      /\ Len(frames) = 1 => Top = frames[1]
      /\ Top.img \in Image /\ r \in Roots /\ va \in Page
      /\ Outer(frames[1], pc)
      /\ Len(frames) = 2 => Inner(frames[1], Top)
  BY <1>2, TopTypes
<1>4. n \in 1 .. Len(Program) /\ n + 1 = pc /\ n = pc - 1 /\ n # n + 1
  BY <1>2, UnfinishedType DEF Unfinished
<1>5. Top.tbl = LeafIn(pt, r, va)
  BY <1>2, <1>3 DEF FrameOk, LeafIn
<1>6. PICK e \in Page : Sets(r, va, e)
  BY <1>1
<1>7. e # Nil
  BY PageAssumption
<1>8. \A s \in Roots, vb \in Page : LeafIn(pt', s, vb) = LeafIn(pt, s, vb)
  BY <1>1, DepthFacts DEF SameTables, LeafIn
<1>9. ASSUME NEW s \in Roots, NEW vb \in Page, ~ (s = r /\ vb = va)
      PROVE  Same(s, vb)
  <2>1. MapsTo(pt', s, vb) = MapsTo(pt, s, vb)
    BY <1>6, <1>9 DEF Sets
  <2>2. Translate(s, vb) # Nil => View(s, vb)' = View(s, vb)
    BY <1>9, SetLeafView
  <2>3. QED
    BY <2>1, <2>2, SameIf
<1>10. CASE Len(frames) = 2
  <2>1. frames' # <<>> /\ frames'[1] = frames[1]
    BY <1>1, <1>10
  <2>2. CallUser' /\ Unfinished' = n
    BY <1>2, <2>1 DEF UseInv, CallUser, Unfinished
  <2>3. va \in TablePage
    BY <1>3, <1>10, CallFacts DEF Inner, PaPool, PoolName
  <2> HIDE DEF r, va, cell
  <2>4. \A s \in Roots, vb \in Page \ TablePage : Same(s, vb)
    BY <1>9, <2>3
  <2>5. QED
    BY <1>4, <2>2, <2>4, UseKept
<1>11. CASE Len(frames) = 1
  <2>1. frames' = <<>> /\ Top = frames[1]
    BY <1>1, <1>3, <1>11
  <2>2. CallUser' /\ Unfinished' = n + 1
    BY <1>2, <1>4, <2>1 DEF CallUser, Unfinished
  <2>3. Changes(n, r, va) /\ Program[n].img = Top.img /\ Top.user = Program[n].user
    BY <1>2, <1>3, <1>4, <2>1 DEF ReachInv, InProgress, UseInv, CallUser, Outer
  <2>4. \/ /\ pt' = pt /\ user' = user /\ Arch = "arm" /\ ~ mmu[Top.img]
           /\ MapsTo(pt, r, va) # Nil
        \/ user' = IF Top.user THEN user \cup {cell} ELSE user \ {cell}
    <3>1. Top.tbl # Nil => MapsTo(pt, r, va) = Here(Top)
      BY <1>2, <1>5 DEF MapsTo, Entry, Here
    <3>2. Top.tbl # Nil
      BY <1>3, DepthFacts DEF FrameType
    <3>3. QED
      BY <1>2, <1>5, <3>1, <3>2 DEF SetLeaf
  <2> HIDE DEF r, va, cell, n
  <2>5. ASSUME NEW s \in Roots, NEW vb \in Page \ TablePage, NEW u \in BOOLEAN,
               Maps(n, s, vb, u),
               u => \/ Overwrites(n)
                    \/ \A k \in 1 .. n - 1 : ~ Changes(k, s, vb)
                    \/ <<LeafIn(pt, s, vb), Index[vb][Depth]>> \in user
        PROVE  /\ MapsTo(pt', s, vb) # Nil
               /\ u => <<LeafIn(pt', s, vb), Index[vb][Depth]>> \in user'
    <3>1. s = r /\ vb = va
      BY <1>4, <2>3, <2>5, ChangesOne DEF Maps
    <3>2. MapsTo(pt', s, vb) # Nil
      BY <1>6, <1>7, <3>1 DEF Sets
    <3>3. <<LeafIn(pt', s, vb), Index[vb][Depth]>> = cell
      BY <1>8, <3>1 DEF cell, r, va
    <3>4. ASSUME u
          PROVE  cell \in user'
      <4>1. Top.user
        BY <2>3, <2>5, <3>4 DEF Maps
      <4>2. CASE /\ pt' = pt /\ user' = user /\ Arch = "arm" /\ ~ mmu[Top.img]
                 /\ MapsTo(pt, r, va) # Nil
        <5>1. ~ Overwrites(n)
          <6>1. n \in Nat /\ \A m \in 1 .. n - 1 : m \in 1 .. pc - 1
            BY <1>4
          <6>2. Booted(Program[n].img, n) => Booted(Program[n].img, pc)
            BY <6>1 DEF Booted
          <6>3. mmu[Top.img] <=> Booted(Top.img, pc)
            BY <1>3 DEF ReachInv, OnBooted
          <6>4. QED
            BY <2>3, <4>2, <6>2, <6>3 DEF Overwrites
        <5>2. \E k \in 1 .. n - 1 : Changes(k, s, vb)
          BY <3>1, <4>2 DEF UseInv, ChangedOnly, n
        <5>3. <<LeafIn(pt, s, vb), Index[vb][Depth]>> \in user
          BY <2>5, <3>4, <5>1, <5>2
        <5>4. QED
          BY <1>8, <3>3, <4>2, <5>3
      <4>3. CASE user' = IF Top.user THEN user \cup {cell} ELSE user \ {cell}
        BY <4>1, <4>3
      <4>4. QED
        BY <2>4, <4>2, <4>3
    <3>5. QED
      BY <3>2, <3>3, <3>4
  <2>6. ASSUME NEW s \in Roots, NEW vb \in Page \ TablePage, ~ Changes(n, s, vb)
        PROVE  Same(s, vb)
    BY <1>9, <2>3, <2>6
  <2>7. n = Unfinished
    BY DEF n
  <2>8. QED
    BY <2>2, <2>5, <2>6, <2>7, UseKept
<1>12. QED
  BY <1>3, <1>10, <1>11

\* At reset nothing is mapped and nothing is provided.
LEMMA UseInit == MemInit => UseInv
<1>1. SUFFICES ASSUME MemInit PROVE UseInv
  OBVIOUS
<1>2. frames = <<>> /\ Unfinished = 1
  BY <1>1 DEF MemInit, PtInit, Unfinished
<1>3. \A r \in Roots, va \in Page : MapsTo(pt, r, va) = Nil
  BY <1>1, SpacesInit DEF Spaces!Init, Mapping, Translate
<1>4. \A r, va, u : ~ Provided(1, r, va, u)
  BY DEF Provided
<1>5. QED
  BY <1>2, <1>3, <1>4 DEF UseInv, CallUser, ChangedOnly, ProvidedMapped

\* Every step keeps it.
LEMMA UseNext ==
    ASSUME MemInv, MemInv', ReachInv, UseInv, [Next]_vars
    PROVE  UseInv'
<1>1. TablesNow /\ TablesThen
  BY DEF MemInv, TablesNow, TablesThen
<1>2. CASE mem_map_pa \/ MapRef \/ mem_map_va \/ mem_heap_allocate
  <2>1. /\ pt' = pt /\ user' = user /\ frames = <<>> /\ pc' = pc + 1
        /\ \E va, pa : frames' = <<Frame(Op.img, va, pa, Op.user)>>
    BY <1>2 DEF mem_map_pa, MapRef, mem_map_va, mem_heap_allocate, Map, At, Ready, Return
  <2>2. frames' # <<>> /\ frames'[1].user = Program[pc].user
    BY <2>1 DEF Frame, Op
  <2>3. QED
    BY <1>1, <2>1, <2>2, QuietUse
<1>3. CASE Walk
  BY <1>1, <1>3, OnTheWayUse, SetLeafUse DEF Walk, WalkStep
<1>4. CASE Unmap
  BY <1>1, <1>4, UnmapUse
<1>5. CASE MmuOn \/ Lookup \/ Access \/ Copy
  <2>1. /\ pt' = pt /\ user' = user /\ frames = <<>> /\ frames' = frames /\ pc' \in {pc, pc + 1}
        /\ Op.op \in {"mmu_on", "lookup", "block", "use", "check", "entry", "copy"}
    BY <1>5 DEF MmuOn, Lookup, Access, Copy, At, Ready, Return, ptvars
  <2>2. Program[pc].op \notin {"map_pa", "map_va", "map_ref", "heap", "unmap"}
    BY <2>1 DEF Op
  <2>3. QED
    BY <1>1, <2>1, <2>2, QuietUse
<1>6. CASE Abort \/ UNCHANGED vars
  <2>1. pt' = pt /\ user' = user /\ frames' = frames /\ pc' = pc
    BY <1>6 DEF Abort, vars, ptvars, memvars
  <2>2. pc # pc + 1
    BY <1>1, ReachTypes
  <2>3. QED
    BY <1>1, <2>1, <2>2, QuietUse
<1>7. QED
  BY <1>2, <1>3, <1>4, <1>5, <1>6 DEF Next, Step, Finished

\* The invariant of what is provided.
THEOREM UseInvariant == Spec => []UseInv
<1>1. MemInv /\ ReachInv /\ UseInv /\ [Next]_vars /\ MemInv' => UseInv'
  BY UseNext
<1>2. QED
  BY <1>1, MemInvariant, ReachInvariant, UseInit, PTL DEF Spec

\* A page that a call is about to use can be reached through the tables.
LEMMA UsedMapped ==
    ASSUME TablesNow, UseInv, At({"use", "check", "copy"}), NEW va \in {Op.va, Op.pa},
           Uses(pc, R, va)
    PROVE  Current(va) # {}
<1>1. /\ pc \in 1 .. Len(Program) /\ frames = <<>> /\ Program[pc].op \in {"use", "check", "copy"}
      /\ va \in {Program[pc].va, Program[pc].pa}
  BY ReachTypes DEF At, Ready, Op
<1>2. R = Program[pc].root /\ R \in Roots /\ va \in Page /\ Op.user \in BOOLEAN
  BY <1>1, CallFacts DEF R, Op
<1>3. va \notin TablePage
  BY <1>1, <1>2, UseAssumption
<1>4. Provided(pc, R, va, Op.user)
  BY <1>1, <1>2, ProvidedAssumption DEF Op
<1>5. Unfinished = pc
  BY <1>1 DEF Unfinished
<1>6. MapsTo(pt, R, va) # Nil /\ (Op.user => <<LeafIn(pt, R, va), Index[va][Depth]>> \in user)
  BY <1>2, <1>3, <1>4, <1>5 DEF UseInv, ProvidedMapped
<1>7. QED
  BY <1>6 DEF Current, Translate, UserCan, Leaf

\* Boot, start, load and the first uses of the shared pages run without an abort: the
\* tables can always be reached and each page is mapped when it is used.  The one
\* access that may abort is the loader's last read of the ELF header.
THEOREM OnlyEntryAbortsCorrect == Spec => []OnlyEntryAborts
<1>1. MemInit => OnlyEntryAborts
  BY DEF MemInit, OnlyEntryAborts
<1>2. ASSUME MemInv, UseInv, TablesReachable, ~ WalkFaults, OnlyEntryAborts, [Next]_vars
      PROVE  OnlyEntryAborts'
  <2>1. TablesNow
    BY <1>2 DEF MemInv, TablesNow
  <2>2. CASE UNCHANGED vars
    BY <1>2, <2>2 DEF OnlyEntryAborts, vars, memvars, Op
  <2>3. CASE Abort
    <3>1. /\ IF frames = <<>> THEN CallFaults ELSE WalkFaults
          /\ status = "run" /\ pc' = pc
      BY <2>3 DEF Abort
    <3>2. frames = <<>> /\ CallFaults
      BY <1>2, <3>1
    <3>3. CASE At({"unmap", "lookup", "block"}) /\ ~ WalkAccessible(Op.img, Op.va)
      <4>1. pc \in 1 .. Len(Program) /\ Len(Program) \in Nat /\ frames = <<>>
        BY <2>1, <3>3, ReachTypes DEF At, Ready
      <4>2. Op.img \in Running /\ Op.va \in Page
        BY <4>1, CallFacts DEF Running, AtEnd, Op
      <4>3. QED
        BY <1>2, <3>3, <4>2 DEF TablesReachable
    <3>4. CASE At({"use", "check", "entry", "copy"}) /\ Current(Op.va) = {}
      <4>1. CASE At({"use", "check", "copy"})
        <5>1. pc \in 1 .. Len(Program)
          BY <2>1, <4>1, ReachTypes DEF At, Ready
        <5>2. Uses(pc, R, Op.va)
          BY <4>1, <5>1, CallFacts DEF At, Uses, R, Op
        <5>3. QED
          BY <1>2, <2>1, <3>4, <4>1, <5>2, UsedMapped
      <4>2. CASE ~ At({"use", "check", "copy"})
        <5>1. pc <= Len(Program) /\ Op.op = "entry"
          BY <3>4, <4>2 DEF At, Ready
        <5>2. QED
          BY <3>1, <5>1 DEF OnlyEntryAborts, Op
      <4>3. QED
        BY <4>1, <4>2
    <3>5. CASE At({"copy"}) /\ Current(Op.pa) = {}
      <4>1. pc \in 1 .. Len(Program) /\ At({"use", "check", "copy"})
        BY <2>1, <3>5, ReachTypes DEF At, Ready
      <4>2. Uses(pc, R, Op.pa)
        BY <3>5, <4>1, CallFacts DEF At, Uses, R, Op
      <4>3. QED
        BY <1>2, <2>1, <3>5, <4>1, <4>2, UsedMapped
    <3>6. QED
      BY <3>2, <3>3, <3>4, <3>5 DEF CallFaults
  <2>4. CASE \/ mem_map_pa \/ MapRef \/ mem_map_va \/ mem_heap_allocate \/ Walk
             \/ Unmap \/ MmuOn \/ Lookup \/ Access \/ Copy
    <3>1. status = "run" /\ status' \in {status, "exit"}
      BY <2>4 DEF mem_map_pa, MapRef, mem_map_va, mem_heap_allocate, Map, Walk, Unmap,
                  MmuOn, Lookup, Access, Copy, At, Ready
    <3>2. QED
      BY <3>1 DEF OnlyEntryAborts
  <2>5. QED
    BY <1>2, <2>2, <2>3, <2>4 DEF Next, Step, Finished
<1>3. QED
  BY <1>1, <1>2, MemInvariant, UseInvariant, TablesReachableCorrect, WalksNeverFault, PTL
     DEF Spec

=============================================================================
