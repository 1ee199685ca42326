----------------------------- MODULE MemoryProofs -----------------------------
(***************************************************************************)
(* The page tables of the three images form trees, mem_map_pa() never      *)
(* nests deeper than two activations, and the tables implement the address *)
(* spaces of AddressMap: for every layout, every program of calls that     *)
(* meets ProgramAssumption and WindowAssumption, and both architectures.   *)
(***************************************************************************)
EXTENDS ImageMemory, PageWalkProofs, SequenceTheorems

(***************************************************************************)
(* The inductive invariant, as predicates on the values of the variables:  *)
(* m for pt, nx for next, fr for frames, on for mmu, n for pc.             *)
(***************************************************************************)
\* The pages a pool pointer has not reached are no tables.
FreshFree(lv, nx) ==
    \A I \in Image, k \in PoolName : \A i \in 1 .. Len(Pool[I][k]) :
        i >= nx[I][k] => lv[Pool[I][k][i]] = 0

\* Page p has been handed out.
Taken(p, nx) ==
    \A I \in Image, k \in PoolName : \A i \in 1 .. Len(Pool[I][k]) :
        i >= nx[I][k] => Pool[I][k][i] # p

\* A page that an activation is about to enter has been handed out and is no
\* table yet.
NewFree(lv, nx, fr) ==
    \A i \in 1 .. Len(fr) :
        fr[i].new # Nil => lv[fr[i].new] = 0 /\ Taken(fr[i].new, nx)

\* The tables form trees.
TreesGiven(lv, up, m, nx, fr) == Shape(m, lv, up) /\ FreshFree(lv, nx) /\ NewFree(lv, nx, fr)
Trees(m, nx, fr) == \E lv, up : TreesGiven(lv, up, m, nx, fr)

\* An activation is where its walk leads; one that waits for the inner call has
\* found its entry free, with the MMU on.
FrameOk(f, m, on) ==
    /\ f.tbl = TableIn(m, Root[f.img], f.va, f.lvl)
    /\ f.new # Nil => /\ f.lvl < Depth /\ on[f.img]
                      /\ m[f.tbl][Index[f.va][f.lvl]] = Nil

PaPool(I) == {Pool[I]["pa"][i] : i \in 1 .. Len(Pool[I]["pa"])}

\* The outer activation does what the last call asks.
Outer(f, n) ==
    /\ n > 1 /\ f.img = Program[n - 1].img
    /\ Spaces!Asked(Program[n - 1], Root[f.img], f.va, f.pa)

\* The inner activation maps the page the outer one waits for.
Inner(f, g) ==
    /\ f.new # Nil /\ g.new = Nil /\ g.img = f.img
    /\ g.va = f.new /\ g.pa = f.new /\ g.va \in PaPool(g.img)

Stack(m, fr, on, n) ==
    /\ Len(fr) <= 2
    /\ \A i \in 1 .. Len(fr) : FrameOk(fr[i], m, on)
    /\ Len(fr) >= 1 => Outer(fr[1], n)
    /\ Len(fr) = 2 => Inner(fr[1], fr[2])

\* A call of map_pa that has returned has left a leaf table behind.
MappedBefore(m, fr, n) ==
    \A i \in 1 .. n - 1 :
        Program[i].op = "map_pa" /\ (fr = <<>> \/ i < n - 1) =>
            LeafIn(m, Root[Program[i].img], Program[i].va) # Nil

\* An image with its MMU on has a leaf table for every page of its pool.
PoolCovered(m, on) ==
    \A I \in Image : on[I] => \A p \in PaPool(I) : LeafIn(m, Root[I], p) # Nil

ValuesOk(m, nx, fr, on, n) ==
    /\ m \in TableContents
    /\ nx \in [Image -> [PoolName -> Nat \ {0}]]
    /\ fr \in Seq(FrameType)
    /\ on \in [Image -> BOOLEAN]
    /\ n \in 1 .. Len(Program) + 1

TablesOk(m, nx, fr, on, n) ==
    /\ ValuesOk(m, nx, fr, on, n)
    /\ Trees(m, nx, fr) /\ Stack(m, fr, on, n)
    /\ MappedBefore(m, fr, n) /\ PoolCovered(m, on)

TouchedMapped == \A x \in touched : Translate(x[1], x[2]) # Nil

MemInv == MemTypeOK /\ TablesOk(pt, next, frames, mmu, pc) /\ TouchedMapped

----------------------------------------------------------------------------
Replaced(q, p, e) == p = [q EXCEPT ![Len(q)] = e]

\* The last activation of a stack of one or two is replaced.
LEMMA ReplaceTop ==
    ASSUME NEW S, NEW q \in Seq(S), Len(q) \in {1, 2}, NEW e \in S, NEW p, Replaced(q, p, e)
    PROVE  /\ p \in Seq(S) /\ Len(p) = Len(q) /\ p[Len(q)] = e /\ p # <<>> /\ Len(p) <= 2
           /\ Len(q) = 2 => p[1] = q[1]
           /\ \A i \in 1 .. Len(p) : p[i] = e \/ (i = 1 /\ i \in 1 .. Len(q) /\ p[i] = q[i])
<1>a. \A k \in {1, 2} : k \in 1 .. k
  OBVIOUS
<1>1. Len(q) \in 1 .. Len(q)
  BY <1>a
<1>2. /\ p \in Seq(S) /\ Len(p) = Len(q)
      /\ \A j \in 1 .. Len(q) : p[j] = IF j = Len(q) THEN e ELSE q[j]
  BY <1>1, ExceptSeq DEF Replaced
<1>3. \A k \in {1, 2} : /\ k <= 2 /\ k # 0 /\ k \in 1 .. k
                        /\ \A i \in 1 .. k : i = k \/ i = 1
                        /\ k = 2 => 1 \in 1 .. k /\ 1 # k
  OBVIOUS
<1>4. Len(<<>>) = 0
  OBVIOUS
<1>5. p # <<>>
  BY <1>2, <1>3, <1>4, Zenon
<1>6. QED
  BY <1>2, <1>3, <1>5, Zenon

\* A second activation is put on top of the first.
LEMMA PushTop ==
    ASSUME NEW S, NEW q \in Seq(S), Len(q) = 1, NEW e \in S
    PROVE  /\ Append(q, e) \in Seq(S) /\ Append(q, e) # <<>> /\ Len(Append(q, e)) = 2
           /\ Append(q, e)[1] = q[1] /\ Append(q, e)[2] = e
<1>1. 1 \in 1 .. Len(q) /\ Len(q) + 1 = 2
  OBVIOUS
<1>2. Append(q, e) \in Seq(S) /\ Append(q, e) # <<>>
  BY AppendProperties
<1>3. Len(Append(q, e)) = Len(q) + 1
  BY AppendProperties
<1>4. Append(q, e)[1] = q[1]
  BY <1>1, AppendProperties
<1>5. Append(q, e)[Len(q) + 1] = e
  BY AppendProperties
<1>6. QED
  BY <1>1, <1>2, <1>3, <1>4, <1>5, Zenon

\* The last activation of a stack of one or two returns.
LEMMA PopTop ==
    ASSUME NEW S, NEW q \in Seq(S), Len(q) \in {1, 2}
    PROVE  /\ SubSeq(q, 1, Len(q) - 1) \in Seq(S)
           /\ Len(SubSeq(q, 1, Len(q) - 1)) = Len(q) - 1
           /\ Len(q) = 2 => SubSeq(q, 1, Len(q) - 1)[1] = q[1]
           /\ Len(q) = 1 => SubSeq(q, 1, Len(q) - 1) = <<>>
<1>1. CASE Len(q) = 1
  <2>1. SubSeq(q, 1, Len(q) - 1) = <<>>
    BY <1>1, SubSeqEmpty
  <2>2. <<>> \in Seq(S) /\ Len(<<>>) = 0 /\ Len(q) - 1 = 0 /\ Len(q) # 2
    BY <1>1
  <2>3. QED
    BY <2>1, <2>2
<1>2. CASE Len(q) = 2
  <2>a. 1 \in 1 .. Len(q) /\ Len(q) - 1 = 1
    BY <1>2
  <2>1. \A i \in 1 .. 1 : q[i] \in S
    BY <2>a, ElementOfSeq
  <2>2. /\ SubSeq(q, 1, 1) \in Seq(S) /\ Len(SubSeq(q, 1, 1)) = 1
        /\ SubSeq(q, 1, 1)[1] = q[1]
    BY <2>1, SubSeqProperties
  <2>3. QED
    BY <1>2, <2>a, <2>2
<1>3. QED
  BY <1>1, <1>2

----------------------------------------------------------------------------
\* What the assumptions say of a call.
LEMMA CallFacts ==
    /\ Len(Program) \in Nat
    /\ \A n \in 1 .. Len(Program) :
          /\ Program[n] \in CallType
          /\ Program[n].root = Root[Program[n].img]
          /\ Program[n].img \in Image /\ Program[n].va \in Page /\ Program[n].pa \in Page
          /\ Program[n].user \in BOOLEAN /\ Program[n].ref \in Ref
    /\ \A I \in Image : Root[I] \in Roots /\ Root[I] \in TablePage
    /\ \A I \in Image, k \in PoolName : \A i \in 1 .. Len(Pool[I][k]) :
          Pool[I][k][i] \in PoolPages /\ Pool[I][k][i] \in Page /\ Pool[I][k][i] \in TablePage
    /\ \A I \in Image, k \in PoolName : Len(Pool[I][k]) \in Nat
<1>1. Len(Program) \in Nat
  BY ProgramAssumption, LenProperties
<1>2. \A n \in 1 .. Len(Program) : Program[n] \in CallType
  BY ProgramAssumption, ElementOfSeq
<1>3. \A I \in Image : Root[I] \in Roots /\ Root[I] \in TablePage
  BY DEF Roots, TablePage
<1>4. ASSUME NEW I \in Image, NEW k \in PoolName, NEW i \in 1 .. Len(Pool[I][k])
      PROVE  Pool[I][k][i] \in PoolPages /\ Pool[I][k][i] \in Page /\ Pool[I][k][i] \in TablePage
  <2>1. Pool[I][k] \in Seq(Page)
    BY PoolAssumption
  <2>2. Pool[I][k][i] \in Page
    BY <2>1, ElementOfSeq
  <2>3. QED
    BY <2>2 DEF PoolPages, TablePage
<1>5. ASSUME NEW I \in Image, NEW k \in PoolName
      PROVE  Len(Pool[I][k]) \in Nat
  <2>1. Pool[I][k] \in Seq(Page)
    BY PoolAssumption
  <2>2. QED
    BY <2>1, LenProperties
<1>6. QED
  BY <1>1, <1>2, <1>3, <1>4, <1>5, ProgramAssumption DEF CallType

\* The next call starts an activation; pool pages may have been handed out.
LEMMA StartCall ==
    ASSUME NEW m, NEW nx, NEW on, NEW n, TablesOk(m, nx, <<>>, on, n),
           n <= Len(Program),
           NEW nx2 \in [Image -> [PoolName -> Nat \ {0}]],
           \A I \in Image, k \in PoolName : nx2[I][k] >= nx[I][k],
           NEW va \in Page, NEW pa \in Page,
           Spaces!Asked(Program[n], Root[Program[n].img], va, pa)
    PROVE  TablesOk(m, nx2, <<Frame(Program[n].img, va, pa, Program[n].user)>>, on, n + 1)
<1> DEFINE f == Frame(Program[n].img, va, pa, Program[n].user)
           fr == <<f>>
<1>1. n \in 1 .. Len(Program) /\ Len(Program) \in Nat
  BY CallFacts DEF TablesOk, ValuesOk
<1>2. /\ f.img = Program[n].img /\ f.va = va /\ f.pa = pa /\ f.lvl = 1
      /\ f.tbl = Root[Program[n].img] /\ f.new = Nil
  BY DEF Frame
<1>3. f \in FrameType
  BY <1>1, CallFacts, DepthFacts DEF Frame, FrameType
<1> HIDE DEF f
<1>4. fr \in Seq(FrameType) /\ Len(fr) = 1 /\ fr[1] = f /\ fr # <<>>
  BY <1>3
<1> HIDE DEF fr
<1>5. ValuesOk(m, nx2, fr, on, n + 1)
  BY <1>1, <1>4 DEF TablesOk, ValuesOk
<1>6. Trees(m, nx2, fr)
  <2>1. PICK lv, up : TreesGiven(lv, up, m, nx, <<>>)
    BY DEF TablesOk, Trees
  <2>2. FreshFree(lv, nx2)
    <3>1. ASSUME NEW I \in Image, NEW k \in PoolName, NEW i \in 1 .. Len(Pool[I][k]),
                 i >= nx2[I][k]
          PROVE  lv[Pool[I][k][i]] = 0
      <4>1. nx[I][k] \in Nat /\ nx2[I][k] \in Nat /\ i \in Int
        BY DEF TablesOk, ValuesOk
      <4>2. i >= nx[I][k]
        BY <3>1, <4>1
      <4>3. QED
        BY <2>1, <4>2 DEF TreesGiven, FreshFree
    <3>2. QED
      BY <3>1 DEF FreshFree
  <2>3. NewFree(lv, nx2, fr)
    BY <1>2, <1>4 DEF NewFree
  <2>4. QED
    BY <2>1, <2>2, <2>3 DEF TreesGiven, Trees
<1>7. Stack(m, fr, on, n + 1)
  <2>1. FrameOk(f, m, on)
    BY <1>2 DEF FrameOk, TableIn
  <2>2. n + 1 > 1 /\ (n + 1) - 1 = n
    BY <1>1
  <2>3. Outer(f, n + 1)
    BY <1>2, <2>2 DEF Outer
  <2>4. QED
    BY <1>4, <2>1, <2>3 DEF Stack
<1>8. MappedBefore(m, fr, n + 1)
  <2>1. \A i \in 1 .. (n + 1) - 1 : i < (n + 1) - 1 => i \in 1 .. n - 1
    BY <1>1
  <2>2. QED
    BY <1>4, <2>1 DEF TablesOk, MappedBefore
<1>9. QED
  BY <1>5, <1>6, <1>7, <1>8 DEF TablesOk, fr, f

\* A call that maps nothing, or unmaps a page whose walk ends early.
LEMMA SkipCall ==
    ASSUME NEW m, NEW nx, NEW on, NEW n, TablesOk(m, nx, <<>>, on, n),
           n <= Len(Program), Program[n].op # "map_pa"
    PROVE  TablesOk(m, nx, <<>>, on, n + 1)
<1>1. n \in 1 .. Len(Program) /\ Len(Program) \in Nat
  BY CallFacts DEF TablesOk, ValuesOk
<1>2. ValuesOk(m, nx, <<>>, on, n + 1)
  BY <1>1 DEF TablesOk, ValuesOk
<1>3. Len(<<>>) = 0
  OBVIOUS
<1>4. Stack(m, <<>>, on, n + 1)
  BY <1>3 DEF Stack
<1>5. MappedBefore(m, <<>>, n + 1)
  <2>1. \A i \in 1 .. (n + 1) - 1 : i = n \/ i \in 1 .. n - 1
    BY <1>1
  <2>2. QED
    BY <2>1 DEF TablesOk, MappedBefore
<1>6. QED
  BY <1>2, <1>4, <1>5 DEF TablesOk

\* The MMU is switched on: by then the pool of the image is covered.
LEMMA SwitchOn ==
    ASSUME NEW m, NEW nx, NEW on, NEW n, TablesOk(m, nx, <<>>, on, n),
           n <= Len(Program), Program[n].op = "mmu_on"
    PROVE  TablesOk(m, nx, <<>>, [on EXCEPT ![Program[n].img] = TRUE], n + 1)
<1> DEFINE I0 == Program[n].img
           on2 == [on EXCEPT ![I0] = TRUE]
<1>1. n \in 1 .. Len(Program) /\ Len(Program) \in Nat /\ I0 \in Image
  BY CallFacts DEF TablesOk, ValuesOk
<1>2. TablesOk(m, nx, <<>>, on, n + 1)
  BY SkipCall
<1>3. on2 \in [Image -> BOOLEAN] /\ \A J \in Image : on2[J] => on[J] \/ J = I0
  BY DEF TablesOk, ValuesOk
<1>4. ASSUME NEW p \in PaPool(I0)
      PROVE  LeafIn(m, Root[I0], p) # Nil
  <2>1. PICK k \in 1 .. Len(Pool[I0]["pa"]) : p = Pool[I0]["pa"][k]
    BY <1>4 DEF PaPool
  <2>2. PICK i \in 1 .. n - 1 :
           /\ Program[i].op = "map_pa" /\ Program[i].img = I0
           /\ SameLeaf(Program[i].va, p)
    BY <1>1, <2>1, WindowAssumption
  <2>3. LeafIn(m, Root[I0], Program[i].va) # Nil
    BY <2>2 DEF TablesOk, MappedBefore
  <2>4. i \in 1 .. Len(Program)
    BY <1>1
  <2>5. Program[i].va \in Page /\ p \in Page
    BY <1>1, <2>1, <2>4, CallFacts DEF PoolName
  <2>6. LeafIn(m, Root[I0], Program[i].va) = LeafIn(m, Root[I0], p)
    BY <2>2, <2>5, LeafOfRegion DEF SameLeaf
  <2>7. QED
    BY <2>3, <2>6
<1> HIDE DEF on2, I0
<1>5. PoolCovered(m, on2)
  BY <1>3, <1>4 DEF TablesOk, PoolCovered
<1>6. Len(<<>>) = 0
  OBVIOUS
<1>7. Stack(m, <<>>, on2, n + 1)
  BY <1>6 DEF Stack
<1>8. QED
  BY <1>2, <1>3, <1>5, <1>7 DEF TablesOk, ValuesOk, on2, I0

----------------------------------------------------------------------------
\* The innermost of one or two activations, and the entry it is at.
Innermost(fr, f) == f = fr[Len(fr)]
Holds(m, f, e) == e = m[f.tbl][Index[f.va][f.lvl]]

\* A stack that is not empty has one or two activations, all well placed.
LEMMA TopFacts ==
    ASSUME NEW m, NEW nx, NEW fr, NEW on, NEW n, TablesOk(m, nx, fr, on, n), fr # <<>>
    PROVE  /\ Len(fr) \in {1, 2} /\ fr \in Seq(FrameType)
           /\ \A i \in 1 .. Len(fr) : fr[i] \in FrameType /\ FrameOk(fr[i], m, on)
           /\ Len(fr) \in 1 .. Len(fr) /\ 1 \in 1 .. Len(fr)
<1>1. fr \in Seq(FrameType) /\ Len(fr) <= 2
  BY DEF TablesOk, ValuesOk, Stack
<1>2. Len(fr) \in Nat \ {0}
  BY <1>1, EmptySeq
<1>a. \A k \in Nat \ {0} : k <= 2 => k \in {1, 2} /\ k \in 1 .. k /\ 1 \in 1 .. k
  OBVIOUS
<1>3. Len(fr) \in {1, 2} /\ Len(fr) \in 1 .. Len(fr) /\ 1 \in 1 .. Len(fr)
  BY <1>1, <1>2, <1>a
<1>4. \A i \in 1 .. Len(fr) : fr[i] \in FrameType
  BY <1>1, ElementOfSeq
<1>5. \A i \in 1 .. Len(fr) : FrameOk(fr[i], m, on)
  BY DEF TablesOk, Stack
<1>6. QED
  BY <1>1, <1>3, <1>4, <1>5

\* An activation stands at a table of its level.
LEMMA FrameFacts ==
    ASSUME NEW m, NEW lv, NEW up, Shape(m, lv, up), NEW on,
           NEW f \in FrameType, FrameOk(f, m, on)
    PROVE  /\ f.tbl \in TablePage /\ lv[f.tbl] = f.lvl /\ f.lvl \in 1 .. Depth
           /\ f.img \in Image /\ Root[f.img] \in Roots /\ f.va \in Page /\ f.pa \in Page
           /\ Index[f.va][f.lvl] \in Slot
           /\ f.tbl = TableIn(m, Root[f.img], f.va, f.lvl)
<1>1. /\ f.tbl \in TablePage /\ f.lvl \in 1 .. Depth /\ f.img \in Image /\ f.va \in Page
      /\ f.pa \in Page
  BY DEF FrameType
<1>2. f.tbl # Nil
  BY <1>1, DepthFacts
<1>3. Root[f.img] \in Roots /\ Index[f.va][f.lvl] \in Slot
  BY <1>1, CallFacts, DepthFacts
<1>4. f.tbl = TableIn(m, Root[f.img], f.va, f.lvl)
  BY DEF FrameOk
<1>5. lv[f.tbl] = f.lvl
  BY <1>1, <1>2, <1>3, <1>4, TableLevel
<1>6. QED
  BY <1>1, <1>3, <1>4, <1>5

\* A last-level entry is written.
LEMMA LeafWritten ==
    ASSUME NEW m, NEW nx, NEW fr, NEW on, NEW n, TablesOk(m, nx, fr, on, n),
           NEW r \in Roots, NEW va \in Page, LeafIn(m, r, va) # Nil,
           NEW e \in Page \cup {Nil}, NEW w,
           Written(m, w, LeafIn(m, r, va), Index[va][Depth], e)
    PROVE  TablesOk(w, nx, fr, on, n)
<1> DEFINE t == LeafIn(m, r, va)
           j == Index[va][Depth]
<1>1. PICK lv, up : TreesGiven(lv, up, m, nx, fr)
  BY DEF TablesOk, Trees
<1>2. Shape(m, lv, up)
  BY <1>1 DEF TreesGiven
<1>3. Depth \in 1 .. Depth /\ j \in Slot
  BY DepthFacts
<1>4. t \in TablePage /\ lv[t] = Depth
  BY <1>2, <1>3, TableLevel DEF LeafIn
<1>5. Written(m, w, t, j, e)
  OBVIOUS
<1> HIDE DEF t, j
<1>6. Shape(w, lv, up)
  BY <1>2, <1>3, <1>4, <1>5, LeafWriteShape
<1>7. \A s \in Roots, vb \in Page, i \in 1 .. Depth :
         TableIn(w, s, vb, i) = TableIn(m, s, vb, i)
  BY <1>2, <1>3, <1>4, <1>5, LeafWriteTables
<1>8. \A s \in Roots, vb \in Page : LeafIn(w, s, vb) = LeafIn(m, s, vb)
  BY <1>3, <1>7 DEF LeafIn
<1>9. \A u \in TablePage : u # t => w[u] = m[u]
  BY <1>2, <1>5 DEF Written, Shape, TableContents
<1>10. ValuesOk(w, nx, fr, on, n)
  BY <1>6 DEF TablesOk, ValuesOk, Shape
<1>11. Trees(w, nx, fr)
  BY <1>1, <1>6 DEF Trees, TreesGiven
<1>12. \A i \in 1 .. Len(fr) : FrameOk(fr[i], w, on)
  <2>1. TAKE i \in 1 .. Len(fr)
  <2>2. fr[i] \in FrameType /\ FrameOk(fr[i], m, on)
    BY ElementOfSeq DEF TablesOk, ValuesOk, Stack
  <2> DEFINE f == fr[i]
  <2>3. /\ f.tbl \in TablePage /\ lv[f.tbl] = f.lvl /\ f.lvl \in 1 .. Depth
        /\ Root[f.img] \in Roots /\ f.va \in Page
    BY <1>2, <2>2, FrameFacts
  <2>4. f.new # Nil => f.tbl # t
    BY <1>4, <2>2, <2>3, DepthFacts DEF FrameOk
  <2>5. TableIn(w, Root[f.img], f.va, f.lvl) = TableIn(m, Root[f.img], f.va, f.lvl)
    BY <1>7, <2>3
  <2> HIDE DEF f
  <2>6. FrameOk(f, w, on)
    BY <1>9, <2>2, <2>3, <2>4, <2>5 DEF FrameOk, f
  <2>7. QED
    BY <2>6 DEF f
<1>13. Stack(w, fr, on, n)
  BY <1>12 DEF TablesOk, Stack
<1>14. MappedBefore(w, fr, n)
  <2>1. ASSUME NEW i \in 1 .. n - 1
        PROVE  Root[Program[i].img] \in Roots /\ Program[i].va \in Page
    <3>1. i \in 1 .. Len(Program)
      BY CallFacts DEF TablesOk, ValuesOk
    <3>2. QED
      BY <3>1, CallFacts
  <2>2. QED
    BY <1>8, <2>1 DEF TablesOk, MappedBefore
<1>15. PoolCovered(w, on)
  <2>1. \A I \in Image : Root[I] \in Roots /\ PaPool(I) \subseteq Page
    BY CallFacts DEF PaPool, PoolName
  <2>2. QED
    BY <1>8, <2>1 DEF TablesOk, PoolCovered
<1>16. QED
  BY <1>10, <1>11, <1>13, <1>14, <1>15 DEF TablesOk

\* The innermost activation returns from its last level.
LEMMA Returned ==
    ASSUME NEW m, NEW nx, NEW fr, NEW on, NEW n, TablesOk(m, nx, fr, on, n),
           fr # <<>>, fr[Len(fr)].lvl = Depth
    PROVE  TablesOk(m, nx, SubSeq(fr, 1, Len(fr) - 1), on, n)
<1> DEFINE fr2 == SubSeq(fr, 1, Len(fr) - 1)
<1>1. Len(fr) \in {1, 2} /\ fr \in Seq(FrameType) /\ 1 \in 1 .. Len(fr)
      /\ Len(fr) \in 1 .. Len(fr)
  BY TopFacts
<1>2. /\ fr2 \in Seq(FrameType) /\ Len(fr2) = Len(fr) - 1
      /\ Len(fr) = 2 => fr2[1] = fr[1]
      /\ Len(fr) = 1 => fr2 = <<>>
  BY <1>1, PopTop
<1> HIDE DEF fr2
<1>3. \A i \in 1 .. Len(fr2) : i = 1 /\ Len(fr) = 2 /\ fr2[i] = fr[1]
  BY <1>1, <1>2
<1>4. ValuesOk(m, nx, fr2, on, n)
  BY <1>2 DEF TablesOk, ValuesOk
<1>5. Trees(m, nx, fr2)
  <2>1. PICK lv, up : TreesGiven(lv, up, m, nx, fr)
    BY DEF TablesOk, Trees
  <2>2. NewFree(lv, nx, fr2)
    BY <1>1, <1>3, <2>1 DEF TreesGiven, NewFree
  <2>3. QED
    BY <2>1, <2>2 DEF TreesGiven, Trees
<1>6. Stack(m, fr2, on, n)
  <2>1. \A i \in 1 .. Len(fr2) : FrameOk(fr2[i], m, on)
    BY <1>1, <1>3 DEF TablesOk, Stack
  <2>2. Len(fr2) >= 1 => Outer(fr2[1], n)
    BY <1>1, <1>2 DEF TablesOk, Stack
  <2>3. Len(fr2) <= 2 /\ Len(fr2) # 2
    BY <1>1, <1>2
  <2>4. QED
    BY <2>1, <2>2, <2>3 DEF Stack
<1>7. MappedBefore(m, fr2, n)
  <2>1. CASE Len(fr) = 2
    <3>a. Len(fr2) = 1 /\ Len(<<>>) = 0
      BY <1>2, <2>1
    <3>1. fr2 # <<>>
      BY <3>a
    <3>2. QED
      BY <3>1 DEF TablesOk, MappedBefore
  <2>2. CASE Len(fr) = 1
    <3> DEFINE f == fr[1]
    <3>1. f \in FrameType /\ FrameOk(f, m, on) /\ f.lvl = Depth
      BY <1>1, <2>2, TopFacts
    <3>2. LeafIn(m, Root[f.img], f.va) # Nil
      BY <3>1, DepthFacts DEF FrameOk, FrameType, LeafIn
    <3>3. n > 1 /\ f.img = Program[n - 1].img
          /\ Spaces!Asked(Program[n - 1], Root[f.img], f.va, f.pa)
      BY <2>2 DEF TablesOk, Stack, Outer
    <3>4. Program[n - 1].op = "map_pa" => f.va = Program[n - 1].va
      BY <3>3 DEF Spaces!Asked
    <3>5. Program[n - 1].op = "map_pa" =>
             LeafIn(m, Root[Program[n - 1].img], Program[n - 1].va) # Nil
      BY <3>2, <3>3, <3>4
    <3>6. \A i \in 1 .. n - 1 : i = n - 1 \/ i < n - 1
      BY CallFacts DEF TablesOk, ValuesOk
    <3>7. QED
      BY <3>5, <3>6 DEF TablesOk, MappedBefore
  <2>3. QED
    BY <1>1, <2>1, <2>2
<1>8. QED
  BY <1>4, <1>5, <1>6, <1>7 DEF TablesOk, fr2

----------------------------------------------------------------------------
\* A pool page is handed out: it is no table, and no pool pointer meets it again.
Hands(I, k, p, nx, nx2) ==
    /\ nx \in [Image -> [PoolName -> Nat \ {0}]] /\ I \in Image /\ k \in PoolName
    /\ nx[I][k] <= Len(Pool[I][k]) /\ p = Pool[I][k][nx[I][k]]
    /\ nx2 = [nx EXCEPT ![I][k] = @ + 1]

\* Pool pointers only move on, and page p is behind them.
Moved(p, nx, nx2) ==
    /\ p \in PoolPages /\ p \in Page /\ Taken(p, nx2)
    /\ nx2 \in [Image -> [PoolName -> Nat \ {0}]]
    /\ \A J \in Image, l \in PoolName : nx2[J][l] >= nx[J][l]

\* What a pool pointer hands out.
LEMMA HandedOut ==
    ASSUME NEW I, NEW k, NEW p, NEW nx, NEW nx2, Hands(I, k, p, nx, nx2)
    PROVE  /\ Moved(p, nx, nx2)
           /\ \A lv : FreshFree(lv, nx) => lv[p] = 0
           /\ k = "pa" => p \in PaPool(I)
<1>a. /\ nx \in [Image -> [PoolName -> Nat \ {0}]] /\ I \in Image /\ k \in PoolName
      /\ nx[I][k] <= Len(Pool[I][k]) /\ p = Pool[I][k][nx[I][k]]
  BY DEF Hands
<1>1. nx[I][k] \in Nat \ {0} /\ Len(Pool[I][k]) \in Nat
  BY <1>a, CallFacts
<1>2. nx[I][k] \in 1 .. Len(Pool[I][k])
  BY <1>a, <1>1
<1>3. /\ nx2 \in [Image -> [PoolName -> Nat \ {0}]]
      /\ \A J \in Image, l \in PoolName :
            nx2[J][l] = IF J = I /\ l = k THEN nx[J][l] + 1 ELSE nx[J][l]
  BY DEF Hands
<1>4. ASSUME NEW J \in Image, NEW l \in PoolName
      PROVE  nx2[J][l] >= nx[J][l]
  <2>1. nx[J][l] \in Nat /\ (nx2[J][l] = nx[J][l] + 1 \/ nx2[J][l] = nx[J][l])
    BY <1>a, <1>3
  <2>2. QED
    BY <2>1
<1>5. p \in PoolPages /\ p \in Page
  BY <1>a, <1>2, CallFacts
<1>6. \A lv : FreshFree(lv, nx) => lv[p] = 0
  BY <1>a, <1>1, <1>2 DEF FreshFree
<1>7. ASSUME NEW J \in Image, NEW l \in PoolName, NEW i \in 1 .. Len(Pool[J][l]),
             i >= nx2[J][l], Pool[J][l][i] = p
      PROVE  FALSE
  <2>1. J = I /\ l = k /\ i = nx[I][k]
    BY <1>a, <1>2, <1>7, PoolAssumption
  <2>2. nx2[J][l] = nx[I][k] + 1
    BY <1>a, <1>3, <2>1
  <2>3. QED
    BY <1>1, <1>7, <2>1, <2>2
<1>8. Taken(p, nx2)
  BY <1>7 DEF Taken
<1>9. k = "pa" => p \in PaPool(I)
  BY <1>a, <1>2 DEF PaPool
<1>10. QED
  BY <1>3, <1>4, <1>5, <1>6, <1>8, <1>9 DEF Moved

\* The innermost activation goes down to the table its entry points to.
LEMMA Descended ==
    ASSUME NEW m, NEW nx, NEW fr, NEW on, NEW n, TablesOk(m, nx, fr, on, n), fr # <<>>,
           NEW f, Innermost(fr, f), f.lvl < Depth, NEW h, Holds(m, f, h), h # Nil,
           NEW fr2, Replaced(fr, fr2, Below(f, h))
    PROVE  TablesOk(m, nx, fr2, on, n)
<1> DEFINE g == Below(f, h)
<1>1. /\ Len(fr) \in {1, 2} /\ fr \in Seq(FrameType)
      /\ Len(fr) \in 1 .. Len(fr) /\ 1 \in 1 .. Len(fr)
      /\ f \in FrameType /\ FrameOk(f, m, on)
  BY TopFacts DEF Innermost
<1>2. PICK lv, up : TreesGiven(lv, up, m, nx, fr)
  BY DEF TablesOk, Trees
<1>3. Shape(m, lv, up)
  BY <1>2 DEF TreesGiven
<1>4. /\ f.tbl \in TablePage /\ lv[f.tbl] = f.lvl /\ f.lvl \in 1 .. Depth
      /\ Index[f.va][f.lvl] \in Slot /\ f.tbl = TableIn(m, Root[f.img], f.va, f.lvl)
  BY <1>1, <1>3, FrameFacts
<1>5. f.lvl \in 1 .. Depth - 1 /\ f.lvl + 1 \in 1 .. Depth /\ f.tbl # Nil
  BY <1>4, DepthFacts
<1>6. h \in TablePage
  <2>1. GoodEntry(m, lv, up, f.tbl, Index[f.va][f.lvl])
    BY <1>3, <1>4 DEF Shape
  <2>2. QED
    BY <1>4, <1>5, <2>1 DEF GoodEntry, Holds
<1>7. h = TableIn(m, Root[f.img], f.va, f.lvl + 1)
  <2>1. TableIn(m, Root[f.img], f.va, f.lvl + 1)
           = Entry(m, TableIn(m, Root[f.img], f.va, f.lvl), f.va, f.lvl)
    BY <1>5, TableStep
  <2>2. QED
    BY <1>4, <1>5, <2>1 DEF Entry, Holds
<1>8. /\ g.img = f.img /\ g.va = f.va /\ g.pa = f.pa /\ g.lvl = f.lvl + 1
      /\ g.tbl = h /\ g.new = Nil
  BY <1>1 DEF Below, FrameType
<1>9. g \in FrameType
  BY <1>1, <1>5, <1>6 DEF Below, FrameType
<1> HIDE DEF g
<1>10. FrameOk(g, m, on)
  BY <1>7, <1>8 DEF FrameOk
<1>11. /\ fr2 \in Seq(FrameType) /\ Len(fr2) = Len(fr) /\ fr2[Len(fr)] = g
       /\ fr2 # <<>> /\ Len(fr2) <= 2 /\ (Len(fr) = 2 => fr2[1] = fr[1])
       /\ \A i \in 1 .. Len(fr2) : fr2[i] = g \/ (i = 1 /\ i \in 1 .. Len(fr) /\ fr2[i] = fr[i])
  <2>1. Replaced(fr, fr2, g)
    BY DEF g
  <2>2. QED
    BY <1>1, <1>9, <2>1, ReplaceTop
<1>13. ValuesOk(m, nx, fr2, on, n)
  BY <1>11 DEF TablesOk, ValuesOk
<1>14. Trees(m, nx, fr2)
  <2>1. NewFree(lv, nx, fr2)
    <3>1. NewFree(lv, nx, fr)
      BY <1>2 DEF TreesGiven
    <3>2. SUFFICES ASSUME NEW i \in 1 .. Len(fr2), fr2[i].new # Nil
                   PROVE  lv[fr2[i].new] = 0 /\ Taken(fr2[i].new, nx)
      BY DEF NewFree
    <3>3. i \in 1 .. Len(fr) /\ fr2[i] = fr[i]
      BY <1>8, <1>11, <3>2
    <3>4. QED
      BY <3>1, <3>2, <3>3 DEF NewFree
  <2>2. QED
    BY <1>2, <2>1 DEF TreesGiven, Trees
<1>15. Stack(m, fr2, on, n)
  <2>1. \A i \in 1 .. Len(fr2) : FrameOk(fr2[i], m, on)
    <3>1. \A i \in 1 .. Len(fr) : FrameOk(fr[i], m, on)
      BY TopFacts
    <3>2. TAKE i \in 1 .. Len(fr2)
    <3>3. CASE fr2[i] = g
      BY <1>10, <3>3
    <3>4. CASE i \in 1 .. Len(fr) /\ fr2[i] = fr[i]
      BY <3>1, <3>4
    <3>5. QED
      BY <1>11, <3>3, <3>4
  <2>2. Outer(fr2[1], n)
    <3>1. Outer(fr[1], n)
      BY <1>1 DEF TablesOk, Stack
    <3>2. CASE Len(fr) = 2
      BY <1>11, <3>1, <3>2
    <3>3. CASE Len(fr) = 1
      <4>1. fr2[1] = g /\ fr[1] = f
        BY <1>11, <3>3 DEF Innermost
      <4>2. QED
        BY <1>8, <3>1, <4>1 DEF Outer
    <3>4. QED
      BY <1>1, <3>2, <3>3
  <2>3. Len(fr2) = 2 => Inner(fr2[1], fr2[2])
    <3>1. SUFFICES ASSUME Len(fr) = 2 PROVE Inner(fr[1], g)
      BY <1>11
    <3>2. Inner(fr[1], f)
      BY <3>1 DEF TablesOk, Stack, Innermost
    <3>3. QED
      BY <1>8, <3>2 DEF Inner
  <2>4. QED
    BY <1>11, <2>1, <2>2, <2>3 DEF Stack
<1>16. MappedBefore(m, fr2, n)
  BY <1>11 DEF TablesOk, MappedBefore
<1>17. QED
  BY <1>13, <1>14, <1>15, <1>16 DEF TablesOk

\* The only activation enters a page that is no table yet, and goes down to it.
OnlyAt(m, nx, fr, on, n, f, lv, up, p, nx2) ==
    /\ TablesOk(m, nx, fr, on, n) /\ fr # <<>> /\ Len(fr) = 1 /\ Innermost(fr, f)
    /\ f.lvl < Depth /\ Holds(m, f, Nil)
    /\ TreesGiven(lv, up, m, nx, fr) /\ lv[p] = 0 /\ Moved(p, nx, nx2)
\* Linking the new page keeps the invariant and every address space.
LEMMA Entered ==
    ASSUME NEW m, NEW nx, NEW fr, NEW on, NEW n, NEW f, NEW lv, NEW up, NEW p, NEW nx2,
           OnlyAt(m, nx, fr, on, n, f, lv, up, p, nx2),
           NEW w, Written(m, w, f.tbl, Index[f.va][f.lvl], p),
           NEW fr2, Replaced(fr, fr2, Below(f, p))
    PROVE  /\ TablesOk(w, nx2, fr2, on, n)
           /\ \A s \in Roots, vb \in Page : MapsTo(w, s, vb) = MapsTo(m, s, vb)
<1>a. /\ TablesOk(m, nx, fr, on, n) /\ fr # <<>> /\ Len(fr) = 1 /\ Innermost(fr, f)
      /\ f.lvl < Depth /\ Holds(m, f, Nil)
      /\ TreesGiven(lv, up, m, nx, fr) /\ lv[p] = 0
  BY DEF OnlyAt
<1>b. /\ p \in PoolPages /\ Taken(p, nx2) /\ nx2 \in [Image -> [PoolName -> Nat \ {0}]]
      /\ \A I \in Image, k \in PoolName : nx2[I][k] >= nx[I][k]
  BY DEF OnlyAt, Moved
<1> USE <1>a, <1>b
<1> DEFINE g == Below(f, p)
           t == f.tbl
           j == Index[f.va][f.lvl]
           l2 == [lv EXCEPT ![p] = lv[t] + 1]
           u2 == [up EXCEPT ![p] = <<t, j>>]
<1>1. /\ Len(fr) \in {1, 2} /\ fr \in Seq(FrameType)
      /\ f \in FrameType /\ FrameOk(f, m, on)
  BY TopFacts DEF Innermost
<1>2. Shape(m, lv, up) /\ FreshFree(lv, nx)
  BY DEF TreesGiven
<1>3. /\ t \in TablePage /\ lv[t] = f.lvl /\ f.lvl \in 1 .. Depth /\ j \in Slot
      /\ t = TableIn(m, Root[f.img], f.va, f.lvl) /\ Root[f.img] \in Roots /\ f.va \in Page
  BY <1>1, <1>2, FrameFacts
<1>4. f.lvl \in 1 .. Depth - 1 /\ f.lvl + 1 \in 1 .. Depth /\ t # Nil
  BY <1>3, DepthFacts
<1>5. Written(m, w, t, j, p) /\ m[t][j] = Nil
  BY DEF Holds
<1>6. p \in TablePage
  BY DEF TablePage
<1>7. /\ g.img = f.img /\ g.va = f.va /\ g.pa = f.pa /\ g.lvl = f.lvl + 1
      /\ g.tbl = p /\ g.new = Nil
  BY <1>1 DEF Below, FrameType
<1>8. g \in FrameType
  BY <1>1, <1>4, <1>6 DEF Below, FrameType
<1>9. /\ fr2 \in Seq(FrameType) /\ Len(fr2) = Len(fr) /\ fr2[Len(fr)] = g /\ fr2 # <<>>
  <2>1. Replaced(fr, fr2, g)
    OBVIOUS
  <2> HIDE DEF g
  <2>2. QED
    BY <1>1, <1>8, <2>1, ReplaceTop
<1> HIDE DEF g, t, j
<1>10. Len(fr2) = 1 /\ fr2[1] = g /\ \A i \in 1 .. Len(fr2) : i = 1
  BY <1>9
<1>11. Linked(m, lv, up, t, j, p, w)
  BY <1>2, <1>3, <1>4, <1>5 DEF Linked
<1>12. Shape(w, l2, u2)
  BY <1>11, LinkShape
<1>13. /\ \A s \in Roots, vb \in Page, i \in 1 .. Depth :
             TableIn(m, s, vb, i) # Nil => TableIn(w, s, vb, i) = TableIn(m, s, vb, i)
       /\ \A s \in Roots, vb \in Page : MapsTo(w, s, vb) = MapsTo(m, s, vb)
  <2>1. \A s \in Roots, vb \in Page, i \in 1 .. Depth :
           TableIn(m, s, vb, i) # Nil => TableIn(w, s, vb, i) = TableIn(m, s, vb, i)
    BY <1>11, LinkTables
  <2>2. \A s \in Roots, vb \in Page : MapsTo(w, s, vb) = MapsTo(m, s, vb)
    BY <1>11, LinkMap
  <2>3. QED
    BY <2>1, <2>2
<1>14. \A s \in Roots, vb \in Page : LeafIn(m, s, vb) # Nil => LeafIn(w, s, vb) # Nil
  BY <1>13, DepthFacts DEF LeafIn
<1>15. \A u \in TablePage : u # p => l2[u] = lv[u]
  BY <1>2 DEF Shape, Levels
<1> HIDE DEF l2, u2
<1>16. ValuesOk(w, nx2, fr2, on, n)
  BY <1>9, <1>12 DEF TablesOk, ValuesOk, Shape
<1>17. Trees(w, nx2, fr2)
  <2>1. ASSUME NEW I \in Image, NEW k \in PoolName, NEW i \in 1 .. Len(Pool[I][k]),
               i >= nx2[I][k]
        PROVE  l2[Pool[I][k][i]] = 0
    <3>1. nx[I][k] \in Nat /\ nx2[I][k] \in Nat /\ i \in Int
      BY DEF TablesOk, ValuesOk
    <3>2. i >= nx[I][k]
      BY <2>1, <3>1
    <3>3. lv[Pool[I][k][i]] = 0
      BY <1>2, <3>2 DEF FreshFree
    <3>4. Pool[I][k][i] # p
      BY <2>1 DEF Taken
    <3>5. Pool[I][k][i] \in TablePage
      BY CallFacts
    <3>6. QED
      BY <1>15, <3>3, <3>4, <3>5
  <2>2. FreshFree(l2, nx2)
    BY <2>1 DEF FreshFree
  <2>3. NewFree(l2, nx2, fr2)
    BY <1>7, <1>10 DEF NewFree
  <2>4. QED
    BY <1>12, <2>2, <2>3 DEF TreesGiven, Trees
<1>18. FrameOk(g, w, on)
  <2>1. TableIn(w, Root[f.img], f.va, f.lvl) = t
    BY <1>3, <1>4, <1>13
  <2>2. TableIn(w, Root[f.img], f.va, f.lvl + 1) = Entry(w, t, f.va, f.lvl)
    BY <1>4, <2>1, TableStep
  <2>3. Entry(w, t, f.va, f.lvl) = w[t][j]
    BY <1>4 DEF Entry, j
  <2>4. w[t][j] = p
    BY <1>3, <1>11, LinkFacts
  <2>5. QED
    BY <1>7, <2>2, <2>3, <2>4 DEF FrameOk
<1>19. Stack(w, fr2, on, n)
  <2>1. Outer(f, n)
    BY DEF TablesOk, Stack, Innermost
  <2>2. Outer(g, n)
    BY <1>7, <2>1 DEF Outer
  <2>3. QED
    BY <1>10, <1>18, <2>2 DEF Stack
<1>20. MappedBefore(w, fr2, n)
  <2>1. ASSUME NEW i \in 1 .. n - 1
        PROVE  Root[Program[i].img] \in Roots /\ Program[i].va \in Page
    <3>1. i \in 1 .. Len(Program)
      BY CallFacts DEF TablesOk, ValuesOk
    <3>2. QED
      BY <3>1, CallFacts
  <2>2. QED
    BY <1>9, <1>14, <2>1 DEF TablesOk, MappedBefore
<1>21. PoolCovered(w, on)
  <2>1. \A I \in Image : Root[I] \in Roots /\ PaPool(I) \subseteq Page
    BY CallFacts DEF PaPool, PoolName
  <2>2. QED
    BY <1>14, <2>1 DEF TablesOk, PoolCovered
<1>22. QED
  BY <1>13, <1>16, <1>17, <1>19, <1>20, <1>21 DEF TablesOk

\* An activation that allocates with the MMU on is the only one: the leaf table
\* of every pool page is there when the inner call looks for it.
LEMMA NoThird ==
    ASSUME NEW m, NEW nx, NEW fr, NEW on, NEW n, TablesOk(m, nx, fr, on, n), fr # <<>>,
           NEW f, Innermost(fr, f), f.lvl < Depth, Holds(m, f, Nil)
    PROVE  Len(fr) = 1
<1>1. /\ Len(fr) \in {1, 2} /\ fr \in Seq(FrameType) /\ 1 \in 1 .. Len(fr)
      /\ f \in FrameType /\ FrameOk(f, m, on) /\ FrameOk(fr[1], m, on)
  BY TopFacts DEF Innermost
<1>2. SUFFICES ASSUME Len(fr) = 2 PROVE FALSE
  BY <1>1
<1>3. Inner(fr[1], f)
  BY <1>2 DEF TablesOk, Stack, Innermost
<1>4. on[f.img] /\ f.va \in PaPool(f.img) /\ f.img \in Image
  BY <1>1, <1>3 DEF FrameOk, Inner, FrameType
<1>5. LeafIn(m, Root[f.img], f.va) # Nil
  BY <1>4 DEF TablesOk, PoolCovered
<1>6. f.lvl \in 1 .. Depth - 1 /\ f.lvl + 1 \in 1 .. Depth
  BY <1>1, DepthFacts DEF FrameType
<1>7. TableIn(m, Root[f.img], f.va, f.lvl + 1) # Nil
  BY <1>5, <1>6, LeafAbove
<1>8. TableIn(m, Root[f.img], f.va, f.lvl + 1)
         = Entry(m, TableIn(m, Root[f.img], f.va, f.lvl), f.va, f.lvl)
  BY <1>6, TableStep
<1>9. f.tbl = TableIn(m, Root[f.img], f.va, f.lvl)
  BY <1>1 DEF FrameOk
<1>10. QED
  BY <1>7, <1>8, <1>9 DEF Entry, Holds

\* The only activation waits for the call that maps its new table page.
LEMMA Nested ==
    ASSUME NEW m, NEW nx, NEW fr, NEW on, NEW n, NEW f, NEW lv, NEW up, NEW p, NEW nx2,
           OnlyAt(m, nx, fr, on, n, f, lv, up, p, nx2),
           on[f.img], p \in PaPool(f.img),
           NEW q, Replaced(fr, q, [f EXCEPT !.new = p]),
           NEW u \in BOOLEAN
    PROVE  TablesOk(m, nx2, Append(q, Frame(f.img, p, p, u)), on, n)
<1>a. /\ TablesOk(m, nx, fr, on, n) /\ fr # <<>> /\ Len(fr) = 1 /\ Innermost(fr, f)
      /\ f.lvl < Depth /\ Holds(m, f, Nil)
      /\ TreesGiven(lv, up, m, nx, fr) /\ lv[p] = 0
  BY DEF OnlyAt
<1>b. /\ p \in PoolPages /\ p \in Page /\ Taken(p, nx2)
      /\ nx2 \in [Image -> [PoolName -> Nat \ {0}]]
      /\ \A I \in Image, k \in PoolName : nx2[I][k] >= nx[I][k]
  BY DEF OnlyAt, Moved
<1> USE <1>a, <1>b
<1> DEFINE f2 == [f EXCEPT !.new = p]
           g == Frame(f.img, p, p, u)
           fr2 == Append(q, g)
<1>1. /\ Len(fr) \in {1, 2} /\ fr \in Seq(FrameType)
      /\ f \in FrameType /\ FrameOk(f, m, on)
  BY TopFacts DEF Innermost
<1>2. Shape(m, lv, up) /\ FreshFree(lv, nx)
  BY DEF TreesGiven
<1>3. /\ f2.img = f.img /\ f2.va = f.va /\ f2.pa = f.pa /\ f2.lvl = f.lvl
      /\ f2.tbl = f.tbl /\ f2.new = p
  BY <1>1 DEF FrameType
<1>4. /\ g.img = f.img /\ g.va = p /\ g.pa = p /\ g.lvl = 1
      /\ g.tbl = Root[f.img] /\ g.new = Nil
  BY DEF Frame
<1>5. f2 \in FrameType
  BY <1>1 DEF FrameType
<1>6. g \in FrameType
  <2>1. f.img \in Image /\ Root[f.img] \in TablePage /\ 1 \in 1 .. Depth
    BY <1>1, CallFacts, DepthFacts DEF FrameType
  <2>2. QED
    BY <2>1 DEF Frame, FrameType
<1>7. p # Nil
  BY PageAssumption
<1>8. q \in Seq(FrameType) /\ Len(q) = 1 /\ q[1] = f2
  <2>1. Replaced(fr, q, f2)
    OBVIOUS
  <2> HIDE DEF f2
  <2>2. QED
    BY <1>1, <1>5, <2>1, ReplaceTop
<1> HIDE DEF f2, g
<1>9. fr2 \in Seq(FrameType) /\ fr2 # <<>> /\ Len(fr2) = 2 /\ fr2[1] = q[1] /\ fr2[2] = g
  BY <1>6, <1>8, PushTop
<1> HIDE DEF fr2
<1>10. Len(fr2) = 2 /\ fr2[1] = f2 /\ fr2[2] = g /\ \A i \in 1 .. Len(fr2) : i = 1 \/ i = 2
  BY <1>8, <1>9
<1>12. fr2 # <<>>
  BY <1>9
<1>13. ValuesOk(m, nx2, fr2, on, n)
  BY <1>9 DEF TablesOk, ValuesOk
<1>14. Trees(m, nx2, fr2)
  <2>1. ASSUME NEW I \in Image, NEW k \in PoolName, NEW i \in 1 .. Len(Pool[I][k]),
               i >= nx2[I][k]
        PROVE  lv[Pool[I][k][i]] = 0
    <3>1. nx[I][k] \in Nat /\ nx2[I][k] \in Nat /\ i \in Int
      BY DEF TablesOk, ValuesOk
    <3>2. i >= nx[I][k]
      BY <2>1, <3>1
    <3>3. QED
      BY <1>2, <3>2 DEF FreshFree
  <2>2. FreshFree(lv, nx2)
    BY <2>1 DEF FreshFree
  <2>3. NewFree(lv, nx2, fr2)
    BY <1>3, <1>4, <1>10 DEF NewFree
  <2>4. QED
    BY <1>2, <2>2, <2>3 DEF TreesGiven, Trees
<1>15. FrameOk(f2, m, on)
  BY <1>1, <1>3 DEF FrameOk, Holds
<1>16. FrameOk(g, m, on)
  BY <1>4 DEF FrameOk, TableIn
<1>17. Stack(m, fr2, on, n)
  <2>1. Outer(f, n)
    BY DEF TablesOk, Stack, Innermost
  <2>2. Outer(f2, n)
    BY <1>3, <2>1 DEF Outer
  <2>3. Inner(f2, g)
    BY <1>3, <1>4, <1>7 DEF Inner
  <2>4. QED
    BY <1>10, <1>15, <1>16, <2>2, <2>3 DEF Stack
<1>18. MappedBefore(m, fr2, n)
  BY <1>12 DEF TablesOk, MappedBefore
<1>19. QED
  BY <1>13, <1>14, <1>17, <1>18 DEF TablesOk, fr2, g

----------------------------------------------------------------------------
(***************************************************************************)
(* The actions.  A step keeps the invariant of the tables, and every       *)
(* address space either stays as it is or changes in one page, as the call *)
(* in progress asks.                                                       *)
(***************************************************************************)
TablesNow == TablesOk(pt, next, frames, mmu, pc)
TablesThen == TablesOk(pt', next', frames', mmu', pc')

SameMaps == \A r \in Roots, va \in Page : MapsTo(pt', r, va) = MapsTo(pt, r, va)
OneMapped ==
    \E r \in Roots, va \in Page :
        /\ \A s \in Roots, vb \in Page :
              ~ (s = r /\ vb = va) => MapsTo(pt', s, vb) = MapsTo(pt, s, vb)
        /\ \/ pc' - 1 > 0 /\ Spaces!Asked(Program[pc' - 1], r, va, MapsTo(pt', r, va))
           \/ Spaces!TableShown(va, MapsTo(pt', r, va))

\* mem_map_pa() follows a valid descriptor.
LEMMA DescendStep ==
    ASSUME TablesNow, Descend, pc' = pc
    PROVE  TablesThen /\ SameMaps
<1>1. frames # <<>> /\ Top.lvl < Depth /\ Here(Top) # Nil
  BY DEF Descend, Walking
<1>2. Innermost(frames, Top) /\ Holds(pt, Top, Here(Top))
  BY DEF Innermost, Holds, Top, Here
<1>3. Replaced(frames, frames', Below(Top, Here(Top)))
  BY DEF Descend, SetTop, Replaced
<1>4. pt' = pt /\ next' = next /\ mmu' = mmu
  BY DEF Descend
<1>5. TablesOk(pt, next, frames', mmu, pc)
  BY <1>1, <1>2, <1>3, Descended DEF TablesNow
<1>6. QED
  BY <1>4, <1>5 DEF TablesThen, SameMaps

\* map_va_to_pa() links a new table page.
LEMMA BootGrowStep ==
    ASSUME TablesNow, BootGrow, pc' = pc
    PROVE  TablesThen /\ SameMaps
<1> DEFINE I == Top.img
           k == BootPool
           p == Pool[I][k][next[I][k]]
<1>1. frames # <<>> /\ Top.lvl < Depth /\ ~ mmu[I] /\ next[I][k] <= Len(Pool[I][k])
  BY DEF BootGrow, Walking, CanAllocate
<1>2. Innermost(frames, Top) /\ Holds(pt, Top, Nil)
  BY DEF Innermost, Holds, Top, Here, BootGrow
<1>3. Replaced(frames, frames', Below(Top, p))
  BY DEF BootGrow, SetTop, Replaced, Allocated
<1>4. Written(pt, pt', Top.tbl, Index[Top.va][Top.lvl], p)
  BY DEF BootGrow, WriteHere, Written, Allocated
<1>5. next' = [next EXCEPT ![I][k] = @ + 1] /\ mmu' = mmu
  BY DEF BootGrow, mem_allocate_pa
<1>6. TablesOk(pt, next, frames, mmu, pc) /\ next \in [Image -> [PoolName -> Nat \ {0}]]
  BY DEF TablesNow, TablesOk, ValuesOk
<1>7. Len(frames) = 1
  BY <1>1, <1>2, <1>6, NoThird
<1>8. I \in Image /\ k \in PoolName
  <2>1. Top \in FrameType
    BY <1>1, <1>6, TopFacts DEF Top
  <2>2. QED
    BY <2>1 DEF FrameType, BootPool, PoolName
<1>9. PICK lv, up : TreesGiven(lv, up, pt, next, frames)
  BY <1>6 DEF TablesOk, Trees
<1>10. FreshFree(lv, next)
  BY <1>9 DEF TreesGiven
<1> HIDE DEF I, k
<1>11. Moved(p, next, next') /\ lv[p] = 0
  <2>1. Hands(I, k, p, next, next')
    BY <1>1, <1>5, <1>6, <1>8 DEF Hands
  <2>2. QED
    BY <1>10, <2>1, HandedOut
<1> HIDE DEF p
<1>12. TablesOk(pt', next', frames', mmu, pc) /\ SameMaps
  <2>1. OnlyAt(pt, next, frames, mmu, pc, Top, lv, up, p, next')
    BY <1>1, <1>2, <1>6, <1>7, <1>9, <1>11 DEF OnlyAt
  <2>2. QED
    BY <1>3, <1>4, <2>1, Entered DEF SameMaps
<1>13. QED
  BY <1>5, <1>12 DEF TablesThen

\* mem_map_pa() allocates a table page and calls itself.
LEMMA GrowStep ==
    ASSUME TablesNow, Grow, pc' = pc
    PROVE  TablesThen /\ SameMaps
<1> DEFINE I == Top.img
           p == Pool[I]["pa"][next[I]["pa"]]
           q == SetTop([Top EXCEPT !.new = p])
<1>1. frames # <<>> /\ Top.lvl < Depth /\ mmu[I] /\ next[I]["pa"] <= Len(Pool[I]["pa"])
  BY DEF Grow, Walking, CanAllocate
<1>2. Innermost(frames, Top) /\ Holds(pt, Top, Nil)
  BY DEF Innermost, Holds, Top, Here, Grow
<1>3. frames' = Append(q, Frame(I, p, p, TRUE))
  BY DEF Grow, Allocated
<1>4. Replaced(frames, q, [Top EXCEPT !.new = p])
  BY DEF SetTop, Replaced
<1>5. next' = [next EXCEPT ![I]["pa"] = @ + 1] /\ pt' = pt /\ mmu' = mmu
  BY DEF Grow, mem_allocate_pa
<1>6. TablesOk(pt, next, frames, mmu, pc) /\ next \in [Image -> [PoolName -> Nat \ {0}]]
  BY DEF TablesNow, TablesOk, ValuesOk
<1>7. Len(frames) = 1
  BY <1>1, <1>2, <1>6, NoThird
<1>8. I \in Image /\ "pa" \in PoolName
  <2>1. Top \in FrameType
    BY <1>1, <1>6, TopFacts DEF Top
  <2>2. QED
    BY <2>1 DEF FrameType, PoolName
<1>9. PICK lv, up : TreesGiven(lv, up, pt, next, frames)
  BY <1>6 DEF TablesOk, Trees
<1>10. FreshFree(lv, next)
  BY <1>9 DEF TreesGiven
<1> HIDE DEF I
<1>11. Moved(p, next, next') /\ lv[p] = 0 /\ p \in PaPool(I)
  <2>1. Hands(I, "pa", p, next, next')
    BY <1>1, <1>5, <1>6, <1>8 DEF Hands
  <2>2. QED
    BY <1>10, <2>1, HandedOut
<1> HIDE DEF p, q
<1>12. TablesOk(pt, next', Append(q, Frame(I, p, p, TRUE)), mmu, pc)
  <2>1. OnlyAt(pt, next, frames, mmu, pc, Top, lv, up, p, next')
    BY <1>1, <1>2, <1>6, <1>7, <1>9, <1>11 DEF OnlyAt
  <2>2. QED
    BY <1>1, <1>4, <1>11, <2>1, Nested DEF I
<1>13. QED
  BY <1>3, <1>5, <1>12 DEF TablesThen, SameMaps

\* mem_map_pa() links the table page that is mapped now.
LEMMA LinkStep ==
    ASSUME TablesNow, Link, pc' = pc
    PROVE  TablesThen /\ SameMaps
<1> DEFINE p == Top.new
<1>1. frames # <<>> /\ p # Nil
  BY DEF Link
<1>2. Innermost(frames, Top)
  BY DEF Innermost, Top
<1>3. Replaced(frames, frames', Below(Top, p))
  BY DEF Link, SetTop, Replaced
<1>4. Written(pt, pt', Top.tbl, Index[Top.va][Top.lvl], p)
  BY DEF Link, WriteHere, Written
<1>5. next' = next /\ mmu' = mmu
  BY DEF Link
<1>6. /\ TablesOk(pt, next, frames, mmu, pc)
      /\ next \in [Image -> [PoolName -> Nat \ {0}]]
      /\ \A J \in Image, l \in PoolName : next[J][l] >= next[J][l]
  BY DEF TablesNow, TablesOk, ValuesOk
<1>7. /\ Len(frames) \in {1, 2} /\ Len(frames) \in 1 .. Len(frames)
      /\ Top \in FrameType /\ FrameOk(Top, pt, mmu)
  BY <1>1, <1>6, TopFacts DEF Top
<1>8. Len(frames) = 1
  <2>1. SUFFICES ASSUME Len(frames) = 2 PROVE FALSE
    BY <1>7
  <2>2. Inner(frames[1], Top)
    BY <1>6, <2>1 DEF TablesOk, Stack, Top
  <2>3. QED
    BY <1>1, <2>2 DEF Inner
<1>9. p \in PoolPages /\ Top.lvl < Depth /\ Holds(pt, Top, Nil)
  BY <1>1, <1>7 DEF FrameType, FrameOk, Holds
<1>10. PICK lv, up : TreesGiven(lv, up, pt, next, frames)
  BY <1>6 DEF TablesOk, Trees
<1>11. lv[p] = 0 /\ Taken(p, next)
  BY <1>1, <1>7, <1>10 DEF TreesGiven, NewFree, Top
<1> HIDE DEF p
<1>12. TablesOk(pt', next, frames', mmu, pc) /\ SameMaps
  <2>1. p \in Page
    BY <1>9, DepthFacts DEF TablePage
  <2>2. OnlyAt(pt, next, frames, mmu, pc, Top, lv, up, p, next)
    BY <1>1, <1>2, <1>6, <1>8, <1>9, <1>10, <1>11, <2>1 DEF OnlyAt, Moved
  <2>3. QED
    BY <1>3, <1>4, <2>2, Entered DEF SameMaps
<1>13. QED
  BY <1>5, <1>12 DEF TablesThen

\* The last level of a walk: one page changes, for the outer activation the page
\* the call names, for the inner one a pool page, which gets its own address.
LEMMA SetLeafStep ==
    ASSUME TablesNow, SetLeaf, pc' = pc
    PROVE  TablesThen /\ (SameMaps \/ OneMapped)
<1> DEFINE f == Top
           r == Root[f.img]
<1>1. frames # <<>> /\ f.lvl = Depth
  BY DEF SetLeaf, Walking
<1>2. frames' = SubSeq(frames, 1, Len(frames) - 1) /\ next' = next /\ mmu' = mmu
  BY DEF SetLeaf
<1>3. pt' = pt \/ Written(pt, pt', f.tbl, Index[f.va][f.lvl], f.pa)
  BY DEF SetLeaf, WriteHere, Written
<1>4. TablesOk(pt, next, frames, mmu, pc)
  BY DEF TablesNow
<1>5. frames[Len(frames)].lvl = Depth
  BY <1>1 DEF Top
<1>6. CASE pt' = pt
  <2>1. TablesOk(pt, next, SubSeq(frames, 1, Len(frames) - 1), mmu, pc)
    BY <1>1, <1>4, <1>5, Returned
  <2>2. QED
    BY <1>2, <1>6, <2>1 DEF TablesThen, SameMaps
<1>7. CASE Written(pt, pt', f.tbl, Index[f.va][f.lvl], f.pa)
  <2>1. /\ Len(frames) \in {1, 2} /\ f \in FrameType /\ FrameOk(f, pt, mmu)
    BY <1>1, <1>4, TopFacts DEF Top
  <2>2. /\ f.tbl = LeafIn(pt, r, f.va) /\ f.tbl # Nil /\ f.tbl \in TablePage
        /\ f.img \in Image /\ f.va \in Page /\ f.pa \in Page \cup {Nil}
    BY <1>1, <2>1, DepthFacts DEF FrameType, FrameOk, LeafIn
  <2>3. r \in Roots
    BY <2>2, CallFacts
  <2>4. Written(pt, pt', LeafIn(pt, r, f.va), Index[f.va][Depth], f.pa)
    BY <1>1, <1>7, <2>2
  <2> HIDE DEF r
  <2>5. TablesOk(pt', next, frames, mmu, pc)
    BY <1>4, <2>2, <2>3, <2>4, LeafWritten
  <2>6. TablesOk(pt', next, SubSeq(frames, 1, Len(frames) - 1), mmu, pc)
    BY <1>1, <1>5, <2>5, Returned
  <2>7. PICK lv, up : Shape(pt, lv, up)
    BY <1>4 DEF TablesOk, Trees, TreesGiven
  <2>8. \A s \in Roots, vb \in Page :
           MapsTo(pt', s, vb) = IF s = r /\ vb = f.va THEN f.pa ELSE MapsTo(pt, s, vb)
    BY <2>2, <2>3, <2>4, <2>7, LeafWriteMap
  <2>9. CASE Len(frames) = 1
    <3>1. Outer(f, pc)
      BY <1>4, <2>9 DEF TablesOk, Stack, Top
    <3>2. pc' - 1 > 0 /\ Spaces!Asked(Program[pc' - 1], r, f.va, f.pa)
      BY <1>4, <3>1 DEF Outer, TablesOk, ValuesOk, r
    <3>3. OneMapped
      BY <2>2, <2>3, <2>8, <3>2 DEF OneMapped
    <3>4. QED
      BY <1>2, <2>6, <3>3 DEF TablesThen
  <2>10. CASE Len(frames) = 2
    <3>1. Inner(frames[1], f)
      BY <1>4, <2>10 DEF TablesOk, Stack, Top
    <3>2. f.va \in PoolPages /\ f.pa = f.va
      BY <2>2, <3>1, CallFacts DEF Inner, PaPool, PoolName
    <3>3. Spaces!TableShown(f.va, f.pa)
      BY <3>2 DEF Spaces!TableShown
    <3>4. OneMapped
      BY <2>2, <2>3, <2>8, <3>3 DEF OneMapped
    <3>5. QED
      BY <1>2, <2>6, <3>4 DEF TablesThen
  <2>11. QED
    BY <2>1, <2>9, <2>10
<1>8. QED
  BY <1>3, <1>6, <1>7

\* Any step of a call in progress.
LEMMA WalkTables ==
    ASSUME TablesNow, Walk
    PROVE  TablesThen /\ (SameMaps \/ OneMapped)
  BY DescendStep, BootGrowStep, GrowStep, LinkStep, SetLeafStep DEF Walk, WalkStep

\* A call that maps starts its walk and changes no entry yet.
LEMMA MapTables ==
    ASSUME TablesNow, Ready, NEW va \in Page, NEW pa \in Page, Map(va, pa),
           Spaces!Asked(Op, R, va, pa),
           next' = next \/ (CanAllocate(Op.img, "pa") /\ mem_allocate_pa(Op.img, "pa"))
    PROVE  TablesThen /\ SameMaps
<1>1. /\ frames = <<>> /\ pc <= Len(Program)
      /\ TablesOk(pt, next, <<>>, mmu, pc)
  BY DEF Ready, TablesNow
<1>2. /\ frames' = <<Frame(Program[pc].img, va, pa, Program[pc].user)>>
      /\ pc' = pc + 1 /\ pt' = pt /\ mmu' = mmu
  BY DEF Map, Op, Return
<1>3. next \in [Image -> [PoolName -> Nat \ {0}]] /\ pc \in 1 .. Len(Program)
  BY <1>1, CallFacts DEF TablesOk, ValuesOk
<1>4. /\ next' \in [Image -> [PoolName -> Nat \ {0}]]
      /\ \A I \in Image, k \in PoolName : next'[I][k] >= next[I][k]
  <2>1. CASE next' = next
    BY <1>3, <2>1
  <2>2. CASE CanAllocate(Op.img, "pa") /\ mem_allocate_pa(Op.img, "pa")
    <3>1. Hands(Op.img, "pa", Pool[Op.img]["pa"][next[Op.img]["pa"]], next, next')
      BY <1>3, <2>2, CallFacts DEF Hands, CanAllocate, mem_allocate_pa, Op, PoolName
    <3>2. QED
      BY <3>1, HandedOut DEF Moved
  <2>3. QED
    BY <2>1, <2>2
<1>5. Spaces!Asked(Program[pc], Root[Program[pc].img], va, pa)
  BY DEF Op, R
<1>6. TablesOk(pt, next', <<Frame(Program[pc].img, va, pa, Program[pc].user)>>, mmu, pc + 1)
  BY <1>1, <1>4, <1>5, StartCall
<1>7. QED
  BY <1>2, <1>6 DEF TablesThen, SameMaps

\* mem_unmap_va() clears the entry of the page it is given and nothing else.
LEMMA UnmapTables ==
    ASSUME TablesNow, Unmap
    PROVE  TablesThen /\ (SameMaps \/ OneMapped)
<1> DEFINE va == Op.va
<1>1. /\ frames = <<>> /\ pc <= Len(Program) /\ Op.op = "unmap"
      /\ frames' = <<>> /\ pc' = pc + 1 /\ next' = next /\ mmu' = mmu
      /\ mem_unmap_va(Op.img, va)
  BY DEF Unmap, At, Ready, Return
<1>2. TablesOk(pt, next, <<>>, mmu, pc)
  BY <1>1 DEF TablesNow
<1>3. pc \in 1 .. Len(Program)
  BY <1>1, <1>2, CallFacts DEF TablesOk, ValuesOk
<1>4. /\ Op.img \in Image /\ va \in Page /\ R \in Roots /\ R = Op.root
      /\ Program[pc].op # "map_pa"
  BY <1>1, <1>3, CallFacts DEF Op, R
<1>5. CASE Leaf(R, va) = Nil
  <2>1. pt' = pt
    BY <1>1, <1>5 DEF mem_unmap_va, R
  <2>2. TablesOk(pt, next, <<>>, mmu, pc + 1)
    BY <1>1, <1>2, <1>4, SkipCall
  <2>3. QED
    BY <1>1, <2>1, <2>2 DEF TablesThen, SameMaps
<1>6. CASE Leaf(R, va) # Nil
  <2>1. Written(pt, pt', LeafIn(pt, R, va), Index[va][Depth], Nil)
    BY <1>1, <1>6 DEF mem_unmap_va, R, Leaf, Written
  <2>2. LeafIn(pt, R, va) # Nil /\ Nil \in Page \cup {Nil}
    BY <1>6 DEF Leaf
  <2> HIDE DEF va
  <2>3. TablesOk(pt', next, <<>>, mmu, pc)
    BY <1>2, <1>4, <2>1, <2>2, LeafWritten
  <2>4. TablesOk(pt', next, <<>>, mmu, pc + 1)
    BY <1>1, <1>4, <2>3, SkipCall
  <2>5. PICK lv, up : Shape(pt, lv, up)
    BY <1>2 DEF TablesOk, Trees, TreesGiven
  <2>6. \A s \in Roots, vb \in Page :
           MapsTo(pt', s, vb) = IF s = R /\ vb = va THEN Nil ELSE MapsTo(pt, s, vb)
    BY <1>4, <2>1, <2>2, <2>5, LeafWriteMap
  <2>7. pc' - 1 = pc /\ pc > 0
    BY <1>1, <1>3
  <2>8. Spaces!Asked(Program[pc' - 1], R, va, Nil)
    BY <1>1, <1>4, <2>7 DEF Spaces!Asked, Op, va
  <2>9. OneMapped
    BY <1>4, <2>6, <2>7, <2>8 DEF OneMapped
  <2>10. QED
    BY <1>1, <2>4, <2>9 DEF TablesThen
<1>7. QED
  BY <1>5, <1>6

\* The steps that leave the tables alone.
LEMMA QuietTables ==
    ASSUME TablesNow, Lookup \/ Access \/ Copy \/ Abort \/ Finished
    PROVE  TablesThen /\ SameMaps /\ pc' \in {pc, pc + 1}
<1>1. UNCHANGED ptvars
  BY DEF Lookup, Access, Copy, Abort, Finished, vars
<1>2. \/ pc' = pc
      \/ pc' = pc + 1 /\ frames = <<>> /\ pc <= Len(Program) /\ Program[pc].op # "map_pa"
  BY DEF Lookup, Access, Copy, Abort, Finished, vars, memvars, At, Ready, Return, Op
<1>3. pt' = pt /\ next' = next /\ frames' = frames /\ mmu' = mmu
  BY <1>1 DEF ptvars
<1>4. TablesOk(pt, next, frames, mmu, pc)
  BY DEF TablesNow
<1>5. CASE pc' = pc
  BY <1>3, <1>4, <1>5 DEF TablesThen, SameMaps
<1>6. CASE pc' = pc + 1 /\ frames = <<>> /\ pc <= Len(Program) /\ Program[pc].op # "map_pa"
  <2>1. TablesOk(pt, next, <<>>, mmu, pc + 1)
    BY <1>4, <1>6, SkipCall
  <2>2. QED
    BY <1>3, <1>6, <2>1 DEF TablesThen, SameMaps
<1>7. QED
  BY <1>2, <1>5, <1>6

\* The MMU is switched on.
LEMMA MmuOnTables ==
    ASSUME TablesNow, MmuOn
    PROVE  TablesThen /\ SameMaps /\ pc' = pc + 1
<1>1. /\ frames = <<>> /\ pc <= Len(Program) /\ Program[pc].op = "mmu_on"
      /\ frames' = frames /\ pt' = pt /\ next' = next /\ pc' = pc + 1
      /\ mmu' = [mmu EXCEPT ![Program[pc].img] = TRUE]
  BY DEF MmuOn, At, Ready, Return, Op
<1>2. TablesOk(pt, next, <<>>, mmu, pc)
  BY <1>1 DEF TablesNow
<1>3. TablesOk(pt, next, <<>>, [mmu EXCEPT ![Program[pc].img] = TRUE], pc + 1)
  BY <1>1, <1>2, SwitchOn
<1>4. QED
  BY <1>1, <1>3 DEF TablesThen, SameMaps

\* The calls that map a page.
LEMMA MapCalls ==
    ASSUME MemTypeOK, TablesNow,
           mem_map_pa \/ MapRef \/ mem_map_va \/ mem_heap_allocate
    PROVE  TablesThen /\ SameMaps /\ pc' = pc + 1
<1>1. Ready /\ pc \in 1 .. Len(Program)
  BY CallFacts DEF mem_map_pa, MapRef, mem_map_va, mem_heap_allocate, At, Ready,
                   TablesNow, TablesOk, ValuesOk
<1>2. /\ Op.img \in Image /\ Op.va \in Page /\ Op.pa \in Page /\ Op.ref \in Ref
      /\ R = Op.root
  BY <1>1, CallFacts DEF Op, R
<1>3. CASE mem_map_pa
  <2>1. Map(Op.va, Op.pa) /\ next' = next /\ Op.op = "map_pa"
    BY <1>3 DEF mem_map_pa, At
  <2>2. Spaces!Asked(Op, R, Op.va, Op.pa)
    BY <1>2, <2>1 DEF Spaces!Asked
  <2>3. TablesThen /\ SameMaps
    BY <1>1, <1>2, <2>1, <2>2, MapTables
  <2>4. QED
    BY <2>1, <2>3 DEF Map, Return
<1>4. CASE MapRef
  <2>1. Map(Op.va, ref[Op.ref]) /\ next' = next /\ Op.op = "map_ref"
    BY <1>4 DEF MapRef, At
  <2>2. ref[Op.ref] \in Page /\ ref[Op.ref] # Nil
    BY <1>2, PageAssumption DEF MemTypeOK
  <2>3. Spaces!Asked(Op, R, Op.va, ref[Op.ref])
    BY <1>2, <2>1, <2>2 DEF Spaces!Asked
  <2>4. TablesThen /\ SameMaps
    BY <1>1, <1>2, <2>1, <2>2, <2>3, MapTables
  <2>5. QED
    BY <2>1, <2>4 DEF Map, Return
<1>5. ASSUME CanAllocate(Op.img, "pa"), mem_allocate_pa(Op.img, "pa")
      PROVE  Allocated(Op.img, "pa") \in Page /\ Allocated(Op.img, "pa") \in PoolPages
  <2>1. next \in [Image -> [PoolName -> Nat \ {0}]]
    BY DEF MemTypeOK, PtTypeOK
  <2>2. Hands(Op.img, "pa", Allocated(Op.img, "pa"), next, next')
    BY <1>2, <1>5, <2>1 DEF Hands, CanAllocate, Allocated, mem_allocate_pa, PoolName
  <2>3. QED
    BY <2>2, HandedOut DEF Moved
<1>6. CASE mem_map_va
  <2>1. /\ Map(Op.va, Allocated(Op.img, "pa")) /\ Op.op = "map_va"
        /\ CanAllocate(Op.img, "pa") /\ mem_allocate_pa(Op.img, "pa")
    BY <1>6 DEF mem_map_va, At
  <2>2. Spaces!Asked(Op, R, Op.va, Allocated(Op.img, "pa"))
    BY <1>2, <1>5, <2>1 DEF Spaces!Asked
  <2>3. TablesThen /\ SameMaps
    BY <1>1, <1>2, <1>5, <2>1, <2>2, MapTables
  <2>4. QED
    BY <2>1, <2>3 DEF Map, Return
<1>7. CASE mem_heap_allocate
  <2> DEFINE hp == Heap[Op.img][heap[Op.img]]
  <2>1. /\ Map(hp, Allocated(Op.img, "pa")) /\ Op.op = "heap"
        /\ CanAllocate(Op.img, "pa") /\ mem_allocate_pa(Op.img, "pa")
        /\ heap[Op.img] <= Len(Heap[Op.img])
    BY <1>7 DEF mem_heap_allocate, At
  <2>2. hp \in Page
    <3>1. Heap[Op.img] \in Seq(Page)
      BY <1>2, HeapAssumption
    <3>2. Len(Heap[Op.img]) \in Nat /\ heap[Op.img] \in Nat \ {0}
      BY <1>2, <3>1, LenProperties DEF MemTypeOK
    <3>3. heap[Op.img] \in 1 .. Len(Heap[Op.img])
      BY <2>1, <3>2
    <3>4. QED
      BY <3>1, <3>3, ElementOfSeq
  <2>3. Spaces!Asked(Op, R, hp, Allocated(Op.img, "pa"))
    BY <1>2, <1>5, <2>1 DEF Spaces!Asked
  <2> HIDE DEF hp
  <2>4. TablesThen /\ SameMaps
    BY <1>1, <1>5, <2>1, <2>2, <2>3, MapTables
  <2>5. QED
    BY <2>1, <2>4 DEF Map, Return
<1>8. QED
  BY <1>3, <1>4, <1>6, <1>7

\* Every step.
LEMMA StepTables ==
    ASSUME MemTypeOK, TablesNow, Next
    PROVE  TablesThen /\ (SameMaps \/ OneMapped) /\ pc' \in {pc, pc + 1}
<1>1. CASE mem_map_pa \/ MapRef \/ mem_map_va \/ mem_heap_allocate
  BY <1>1, MapCalls
<1>2. CASE Walk
  BY <1>2, WalkTables DEF Walk
<1>3. CASE Unmap
  BY <1>3, UnmapTables DEF Unmap, Return
<1>4. CASE MmuOn
  BY <1>4, MmuOnTables
<1>5. CASE Lookup \/ Access \/ Copy \/ Abort \/ Finished
  BY <1>5, QuietTables
<1>6. QED
  BY <1>1, <1>2, <1>3, <1>4, <1>5 DEF Next, Step

----------------------------------------------------------------------------
(***************************************************************************)
(* The other variables keep their types.                                   *)
(***************************************************************************)
\* A walk ends at a table page and a frame, or at nothing.
LEMMA WalkTypes ==
    ASSUME TablesNow, NEW r \in Roots, NEW va \in Page
    PROVE  /\ Translate(r, va) \in Page \cup {Nil}
           /\ Leaf(r, va) # Nil => Leaf(r, va) \in TablePage
           /\ Index[va][Depth] \in Slot /\ UserCan(r, va) \in BOOLEAN
<1>1. PICK lv, up : Shape(pt, lv, up)
  BY DEF TablesNow, TablesOk, Trees, TreesGiven
<1>2. Depth \in 1 .. Depth /\ Index[va][Depth] \in Slot
  BY DepthFacts
<1>3. LeafIn(pt, r, va) # Nil => LeafIn(pt, r, va) \in TablePage
  BY <1>1, <1>2, TableLevel DEF LeafIn
<1>4. pt \in TableContents
  BY <1>1 DEF Shape
<1>5. MapsTo(pt, r, va) \in Page \cup {Nil}
  BY <1>2, <1>3, <1>4 DEF MapsTo, Entry, TableContents
<1>6. QED
  BY <1>2, <1>3, <1>5 DEF Translate, Leaf, UserCan

TlbOk == /\ touched \subseteq Roots \X Page
         /\ stale \subseteq Roots \X Page \X Page \X BOOLEAN
         /\ TouchedMapped

\* What a changed entry leaves in the TLB is an entry that was valid.
LEMMA RememberOk ==
    ASSUME TablesNow, TlbOk, Remember
    PROVE  TlbOk'
<1>1. touched' \subseteq touched
  BY DEF Remember
<1>2. stale' \subseteq Roots \X Page \X Page \X BOOLEAN
  <2>1. ASSUME NEW x \in touched
        PROVE  <<x[1], x[2], Translate(x[1], x[2]), UserCan(x[1], x[2])>>
                  \in Roots \X Page \X Page \X BOOLEAN
    <3>1. x[1] \in Roots /\ x[2] \in Page /\ Translate(x[1], x[2]) # Nil
      BY DEF TlbOk, TouchedMapped
    <3>2. Translate(x[1], x[2]) \in Page /\ UserCan(x[1], x[2]) \in BOOLEAN
      BY <3>1, WalkTypes
    <3>3. QED
      BY <3>1, <3>2
  <2>2. \A y \in stale' : y \in stale \/ \E x \in touched :
           y = <<x[1], x[2], Translate(x[1], x[2]), UserCan(x[1], x[2])>>
    BY DEF Remember
  <2>3. QED
    BY <2>1, <2>2 DEF TlbOk
<1>3. ASSUME NEW x \in touched'
      PROVE  Translate(x[1], x[2])' # Nil
  <2>1. x \in touched /\ View(x[1], x[2])' = View(x[1], x[2])
    BY <1>3 DEF Remember
  <2>2. Translate(x[1], x[2])' = Translate(x[1], x[2])
    BY <2>1 DEF View
  <2>3. QED
    BY <2>1, <2>2 DEF TlbOk, TouchedMapped
<1>4. QED
  BY <1>1, <1>2, <1>3 DEF TlbOk, TouchedMapped

\* The pages used are pages that are mapped.
LEMMA TouchOk ==
    ASSUME TablesNow, TlbOk, NEW S, S \subseteq Page, R \in Roots, Touch(S),
           pt' = pt, stale' = stale
    PROVE  TlbOk'
<1>1. \A x \in touched' : x \in touched \/ \E va \in S : x = <<R, va>> /\ Current(va) # {}
  BY DEF Touch
<1>2. \A va \in S : Current(va) # {} => Translate(R, va) # Nil
  BY DEF Current
<1>3. \A x \in touched' : x \in Roots \X Page /\ Translate(x[1], x[2]) # Nil
  <2>1. TAKE x \in touched'
  <2>2. CASE x \in touched
    BY <2>2 DEF TlbOk, TouchedMapped
  <2>3. CASE \E va \in S : x = <<R, va>> /\ Current(va) # {}
    BY <1>2, <2>3
  <2>4. QED
    BY <1>1, <2>2, <2>3
<1>4. \A x \in touched' : Translate(x[1], x[2])' # Nil
  BY <1>3 DEF Translate
<1>5. QED
  BY <1>3, <1>4 DEF TlbOk, TouchedMapped

\* The frames an access may reach.
LEMMA ReachedFrames ==
    ASSUME TablesNow, TlbOk, NEW va \in Page, R \in Roots
    PROVE  Reached(va) \subseteq Page
<1>1. Current(va) \subseteq Page
  BY WalkTypes DEF Current
<1>2. Kept(va) \subseteq Page
  BY DEF Kept, TlbOk
<1>3. QED
  BY <1>1, <1>2 DEF Reached

\* The rest of the state.
RestOk == /\ status \in {"run", "abort", "exit"}
          /\ heap \in [Image -> Nat \ {0}] /\ ref \in [Ref -> Page]
          /\ mem \in [Page -> Page] /\ copied \subseteq Roots \X Page \X Page
UserOk == user \subseteq TablePage \X Slot

\* The types are those of the tables and of the three parts above.
LEMMA TypeParts == TablesNow => (MemTypeOK /\ TouchedMapped <=> UserOk /\ TlbOk /\ RestOk)
<1>1. ASSUME TablesNow
      PROVE  /\ pt \in [TablePage -> [Slot -> Page \cup {Nil}]]
             /\ next \in [Image -> [PoolName -> Nat \ {0}]]
             /\ frames \in Seq(FrameType) /\ mmu \in [Image -> BOOLEAN]
             /\ pc \in Nat \ {0}
  <2>1. ValuesOk(pt, next, frames, mmu, pc)
    BY <1>1 DEF TablesNow, TablesOk
  <2>2. pc \in 1 .. Len(Program) + 1 /\ Len(Program) \in Nat
    BY <2>1, CallFacts DEF ValuesOk
  <2>3. pc \in Nat \ {0}
    BY <2>2
  <2>4. QED
    BY <2>1, <2>3 DEF ValuesOk, TableContents
<1>2. QED
  BY <1>1 DEF MemTypeOK, PtTypeOK, UserOk, TlbOk, RestOk

\* A walk keeps the types of the rest.
LEMMA WalkRest ==
    ASSUME TablesNow, UserOk, TlbOk, RestOk, Walk
    PROVE  UserOk' /\ TlbOk' /\ RestOk'
<1>1. TlbOk'
  BY RememberOk DEF Walk
<1>2. RestOk'
  BY DEF Walk, RestOk
<1>3. UserOk'
  <2>1. CASE user' = user
    BY <2>1 DEF UserOk
  <2>2. CASE SetLeaf
    <3>1. frames # <<>>
      BY <2>2 DEF SetLeaf, Walking
    <3>2. Top \in FrameType
      BY <3>1, TopFacts DEF TablesNow, Top
    <3>3. <<Top.tbl, Index[Top.va][Top.lvl]>> \in TablePage \X Slot
      BY <3>2, DepthFacts DEF FrameType
    <3>4. user' \subseteq user \cup {<<Top.tbl, Index[Top.va][Top.lvl]>>}
      BY <2>2 DEF SetLeaf
    <3>5. QED
      BY <3>3, <3>4 DEF UserOk
  <2>3. QED
    BY <2>1, <2>2 DEF Walk, WalkStep, Descend, BootGrow, Grow, Link
<1>4. QED
  BY <1>1, <1>2, <1>3

\* So does a call that maps, unmaps or switches the MMU on.
LEMMA CallRest ==
    ASSUME TablesNow, UserOk, TlbOk, RestOk,
           mem_map_pa \/ MapRef \/ mem_map_va \/ mem_heap_allocate \/ Unmap \/ MmuOn
    PROVE  UserOk' /\ TlbOk' /\ RestOk'
<1>1. CASE mem_map_pa \/ MapRef \/ mem_map_va \/ mem_heap_allocate
  <2>1. UNCHANGED <<pt, user, touched, stale, mem, copied, status, ref>>
    BY <1>1 DEF mem_map_pa, MapRef, mem_map_va, mem_heap_allocate, Map
  <2>2. heap' \in [Image -> Nat \ {0}]
    <3>1. heap' = heap \/ heap' = [heap EXCEPT ![Op.img] = @ + 1]
      BY <1>1 DEF mem_map_pa, MapRef, mem_map_va, mem_heap_allocate
    <3>2. QED
      BY <3>1 DEF RestOk
  <2>3. UserOk' /\ RestOk'
    BY <2>1, <2>2 DEF UserOk, RestOk
  <2>4. TlbOk'
    BY <2>1 DEF TlbOk, TouchedMapped, Translate
  <2>5. QED
    BY <2>3, <2>4
<1>2. CASE Unmap
  <2>1. TlbOk'
    BY <1>2, RememberOk DEF Unmap
  <2>2. user' \subseteq user /\ UNCHANGED <<heap, ref, mem, copied, status>>
    BY <1>2 DEF Unmap, mem_unmap_va
  <2>3. QED
    BY <2>1, <2>2 DEF UserOk, RestOk
<1>3. CASE MmuOn
  <2>1. touched' \subseteq touched /\ stale' \subseteq stale
    BY <1>3 DEF MmuOn
  <2>2. UNCHANGED <<pt, user, heap, ref, mem, copied, status>>
    BY <1>3 DEF MmuOn
  <2>3. TlbOk'
    BY <2>1, <2>2 DEF TlbOk, TouchedMapped, Translate
  <2>4. QED
    BY <2>2, <2>3 DEF UserOk, RestOk
<1>4. QED
  BY <1>1, <1>2, <1>3

\* So do lookups, accesses, copies and aborts.
LEMMA QuietRest ==
    ASSUME TablesNow, UserOk, TlbOk, RestOk, Lookup \/ Access \/ Copy \/ Abort \/ Finished
    PROVE  UserOk' /\ TlbOk' /\ RestOk'
<1>1. UNCHANGED ptvars
  BY DEF Lookup, Access, Copy, Abort, Finished, vars
<1>2. pt' = pt /\ UserOk'
  BY <1>1 DEF ptvars, UserOk
<1>3. ASSUME Ready
      PROVE  /\ Op.img \in Image /\ Op.va \in Page /\ Op.pa \in Page /\ R \in Roots
             /\ Op.ref \in Ref
  <2>1. pc \in 1 .. Len(Program)
    BY <1>3, CallFacts DEF Ready, TablesNow, TablesOk, ValuesOk
  <2>2. QED
    BY <2>1, CallFacts DEF Op, R
<1>4. CASE Abort \/ Finished
  <2>1. UNCHANGED <<heap, ref, touched, stale, mem, copied>>
        /\ (status' = status \/ status' = "abort")
    BY <1>4 DEF Abort, Finished, vars, memvars
  <2>2. TlbOk'
    BY <1>2, <2>1 DEF TlbOk, TouchedMapped, Translate
  <2>3. QED
    BY <1>2, <2>1, <2>2 DEF RestOk
<1>5. CASE Lookup
  <2>1. UNCHANGED <<heap, touched, stale, mem, copied, status>> /\ Ready
    BY <1>5 DEF Lookup, At
  <2>2. mem_lookup_pa(R, Op.va) \in Page
    BY <1>3, <2>1, WalkTypes, FrameAssumption DEF mem_lookup_pa
  <2>3. PICK u : ref' = [ref EXCEPT ![Op.ref] =
                            IF u = "zero" THEN ZeroPage ELSE mem_lookup_pa(R, Op.va)]
    BY <1>5 DEF Lookup
  <2>4. ref' \in [Ref -> Page]
    BY <2>2, <2>3, FrameAssumption DEF RestOk
  <2>5. TlbOk'
    BY <1>2, <2>1 DEF TlbOk, TouchedMapped, Translate
  <2>6. QED
    BY <1>2, <2>1, <2>4, <2>5 DEF RestOk
<1>6. CASE Access
  <2>1. /\ UNCHANGED <<heap, ref, stale, mem, copied>> /\ Ready /\ Touch({Op.va})
        /\ (status' = status \/ status' = "exit")
    BY <1>6 DEF Access, At
  <2>2. TlbOk'
    BY <1>2, <1>3, <2>1, TouchOk
  <2>3. QED
    BY <1>2, <2>1, <2>2 DEF RestOk
<1>7. CASE Copy
  <2>1. /\ UNCHANGED <<heap, ref, stale, status>> /\ Ready /\ Touch({Op.pa, Op.va})
        /\ copied' = copied \cup {<<R, Op.va, Op.pa>>}
    BY <1>7 DEF Copy, At
  <2>2. TlbOk'
    <3>1. {Op.pa, Op.va} \subseteq Page
      BY <1>3, <2>1
    <3>2. QED
      BY <1>2, <1>3, <2>1, <3>1, TouchOk
  <2>3. mem' \in [Page -> Page]
    <3>1. PICK f \in Reached(Op.pa), g \in Reached(Op.va) : mem' = [mem EXCEPT ![g] = mem[f]]
      BY <1>7 DEF Copy
    <3>2. f \in Page
      BY <1>3, <2>1, ReachedFrames
    <3>3. QED
      BY <3>1, <3>2 DEF RestOk
  <2>4. copied' \subseteq Roots \X Page \X Page
    BY <1>3, <2>1 DEF RestOk
  <2>5. QED
    BY <1>2, <2>1, <2>2, <2>3, <2>4 DEF RestOk
<1>8. QED
  BY <1>4, <1>5, <1>6, <1>7

----------------------------------------------------------------------------
\* The invariant holds at reset: all tables are empty.
LEMMA MemInitInv == MemInit => MemInv
<1> SUFFICES ASSUME MemInit PROVE MemInv
  OBVIOUS
<1>1. /\ pt = [t \in TablePage |-> [j \in Slot |-> Nil]] /\ frames = <<>>
      /\ next = [I \in Image |-> [k \in PoolName |-> 1]]
      /\ mmu = [I \in Image |-> FALSE] /\ user = {} /\ pc = 1
  BY DEF MemInit, PtInit
<1>2. ValuesOk(pt, next, frames, mmu, pc)
  <2>1. 1 \in 1 .. Len(Program) + 1
    BY CallFacts
  <2>2. frames \in Seq(FrameType)
    BY <1>1
  <2>3. QED
    BY <1>1, <2>1, <2>2 DEF ValuesOk, TableContents
<1>3. Len(frames) = 0
  BY <1>1
<1>4. Trees(pt, next, frames)
  <2> DEFINE lv == [t \in TablePage |-> IF t \in Roots THEN 1 ELSE 0]
             up == [t \in TablePage |-> <<t, Index[t][1]>>]
  <2>1. lv \in Levels /\ up \in Parents
    BY DepthFacts DEF Levels, Parents
  <2>2. \A t \in TablePage : lv[t] = IF t \in Roots THEN 1 ELSE 0
    OBVIOUS
  <2> HIDE DEF lv, up
  <2>3. \A t \in TablePage, j \in Slot : pt[t][j] = Nil
    BY <1>1
  <2>4. pt \in TableContents
    BY <1>2 DEF ValuesOk
  <2>5. Shape(pt, lv, up)
    BY <2>1, <2>2, <2>3, <2>4 DEF Shape, GoodEntry
  <2>6. FreshFree(lv, next)
    <3>1. ASSUME NEW I \in Image, NEW k \in PoolName, NEW i \in 1 .. Len(Pool[I][k])
          PROVE  lv[Pool[I][k][i]] = 0
      <4>1. Pool[I][k][i] \in PoolPages /\ Pool[I][k][i] \in TablePage
        BY CallFacts
      <4>2. Pool[I][k][i] \notin Roots
        BY <4>1, PoolAssumption
      <4>3. QED
        BY <2>2, <4>1, <4>2
    <3>2. QED
      BY <3>1 DEF FreshFree
  <2>7. NewFree(lv, next, frames)
    BY <1>3 DEF NewFree
  <2>8. QED
    BY <2>5, <2>6, <2>7 DEF TreesGiven, Trees
<1>5. Stack(pt, frames, mmu, pc)
  BY <1>3 DEF Stack
<1>6. MappedBefore(pt, frames, pc)
  BY <1>1 DEF MappedBefore
<1>7. PoolCovered(pt, mmu)
  BY <1>1 DEF PoolCovered
<1>8. TablesNow
  BY <1>2, <1>4, <1>5, <1>6, <1>7 DEF TablesNow, TablesOk
<1>9. UserOk /\ TlbOk /\ RestOk
  BY <1>1, FrameAssumption DEF MemInit, UserOk, TlbOk, TouchedMapped, RestOk
<1>10. QED
  BY <1>8, <1>9, TypeParts DEF MemInv, TablesNow

\* Every step keeps it.
LEMMA MemNextInv ==
    ASSUME MemInv, [Next]_vars
    PROVE  MemInv'
<1>1. MemTypeOK /\ TablesNow /\ TouchedMapped
  BY DEF MemInv, TablesNow
<1>2. UserOk /\ TlbOk /\ RestOk
  BY <1>1, TypeParts
<1>3. CASE Next
  <2>1. TablesThen
    BY <1>1, <1>3, StepTables
  <2>2. UserOk' /\ TlbOk' /\ RestOk'
    BY <1>1, <1>2, <1>3, WalkRest, CallRest, QuietRest DEF Next, Step
  <2>3. TablesNow'
    BY <2>1 DEF TablesNow, TablesThen
  <2>4. TablesNow' => (MemTypeOK' /\ TouchedMapped' <=> UserOk' /\ TlbOk' /\ RestOk')
    BY TypeParts, PTL
  <2>5. QED
    BY <2>2, <2>3, <2>4 DEF MemInv, TablesNow
<1>4. CASE UNCHANGED vars
  <2>1. /\ UNCHANGED <<pt, user, next, frames, mmu>>
        /\ UNCHANGED <<pc, heap, ref, touched, stale, mem, copied, status>>
    BY <1>4 DEF vars, ptvars, memvars
  <2>2. TablesNow'
    BY <1>1, <2>1 DEF TablesNow
  <2>3. MemTypeOK' /\ TouchedMapped'
    BY <1>1, <2>1 DEF MemTypeOK, PtTypeOK, TouchedMapped, Translate
  <2>4. QED
    BY <2>2, <2>3 DEF MemInv, TablesNow
<1>5. QED
  BY <1>3, <1>4

\* The invariant of the memory functions, for every layout and every program.
THEOREM MemInvariant == Spec => []MemInv
  BY MemInitInv, MemNextInv, PTL DEF Spec

\* Every walk of mem_map_pa() stays in the root tables and the pool pages and ends
\* at its last level, and no variable leaves its type.
THEOREM MemTypeCorrect == Spec => []MemTypeOK
<1>1. MemInv => MemTypeOK
  BY DEF MemInv
<1>2. QED
  BY <1>1, MemInvariant, PTL

\* mem_map_pa() calls itself once at most: the call that maps a new table page
\* finds its own tables in place.
THEOREM NestingCorrect == Spec => []NestingBound
<1>1. MemInv => NestingBound
  BY DEF MemInv, TablesOk, Stack, NestingBound
<1>2. QED
  BY <1>1, MemInvariant, PTL

\* mem_map_pa() and map_va_to_pa() build trees: no table page is entered twice.
THEOREM TreesCorrect == Spec => []TreeShape
<1>1. ASSUME MemInv PROVE TreeShape
  <2>1. PICK lv, up : Shape(pt, lv, up)
    BY <1>1 DEF MemInv, TablesOk, Trees, TreesGiven
  <2>2. SUFFICES ASSUME NEW x \in Places, NEW y \in Places, x[1] = y[1], x[1] # Nil
                 PROVE  x = y
    BY DEF TreeShape
  <2>3. PICK r \in Roots, va \in Page, i \in 1 .. Depth :
           x = <<Table(r, va, i), r, i, [k \in 1 .. i - 1 |-> Index[va][k]]>>
    BY DEF Places
  <2>4. PICK s \in Roots, vb \in Page, j \in 1 .. Depth :
           y = <<Table(s, vb, j), s, j, [k \in 1 .. j - 1 |-> Index[vb][k]]>>
    BY DEF Places
  <2>5. TableIn(pt, r, va, i) = TableIn(pt, s, vb, j) /\ TableIn(pt, r, va, i) # Nil
    BY <2>2, <2>3, <2>4 DEF Table
  <2>6. lv[TableIn(pt, r, va, i)] = i
    BY <2>1, <2>5, TableLevel
  <2>7. lv[TableIn(pt, s, vb, j)] = j
    BY <2>1, <2>5, TableLevel
  <2>8. i = j
    BY <2>5, <2>6, <2>7
  <2>9. r = s /\ \A k \in 1 .. i - 1 : Index[va][k] = Index[vb][k]
    BY <2>1, <2>5, <2>8, SamePath
  <2>10. [k \in 1 .. i - 1 |-> Index[va][k]] = [k \in 1 .. j - 1 |-> Index[vb][k]]
    BY <2>8, <2>9
  <2>11. Table(r, va, i) = Table(s, vb, j)
    BY <2>5 DEF Table
  <2>12. QED
    BY <2>3, <2>4, <2>8, <2>9, <2>10, <2>11
<1>2. QED
  BY <1>1, MemInvariant, PTL

\* All address spaces are empty at reset.
LEMMA SpacesInit == MemInit => Spaces!Init
<1> SUFFICES ASSUME MemInit PROVE Spaces!Init
  OBVIOUS
<1>1. TablesNow /\ pc = 1 /\ pt = [t \in TablePage |-> [j \in Slot |-> Nil]]
  BY MemInitInv DEF MemInv, TablesNow, MemInit, PtInit
<1>2. ASSUME NEW r \in Roots, NEW va \in Page
      PROVE  Mapping[r][va] = Nil
  <2>1. /\ LeafIn(pt, r, va) # Nil => LeafIn(pt, r, va) \in TablePage
        /\ Index[va][Depth] \in Slot
    BY <1>1, WalkTypes DEF Leaf
  <2>2. MapsTo(pt, r, va) = Nil
    BY <1>1, <2>1 DEF MapsTo, Entry
  <2>3. QED
    BY <2>2 DEF Mapping, Translate
<1>3. pc - 1 = 0
  BY <1>1
<1>4. QED
  BY <1>2, <1>3 DEF Spaces!Init

\* A step of the code is a step of the address spaces, or leaves them alone.
LEMMA SpacesNext ==
    ASSUME MemInv, [Next]_vars
    PROVE  [Spaces!Next]_<<Mapping, pc - 1>>
<1>1. CASE Next
  <2>1. (SameMaps \/ OneMapped) /\ pc' \in {pc, pc + 1}
    BY <1>1, StepTables DEF MemInv, TablesNow
  <2>2. pc \in Nat
    BY DEF MemInv, MemTypeOK
  <2>3. pc' - 1 \in {pc - 1, (pc - 1) + 1}
    <3>1. \A n, k : n \in Nat /\ k \in {n, n + 1} => k - 1 \in {n - 1, (n - 1) + 1}
      OBVIOUS
    <3>2. pc' \in {pc, pc + 1}
      BY <2>1
    <3>3. QED
      BY <2>2, <3>1, <3>2, Zenon
  <2>4. /\ \A r \in Roots, va \in Page : Mapping[r][va] = MapsTo(pt, r, va)
        /\ \A r \in Roots, va \in Page : Mapping'[r][va] = MapsTo(pt', r, va)
    BY DEF Mapping, Translate
  <2>5. SameMaps => Mapping' = Mapping
    BY DEF SameMaps, Mapping, Translate
  <2>6. ASSUME NEW r \in Roots, NEW va \in Page,
               \A s \in Roots, vb \in Page :
                  ~ (s = r /\ vb = va) => MapsTo(pt', s, vb) = MapsTo(pt, s, vb),
               \/ pc' - 1 > 0 /\ Spaces!Asked(Program[pc' - 1], r, va, MapsTo(pt', r, va))
               \/ Spaces!TableShown(va, MapsTo(pt', r, va))
        PROVE  Mapping' = Mapping \/ Spaces!Change(r, va)
    <3>1. CASE MapsTo(pt', r, va) = MapsTo(pt, r, va)
      <4>1. SameMaps
        BY <2>6, <3>1 DEF SameMaps
      <4>2. QED
        BY <2>5, <4>1
    <3>2. CASE MapsTo(pt', r, va) # MapsTo(pt, r, va)
      <4>1. \A x \in Spaces!Others(r, va) : Mapping'[x[1]][x[2]] = Mapping[x[1]][x[2]]
        <5>1. TAKE x \in Spaces!Others(r, va)
        <5>2. x[1] \in Roots /\ x[2] \in Page /\ ~ (x[1] = r /\ x[2] = va)
          BY DEF Spaces!Others
        <5>3. QED
          BY <2>4, <2>6, <5>2
      <4>2. Mapping'[r][va] = MapsTo(pt', r, va) /\ Mapping'[r][va] # Mapping[r][va]
        BY <2>4, <3>2
      <4>3. QED
        BY <2>6, <4>1, <4>2 DEF Spaces!Change
    <3>3. QED
      BY <3>1, <3>2
  <2>7. Mapping' = Mapping \/ \E r \in Roots, va \in Page : Spaces!Change(r, va)
    BY <2>1, <2>5, <2>6 DEF OneMapped
  <2>8. QED
    BY <2>3, <2>7 DEF Spaces!Next
<1>2. CASE UNCHANGED vars
  <2>1. pt' = pt /\ pc' = pc
    BY <1>2 DEF vars, ptvars, memvars
  <2>2. Mapping' = Mapping /\ (pc - 1)' = pc - 1
    BY <2>1 DEF Mapping, Translate
  <2>3. QED
    BY <2>2
<1>3. QED
  BY <1>1, <1>2

\* The multi-level tables implement the address spaces the callers believe in:
\* a call changes the page it names and no other page of any image, and what
\* appears unasked is a pool page at its own address.
THEOREM AddressMapRefined == Spec => ImplementsAddressMap
  BY SpacesInit, SpacesNext, MemInvariant, PTL DEF Spec, ImplementsAddressMap, Spaces!Spec
=============================================================================
