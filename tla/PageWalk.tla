------------------------------- MODULE PageWalk -------------------------------
(***************************************************************************)
(* The layout of the translation tables of common/{aarch64,arm}: four      *)
(* levels or two, each table page an array of descriptors.  A page number  *)
(* stands for a virtual page and for a physical frame alike.  The walks of *)
(* mem_util.c, init_util.S and the MMU are functions of m, the contents of *)
(* the table pages.                                                        *)
(***************************************************************************)
EXTENDS Integers, Sequences

CONSTANTS Arch,         \* "aarch64" (4 levels) or "arm" (2 levels)
          Page,         \* page numbers
          Nil,          \* an invalid descriptor
          Slot,         \* entry numbers of a table
          Index,        \* Index[va][i]: the entry va selects at level i
          Image,        \* the privileged images
          Root,         \* Root[I]: mem_pgtbl_base of image I
          Pool          \* Pool[I]["pa"], Pool[I]["pte"]: the pages the two pool
                        \* pointers of image I run through, in order

Depth == IF Arch = "aarch64" THEN 4 ELSE 2
PoolName == {"pa", "pte"}
Roots == {Root[I] : I \in Image}
PoolPages == {p \in Page : \E I \in Image, k \in PoolName :
                               \E n \in 1 .. Len(Pool[I][k]) : p = Pool[I][k][n]}
TablePage == Roots \cup PoolPages

\* Images may share a root (ARM EL3 and secure EL1 do), never a pool page.
ASSUME ArchAssumption == Arch \in {"aarch64", "arm"}
ASSUME PageAssumption == Nil \notin Page /\ TablePage \subseteq Page
ASSUME PoolAssumption ==
    /\ Root \in [Image -> Page]
    /\ Pool \in [Image -> [PoolName -> Seq(Page)]]
    /\ Roots \cap PoolPages = {}
    /\ \A I, J \in Image, k, l \in PoolName :
          \A m \in 1 .. Len(Pool[I][k]), n \in 1 .. Len(Pool[J][l]) :
             Pool[I][k][m] = Pool[J][l][n] => I = J /\ k = l /\ m = n
ASSUME IndexAssumption ==
    /\ Index \in [Page -> [1 .. Depth -> Slot]]
    /\ \A a, b \in Page :
          (\A i \in 1 .. Depth : Index[a][i] = Index[b][i]) => a = b

----------------------------------------------------------------------------
\* The table of level i on the way from root r to va, Nil when an entry above
\* is invalid, and what the entry of the last level holds.
Entry(m, t, va, i) == IF t = Nil THEN Nil ELSE m[t][Index[va][i]]
Table2(m, r, va) == Entry(m, r, va, 1)
Table3(m, r, va) == Entry(m, Table2(m, r, va), va, 2)
Table4(m, r, va) == Entry(m, Table3(m, r, va), va, 3)
TableIn(m, r, va, i) == IF i = 1 THEN r
                        ELSE IF i = 2 THEN Table2(m, r, va)
                        ELSE IF i = 3 THEN Table3(m, r, va)
                        ELSE Table4(m, r, va)
LeafIn(m, r, va) == TableIn(m, r, va, Depth)
MapsTo(m, r, va) == Entry(m, LeafIn(m, r, va), va, Depth)
=============================================================================
