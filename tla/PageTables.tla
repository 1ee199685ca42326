------------------------------ MODULE PageTables ------------------------------
(***************************************************************************)
(* The translation tables of the EL3 and EL1 images and the code that      *)
(* changes them: mem_util.c once the MMU is on, init_util.S before.        *)
(*                                                                         *)
(* Table pages are accessed at VA = PA.  mem_map_pa() calls itself to map  *)
(* the table pages it allocates, so a call in progress is a stack of       *)
(* frames, one per activation.                                             *)
(***************************************************************************)
EXTENDS PageWalk

VARIABLES pt,           \* pt[t][j]: the page entry j of table page t points to
          user,         \* the <<t, j>> whose entry lets EL0 in (PTE_USER_*)
          next,         \* next[I][k]: mem_next_pa and mem_next_l1_page
          frames,       \* the activations of mem_map_pa(), outermost first
          mmu           \* mmu[I]: the image runs with its MMU enabled

ptvars == <<pt, user, next, frames, mmu>>

----------------------------------------------------------------------------
\* The walks through the tables as they are.
Table(r, va, i) == TableIn(pt, r, va, i)
Leaf(r, va) == LeafIn(pt, r, va)
Translate(r, va) == MapsTo(pt, r, va)
UserCan(r, va) == <<Leaf(r, va), Index[va][Depth]>> \in user

\* A table page can be read and written by the image's own code.
Accessible(I, t) == mmu[I] => Translate(Root[I], t) = t

\* Every table page a walk for va meets can be accessed.
WalkAccessible(I, va) ==
    \A i \in 1 .. Depth : LET t == Table(Root[I], va, i)
                          IN  t # Nil => Accessible(I, t)

----------------------------------------------------------------------------
\* mem_allocate_pa(), allocate_pa and allocate_l1_page: a pool pointer that only
\* grows.  That it stays inside the modelled pool is this model's bound.
CanAllocate(I, k) == next[I][k] <= Len(Pool[I][k])
Allocated(I, k) == Pool[I][k][next[I][k]]
mem_allocate_pa(I, k) == next' = [next EXCEPT ![I][k] = @ + 1]

\* The pool the boot code takes its table pages from.
BootPool == IF Arch = "aarch64" THEN "pa" ELSE "pte"

Frame(I, va, pa, u) == [img |-> I, va |-> va, pa |-> pa, user |-> u,
                        lvl |-> 1, tbl |-> Root[I], new |-> Nil]
Top == frames[Len(frames)]
SetTop(f) == [frames EXCEPT ![Len(frames)] = f]
Here(f) == pt[f.tbl][Index[f.va][f.lvl]]
WriteHere(f, e) == pt' = [pt EXCEPT ![f.tbl][Index[f.va][f.lvl]] = e]
Below(f, t) == [f EXCEPT !.tbl = t, !.lvl = @ + 1, !.new = Nil]

\* The innermost activation is about to look at the entry of its level.
Walking == frames # <<>> /\ Top.new = Nil /\ Accessible(Top.img, Top.tbl)

\* Faulty variant of Descend: one level too many.
Descend_TooFar ==
    /\ Walking /\ Top.lvl <= Depth /\ Here(Top) # Nil
    /\ frames' = SetTop(Below(Top, Here(Top)))
    /\ UNCHANGED <<pt, user, next, mmu>>

Descend ==
    /\ Walking /\ Top.lvl < Depth /\ Here(Top) # Nil
    /\ frames' = SetTop(Below(Top, Here(Top)))
    /\ UNCHANGED <<pt, user, next, mmu>>

\* map_va_to_pa() of the boot code links a new table page at once.
BootGrow ==
    /\ Walking /\ Top.lvl < Depth /\ Here(Top) = Nil /\ ~ mmu[Top.img]
    /\ CanAllocate(Top.img, BootPool)
    /\ LET p == Allocated(Top.img, BootPool)
       IN  WriteHere(Top, p) /\ frames' = SetTop(Below(Top, p))
    /\ mem_allocate_pa(Top.img, BootPool)
    /\ UNCHANGED <<user, mmu>>

\* Faulty variants of Grow: the new page is not taken out of the pool; a page is
\* allocated whatever the entry holds; the new page is not mapped.
Grow_NotTaken ==
    /\ Walking /\ Top.lvl < Depth /\ Here(Top) = Nil /\ mmu[Top.img]
    /\ CanAllocate(Top.img, "pa")
    /\ LET p == Allocated(Top.img, "pa")
       IN  frames' = Append(SetTop([Top EXCEPT !.new = p]), Frame(Top.img, p, p, TRUE))
    /\ UNCHANGED <<pt, user, next, mmu>>
Grow_Always ==
    /\ Walking /\ Top.lvl < Depth /\ mmu[Top.img]
    /\ CanAllocate(Top.img, "pa")
    /\ LET p == Allocated(Top.img, "pa")
       IN  frames' = Append(SetTop([Top EXCEPT !.new = p]), Frame(Top.img, p, p, TRUE))
    /\ mem_allocate_pa(Top.img, "pa")
    /\ UNCHANGED <<pt, user, mmu>>
Grow_NotMapped ==
    /\ Walking /\ Top.lvl < Depth /\ Here(Top) = Nil /\ mmu[Top.img]
    /\ CanAllocate(Top.img, "pa")
    /\ frames' = SetTop([Top EXCEPT !.new = Allocated(Top.img, "pa")])
    /\ mem_allocate_pa(Top.img, "pa")
    /\ UNCHANGED <<pt, user, mmu>>

\* mem_map_pa() first calls itself to map the new table page at VA = PA...
Grow ==
    /\ Walking /\ Top.lvl < Depth /\ Here(Top) = Nil /\ mmu[Top.img]
    /\ CanAllocate(Top.img, "pa")
    /\ LET p == Allocated(Top.img, "pa")
       IN  frames' = Append(SetTop([Top EXCEPT !.new = p]), Frame(Top.img, p, p, TRUE))
    /\ mem_allocate_pa(Top.img, "pa")
    /\ UNCHANGED <<pt, user, mmu>>

\* ...and links it when that call has returned, whatever the entry holds by then.
Link ==
    /\ frames # <<>> /\ Top.new # Nil /\ Accessible(Top.img, Top.tbl)
    /\ WriteHere(Top, Top.new)
    /\ frames' = SetTop(Below(Top, Top.new))
    /\ UNCHANGED <<user, next, mmu>>

\* The last level: the entry is written and the activation returns.  The ARM
\* boot code alone keeps an entry that is valid already.
SetLeaf ==
    LET f == Top
        cell == <<f.tbl, Index[f.va][f.lvl]>>
    IN  /\ Walking /\ f.lvl = Depth
        /\ IF Arch = "arm" /\ ~ mmu[f.img] /\ Here(f) # Nil
           THEN UNCHANGED <<pt, user>>
           ELSE /\ WriteHere(f, f.pa)
                /\ user' = IF f.user THEN user \cup {cell} ELSE user \ {cell}
        /\ frames' = SubSeq(frames, 1, Len(frames) - 1)
        /\ UNCHANGED <<next, mmu>>

\* A step inside mem_map_pa() or map_va_to_pa().
WalkStep == Descend \/ BootGrow \/ Grow \/ Link \/ SetLeaf

\* The walk meets a table page the image cannot access: a data abort.
WalkFaults == frames # <<>> /\ ~ Accessible(Top.img, Top.tbl)

\* Faulty variant of mem_unmap_va: a table with no valid entry below the one to
\* clear is taken for empty and given up.
mem_unmap_va_Reclaim(I, va) ==
    LET t == Leaf(Root[I], va)
        j == Index[va][Depth]
        inUse == \E k \in Slot : k < j /\ pt[t][k] # Nil
    IN  IF t = Nil THEN UNCHANGED <<pt, user>>
        ELSE /\ IF inUse THEN pt' = [pt EXCEPT ![t][j] = Nil]
                ELSE pt' = [pt EXCEPT ![Table(Root[I], va, Depth - 1)][Index[va][Depth - 1]] = Nil]
             /\ user' = user \ {<<t, j>>}

\* mem_unmap_va(), unmap_va: clear the last entry, if the walk gets there.  No
\* TLB entry is invalidated.
mem_unmap_va(I, va) ==
    LET t == Leaf(Root[I], va)
    IN  IF t = Nil THEN UNCHANGED <<pt, user>>
        ELSE /\ pt' = [pt EXCEPT ![t][Index[va][Depth]] = Nil]
             /\ user' = user \ {<<t, Index[va][Depth]>>}

----------------------------------------------------------------------------
PtInit == /\ pt = [t \in TablePage |-> [j \in Slot |-> Nil]]
          /\ user = {}
          /\ next = [I \in Image |-> [k \in PoolName |-> 1]]
          /\ frames = <<>>
          /\ mmu = [I \in Image |-> FALSE]

FrameType == [img : Image, va : Page, pa : Page, user : BOOLEAN,
              lvl : 1 .. Depth, tbl : TablePage, new : PoolPages \cup {Nil}]
PtTypeOK == /\ pt \in [TablePage -> [Slot -> Page \cup {Nil}]]
            /\ user \subseteq TablePage \X Slot
            /\ next \in [Image -> [PoolName -> Nat \ {0}]]
            /\ frames \in Seq(FrameType)
            /\ mmu \in [Image -> BOOLEAN]
=============================================================================
