----------------------------- MODULE ImageCalls -----------------------------
(***************************************************************************)
(* The calls the privileged images make of the memory functions, one page  *)
(* per call, and what the memory map of memory.h lets a caller rely on.    *)
(* BootSequence gives the calls of the shipped images; the assumptions     *)
(* below are what the proofs need of them.                                 *)
(***************************************************************************)
EXTENDS PageTables, FiniteSets

CONSTANTS Program,      \* the calls, in the order they are made
          Heap          \* Heap[I]: the pages mem_heap_pool of image I runs through

Ref == {"none", "syscntl", "buf", "block"}
OpName == {"map_pa", "map_va", "heap", "map_ref", "unmap", "mmu_on", "lookup",
           "block", "use", "check", "copy", "entry"}
CallType == [op : OpName, img : Image, root : Page, va : Page, pa : Page,
             user : BOOLEAN, ref : Ref]

ASSUME ProgramAssumption ==
    /\ Program \in Seq(CallType)
    /\ \A n \in 1 .. Len(Program) : Program[n].root = Root[Program[n].img]
ASSUME HeapAssumption == Heap \in [Image -> Seq(Page)]

----------------------------------------------------------------------------
\* What el3_map_pt and el1_map_pt are for: when an image turns its MMU on, it has
\* mapped a page of every region its page pool runs through.
SameLeaf(va, vb) == \A i \in 1 .. Depth - 1 : Index[va][i] = Index[vb][i]
ASSUME WindowAssumption ==
    \A n \in 1 .. Len(Program) : Program[n].op = "mmu_on" =>
        \A k \in 1 .. Len(Pool[Program[n].img]["pa"]) :
            \E m \in 1 .. n - 1 :
                /\ Program[m].op = "map_pa" /\ Program[m].img = Program[n].img
                /\ SameLeaf(Program[m].va, Pool[Program[n].img]["pa"][k])

\* Before call n image I has made a call, and has switched its MMU on.
Begun(I, n) == \E m \in 1 .. n - 1 : Program[m].img = I
Booted(I, n) == \E m \in 1 .. n - 1 : Program[m].op = "mmu_on" /\ Program[m].img = I

\* No image is still building tables under root r.
Settled(r, n) == \A I \in Image : Root[I] = r /\ Begun(I, n) => Booted(I, n)

\* An image that is booting is not interrupted by one that shares its root, and no
\* image is left half booted.
ASSUME OrderAssumption ==
    /\ \A n \in 1 .. Len(Program) :
          Booted(Program[n].img, n) => Settled(Program[n].root, n)
    /\ \A r \in Roots : Settled(r, Len(Program) + 1)

\* The regions of memory.h do not overlap: what can become a table page is mapped
\* at its own address or not at all, and is never unmapped.
ASSUME TablePageAssumption ==
    /\ \A n \in 1 .. Len(Program) :
          /\ Program[n].op \in {"map_pa", "map_va", "map_ref", "unmap"}
          /\ Program[n].va \in TablePage
          => Program[n].op = "map_pa" /\ Program[n].pa = Program[n].va
    /\ \A I \in Image : \A k \in 1 .. Len(Heap[I]) : Heap[I][k] \notin TablePage

\* What image I can take from its pools before call n: a page for each map_va call
\* and a table for each entry above the last level that its pages select.
BootCalls(I, n) ==
    {m \in 1 .. n - 1 : Program[m].img = I /\ Program[m].op \in {"map_pa", "map_va"}}
PagesFor(I, n) == {m \in BootCalls(I, n) : Program[m].op = "map_va"}
Prefix(va, i) == <<i, [k \in 1 .. i - 1 |-> Index[va][k]]>>
Steps(I, n) == BootCalls(I, n) \X (2 .. Depth)
TablesFor(I, n) == {Prefix(Program[x[1]].va, x[2]) : x \in Steps(I, n)}
Demand(I, n) == Cardinality(PagesFor(I, n)) + Cardinality(TablesFor(I, n))

\* Image I has mapped page p before call n.
Shown(p, I, n) ==
    \E m \in 1 .. n - 1 : /\ Program[m].op = "map_pa" /\ Program[m].img = I
                          /\ Program[m].va = p

\* The boot code takes nothing from the heap, and the window it maps holds the
\* root and every page of the pool it can have taken by then.
ASSUME BootAssumption ==
    \A n \in 1 .. Len(Program) : LET I == Program[n].img IN
        /\ Program[n].op \in {"heap", "map_ref"} => Booted(I, n)
        /\ Program[n].op = "mmu_on" =>
              /\ Shown(Root[I], I, n)
              /\ \A k \in 1 .. Len(Pool[I][BootPool]) :
                    k <= Demand(I, n) => Shown(Pool[I][BootPool][k], I, n)

----------------------------------------------------------------------------
\* Call n changes the mapping of page va under root r: the heap calls of an image
\* take the pages of its heap in order.
HeapCalls(I, n) == {m \in 1 .. n - 1 : Program[m].op = "heap" /\ Program[m].img = I}
Changes(n, r, va) ==
    /\ Program[n].root = r
    /\ \/ Program[n].op \in {"map_pa", "map_va", "map_ref", "unmap"} /\ Program[n].va = va
       \/ Program[n].op = "heap" /\ \E k \in 1 .. Len(Heap[Program[n].img]) :
             k = Cardinality(HeapCalls(Program[n].img, n)) + 1 /\ Heap[Program[n].img][k] = va

\* Call n reads, writes or runs page va under root r.
Uses(n, r, va) ==
    /\ Program[n].root = r
    /\ \/ Program[n].op \in {"use", "check", "entry", "copy"} /\ Program[n].va = va
       \/ Program[n].op = "copy" /\ Program[n].pa = va

\* Call n drops what the TLB holds of root r.
Drops(n, r) == Arch = "arm" /\ Program[n].op = "mmu_on" /\ Program[n].root = r

\* The TLB may hold an entry of page va that call m used, or one older than that.
Cached(m, r, va, n) == Uses(m, r, va) /\ \A k \in m .. n - 1 : ~ Drops(k, r)
Outdated(r, va, n) ==
    \E m \in 1 .. n - 1 : /\ Changes(m, r, va)
                          /\ \E k \in 1 .. m - 1 : Cached(k, r, va, n)

\* The images do not use a page, change its mapping and use it again, unless the
\* TLB was emptied meanwhile (the loader's read of e_entry apart).
ASSUME UseAssumption ==
    \A n \in 1 .. Len(Program) : \A va \in {Program[n].va, Program[n].pa} :
        Program[n].op \in {"use", "check", "copy"} /\ Uses(n, Program[n].root, va) =>
            va \notin TablePage /\ ~ Outdated(Program[n].root, va, n)

\* A page that is copied to is mapped once, by map_va, and copied from one page,
\* which until then is mapped at its own address or not at all.
ASSUME CopyAssumption ==
    \A n \in 1 .. Len(Program) : LET r == Program[n].root IN
        Program[n].op = "copy" => \A m \in 1 .. Len(Program) :
            /\ Changes(m, r, Program[n].va) =>
                  /\ Program[m].op = "map_va"
                  /\ \A k \in 1 .. Len(Program) : Changes(k, r, Program[n].va) => k = m
            /\ Changes(m, r, Program[n].pa) /\ m < n =>
                  Program[m].op = "map_pa" /\ Program[m].pa = Program[n].pa
            /\ Program[m].op = "copy" /\ Program[m].root = r /\ Program[m].va = Program[n].va =>
                  Program[m].pa = Program[n].pa

\* Call m maps page va under root r, for EL0 too if u.
Maps(m, r, va, u) ==
    Changes(m, r, va) /\ Program[m].op # "unmap" /\ (u => Program[m].user)

\* The boot code of ARM leaves an entry that is valid as it is.
Overwrites(m) == Arch # "arm" \/ Booted(Program[m].img, m)

\* A call before n has mapped the page, and none has taken that back.
Provided(n, r, va, u) ==
    \E m \in 1 .. n - 1 :
        /\ Maps(m, r, va, u)
        /\ u => Overwrites(m) \/ \A k \in 1 .. m - 1 : ~ Changes(k, r, va)
        /\ \A k \in m .. n - 1 : Changes(k, r, va) => Maps(k, r, va, u)

\* Each page is mapped before it is used (the loader's read of e_entry apart).
ASSUME ProvidedAssumption ==
    \A n \in 1 .. Len(Program) : \A va \in {Program[n].va, Program[n].pa} :
        LET r == Program[n].root IN
        Program[n].op \in {"use", "check", "copy"} /\ Uses(n, r, va) =>
            Provided(n, r, va, Program[n].user)
=============================================================================
