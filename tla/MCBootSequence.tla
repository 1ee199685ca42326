---------------------------- MODULE MCBootSequence ----------------------------
(***************************************************************************)
(* A small layout for BootSequence, after common/{aarch64,arm}/memory.h.   *)
(* A region is what one last-level table maps: 0 flash and EL0, 1 devices  *)
(* and EL0 stacks, 2 to 4 the RAM of the three images, then for each image *)
(* its text, data and stacks, and its heap.                                *)
(***************************************************************************)
EXTENDS BootSequence

S == 24                                 \* pages per region
P(region, n) == region * S + n
Seg(region, n, len) == [i \in 1 .. len |-> P(region, n + i - 1)]
MCPage == 0 .. 11 * S - 1
MCSlot == 0 .. S - 1
MCImage == {"el3", "el1s", "el1ns"}
Ram == [el3 |-> 2, el1s |-> 3, el1ns |-> 4]
Own == [el3 |-> 5, el1s |-> 7, el1ns |-> 9]
Flash == [el3 |-> 0, el1s |-> 3, el1ns |-> 6]

\* Which upper entries select a region on AArch64: low memory, RAM and the
\* nonsecure EL1 lie under one first-level entry, the secure images under another.
Upper == [g \in 0 .. 10 |->
    CASE g \in {0, 1}    -> <<0, 0, g>>
      [] g \in {2, 3, 4} -> <<0, 1, g>>
      [] g \in {5, 6}    -> <<1, 0, g>>
      [] g \in {7, 8}    -> <<1, 1, g>>
      [] OTHER           -> <<0, 2, g>>]
MCIndex == [p \in MCPage |-> IF Arch = "aarch64" THEN Append(Upper[p \div S], p % S)
                                                 ELSE <<p \div S, p % S>>]

\* AArch64: tables and data come from one pool.  ARM: two pools, and EL3 keeps
\* its tables under the root of the secure EL1.
PteSize == 8
MCRoot == [I \in MCImage |-> IF Arch = "arm" /\ I = "el3" THEN P(Ram["el1s"], 0)
                                                          ELSE P(Ram[I], 0)]
MCPool == [I \in MCImage |->
    IF Arch = "aarch64" THEN [pa |-> Seg(Ram[I], 1, S - 1), pte |-> <<>>]
    ELSE [pte |-> Seg(Ram[I], 1, PteSize), pa |-> Seg(Ram[I], 1 + PteSize, S - 1 - PteSize)]]

\* The window: 14 pages hold all that the boot code allocates (AArch64); the root
\* and the pool of table pages (ARM).
MCWindow(I) == IF Arch = "aarch64" THEN Seg(Ram[I], 0, 14)
               ELSE <<MCRoot[I]>> \o Seg(Ram[I], 1, PteSize)

MCLayout == [I \in MCImage |->
    [init      |-> Seg(0, Flash[I], 1),
     flashtext |-> Seg(0, Flash[I] + 1, 1),
     flashdata |-> Seg(0, Flash[I] + 2, 1),
     text      |-> Seg(Own[I], 0, 1),
     data      |-> Seg(Own[I], 1, 1),
     stack     |-> IF I = "el3" \/ Arch = "aarch64" THEN Seg(Own[I], S - 1, 1)
                   ELSE Seg(Own[I], S - 4, 4),
     ustack    |-> IF I = "el3" THEN <<>> ELSE Seg(1, IF I = "el1s" THEN 5 ELSE 6, 1),
     window    |-> MCWindow(I),
     uart      |-> Seg(1, 0, 1),
     sysreg    |-> IF I = "el3" \/ Arch = "arm" THEN Seg(1, 1, 1) ELSE <<>>,
     elf       |-> IF I = "el3" THEN <<>> ELSE Seg(0, IF I = "el1s" THEN 9 ELSE 12, 3),
     el0va     |-> IF I = "el3" THEN <<>> ELSE Seg(0, IF I = "el1s" THEN 16 ELSE 19, 2),
     el0src    |-> IF I = "el3" THEN <<>> ELSE Seg(0, IF I = "el1s" THEN 9 ELSE 12, 2)]]
MCHeap == [I \in MCImage |-> Seg(Own[I] + 1, 0, 2)]

\* The configurations put these names for the constants: TLC computes a constant
\* definition once, but what stands for a constant at every use.
TheRoot == MCRoot
ThePool == MCPool
TheIndex == MCIndex
TheHeap == MCHeap
TheLayout == MCLayout
TheProgram == ImageProgram
=============================================================================
