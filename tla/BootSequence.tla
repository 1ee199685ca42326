----------------------------- MODULE BootSequence -----------------------------
(***************************************************************************)
(* The calls the three privileged images make, from their boot code on:    *)
(* el3_init.S and el1_init.S build the tables and switch the MMU on,       *)
(* el3_start() and el1_start() drop the init pages and set up the shared   *)
(* pages, el1_load_el0() loads the EL0 image, and the nonsecure driver has *)
(* its test control block mapped everywhere.                               *)
(***************************************************************************)
EXTENDS ImageMemory
LOCAL INSTANCE SequencesExt

CONSTANT Layout         \* Layout[I]: the pages of image I, by name

LayoutFields == {"init", "flashtext", "flashdata", "text", "data", "stack",
                 "ustack", "window", "uart", "sysreg", "elf", "el0va", "el0src"}
ASSUME LayoutAssumption ==
    /\ Image = {"el3", "el1s", "el1ns"}
    /\ \A I \in Image : DOMAIN Layout[I] = LayoutFields
    /\ \A I \in Image, f \in LayoutFields : Layout[I][f] \in Seq(Page)

----------------------------------------------------------------------------
\* Calls, one page each: a range is a sequence of them.
Call(name, I, va, pa, u, r) ==
    [op |-> name, img |-> I, root |-> Root[I], va |-> va, pa |-> pa,
     user |-> u, ref |-> r]
Each(name, I, s, u) == [n \in DOMAIN s |-> Call(name, I, s[n], s[n], u, "none")]
One(name, I, va, u, r) == <<Call(name, I, va, va, u, r)>>
map_pa_range(I, s, u) == Each("map_pa", I, s, u)
map_va_range(I, s, u) == Each("map_va", I, s, u)
unmap_va_range(I, s)  == Each("unmap", I, s, FALSE)
memcpy(I, dst, src)   == [n \in DOMAIN dst |-> Call("copy", I, dst[n], src[n], FALSE, "none")]
Use(I, s, u)          == Each("use", I, s, u)
HeapPage(I)           == One("heap", I, ZeroPage, TRUE, "none")

\* The device pages.  Monitor and secure EL1 share their tables on ARM, where
\* the boot code keeps a valid entry: EL3 gives EL0 access to the UART there.
Devices(I) == map_pa_range(I, Layout[I].uart, I # "el3" \/ Arch = "arm")
              \o map_pa_range(I, Layout[I].sysreg, FALSE)

Window(I) == map_pa_range(I, Layout[I].window, FALSE)

\* What the boot code maps: its own pages, the flash it copies from, the pages it
\* copies to and the stacks.  The ARM monitor also maps the first page of secure
\* EL1, which it returns into.
UserBoot(I) == Arch = "aarch64" /\ I # "el3"
Sections(I) ==
    LET L == Layout[I]
    IN  map_pa_range(I, L.init, UserBoot(I))
        \o map_pa_range(I, L.flashtext, UserBoot(I))
        \o map_pa_range(I, L.flashdata, UserBoot(I))
        \o map_va_range(I, L.text, FALSE) \o map_va_range(I, L.data, FALSE)
        \o map_va_range(I, L.stack, FALSE) \o map_va_range(I, L.ustack, TRUE)
FirstPageOfEl1(I) ==
    IF Arch = "arm" /\ I = "el3"
    THEN map_pa_range(I, <<Layout["el1s"].init[1]>>, FALSE) ELSE <<>>

\* The MMU goes on under the running init code; the stack mapped last is used
\* (on ARM that of SVC mode, after those of the other modes).
EnableMmu(I) ==
    One("mmu_on", I, ZeroPage, FALSE, "none")
    \o Use(I, Layout[I].init \o <<Last(Layout[I].stack)>>, FALSE)

\* Text and data are copied from flash; only EL1 on AArch64 unmaps the flash.
CopySections(I) ==
    LET L == Layout[I]
        drop(s) == IF UserBoot(I) THEN unmap_va_range(I, s) ELSE <<>>
    IN  memcpy(I, L.text, L.flashtext) \o drop(L.flashtext)
        \o memcpy(I, L.data, L.flashdata) \o drop(L.flashdata)
        \o Use(I, L.data \o L.text, FALSE)

\* el3_init.S and el1_init.S.
Boot(I) == Sections(I) \o Window(I) \o Devices(I) \o FirstPageOfEl1(I)
           \o EnableMmu(I) \o CopySections(I)

\* el3_start(): syscntl and the SMC buffer are the first two heap pages.  The
\* ARM monitor returns into secure EL1 with the MMU on.
Syscntl(I) == Heap[I][1]
Buf == Heap["el3"][2]
el3_start ==
    unmap_va_range("el3", Layout["el3"].init)
    \o HeapPage("el3") \o HeapPage("el3")
    \o Use("el3", <<Syscntl("el3")>>, FALSE)
    \o One("lookup", "el3", Buf, FALSE, "buf")
    \o One("lookup", "el3", Syscntl("el3"), FALSE, "syscntl")
    \o (IF Arch = "arm" THEN Use("el3", <<Layout["el1s"].init[1]>>, FALSE) ELSE <<>>)

\* el1_load_el0(): the ELF image is mapped, checked, copied section page by
\* section page, unmapped, and its header is read once more for the entry point.
el1_load_el0(I) ==
    LET L == Layout[I]
        load == [n \in 1 .. 2 * Len(L.el0va) |->
                    LET m == (n + 1) \div 2
                    IN  IF n % 2 = 1
                        THEN Call("map_va", I, L.el0va[m], L.el0va[m], TRUE, "none")
                        ELSE Call("copy", I, L.el0va[m], L.el0src[m], FALSE, "none")]
    IN  map_pa_range(I, <<L.elf[1]>>, TRUE) \o One("check", I, L.elf[1], FALSE, "none")
        \o map_pa_range(I, Tail(L.elf), TRUE) \o Use(I, L.elf, FALSE)
        \o load \o unmap_va_range(I, L.elf) \o One("entry", I, L.elf[1], FALSE, "none")

\* Faulty variant of SyscntlPage: the page is never mapped onto the page of EL3.
SyscntlPage_Kept(I) == HeapPage(I)

\* The heap page behind syscntl is replaced by the page of EL3.
SyscntlPage(I) == HeapPage(I) \o One("map_ref", I, Syscntl(I), TRUE, "syscntl")

\* el1_start().
el1_start(I) ==
    unmap_va_range(I, Layout[I].init)
    \o SyscntlPage(I) \o Use(I, <<Syscntl(I)>>, FALSE)
    \o One("map_ref", I, Buf, TRUE, "buf")
    \o el1_load_el0(I)

\* main() of the EL0 image: its own pages, its stack, syscntl and the UART.
El0Main(I) == Use(I, Layout[I].el0va \o Layout[I].ustack, TRUE)
              \o Use(I, <<Syscntl(I), Layout[I].uart[1]>>, TRUE)

Block == Heap["el1ns"][2]

\* alloc_mem() and map_va() of the nonsecure driver: el1_alloc_mem() and
\* el1_map_secure() of the nonsecure EL1, el3_map_mem(), and el1_map_secure() of
\* the secure EL1, one after the other; then all three use the block.
ShareBlock ==
    HeapPage("el1ns") \o One("block", "el1ns", Block, FALSE, "block")
    \o One("map_ref", "el3", Block, FALSE, "block")
    \o One("map_ref", "el1s", Block, TRUE, "block")
    \o Use("el1s", <<Block, Buf>>, TRUE) \o Use("el3", <<Block, Buf>>, FALSE)
    \o Use("el1ns", <<Block, Buf>>, TRUE)

\* The images run in this order, each until it hands over to the next.
Stage(I) == Boot(I) \o (IF I = "el3" THEN el3_start ELSE el1_start(I) \o El0Main(I))
ImageOrder == <<"el3", "el1s", "el1ns">>
ImageProgram == FlattenSeq([n \in DOMAIN ImageOrder |-> Stage(ImageOrder[n])]) \o ShareBlock

----------------------------------------------------------------------------
\* The pages the images share are one frame each, and EL0 of both worlds may
\* use them.
SharedPagesAgree ==
    AtEnd => \A w \in {"el1s", "el1ns"} :
        /\ Translate(Root["el3"], Block) = Translate(Root[w], Block)
        /\ Translate(Root["el3"], Buf) = Translate(Root[w], Buf)
        /\ Translate(Root["el3"], Syscntl("el3")) = Translate(Root[w], Syscntl(w))
        /\ Translate(Root[w], Block) = ref["block"]
        /\ \A va \in {Block, Buf, Syscntl(w)} : UserCan(Root[w], va)
=============================================================================
