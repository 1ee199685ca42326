------------------------------ MODULE ImageMemory ------------------------------
(***************************************************************************)
(* The memory functions as the privileged images call them, one page per   *)
(* call.  The images run one after the other (boot, start, load, then EL0  *)
(* requests), so the calls form one sequence, Program; BootSequence says   *)
(* which one the code makes.                                               *)
(*                                                                         *)
(* Neither mem_unmap_va() nor mem_map_pa() invalidates a TLB entry, so a   *)
(* page that was used before its entry changed may still be reached        *)
(* through the old entry, or be found gone.                                *)
(***************************************************************************)
EXTENDS ImageCalls

CONSTANTS TopPage,      \* the frame of (void *)-1
          ZeroPage,     \* the frame of address 0
          UninitPa,     \* what map_va() may leave in op.map.pa
          ElfVerdict    \* the verdicts the check of the ELF header may reach

VARIABLES pc,           \* the next call of Program
          heap,         \* heap[I]: which page of the heap comes next
          ref,          \* the frames the images hand each other
          touched,      \* <<r, va>> used since its entry last changed
          stale,        \* <<r, va, frame, user>>: entries only the TLB may hold
          mem,          \* mem[f]: the flash page frame f is a copy of
          copied,       \* <<r, va, flash page>>: the copies made (history)
          status        \* "run", "abort" (an abort, hence shutdown) or "exit"

memvars == <<pc, heap, ref, touched, stale, mem, copied, status>>
vars == <<ptvars, memvars>>

ASSUME FrameAssumption == TopPage \in Page /\ ZeroPage \in Page

----------------------------------------------------------------------------
Op == Program[pc]
R == Root[Op.img]

\* The call at hand is of this kind and the one before it has returned.
Ready == status = "run" /\ frames = <<>> /\ pc <= Len(Program)
At(names) == Ready /\ Op.op \in names
Return == pc' = pc + 1

\* Entries that change under pages that were used leave the TLB behind.
View(r, va) == <<Translate(r, va), UserCan(r, va)>>
Remember ==
    LET gone == {x \in touched : View(x[1], x[2])' # View(x[1], x[2])}
    IN  /\ stale' = stale \cup {<<x[1], x[2], Translate(x[1], x[2]), UserCan(x[1], x[2])>> :
                                    x \in gone}
        /\ touched' = touched \ gone

\* The frames an access to va may reach, by the tables or by what the TLB kept.
Current(va) == IF Translate(R, va) # Nil /\ (Op.user => UserCan(R, va))
               THEN {Translate(R, va)} ELSE {}
Kept(va) == {x[3] : x \in {y \in stale : y[1] = R /\ y[2] = va /\ (Op.user => y[4])}}
Reached(va) == Current(va) \cup Kept(va)
Touch(S) == touched' = touched \cup {<<R, va>> : va \in {v \in S : Current(v) # {}}}

\* A call of mem_map_pa() (map_va_to_pa() at boot): frame pa for page va.
Map(va, pa) ==
    /\ frames' = <<Frame(Op.img, va, pa, Op.user)>>
    /\ Return
    /\ UNCHANGED <<pt, user, mmu, touched, stale, mem, copied, status>>

mem_map_pa == At({"map_pa"}) /\ Map(Op.va, Op.pa) /\ UNCHANGED <<next, heap, ref>>
MapRef == At({"map_ref"}) /\ Map(Op.va, ref[Op.ref]) /\ UNCHANGED <<next, heap, ref>>

mem_map_va ==
    /\ At({"map_va"}) /\ CanAllocate(Op.img, "pa")
    /\ Map(Op.va, Allocated(Op.img, "pa")) /\ mem_allocate_pa(Op.img, "pa")
    /\ UNCHANGED <<heap, ref>>

mem_heap_allocate ==
    /\ At({"heap"}) /\ CanAllocate(Op.img, "pa") /\ heap[Op.img] <= Len(Heap[Op.img])
    /\ Map(Heap[Op.img][heap[Op.img]], Allocated(Op.img, "pa"))
    /\ mem_allocate_pa(Op.img, "pa")
    /\ heap' = [heap EXCEPT ![Op.img] = @ + 1]
    /\ UNCHANGED ref

\* One step of the call in progress.
Walk == /\ status = "run" /\ WalkStep /\ Remember
        /\ UNCHANGED <<pc, heap, ref, mem, copied, status>>

\* Faulty variant of Unmap: the loop over the range does not advance.
Unmap_NoAdvance ==
    /\ At({"unmap"}) /\ WalkAccessible(Op.img, Op.va)
    /\ mem_unmap_va(Op.img, Op.va) /\ Remember
    /\ UNCHANGED <<next, frames, mmu, pc, heap, ref, mem, copied, status>>

Unmap ==
    /\ At({"unmap"}) /\ WalkAccessible(Op.img, Op.va)
    /\ mem_unmap_va(Op.img, Op.va) /\ Remember /\ Return
    /\ UNCHANGED <<next, frames, mmu, heap, ref, mem, copied, status>>

\* The MMU is switched on; ARM drops what the TLB holds of the image just before.
MmuOn ==
    LET kept(S) == IF Arch = "arm" THEN {x \in S : x[1] # R} ELSE S
    IN  /\ At({"mmu_on"}) /\ Return
        /\ mmu' = [mmu EXCEPT ![Op.img] = TRUE]
        /\ touched' = kept(touched) /\ stale' = kept(stale)
        /\ UNCHANGED <<pt, user, next, frames, heap, ref, mem, copied, status>>

\* mem_lookup_pa(): ARM does not look at the valid bit of the last entry.
mem_lookup_pa(r, va) ==
    IF Translate(r, va) # Nil THEN Translate(r, va)
    ELSE IF Arch = "arm" /\ Leaf(r, va) # Nil THEN ZeroPage ELSE TopPage

\* The result is kept for another image: buf_pa and syscntl_pa of EL3, and the
\* frame of the test control block, which el1_map_secure() looks up only if
\* map_va() left something other than 0 in op.map.pa.
Lookup ==
    /\ At({"lookup", "block"}) /\ WalkAccessible(Op.img, Op.va)
    /\ \E u \in IF Op.op = "block" THEN UninitPa ELSE {"junk"} :
          ref' = [ref EXCEPT ![Op.ref] =
                     IF u = "zero" THEN ZeroPage ELSE mem_lookup_pa(R, Op.va)]
    /\ Return
    /\ UNCHANGED <<ptvars, heap, touched, stale, mem, copied, status>>

\* A load, a store or an instruction fetch; "entry" is the loader's last read,
\* "check" its test of the ELF header, which SMC_EXIT() leaves for good.
Access ==
    /\ At({"use", "check", "entry"}) /\ Reached(Op.va) # {}
    /\ \E ok \in IF Op.op = "check" THEN ElfVerdict ELSE {TRUE} :
          /\ pc' = IF ok THEN pc + 1 ELSE pc
          /\ status' = IF ok THEN status ELSE "exit"
    /\ Touch({Op.va})
    /\ UNCHANGED <<ptvars, heap, ref, stale, mem, copied>>

\* memcpy() of one page, from Op.pa to Op.va (both are virtual).
Copy ==
    /\ At({"copy"})
    /\ \E f \in Reached(Op.pa), g \in Reached(Op.va) : mem' = [mem EXCEPT ![g] = mem[f]]
    /\ copied' = copied \cup {<<R, Op.va, Op.pa>>}
    /\ Touch({Op.pa, Op.va}) /\ Return
    /\ UNCHANGED <<ptvars, heap, ref, stale, status>>

\* A table page or a page that is accessed may be out of reach: the handlers of
\* an instruction or data abort shut the system down.
CallFaults ==
    \/ At({"unmap", "lookup", "block"}) /\ ~ WalkAccessible(Op.img, Op.va)
    \/ At({"use", "check", "entry", "copy"}) /\ Current(Op.va) = {}
    \/ At({"copy"}) /\ Current(Op.pa) = {}
Abort ==
    /\ status = "run"
    /\ IF frames = <<>> THEN CallFaults ELSE WalkFaults
    /\ status' = "abort"
    /\ UNCHANGED <<ptvars, pc, heap, ref, touched, stale, mem, copied>>

Step == \/ mem_map_pa \/ MapRef \/ mem_map_va \/ mem_heap_allocate \/ Walk
        \/ Unmap \/ MmuOn \/ Lookup \/ Access \/ Copy \/ Abort

AtEnd == pc > Len(Program) /\ frames = <<>>
Finished == (status # "run" \/ AtEnd) /\ UNCHANGED vars

MemInit == /\ PtInit /\ pc = 1 /\ status = "run"
           /\ heap = [I \in Image |-> 1]
           /\ ref = [r \in Ref |-> ZeroPage]
           /\ touched = {} /\ stale = {} /\ copied = {}
           /\ mem = [f \in Page |-> f]

Next == Step \/ Finished
Spec == MemInit /\ [][Next]_vars /\ WF_vars(Step)

----------------------------------------------------------------------------
\* The variables keep their types: in particular every walk stays in the root
\* tables and the pages of the pools, and ends at its last level.
MemTypeOK ==
    /\ PtTypeOK
    /\ pc \in Nat \ {0} /\ status \in {"run", "abort", "exit"}
    /\ heap \in [Image -> Nat \ {0}] /\ ref \in [Ref -> Page]
    /\ touched \subseteq Roots \X Page
    /\ stale \subseteq Roots \X Page \X Page \X BOOLEAN
    /\ mem \in [Page -> Page] /\ copied \subseteq Roots \X Page \X Page

\* The table pages in use, each with its place: root, level and path.
Places == {<<Table(r, va, i), r, i, [k \in 1 .. i - 1 |-> Index[va][k]]>> :
               r \in Roots, va \in Page, i \in 1 .. Depth}

\* mem_map_pa() and map_va_to_pa() build trees: no table page is ever entered
\* twice, at one level, at two levels or under two roots.
TreeShape == \A x, y \in Places : x[1] = y[1] /\ x[1] # Nil => x = y

\* mem_map_pa() calls itself for a new table page, and that call never needs
\* a table page of its own.
NestingBound == Len(frames) <= 2

\* Whenever an image runs with its MMU on, each of its table pages is mapped at
\* VA = PA: mem_map_pa() and mem_unmap_va() rely on it to follow a descriptor.
Running == IF frames # <<>> THEN {Top.img} ELSE IF AtEnd THEN Image ELSE {Op.img}
TablesReachable == \A I \in Running, va \in Page : WalkAccessible(I, va)

\* No page that holds copied code or data is also a table page, and every page
\* copied in by the boot code or the loader keeps its contents for good.
ImageIntact ==
    LET frame == {<<Translate(c[1], c[2]), c[3]>> : c \in copied}
    IN  /\ \A x \in frame : x[1] # Nil /\ mem[x[1]] = x[2]
        /\ \A y \in Places : y[1] \notin {x[1] : x \in frame}

\* No access goes through an entry that only the TLB still holds, although the
\* code invalidates none (the loader's read of e_entry apart).
NoStaleUse ==
    /\ At({"use", "check", "copy"}) => Kept(Op.va) = {}
    /\ At({"copy"}) => Kept(Op.pa) = {}

\* Boot, start, load and the first uses of the shared pages run without an abort
\* (the loader's read of e_entry apart): everything is mapped when used.
OnlyEntryAborts == status = "abort" => pc <= Len(Program) /\ Op.op = "entry"

\* The init code counts on demand paging: "Anything that has not already been
\* mapped will be handled on demand".
HandledOnDemand == status # "abort"

\* Every call returns: the program runs to its end or is shut down.
ProgramEnds == <>(status # "run" \/ AtEnd)

\* The tables implement the address spaces the callers believe in.
Mapping == [r \in Roots |-> [va \in Page |-> Translate(r, va)]]
Spaces == INSTANCE AddressMap WITH map <- Mapping, call <- pc - 1
ImplementsAddressMap == Spaces!Spec
=============================================================================
