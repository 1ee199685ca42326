----------------------------- MODULE VectorState -----------------------------
(***************************************************************************)
(* Registers, stacks and save areas, as the exception vectors and          *)
(* monitor_switch handle them.  The C code between a vector's entry and    *)
(* its exit is an activity <<domain, name>>; the domain is a world, or EL3. *)
(* A register or stack word is abstracted to a pair: whose value it is and *)
(* what it is.  An activity that is resumed must find its own values.      *)
(*                                                                         *)
(* General registers are grouped by how the procedure call standard treats *)
(* them: x0, x1, x2 (with x3), x4, tmp (the other scratch registers) and   *)
(* keep (the callee-saved ones).  On AArch64 lr is one of them; on ARM it  *)
(* is banked by mode, as sp and spsr are, and holds the return address of  *)
(* an exception as well.                                                   *)
(***************************************************************************)
EXTENDS Naturals, Sequences

CONSTANTS Arch, MaxSwitches         \* bound on the world switches followed
ASSUME VectorAssumption == Arch \in {"aarch64", "arm"} /\ MaxSwitches \in Nat

VARIABLES cpu,          \* the processor and the stacks in memory
          buf,          \* buf[w]: sec_state and nsec_state
          excp,         \* the instruction that traps: what the log says of it, and its target
          switches      \* the world switches so far (history)

vecvars == <<cpu, buf, excp, switches>>

SECURE == 0
NONSECURE == 1
World == {SECURE, NONSECURE}
MON == 3                            \* the domain of EL3

Own(a) == <<a, "own">>
Result(a) == <<a, "res">>
Psr(m) == <<<<MON, m>>, "psr">>
Junk == <<<<MON, "any">>, "junk">>
Syscntl == <<<<MON, "start">>, "syscntl">>
Gpr == {"x0", "x1", "x2", "x4", "tmp", "keep"} \cup (IF Arch = "arm" THEN {} ELSE {"lr"})
Kept == IF Arch = "arm" THEN {"keep", "x4"} ELSE {"keep", "lr"}

\* pc is <<activity, place>>: at the start of an image ("entry"), in the body of a
\* function, just after a call ("ret"), at an instruction that trapped ("at") or
\* just after it ("next").
Running == cpu.pc[1]
Place == cpu.pc[2]
At(names) == Running[2] \in names /\ Place \notin {"entry", "at"}

----------------------------------------------------------------------------
\* The stack of the current mode: words are pushed in the order given.
Push(c, words) ==
    LET p == c.sp[c.mode]
    IN  [c EXCEPT !.stk[p.of] = SubSeq(@, 1, p.n) \o words,
                  !.sp[c.mode].n = p.n + Len(words)]
Pop(c, n) == [c EXCEPT !.sp[c.mode].n = @ - n]
Top(c, i) == LET p == c.sp[c.mode] IN c.stk[p.of][p.n + 1 - i]

\* The program goes on: what it computes next is its own again, except that it
\* relies on the registers a callee preserves.
Live(c) == [c EXCEPT !.gpr = [g \in Gpr |-> IF g \in Kept THEN @[g] ELSE Own(c.pc[1])]]

\* The instruction at hand: it traps again if it was returned to.
Traps(action, target) ==
    /\ Place # "entry"
    /\ Place = "at" => excp = [action |-> action, to |-> target]
    /\ excp' = [action |-> action, to |-> target]
Action == {"SKIP", "NONE"}

\* The log's action decides where handle_exception() returns to.
Advance(addr) == IF excp.action = "SKIP" THEN <<addr[1], "next">> ELSE addr

----------------------------------------------------------------------------
ModeOf(a) == CASE a[2] = "main" -> IF Arch = "arm" THEN "USR" ELSE "EL0"
               [] a[1] = MON    -> IF Arch = "arm" THEN "MON" ELSE "EL3"
               [] a[2] = "und"  -> "UND"
               [] OTHER         -> IF Arch = "arm" THEN "SVC" ELSE "EL1"
KeptOf(a) == /\ \A g \in Kept : cpu.gpr[g] = Own(a)
             /\ Arch = "arm" => cpu.lr[cpu.mode] = Own(a)

\* Whatever is resumed, by whatever chain of returns, nested exceptions and world
\* switches, runs in its own mode, with its callee-saved registers and link
\* register, and with its own frame on top of its own stack.
OwnContext ==
    Place # "entry" =>
        /\ cpu.mode = ModeOf(Running) /\ Running[1] \in {MON, cpu.ns}
        /\ KeptOf(Running)
        /\ cpu.sp[cpu.mode].n > 0 /\ Top(cpu, 1) = Own(Running)

\* A call returns the result of its own handler in x0: an SVC that of el1_handle_svc(),
\* an SMC that of el3_handle_smc(), here or in the other world.
ResultDelivered ==
    Place = "ret" =>
        cpu.gpr["x0"] = Result(IF Running[2] = "main" THEN <<Running[1], "svc">>
                               ELSE <<MON, "smc">>)

\* Both kernels start at EL1 with the address of the control block in register 4,
\* "el1_init() - x4 = syscntl PA"; the nonsecure one after a world switch.
BootHandover ==
    Place = "entry" =>
        /\ cpu.mode = ModeOf(Running) /\ cpu.gpr["x4"] = Syscntl
        /\ Running[1] = cpu.ns

\* The monitor's stack is where it was, but on ARM, whose switch returns with
\* `rfefd sp`: the frame it pushed stays, two words for every switch.
MonitorStack ==
    Running[1] # MON =>
        cpu.sp[ModeOf(<<MON, "smc">>)].n = 1 + (IF Arch = "arm" THEN 2 * (1 + switches) ELSE 0)

\* Whenever EL0 runs, the stacks of its kernel are where el1_start() left them: the
\* exits drop what the entries pushed, on whichever path of the vectors, on top of
\* whatever they interrupted and whatever the other world did meanwhile.  EL0 does
\* not use these stacks, so a word lost at each exception would go unnoticed until
\* they run out.
KernelBase == IF Arch = "arm" THEN [SVC |-> 1, UND |-> 0] ELSE [EL1 |-> 1]
KernelStacks ==
    Running[2] = "main" =>
        \A m \in DOMAIN KernelBase :
            cpu.sp[m] = [of |-> <<Running[1], m>>, n |-> KernelBase[m]]

\* handle_exception() returns to the offending instruction; going past it takes
\* a SKIP.
RetryUnlessSkip == Place = "next" => excp.action = "SKIP"

\* An exception that is handled gives the interrupted code back the registers
\* its vector saved: the tests' `asm volatile("wfe\n")` declares that it changes
\* none.
TrapRestoresSaved ==
    Place = "next" => \A g \in {"x0", "x1", "x2"} : cpu.gpr[g] = Own(Running)
=============================================================================
