------------------------------ MODULE TzMachine ------------------------------
(***************************************************************************)
(* The machine the images run on and the state they share: exception       *)
(* levels, the registers the tests play with, traps, SVC / SMC / exception *)
(* return, the monitor's world switch, and the shared memory (interop      *)
(* buffer, exception log, test counters).                                  *)
(*                                                                         *)
(* There is one processor.  Control moves between exception levels by SVC, *)
(* SMC, traps and exception returns, and between worlds by the monitor's   *)
(* save / restore of the EL1&0 context.  Each image is a coroutine whose   *)
(* continuation (the C code after the call it is in) is a label: k0 for    *)
(* EL0 and k1 for EL1 live in the banked context ctx, k3 for EL3 does not. *)
(*                                                                         *)
(* El3Monitor, El1Kernel, El0Programs and TestInterpreter give each image  *)
(* its actions; TzSystem composes them.                                    *)
(***************************************************************************)
EXTENDS TestMacros, FiniteSets

CONSTANTS
    Arch,       \* "aarch64" or "arm"
    Scripts,    \* test_func[] of all images: request -> sequence of steps
    Tables,     \* the tztest[] tables the program may be built with
    UninitPa    \* what the uninitialised map.pa of map_va() may hold

Request == DOMAIN Scripts

ASSUME ArchAssumption == Arch \in {"aarch64", "arm"}

ASSUME ScriptsAssumption ==
    \A r \in Request :
        /\ r \in [fid : Nat, el : Level, state : World]
        /\ Scripts[r] \in Seq(ScriptStep)

\* How the test functions treat SCR: they change no NS bit, write back only a
\* value they read before, and read and write it at one level.
ASSUME ScrDisciplineAssumption ==
    \A r \in Request :
        LET f == Scripts[r]
            Scr(n, op) == f[n].op = op /\ f[n].key = "SCR"
        IN  \A i, j \in 1 .. Len(f) :
            /\ Scr(i, "set") =>
                  /\ "NS" \notin f[i].add \cup f[i].del
                  /\ \E n \in 1 .. i - 1 : Scr(n, "get")
            /\ Scr(i, "get") /\ (Scr(j, "get") \/ Scr(j, "set")) =>
                  f[i].lvl = f[j].lvl

ASSUME TablesAssumption == \A t \in Tables : t \in Seq(Request)

ASSUME UninitPaAssumption == UninitPa \subseteq {"zero", "junk"}

VARIABLES
    power,          \* "on" until el3_shutdown
    el,             \* the exception level executing
    scr, cptr,      \* SCR (SCR_EL3) and CPTR_EL3
    secure_state,   \* el3.c's global: the world EL3 believes is current
    x0,             \* opcode on the way in, result on the way out
    ctx,            \* the live EL1&0 context
    saved,          \* sec_state and nsec_state
    k3,             \* what EL3 is doing
    fault,          \* the synchronous exception being handled, if any
    desc,           \* per world, the descriptor EL0 passed to its last SVC
    buf,            \* *smc_interop_buf
    table, idx,     \* tztest[] and the index i of tztest_start()
    test,           \* the test function being executed, if any
    excp,           \* syscntl->excp
    tcmap,          \* per address space, the page behind syscntl->test_cntl
    cnt,            \* per page, the test_control_t it holds
    executed,       \* history: where each request was executed
    judged          \* history: the TEST_CONDITIONs evaluated and failed

hwvars   == <<scr, cptr>>
runvars  == <<table, idx, test, executed>>
tcvars   == <<tcmap, cnt, judged>>
vars == <<power, el, scr, cptr, secure_state, x0, ctx, saved, k3, fault, desc,
          buf, table, idx, test, excp, tcmap, cnt, executed, judged>>

----------------------------------------------------------------------------
(***************************************************************************)
(* State shapes.                                                           *)
(***************************************************************************)

\* Where an EL0 program is: before it is loaded, in main(), inside one of its
\* SVCs, in the table or service loop, or in a test function.
K0 == {"off", "main", "got_syscntl", "alloced", "mapped", "interop", "loop",
       "ran", "test", "test_ret", "exit"}

\* Where an EL1 kernel is: not started, idle below an exception return, in
\* el1_handle_svc(), or in that handler waiting for the SMC it issued.
K1 == {"init", "idle", "svc", "exit", "yield", "map", "get_reg", "set_reg",
       "test_smc", "dispatch", "test", "test_ret"}

K3 == {"start", "none", "smc", "test"}

Context == [w : World, k0 : K0, k1 : K1,
            cpacr : SUBSET CpacrBits, sctlr : SUBSET SctlrBits]

\* The EL1&0 address space of each world, and EL3's own.
Space == {SECURE, NONSECURE, 3}

Other(w) == 1 - w
NSBit    == IF "NS" \in scr THEN NONSECURE ELSE SECURE

NoTest  == [req |-> "none"]
NoFault == [st |-> "none"]
Clear   == [log |-> FALSE, skip |-> FALSE, taken |-> FALSE, ec |-> "none",
            el |-> 0]

\* memset() of the state buffers, with the entry point of the EL1 image.
FreshContext(w) ==
    [w |-> w, k0 |-> "off", k1 |-> "init", cpacr |-> {}, sctlr |-> {}]

Init ==
    /\ power = "on" /\ el = 3 /\ k3 = "start"
    /\ scr = {} /\ cptr = {} /\ secure_state = SECURE
    /\ x0 = 0
    /\ ctx = [FreshContext(SECURE) EXCEPT !.cpacr = CpacrBits]
    /\ saved = [w \in World |-> FreshContext(w)]
    /\ fault = NoFault
    /\ desc = [w \in World |-> NoDesc] /\ buf = NoDesc
    /\ table \in Tables /\ idx = 1 /\ test = NoTest
    /\ excp = Clear
    /\ tcmap = [s \in Space |-> "none"]
    /\ cnt = [p \in Page |-> [test |-> 0, fail |-> 0]]
    /\ executed = <<>> /\ judged = [test |-> 0, fail |-> 0]

----------------------------------------------------------------------------
(***************************************************************************)
(* The architecture, as far as the tests exercise it (external): which     *)
(* instruction traps, where to, with which class.  The machine has no      *)
(* virtualization extension.                                               *)
(***************************************************************************)
NoTrap == [to |-> 0, ec |-> "none"]
Trap(to, ec) == [to |-> to, ec |-> ec]

WfxTrap(nT, T) ==
    IF el = 0 /\ nT \notin ctx.sctlr THEN Trap(1, "WFI_WFE")
    ELSE IF el # 3 /\ T \in scr THEN Trap(3, "WFI_WFE") ELSE NoTrap

FpTrap ==
    IF \/ el = 0 /\ ctx.cpacr # CpacrBits
       \/ el = 1 /\ "FPEN0" \notin ctx.cpacr
    THEN Trap(1, "SIMD")
    ELSE IF "TFP" \in cptr THEN Trap(3, "SIMD") ELSE NoTrap

MonRegTrap ==
    IF el = 3 \/ (Arch = "arm" /\ el = 1 /\ ctx.w = SECURE)
    THEN NoTrap ELSE Trap(1, "UNKNOWN")

TrapOf(insn) ==
    CASE insn = "smc"       -> IF el = 0 THEN Trap(1, "UNKNOWN") ELSE NoTrap
      [] insn = "wfe"       -> WfxTrap("nTWE", "TWE")
      [] insn = "wfi"       -> WfxTrap("nTWI", "TWI")
      [] insn = "fp"        -> FpTrap
      [] insn = "mon_reg"   -> MonRegTrap
      [] insn = "mrs_cpacr" -> IF el # 3 /\ "TCPAC" \in cptr
                               THEN Trap(3, "SYSINSN") ELSE NoTrap
      [] OTHER              -> NoTrap

\* The instruction behind READ_x() / WRITE_x() executed at EL1.
AccessInsn(key) == CASE key = "CPACR" -> "mrs_cpacr"
                     [] key = "SCTLR" -> "mrs_sctlr"
                     [] OTHER         -> "mon_reg"

BitsOf(key) == CASE key = "CPTR_EL3" -> CptrBits
                 [] key = "CPACR"    -> CpacrBits
                 [] key = "SCR"      -> ScrBits
                 [] OTHER            -> SctlrBits

\* What a skipped register read leaves in its destination: x0 of the moment.
\* Two extreme values stand for it.
Garbage(key) == {{}, BitsOf(key)}

ReadReg(key) == CASE key = "CPTR_EL3" -> cptr
                  [] key = "CPACR"    -> ctx.cpacr
                  [] key = "SCR"      -> scr
                  [] OTHER            -> ctx.sctlr

\* WRITE_x(), apart from its effect on the continuation labels of ctx.
WriteReg(key, val) ==
    /\ cptr' = IF key = "CPTR_EL3" THEN val \cap CptrBits ELSE cptr
    /\ scr'  = IF key = "SCR" THEN val \cap ScrBits ELSE scr

WrittenCtx(c, key, val) ==
    [c EXCEPT !.cpacr = IF key = "CPACR" THEN val \cap CpacrBits ELSE @,
              !.sctlr = IF key = "SCTLR" THEN val \cap SctlrBits ELSE @]

\* Raise the trap t at the current level.
Raise(t) ==
    /\ fault' = [st |-> "taken", ec |-> t.ec, to |-> t.to, from |-> el]
    /\ el' = t.to

Skipped == fault.st = "skipped"

----------------------------------------------------------------------------
(***************************************************************************)
(* Calls and returns.                                                      *)
(***************************************************************************)

\* __svc(op, d) from the live world's EL0, which continues at label k.
Svc(op, d, k) ==
    /\ el' = 1 /\ x0' = op
    /\ desc' = [desc EXCEPT ![ctx.w] = d]
    /\ ctx' = [ctx EXCEPT !.k0 = k, !.k1 = "svc"]

\* el1_handle_svc() returns ret: context c resumes at EL0.
SvcReturn(c, ret) ==
    /\ el' = 0 /\ x0' = ret
    /\ ctx' = [c EXCEPT !.k1 = "idle"]

\* __smc(op, smc_interop_buf) from the live EL1, which continues at label k.
Smc(op, k) ==
    /\ el' = 3 /\ x0' = op /\ k3' = "smc"
    /\ ctx' = [ctx EXCEPT !.k1 = k]

\* Restoring buffer c.  CPACR is not banked on ARM and not in its buffer.
Restored(c) == IF Arch = "arm" THEN [c EXCEPT !.cpacr = ctx.cpacr] ELSE c

\* SCR after a switch: AArch64 writes the flipped NS bit alone, ARM flips it.
SwitchedScr ==
    LET kept == IF Arch = "aarch64" THEN {} ELSE scr \ {"NS"}
    IN  IF "NS" \in scr THEN kept ELSE kept \cup {"NS"}

\* monitor_switch: SCR.NS says which world is live; save it, restore the other.
monitor_switch ==
    /\ saved' = [saved EXCEPT ![NSBit] = ctx]
    /\ ctx' = Restored(saved[Other(NSBit)])
    /\ scr' = SwitchedScr

\* Faulty variant of SmcReturn: secure_state is not toggled.
SmcReturn_NoToggle(ret) ==
    /\ el' = 1 /\ x0' = ret /\ k3' = "none"
    /\ UNCHANGED secure_state
    /\ IF ret = 0 THEN UNCHANGED <<saved, ctx, scr>> ELSE monitor_switch

\* Faulty variant of SmcReturn: secure_state is incremented, not toggled.
SmcReturn_CountsUp(ret) ==
    /\ el' = 1 /\ x0' = ret /\ k3' = "none"
    /\ IF ret = 0
       THEN UNCHANGED <<secure_state, saved, ctx, scr>>
       ELSE secure_state' = secure_state + 1 /\ monitor_switch

\* The end of el3_handle_smc() and its vector: a zero result returns to the
\* caller, any other toggles secure_state and switches worlds.
SmcReturn(ret) ==
    /\ el' = 1 /\ x0' = ret /\ k3' = "none"
    /\ IF ret = 0
       THEN UNCHANGED <<secure_state, saved, ctx, scr>>
       ELSE secure_state' = 1 - secure_state /\ monitor_switch

At(level) == power = "on" /\ el = level /\ fault = NoFault
AtEl0(w, k) == At(0) /\ ctx.w = w /\ ctx.k0 = k
AtEl1(k) == At(1) /\ ctx.k1 = k
Handling(op) == AtEl1("svc") /\ x0 = op
Monitor(op) == At(3) /\ k3 = "smc" /\ x0 = op

\* test_func[fid](arg): the test starts at level lvl of world w.
StartTest(req, lvl, w) ==
    /\ test' = [req |-> req, pc |-> 1, loc |-> [k \in RegKey |-> {}]]
    /\ executed' = Append(executed, [req |-> req, el |-> lvl, state |-> w])

\* Faulty variant of Local: the security state is not compared.
Local_AnyWorld(req, lvl, w) == req.el = lvl

\* run_test()'s condition at level lvl of the image for world w.
Local(req, lvl, w) == req.el = lvl /\ req.state = w

\* TEST_CONDITION: count a test, and a failure unless it passed, in the
\* test_control_t this address space sees.
HereSpace == IF el = 3 THEN 3 ELSE ctx.w
Tally(c, pass) == [test |-> c.test + 1,
                   fail |-> IF pass THEN c.fail ELSE c.fail + 1]
TEST_CONDITION(pass) ==
    /\ tcmap[HereSpace] # "none"
    /\ cnt' = [cnt EXCEPT ![tcmap[HereSpace]] = Tally(@, pass)]
    /\ judged' = Tally(judged, pass)
    /\ UNCHANGED tcmap
=============================================================================
