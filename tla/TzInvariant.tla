----------------------------- MODULE TzInvariant -----------------------------
(***************************************************************************)
(* The inductive invariant of TzSystem.  WorldConsistency alone does not   *)
(* survive a step: a SET_REG of SCR writes whatever the test computed, a   *)
(* world switch resumes whatever the other world was doing, and a handler  *)
(* believes the descriptor it finds.  The parts below say what is on the   *)
(* stacks of the suspended code, which descriptor each pending call left   *)
(* where, and where the NS bit of a register value on its way came from.   *)
(***************************************************************************)
EXTENDS TzSystem

\* The level whose code is running, or was when the pending exception was taken.
Cur == IF fault.st = "taken" THEN fault.from ELSE el

\* A test function has been started and has not returned.
Active == \/ ctx.k0 \in {"test", "test_ret"} \/ ctx.k1 \in {"test", "test_ret"}
          \/ k3 = "test"

\* The SMC a nonsecure kernel waits in while the service handles opcode op.
WaitsIn(op) == CASE op = SVC_OP_MAP  -> "map"
                 [] op = SVC_OP_TEST -> "test_smc"
                 [] OTHER            -> "dispatch"

\* Descriptors as the secure service receives them: the monitor has done its
\* own part of a map, and a request is for the secure world.
Delivered(op, d) ==
    CASE op = SVC_OP_MAP  -> d \in MapDescs /\ "EL3" \notin d.type
      [] op = SVC_OP_TEST -> d \in TestDescs
      [] OTHER            -> d \in DispDescs(Request) /\ d.req.state = SECURE

----------------------------------------------------------------------------
\* What EL0 waits for is what EL1 is doing, in each context, live or saved.
Linked(c) ==
    /\ c.k1 = "init" <=> c.k0 = "off"
    /\ c.k1 = "yield" => c.w = SECURE /\ c.k0 = "loop"
    /\ c.k1 = "map" => c.w = NONSECURE /\ c.k0 = "mapped"
    /\ c.k1 = "test_smc" => c.w = NONSECURE /\ c.k0 = "interop"
    /\ c.k1 \in {"dispatch", "test", "test_ret"} => c.k0 = "ran"
    /\ c.k1 \in {"get_reg", "set_reg"} => c.k0 = "test_ret"
    /\ c.k1 = "idle" => c.k0 # "exit"
    /\ c.w = SECURE => c.k0 \notin {"alloced", "mapped", "interop", "exit"}
ContextsLinked == Linked(ctx) /\ \A w \in World : Linked(saved[w])

\* The running level and the continuation labels agree.
LevelsAgree ==
    /\ Cur = 0 => ctx.k1 = "idle"
    /\ Cur = 1 => ctx.k1 \notin {"idle", "exit"}
    /\ Cur = 3 <=> k3 # "none"
    /\ k3 = "start" => ctx.k1 = "init" /\ ctx.w = SECURE
                       /\ \A w \in World : saved[w].k1 = "init"
    /\ k3 = "test" => ctx.k1 = "dispatch"
    /\ fault.st = "taken" /\ fault.to = 1 =>
          fault.ec \in {"UNKNOWN", "WFI_WFE", "SIMD"}

\* While one world runs, the other is parked in the SMC that gave it up; the
\* interop descriptor stays in the buffer while its sender waits for it.
OtherWorldParked ==
    /\ ctx.w = NONSECURE => saved[SECURE].k1 = "yield"
    /\ ctx.w = SECURE =>
          /\ saved[NONSECURE].k1 \in {"init", "map", "test_smc", "dispatch"}
          /\ saved[NONSECURE].k1 = "test_smc" => buf \in TestDescs
          /\ ctx.k0 \in {"ran", "test", "test_ret"} =>
                saved[NONSECURE].k1 = "dispatch"

\* The active test is well formed, inside a call only at a step that calls,
\* and an exception interrupts it only at a step that can raise one.
Accessible(lvl) == lvl = 3 \/ (Arch = "arm" /\ ctx.w = SECURE)
StepInRange == test \in RunningTest /\ test.pc <= Len(Scripts[test.req])
TestActive ==
    /\ Active => test \in RunningTest
    /\ ctx.k0 = "test_ret" => StepInRange /\ Step.op \in {"get", "set"}
    /\ ctx.k1 = "test_ret" => StepInRange /\ Step.op \in {"get", "set", "noop"}
    /\ fault # NoFault =>
          /\ Active /\ StepInRange /\ Step.op \in {"run", "get", "set"}
          /\ ~ (Step.op = "get" /\ Step.key = "SCR" /\ Accessible(Step.lvl))

\* d is the register descriptor of the step at hand.
ForStep(d) == d \in RegDescs /\ d.key = Step.key /\ d.lvl = Step.lvl

\* A value of SCR that carries the NS bit of the running world.
OwnNS(v) == "NS" \in v <=> ctx.w = NONSECURE
ScrData(d) == d.key = "SCR" /\ Accessible(d.lvl) => OwnNS(d.data)

\* The test's copy of SCR, once it was read where it can be read.
LocalScr ==
    Active =>
        LET f == Scripts[test.req]
        IN  \A j \in 1 .. test.pc - 1 :
                j <= Len(f) /\ f[j].op = "get" /\ f[j].key = "SCR"
                /\ Accessible(f[j].lvl) => OwnNS(test.loc["SCR"])

----------------------------------------------------------------------------
\* el1_handle_svc() is entered with an opcode, from the EL0 code that issues
\* that opcode, and with the descriptor it means.
SvcRequest ==
    Cur = 1 /\ ctx.k1 = "svc" =>
        LET d == desc[ctx.w]
        IN  \/ x0 = SVC_OP_YIELD /\ ctx.w = SECURE /\ ctx.k0 = "loop"
            \/ x0 = SVC_OP_EXIT /\ ctx.k0 = "exit"
            \/ x0 = SVC_OP_MAP /\ d \in MapDescs
               /\ \/ ctx.w = NONSECURE /\ ctx.k0 = "mapped" /\ "EL3" \in d.type
                  \/ ctx.w = SECURE /\ ctx.k0 = "loop" /\ "EL3" \notin d.type
            \/ x0 = SVC_OP_GET_REG /\ ctx.k0 = "test_ret" /\ ForStep(d)
               /\ Step.op = "get"
            \/ x0 = SVC_OP_SET_REG /\ ctx.k0 = "test_ret" /\ ForStep(d)
               /\ Step.op = "set" /\ ScrData(d)
            \/ x0 = SVC_OP_TEST /\ ctx.w = NONSECURE /\ ctx.k0 = "interop"
               /\ d \in TestDescs
            \/ x0 = SVC_OP_DISPATCH /\ ctx.k0 = "ran" /\ d \in DispDescs(Request)
               /\ IF ctx.w = SECURE THEN d.req.el # 0 /\ d.req.state = SECURE
                                    ELSE ~ Local(d.req, 0, NONSECURE)
            \/ x0 = SVC_OP_GET_SYSCNTL /\ ctx.k0 = "got_syscntl"
            \/ x0 = SVC_OP_ALLOC /\ ctx.k0 = "alloced"

\* el3_handle_smc() likewise, from the EL1 code that waits for that SMC.
SmcRequest ==
    k3 = "smc" =>
        \/ x0 = SMC_OP_YIELD /\ ctx.k1 = "yield"
        \/ x0 = SMC_OP_EXIT /\ ctx.k1 = "exit"
        \/ x0 = SMC_OP_NOOP /\ ctx.k1 = "test_ret" /\ Step.op = "noop"
        \/ x0 = SMC_OP_MAP /\ ctx.k1 = "map" /\ buf \in MapDescs
        \/ x0 = SMC_OP_GET_REG /\ ctx.k1 \in {"get_reg", "test_ret"}
           /\ ForStep(buf) /\ buf.lvl = 3 /\ Step.op = "get"
        \/ x0 = SMC_OP_SET_REG /\ ctx.k1 \in {"set_reg", "test_ret"}
           /\ ForStep(buf) /\ buf.lvl = 3 /\ Step.op = "set" /\ ScrData(buf)
        \/ x0 = SMC_OP_TEST /\ ctx.k1 = "test_smc" /\ buf \in TestDescs
        \/ x0 = SMC_OP_DISPATCH /\ ctx.k1 = "dispatch"
           /\ buf \in DispDescs(Request)
           /\ IF ctx.w = SECURE THEN Local(buf.req, 3, SECURE)
              ELSE ~ Local(buf.req, 0, NONSECURE)
                   /\ ~ Local(buf.req, 1, NONSECURE)

\* What an SMC left in the buffer for the EL1 code it returns to.
SmcResult ==
    Cur = 1 =>
        /\ ctx.k1 = "yield" =>
              /\ x0 \in {SVC_OP_MAP, SVC_OP_TEST, SVC_OP_DISPATCH}
              /\ Delivered(x0, buf) /\ saved[NONSECURE].k1 = WaitsIn(x0)
        /\ ctx.k1 = "test_smc" => buf \in TestDescs
        /\ ctx.k1 = "get_reg" => ForStep(buf) /\ Step.op = "get" /\ ScrData(buf)
        /\ ctx.k1 = "set_reg" => Step.op = "set"
        /\ ctx.k1 = "test_ret" /\ Step.op = "get" =>
              ForStep(buf) /\ ScrData(buf)

\* What an SVC left in the descriptor for the EL0 code it returns to.
SvcResult ==
    Cur = 0 =>
        /\ ctx.k0 = "test_ret" /\ Step.op = "get" =>
              ForStep(desc[ctx.w]) /\ ScrData(desc[ctx.w])
        /\ ctx.w = SECURE /\ ctx.k0 = "loop" /\ x0 # 0 =>
              /\ x0 \in {SVC_OP_MAP, SVC_OP_TEST, SVC_OP_DISPATCH}
              /\ Delivered(x0, desc[SECURE])
              /\ saved[NONSECURE].k1 = WaitsIn(x0)

\* The inductive invariant: the types, the agreement on the current world, the
\* call stacks, the running test, the pending requests and their results.
Stacks   == ContextsLinked /\ LevelsAgree /\ OtherWorldParked
Tests    == TestActive /\ LocalScr
Requests == SvcRequest /\ SmcRequest
Results  == SmcResult /\ SvcResult
IInv == TypeOK /\ WorldConsistency /\ Stacks /\ Tests /\ Requests /\ Results
----------------------------------------------------------------------------
(***************************************************************************)
(* What the refinement of TestRunner and the mapping of the test control   *)
(* block need beyond IInv: where a request is on its way, what has been    *)
(* executed by then and which pages are mapped by then.                    *)
(***************************************************************************)

\* The nonsecure context, loaded or saved: its EL0 drives the run.
Ns == IF ctx.w = NONSECURE THEN ctx ELSE saved[NONSECURE]

\* A MAP or DISPATCH request of the nonsecure EL0 that its owner has not acted
\* on yet: at a kernel, at the monitor or at the secure service loop.
InFlight(op) ==
    /\ x0 = op
    /\ \/ Cur = 1 /\ ctx.k1 \in {"svc", "yield"}
       \/ k3 = "smc"
       \/ Cur = 0 /\ ctx.w = SECURE /\ ctx.k0 = "loop"

\* The copy of the descriptor that the code at work on the request reads.
Carried == IF k3 = "smc" \/ ctx.k1 = "yield" THEN buf ELSE desc[ctx.w]

\* The entry under tztest_start()'s index has been executed already.
EntryDone == \/ Ns.k0 \in {"test", "test_ret"}
             \/ Ns.k0 = "ran" /\ ~ InFlight(SVC_OP_DISPATCH)

\* The table is executed up to the index, the request under way is the entry
\* at the index, and the only way out is the end of the table.
TableProgress ==
    /\ idx <= Len(table) + 1
    /\ Len(executed) = IF EntryDone THEN idx ELSE idx - 1
    /\ Ns.k0 \in {"test", "test_ret", "ran"} => idx <= Len(table)
    /\ Ns.k0 = "exit" => idx = Len(table) + 1
    /\ InFlight(SVC_OP_DISPATCH) => Carried.req = table[idx]
    /\ ctx.k1 = "exit" => ctx.k0 = "exit"
    /\ fault.st = "taken" /\ fault.to = 3 =>
          fault.ec \in {"SYSINSN", "WFI_WFE", "SIMD"}

\* What el1_map_secure() makes of the uninitialised pa of map_va(): the page of
\* the test control block, or page zero if the pa happened to be null.
PaSent(p) == p = "tc" \/ (p = "zero" /\ "zero" \in UninitPa)

\* The test control block is mapped in the nonsecure world once it is
\* allocated, and everywhere once the map request is through.
Allocated == \/ Ns.k0 \in {"mapped", "interop", "loop", "ran", "test",
                           "test_ret", "exit"}
             \/ Ns.k0 = "alloced" /\ Cur = 0 /\ ctx.w = NONSECURE
ControlMapped ==
    /\ Allocated => tcmap[NONSECURE] = "tc"
    /\ InFlight(SVC_OP_MAP) =>
          IF ctx.w = SECURE
          THEN PaSent(Carried.pa) /\ PaSent(tcmap[3])
          ELSE /\ Carried.type = OP_MAP_ALL
               /\ k3 = "none" => Carried.pa \in UninitPa
               /\ k3 = "smc" => PaSent(Carried.pa)
    /\ Allocated /\ Ns.k0 # "alloced" /\ ~ InFlight(SVC_OP_MAP) =>
          PaSent(tcmap[3]) /\ PaSent(tcmap[SECURE])

\* The counters of the control block are the verdicts given, as long as
\* map_va()'s pa is not null.
CountsKept == "zero" \notin UninitPa => cnt["tc"] = judged

\* The full inductive invariant.
FullInv == IInv /\ TableProgress /\ ControlMapped /\ CountsKept
=============================================================================
