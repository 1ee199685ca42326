--------------------------- MODULE TzImageProofs ----------------------------
(***************************************************************************)
(* How control moves (SVC, SMC, their returns, the world switch and        *)
(* exceptions), and that the steps of the EL0 programs, the EL1 kernels and*)
(* the EL3 monitor preserve the inductive invariant.                       *)
(***************************************************************************)
EXTENDS TzInvariant, TLAPS

USE DEF SECURE, NONSECURE, World, Level,
    SMC_OP_NOOP, SMC_OP_YIELD, SMC_OP_EXIT, SMC_OP_MAP, SMC_OP_GET_REG,
    SMC_OP_SET_REG, SMC_OP_TEST, SMC_OP_DISPATCH,
    SVC_OP_YIELD, SVC_OP_EXIT, SVC_OP_MAP, SVC_OP_GET_REG, SVC_OP_SET_REG,
    SVC_OP_TEST, SVC_OP_DISPATCH, SVC_OP_GET_SYSCNTL, SVC_OP_ALLOC

\* monitor_switch, together with the toggle of secure_state in
\* el3_handle_smc(), keeps every notion of the current world in agreement, banks
\* the suspended context under its own world and resumes the other world where
\* it was parked.
LEMMA WorldSwitch ==
    ASSUME IInv, monitor_switch, secure_state' = 1 - secure_state
    PROVE  /\ WorldConsistency' /\ ContextsLinked'
           /\ ctx' \in Context /\ saved' \in [World -> Context]
           /\ scr' \in SUBSET ScrBits /\ secure_state' \in World
           /\ ctx'.w = 1 - ctx.w
           /\ ctx'.k0 = saved[1 - ctx.w].k0 /\ ctx'.k1 = saved[1 - ctx.w].k1
           /\ saved' = [saved EXCEPT ![ctx.w] = ctx]
  <1> USE DEF IInv, TypeOK, WorldConsistency, NSBit, Other
  <1>1. ctx' = Restored(saved[1 - ctx.w]) /\ saved' = [saved EXCEPT ![ctx.w] = ctx]
    BY DEF monitor_switch
  <1>2. /\ ctx' \in Context /\ ctx'.w = 1 - ctx.w
        /\ ctx'.k0 = saved[1 - ctx.w].k0 /\ ctx'.k1 = saved[1 - ctx.w].k1
    <2>1. ctx.w \in World /\ saved[1 - ctx.w] \in Context /\ saved[1 - ctx.w].w = 1 - ctx.w
      BY DEF Context
    <2> QED BY <1>1, <2>1 DEF Restored, Context
  <1>3. saved' \in [World -> Context] /\ saved'[ctx.w] = ctx
        /\ saved'[1 - ctx.w] = saved[1 - ctx.w]
    BY <1>1
  <1>4. scr' \in SUBSET ScrBits /\ ("NS" \in scr' <=> "NS" \notin scr)
    BY DEF monitor_switch, SwitchedScr, ScrBits
  <1>5. WorldConsistency' /\ secure_state' \in World
    BY <1>2, <1>3, <1>4
  <1>6. ContextsLinked'
    BY <1>2, <1>3 DEF Stacks, ContextsLinked, Linked
  <1> QED BY <1>1, <1>2, <1>3, <1>4, <1>5, <1>6

\* One stage of the interop test turns a test descriptor into a test descriptor.
LEMMA InteropStageType ==
    ASSUME NEW t \in TestDescs PROVE InteropStage(t) \in TestDescs
  <1> DEFINE f == IF t.val # t.orig \div (2 ^ t.count) THEN t.fail + 1 ELSE t.fail
  <1>1. f \in Nat
    BY DEF TestDescs
  <1>2. InteropStage(t) = [t EXCEPT !.fail = f, !.val = t.val \div 2, !.count = t.count + 1]
    BY DEF InteropStage
  <1>3. t.val \div 2 \in Nat /\ t.count + 1 \in Nat
    BY DEF TestDescs
  <1> HIDE DEF f
  <1> QED BY <1>1, <1>2, <1>3 DEF TestDescs

\* __svc() from an EL0 program outside a test: whatever el1_handle_svc() is
\* entered with, the invariant survives if the request is well formed.
LEMMA SvcCall ==
    ASSUME IInv, NEW op \in 1 .. 9, NEW d \in Descriptor(Request), NEW k \in K0,
           At(0), CallSvc(op, d, k),
           ctx.k0 \notin {"test", "test_ret"},
           k \notin {"off", "test", "test_ret"},
           ctx.w = SECURE => k \notin {"alloced", "mapped", "interop", "exit"},
           ctx.w = SECURE /\ k = "ran" => saved[NONSECURE].k1 = "dispatch",
           SvcRequest'
    PROVE  IInv'
  <1> USE DEF At, CallSvc, Svc, runvars, tcvars
  <1>a. ctx.k1 = "idle" /\ k3 = "none" /\ Cur = 0 /\ ctx \in Context
    BY DEF IInv, TypeOK, Stacks, LevelsAgree, Cur, NoFault
  <1>b. /\ ctx' \in Context /\ ctx'.w = ctx.w /\ ctx'.k0 = k /\ ctx'.k1 = "svc"
        /\ desc' \in [World -> Descriptor(Request)]
    BY <1>a DEF IInv, TypeOK, Context, K1
  <1>1. TypeOK'
    BY <1>b DEF IInv, TypeOK
  <1>2. WorldConsistency'
    BY <1>b DEF IInv, WorldConsistency, NSBit
  <1>3. Stacks'
    BY <1>a, <1>b
       DEF IInv, Stacks, ContextsLinked, Linked, LevelsAgree, OtherWorldParked,
           Cur, NoFault
  <1>4. Tests'
    BY <1>a, <1>b DEF IInv, Tests, TestActive, LocalScr, Active
  <1>5. SmcRequest' /\ Results'
    BY <1>a, <1>b DEF SmcRequest, Results, SmcResult, SvcResult, Cur, NoFault
  <1> QED BY <1>1, <1>2, <1>3, <1>4, <1>5 DEF IInv, Requests

\* el1_handle_svc() returning to EL0: only what the descriptor holds for the
\* EL0 code is left to show.
LEMMA SvcReturns ==
    ASSUME IInv, Cur = 1, NEW c \in Context, NEW ret, SvcReturn(c, ret),
           c.w = ctx.w, c.k0 = ctx.k0, ctx.k0 \notin {"off", "exit", "test"},
           UNCHANGED <<secure_state, saved, k3>>, fault' = NoFault,
           "NS" \in scr' <=> "NS" \in scr,
           ctx.k0 = "test_ret" => test' = test,
           ctx.w = SECURE /\ saved[NONSECURE].k1 = "test_smc" => buf' \in TestDescs,
           TypeOK', SvcResult'
    PROVE  IInv'
  <1>a. k3 = "none" /\ ctx \in Context
    BY DEF IInv, TypeOK, Stacks, LevelsAgree
  <1>b. /\ ctx'.k1 = "idle" /\ ctx'.k0 = ctx.k0 /\ ctx'.w = ctx.w
        /\ k3' = "none" /\ Cur' = 0
    BY <1>a DEF SvcReturn, Context, Cur, NoFault
  <1>1. WorldConsistency'
    BY <1>b DEF IInv, WorldConsistency, NSBit
  <1>2. Stacks'
    BY <1>a, <1>b
       DEF IInv, Stacks, ContextsLinked, Linked, LevelsAgree, OtherWorldParked,
           NoFault
  <1>3. Tests'
    BY <1>a, <1>b
       DEF IInv, Tests, TestActive, LocalScr, Active, StepInRange, Step,
           Accessible, OwnNS, NoFault
  <1>4. Requests' /\ SmcResult'
    BY <1>b DEF Requests, SvcRequest, SmcRequest, SmcResult
  <1> QED BY <1>1, <1>2, <1>3, <1>4 DEF IInv, Results

\* __smc() from an EL1 kernel, in el1_handle_svc() or in a test function: only
\* the request itself is left to show.
LEMMA SmcCalls ==
    ASSUME IInv, Cur = 1, fault.st # "taken", NEW op \in 0 .. 7, NEW k \in K1,
           Smc(op, k), UNCHANGED <<scr, secure_state, saved, fault, test>>,
           Linked([ctx EXCEPT !.k1 = k]), k \notin {"idle", "init", "test"},
           ctx.k1 = "test" <=> k = "test_ret", ctx.k1 # "test_ret",
           k = "test_ret" => StepInRange /\ Step.op \in {"get", "set", "noop"},
           ctx.w = SECURE /\ saved[NONSECURE].k1 = "test_smc" => buf' \in TestDescs,
           TypeOK', SmcRequest'
    PROVE  IInv'
  <1>a. k3 = "none" /\ ctx \in Context
    BY DEF IInv, TypeOK, Stacks, LevelsAgree
  <1>b. /\ ctx'.k1 = k /\ ctx'.k0 = ctx.k0 /\ ctx'.w = ctx.w
        /\ k3' = "smc" /\ Cur' = 3 /\ ctx' = [ctx EXCEPT !.k1 = k]
    BY <1>a DEF Smc, Context, Cur
  <1>1. WorldConsistency'
    BY <1>b DEF IInv, WorldConsistency, NSBit
  <1>2. Stacks'
    BY <1>a, <1>b
       DEF IInv, Stacks, ContextsLinked, Linked, LevelsAgree, OtherWorldParked
  <1>3. Tests'
    BY <1>a, <1>b
       DEF IInv, Tests, TestActive, LocalScr, Active, StepInRange, Step,
           Accessible, OwnNS
  <1>4. SvcRequest' /\ Results'
    BY <1>b DEF SvcRequest, Results, SmcResult, SvcResult
  <1> QED BY <1>1, <1>2, <1>3, <1>4 DEF IInv, Requests

\* el3_handle_smc() handing a nonsecure request to the secure world: the
\* service, parked in its YIELD, receives the opcode and its descriptor.
LEMMA SmcDelivers ==
    ASSUME IInv, NEW ret \in {SVC_OP_MAP, SVC_OP_TEST, SVC_OP_DISPATCH},
           At(3), k3 = "smc", SmcReturn(ret),
           ctx.w = NONSECURE, ctx.k1 = WaitsIn(ret), Delivered(ret, buf)',
           UNCHANGED <<power, cptr, fault, desc, excp, cnt, judged>>, UNCHANGED runvars,
           tcmap' \in [Space -> Page], buf' \in Descriptor(Request)
    PROVE  IInv'
  <1>1. /\ monitor_switch /\ secure_state' = 1 - secure_state
        /\ el' = 1 /\ x0' = ret /\ k3' = "none" /\ fault' = NoFault /\ Cur' = 1
    BY DEF SmcReturn, At, Cur, NoFault
  <1>2. /\ WorldConsistency' /\ ContextsLinked' /\ secure_state' \in World
        /\ ctx' \in Context /\ saved' \in [World -> Context] /\ scr' \in SUBSET ScrBits
        /\ ctx'.w = SECURE /\ ctx'.k1 = "yield" /\ ctx'.k0 = "loop"
        /\ saved'[NONSECURE] = ctx
    BY <1>1, WorldSwitch
       DEF IInv, TypeOK, Stacks, OtherWorldParked, ContextsLinked, Linked
  <1>3. TypeOK'
    BY <1>1, <1>2 DEF IInv, TypeOK, K3, runvars
  <1>4. Stacks'
    BY <1>1, <1>2
       DEF Stacks, LevelsAgree, OtherWorldParked, NoFault, Delivered, WaitsIn
  <1>5. Tests'
    BY <1>1, <1>2 DEF Tests, TestActive, LocalScr, Active
  <1>6. Requests' /\ Results'
    BY <1>1, <1>2
       DEF Requests, SvcRequest, SmcRequest, Results, SmcResult, SvcResult
  <1> QED BY <1>2, <1>3, <1>4, <1>5, <1>6 DEF IInv

\* el3_handle_smc() returning to the kernel that made the SMC: only what the
\* buffer holds for that kernel is left to show.
LEMMA SmcReturnsToCaller ==
    ASSUME IInv, fault = NoFault, k3 \in {"smc", "test"},
           el' = 1, k3' = "none", UNCHANGED <<secure_state, saved, fault>>,
           ctx' \in Context, ctx'.w = ctx.w, ctx'.k0 = ctx.k0, ctx'.k1 = ctx.k1,
           ctx.k1 \notin {"idle", "exit", "svc", "yield"},
           "NS" \in scr' <=> "NS" \in scr,
           k3 = "test" \/ test' = test,
           ctx.w = SECURE /\ saved[NONSECURE].k1 = "test_smc" => buf' \in TestDescs,
           TypeOK', SmcResult'
    PROVE  IInv'
  <1>1. Cur' = 1 /\ fault' = NoFault /\ fault.st = "none"
    BY DEF Cur, NoFault
  <1>2. WorldConsistency'
    BY DEF IInv, WorldConsistency, NSBit
  <1>3. Stacks'
    BY <1>1
       DEF IInv, Stacks, ContextsLinked, Linked, LevelsAgree, OtherWorldParked
  <1>4. Tests'
    BY <1>1
       DEF IInv, Tests, TestActive, LocalScr, Active, StepInRange, Step,
           Accessible, OwnNS, Stacks, ContextsLinked, Linked, LevelsAgree
  <1>5. Requests' /\ SvcResult'
    BY <1>1 DEF Requests, SvcRequest, SmcRequest, SvcResult
  <1> QED BY <1>2, <1>3, <1>4, <1>5 DEF IInv, Results

\* Every trap goes to EL1 or EL3, and those that go to EL1 have a class that
\* el1_handle_exception() returns from.
LEMMA TrapFacts ==
    ASSUME NEW insn, TrapOf(insn) # NoTrap
    PROVE  /\ TrapOf(insn).to \in {1, 3} /\ TrapOf(insn).ec \in ExcpClass
           /\ TrapOf(insn).to = 1 => TrapOf(insn).ec \in {"UNKNOWN", "WFI_WFE", "SIMD"}
  BY DEF TrapOf, WfxTrap, FpTrap, MonRegTrap, Trap, NoTrap, ExcpClass

\* Taking or finishing a synchronous exception suspends or resumes the code of
\* one level: nothing but the level and the pending fault changes.
LEMMA Exceptions ==
    ASSUME IInv, Cur' = Cur, UNCHANGED <<secure_state, scr, ctx, saved, k3, x0, desc, buf, test>>,
           TypeOK', Tests',
           (fault.st = "taken" /\ fault.to = 1 => fault.ec \in {"UNKNOWN", "WFI_WFE", "SIMD"})'
    PROVE  IInv'
  <1>1. WorldConsistency'
    BY DEF IInv, WorldConsistency, NSBit
  <1>2. Stacks'
    BY DEF IInv, Stacks, ContextsLinked, Linked, LevelsAgree, OtherWorldParked
  <1>3. Requests'
    BY DEF IInv, Requests, SvcRequest, SmcRequest, ForStep, ScrData, OwnNS,
           Accessible, Step
  <1>4. Results'
    BY DEF IInv, Results, SmcResult, SvcResult, ForStep, ScrData, OwnNS,
           Accessible, Step, Delivered, WaitsIn
  <1> QED BY <1>1, <1>2, <1>3, <1>4 DEF IInv

\* An instruction that traps, in a test function or in el1_handle_svc().
LEMMA Raising ==
    ASSUME IInv, NEW insn, TrapOf(insn) # NoTrap, Raise(TrapOf(insn)), fault.st # "taken",
           UNCHANGED <<secure_state, scr, ctx, saved, k3, x0, desc, buf, test,
                       power, cptr, excp, table, idx, executed>>,
           UNCHANGED tcvars,
           Active, StepInRange, Step.op \in {"run", "get", "set"},
           ~ (Step.op = "get" /\ Step.key = "SCR" /\ Accessible(Step.lvl))
    PROVE  IInv'
  <1>1. /\ fault' = [st |-> "taken", ec |-> TrapOf(insn).ec, to |-> TrapOf(insn).to, from |-> el]
        /\ el' = TrapOf(insn).to
    BY DEF Raise
  <1>2. fault' \in Fault /\ el' \in Level /\ Cur' = Cur
    BY <1>1, TrapFacts DEF Fault, IInv, TypeOK, Cur
  <1>3. TypeOK'
    BY <1>2 DEF IInv, TypeOK, tcvars
  <1>4. Tests'
    BY DEF IInv, Tests, TestActive, LocalScr, Active, StepInRange, Step,
           Accessible, OwnNS
  <1> QED BY <1>1, <1>2, <1>3, <1>4, TrapFacts, Exceptions

----------------------------------------------------------------------------
\* The EL0 actions that make an SVC: both main() functions, the table loop of
\* tztest_start() and the secure service loop.
LEMMA El0Calls ==
    ASSUME IInv,
           \/ NsMain \/ alloc_mem \/ map_va \/ InteropSend \/ NsDispatch
           \/ NsExit \/ SecMain \/ SecFirstYield \/ SecMap \/ SecTest
           \/ SecDispatch \/ SecRan \/ SecOther
    PROVE  IInv'
  <1> USE DEF AtEl0, K0
  <1>a. /\ ctx \in Context /\ desc \in [World -> Descriptor(Request)]
        /\ x0 \in 0 .. 9 /\ table \in Seq(Request) /\ idx \in Nat \ {0}
    BY TablesAssumption DEF IInv, TypeOK
  <1>b. ASSUME NEW op, NEW d, NEW k, CallSvc(op, d, k)
        PROVE  /\ ctx'.k1 = "svc" /\ ctx'.k0 = k /\ x0' = op
               /\ ctx'.w = ctx.w /\ desc'[ctx.w] = d
    BY <1>a, <1>b DEF CallSvc, Svc, Context
  <1>c. NoDesc \in Descriptor(Request) /\ AllocDesc \in Descriptor(Request)
    BY DEF Descriptor
  <1>1. CASE NsMain
    <2>1. SvcRequest'
      BY <1>1, <1>b DEF NsMain, SvcRequest
    <2> QED BY <1>1, <2>1, <1>a, <1>c, SvcCall DEF NsMain
  <1>2. CASE alloc_mem
    <2>1. SvcRequest'
      BY <1>2, <1>b DEF alloc_mem, SvcRequest
    <2> QED BY <1>2, <2>1, <1>a, <1>c, SvcCall DEF alloc_mem
  <1>3. CASE map_va
    <2>1. PICK pa \in UninitPa : CallSvc(SVC_OP_MAP, MapDesc(OP_MAP_ALL, pa), "mapped")
      BY <1>3 DEF map_va
    <2>2. /\ MapDesc(OP_MAP_ALL, pa) \in MapDescs
          /\ "EL3" \in MapDesc(OP_MAP_ALL, pa).type
      BY UninitPaAssumption DEF MapDesc, MapDescs, OP_MAP_ALL, MapTarget, Page
    <2>3. SvcRequest'
      BY <1>3, <2>1, <2>2, <1>b DEF map_va, SvcRequest
    <2> QED BY <1>3, <2>1, <2>2, <2>3, <1>a, SvcCall DEF map_va, Descriptor
  <1>4. CASE InteropSend
    <2>1. TestDesc(InteropOrig, InteropOrig) \in TestDescs
      BY DEF TestDesc, TestDescs, InteropOrig
    <2>2. SvcRequest'
      BY <1>4, <2>1, <1>b DEF InteropSend, SvcRequest
    <2> QED BY <1>4, <2>1, <2>2, <1>a, SvcCall DEF InteropSend, Descriptor
  <1>5. CASE NsDispatch
    <2>1. DispDesc(table[idx]) \in DispDescs(Request) /\ DispDesc(table[idx]).req = table[idx]
      BY <1>5, <1>a DEF NsDispatch, DispDesc, DispDescs
    <2>2. SvcRequest'
      BY <1>5, <2>1, <1>b DEF NsDispatch, SvcRequest
    <2> QED BY <1>5, <2>1, <2>2, <1>a, SvcCall DEF NsDispatch, Descriptor
  <1>6. CASE NsExit
    <2>1. SvcRequest'
      BY <1>6, <1>b DEF NsExit, SvcRequest
    <2> QED BY <1>6, <2>1, <1>a, <1>c, SvcCall DEF NsExit
  <1>7. CASE SecMain
    <2>1. SvcRequest'
      BY <1>7, <1>b DEF SecMain, SvcRequest
    <2> QED BY <1>7, <2>1, <1>a, <1>c, SvcCall DEF SecMain
  <1>8. CASE SecFirstYield
    <2>1. SvcRequest'
      BY <1>8, <1>b DEF SecFirstYield, SvcRequest
    <2> QED BY <1>8, <2>1, <1>a, <1>c, SvcCall DEF SecFirstYield
  \* The service loop: the opcode and the descriptor are what YIELD delivered.
  <1>d. ASSUME AtEl0(SECURE, "loop"), x0 # 0
        PROVE  /\ x0 \in {SVC_OP_MAP, SVC_OP_TEST, SVC_OP_DISPATCH}
               /\ Delivered(x0, desc[SECURE])
               /\ saved[NONSECURE].k1 = WaitsIn(x0)
    BY <1>d DEF IInv, Results, SvcResult, Cur, At, NoFault
  <1>9. CASE SecMap
    <2>1. desc[SECURE] \in MapDescs /\ "EL3" \notin desc[SECURE].type
      BY <1>9, <1>d DEF SecMap, Delivered
    <2>2. SvcRequest'
      BY <1>9, <2>1, <1>b DEF SecMap, SvcRequest
    <2> QED BY <1>9, <2>2, <1>a, SvcCall DEF SecMap
  <1>10. CASE SecTest
    <2>1. desc[SECURE] \in TestDescs
      BY <1>10, <1>d DEF SecTest, Delivered
    <2>2. InteropStage(desc[SECURE]) \in TestDescs
      BY <2>1, InteropStageType
    <2>3. SvcRequest'
      BY <1>10, <1>b DEF SecTest, SvcRequest
    <2> QED BY <1>10, <2>2, <2>3, <1>a, SvcCall DEF SecTest, Descriptor
  <1>11. CASE SecDispatch
    <2>1. /\ desc[SECURE] \in DispDescs(Request) /\ desc[SECURE].req.state = SECURE
          /\ saved[NONSECURE].k1 = "dispatch"
      BY <1>11, <1>d DEF SecDispatch, Delivered, WaitsIn
    <2>2. SvcRequest'
      BY <1>11, <2>1, <1>b DEF SecDispatch, SvcRequest, Local
    <2> QED BY <1>11, <2>1, <2>2, <1>a, SvcCall DEF SecDispatch
  <1>12. CASE SecRan
    <2>1. SvcRequest'
      BY <1>12, <1>b DEF SecRan, SvcRequest
    <2> QED BY <1>12, <2>1, <1>a, SvcCall DEF SecRan
  <1>13. CASE SecOther
    <2>1. x0 = 0 /\ CallSvc(SVC_OP_YIELD, desc[SECURE], "loop")
      BY <1>13, <1>d DEF SecOther
    <2>2. SvcRequest'
      BY <1>13, <2>1, <1>b DEF SecOther, SvcRequest
    <2> QED BY <1>13, <2>1, <2>2, <1>a, SvcCall DEF SecOther
  <1> QED BY <1>1, <1>2, <1>3, <1>4, <1>5, <1>6, <1>7, <1>8, <1>9, <1>10,
             <1>11, <1>12, <1>13

\* The EL0 actions that make no call: judging the interop test, starting a local
\* test and moving to the next table entry.
LEMMA El0Stays ==
    ASSUME IInv, InteropJudge \/ NsRunHere \/ NsRan \/ SecRunHere
    PROVE  IInv'
  <1> USE DEF AtEl0, At
  <1>a. /\ ctx \in Context /\ ctx.k1 = "idle" /\ k3 = "none" /\ el = 0
        /\ fault = NoFault /\ Cur = 0 /\ ctx.k0 \in {"interop", "loop", "ran"}
    BY DEF IInv, TypeOK, Stacks, LevelsAgree, Cur, NoFault, InteropJudge,
           NsRunHere, NsRan, SecRunHere
  <1>b. ASSUME NEW k \in K0, StayAtEl0(k)
        PROVE  /\ ctx' \in Context /\ ctx'.k0 = k /\ ctx'.k1 = "idle"
               /\ ctx'.w = ctx.w /\ Cur' = 0
    BY <1>a, <1>b DEF StayAtEl0, Context, Cur, NoFault
  \* All that is left to show for a step that keeps to the labels of EL0.
  <1>c. ASSUME NEW k \in K0, StayAtEl0(k), k \notin {"off", "exit", "test_ret"},
               ctx.w = SECURE => k = "test" /\ saved[NONSECURE].k1 = "dispatch",
               TypeOK', Tests'
        PROVE  IInv'
    <2>1. WorldConsistency'
      BY <1>b, <1>c DEF StayAtEl0, IInv, WorldConsistency, NSBit
    <2>2. Stacks'
      BY <1>a, <1>b, <1>c
         DEF StayAtEl0, IInv, Stacks, ContextsLinked, Linked, LevelsAgree,
             OtherWorldParked, Cur, NoFault
    <2>3. Requests' /\ Results'
      BY <1>a, <1>b, <1>c
         DEF StayAtEl0, Requests, SvcRequest, SmcRequest, Results, SmcResult,
             SvcResult
    <2> QED BY <1>c, <2>1, <2>2, <2>3 DEF IInv
  <1>d. ASSUME NEW r \in Request, NEW w \in World, StartTest(r, 0, w), StayAtEl0("test"),
               UNCHANGED <<table, idx>>, UNCHANGED tcvars
        PROVE  TypeOK' /\ Tests'
    <2>1. /\ test' \in RunningTest /\ test'.pc = 1
          /\ executed' \in Seq([req : Request, el : Level, state : World])
      BY <1>d DEF StartTest, RunningTest, RegKey, IInv, TypeOK
    <2>2. TypeOK'
      BY <1>b, <1>d, <2>1 DEF IInv, TypeOK, StayAtEl0, tcvars, K0
    <2>3. Tests'
      BY <1>a, <1>b, <1>d, <2>1
         DEF K0, StayAtEl0, Tests, TestActive, LocalScr, NoFault
    <2> QED BY <2>2, <2>3
  <1>1. CASE InteropJudge
    <2>1. TypeOK'
      <3>1. Tally(judged, InteropPass(desc[NONSECURE])) \in Counters
        BY DEF Tally, Counters, IInv, TypeOK
      <3>2. ASSUME NEW c \in Counters, NEW pass PROVE Tally(c, pass) \in Counters
        BY DEF Tally, Counters
      <3>3. cnt' \in [Page -> Counters]
        BY <1>1, <3>2
           DEF InteropJudge, TEST_CONDITION, IInv, TypeOK, HereSpace, Space,
               Context
      <3> QED BY <1>1, <1>b, <3>1, <3>3
                 DEF InteropJudge, TEST_CONDITION, StayAtEl0, runvars, IInv,
                     TypeOK, K0
    <2>2. Tests'
      BY <1>1, <1>a, <1>b
         DEF InteropJudge, StayAtEl0, K0, Tests, TestActive, LocalScr, Active,
             NoFault
    <2> QED BY <1>1, <1>c, <2>1, <2>2 DEF InteropJudge, K0
  <1>2. CASE NsRunHere
    <2>1. table[idx] \in Request
      BY <1>2, TablesAssumption DEF NsRunHere, IInv, TypeOK
    <2> QED BY <1>2, <1>c, <1>d, <2>1 DEF NsRunHere, K0
  <1>3. CASE NsRan
    <2>1. TypeOK'
      BY <1>3, <1>b DEF NsRan, StayAtEl0, tcvars, IInv, TypeOK, K0
    <2>2. Tests'
      BY <1>3, <1>a, <1>b
         DEF NsRan, StayAtEl0, K0, Tests, TestActive, LocalScr, Active, NoFault
    <2> QED BY <1>3, <1>c, <2>1, <2>2 DEF NsRan, K0
  <1>4. CASE SecRunHere
    <2>1. /\ desc[SECURE] \in DispDescs(Request)
          /\ saved[NONSECURE].k1 = "dispatch"
      BY <1>4, <1>a
         DEF SecRunHere, IInv, Results, SvcResult, Delivered, WaitsIn
    <2>2. desc[SECURE].req \in Request
      BY <2>1 DEF DispDescs
    <2> QED BY <1>4, <1>c, <1>d, <2>1, <2>2 DEF SecRunHere, K0
  <1> QED BY <1>1, <1>2, <1>3, <1>4

\* el1_handle_exception() and el3_handle_exception(): both return to the
\* level the exception came from, or the monitor powers off.
LEMMA HandlingExceptions ==
    ASSUME IInv, El1HandleException \/ El3HandleException
    PROVE  IInv'
  <1>a. fault.st = "taken" /\ fault \in Fault
    BY DEF IInv, TypeOK, El1HandleException, El3HandleException
  <1>b. [st |-> "skipped"] \in Fault /\ NoFault \in Fault /\ fault.from \in Level
        /\ fault.ec \in ExcpClass
    BY <1>a DEF Fault, NoFault
  <1>c. fault # NoFault
    BY <1>a DEF NoFault
  <1>1. CASE El1HandleException
    <2>1. fault.ec \in {"UNKNOWN", "WFI_WFE", "SIMD"}
      BY <1>1 DEF IInv, Stacks, LevelsAgree, El1HandleException
    <2>2. /\ el' = fault.from /\ fault' \in {[st |-> "skipped"], NoFault}
          /\ UNCHANGED <<power, scr, cptr, secure_state, x0, ctx, saved, k3, desc, buf>>
          /\ UNCHANGED runvars /\ UNCHANGED tcvars
      BY <1>1, <2>1 DEF El1HandleException
    <2>3. Cur' = Cur /\ fault'.st # "taken"
      BY <1>a, <2>2 DEF Cur, NoFault
    <2>4. excp' \in [log : BOOLEAN, skip : BOOLEAN, taken : BOOLEAN, ec : ExcpClass, el : Level]
      BY <1>1, <1>b DEF El1HandleException, IInv, TypeOK
    <2>5. TypeOK'
      BY <1>b, <2>2, <2>4 DEF IInv, TypeOK, runvars, tcvars
    <2>6. Tests'
      BY <1>c, <2>2
         DEF runvars, IInv, Tests, TestActive, LocalScr, Active, StepInRange,
             Step, Accessible, OwnNS
    <2> QED BY <2>2, <2>3, <2>5, <2>6, Exceptions DEF runvars
  <1>2. CASE El3HandleException
    <2>1. CASE fault.ec \in {"SYSINSN", "WFI_WFE", "SIMD"}
      <3>2. /\ el' = fault.from /\ fault' \in {[st |-> "skipped"], NoFault}
            /\ UNCHANGED <<power, scr, cptr, secure_state, x0, ctx, saved, k3, desc, buf>>
            /\ UNCHANGED runvars /\ UNCHANGED tcvars
        BY <1>2, <2>1 DEF El3HandleException
      <3>3. Cur' = Cur /\ fault'.st # "taken"
        BY <1>a, <3>2 DEF Cur, NoFault
      <3>4. excp' \in [log : BOOLEAN, skip : BOOLEAN, taken : BOOLEAN, ec : ExcpClass, el : Level]
        BY <1>2, <1>b DEF El3HandleException, Logged, IInv, TypeOK
      <3>5. TypeOK'
        BY <1>b, <3>2, <3>4 DEF IInv, TypeOK, runvars, tcvars
      <3>6. Tests'
        BY <1>c, <3>2
           DEF runvars, IInv, Tests, TestActive, LocalScr, Active, StepInRange,
               Step, Accessible, OwnNS
      <3> QED BY <3>2, <3>3, <3>5, <3>6, Exceptions DEF runvars
    <2>2. CASE fault.ec \notin {"SYSINSN", "WFI_WFE", "SIMD"}
      <3>1. UNCHANGED <<el, fault, scr, cptr, secure_state, x0, ctx, saved, k3, desc, buf>>
            /\ power' = "off" /\ UNCHANGED runvars /\ UNCHANGED tcvars
        BY <1>2, <2>2 DEF El3HandleException
      <3>4. excp' \in [log : BOOLEAN, skip : BOOLEAN, taken : BOOLEAN, ec : ExcpClass, el : Level]
        BY <1>2, <1>b DEF El3HandleException, Logged, IInv, TypeOK
      <3>5. TypeOK'
        BY <3>1, <3>4 DEF IInv, TypeOK, runvars, tcvars
      <3>6. Tests'
        BY <3>1
           DEF runvars, IInv, Tests, TestActive, LocalScr, Active, StepInRange,
               Step, Accessible, OwnNS
      <3>7. Cur' = Cur
        BY <3>1 DEF Cur
      <3> QED BY <3>1, <3>5, <3>6, <3>7, Exceptions
                 DEF runvars, IInv, Stacks, LevelsAgree
    <2> QED BY <2>1, <2>2
  <1> QED BY <1>1, <1>2

\* The cases of el1_handle_svc() that issue an SMC, up to that SMC.
LEMMA KernelCalls ==
    ASSUME IInv,
           \/ SvcExit \/ SvcYield \/ SvcMapForward \/ SvcTest \/ SvcDispatchAway
           \/ SvcRegMonitor(SVC_OP_GET_REG, SMC_OP_GET_REG, "get_reg")
           \/ SvcRegMonitor(SVC_OP_SET_REG, SMC_OP_SET_REG, "set_reg")
    PROVE  IInv'
  <1> USE DEF Handling, AtEl1, At
  <1>a. /\ ctx \in Context /\ ctx.k1 = "svc" /\ el = 1 /\ fault = NoFault
        /\ Cur = 1 /\ k3 = "none" /\ fault.st = "none"
        /\ desc \in [World -> Descriptor(Request)]
    BY DEF IInv, TypeOK, Stacks, LevelsAgree, Cur, NoFault, SvcExit, SvcYield,
           SvcMapForward, SvcTest, SvcDispatchAway, SvcRegMonitor
  <1>b. SvcRequest /\ OtherWorldParked /\ Linked(ctx)
    BY DEF IInv, Requests, Stacks, ContextsLinked
  <1>c. ASSUME NEW op \in 0 .. 7, NEW k \in K1, Smc(op, k)
        PROVE  /\ ctx' \in Context /\ ctx'.k1 = k /\ ctx'.k0 = ctx.k0
               /\ ctx'.w = ctx.w /\ el' = 1 + 2 /\ x0' = op /\ k3' = "smc"
    BY <1>a, <1>c DEF Smc, Context
  \* A kernel call, given what it puts into the buffer and the label it waits at.
  <1>d. ASSUME NEW op \in 0 .. 7, NEW k \in K1, Smc(op, k),
               UNCHANGED <<power, scr, cptr, secure_state, saved, fault, desc, excp>>,
               UNCHANGED runvars, UNCHANGED tcvars,
               buf' \in Descriptor(Request), Linked([ctx EXCEPT !.k1 = k]),
               k \notin {"idle", "init", "test", "test_ret"},
               ctx.w = SECURE /\ saved[NONSECURE].k1 = "test_smc" => buf' \in TestDescs,
               SmcRequest'
        PROVE  IInv'
    <2>1. TypeOK'
      BY <1>c, <1>d DEF IInv, TypeOK, runvars, tcvars, K3
    <2> QED BY <1>a, <1>d, <2>1, SmcCalls DEF runvars
  <1>e. ASSUME NEW k \in K1
        PROVE  /\ [ctx EXCEPT !.k1 = k].k1 = k /\ [ctx EXCEPT !.k1 = k].k0 = ctx.k0
               /\ [ctx EXCEPT !.k1 = k].w = ctx.w
    BY <1>a DEF Context
  <1>f. /\ buf \in Descriptor(Request)
        /\ {"exit", "yield", "map", "test_smc", "dispatch", "get_reg", "set_reg"} \subseteq K1
    BY DEF IInv, TypeOK, K1
  <1>1. CASE SvcExit
    <2>1. Linked([ctx EXCEPT !.k1 = "exit"])
      BY <1>a, <1>b, <1>e DEF Linked, K1
    <2>2. SmcRequest'
      BY <1>1, <1>c DEF SvcExit, SmcRequest, K1
    <2> QED BY <1>1, <1>b, <1>d, <1>f, <2>1, <2>2 DEF SvcExit, OtherWorldParked
  <1>2. CASE SvcYield
    <2>1. Linked([ctx EXCEPT !.k1 = "yield"])
      BY <1>2, <1>a, <1>b, <1>e DEF SvcYield, SvcRequest, Linked, K1
    <2>2. SmcRequest'
      BY <1>2, <1>c DEF SvcYield, SmcRequest, K1
    <2> QED BY <1>2, <1>b, <1>d, <1>f, <2>1, <2>2 DEF SvcYield, OtherWorldParked
  <1>3. CASE SvcMapForward
    <2>1. /\ desc[ctx.w] \in MapDescs /\ ctx.w = NONSECURE /\ ctx.k0 = "mapped"
      BY <1>3, <1>a, <1>b DEF SvcMapForward, SvcRequest
    <2>2. buf' \in MapDescs
      BY <1>3, <2>1 DEF SvcMapForward, MapDescs, IInv, TypeOK, Space
    <2>3. Linked([ctx EXCEPT !.k1 = "map"])
      BY <2>1, <1>e DEF Linked, K1
    <2>4. SmcRequest'
      BY <1>3, <2>2, <1>c DEF SvcMapForward, SmcRequest, K1
    <2>5. buf' \in Descriptor(Request)
      BY <2>2 DEF Descriptor
    <2> QED BY <1>3, <1>d, <1>f, <2>1, <2>3, <2>4, <2>5 DEF SvcMapForward
  <1>4. CASE SvcTest
    <2>1. /\ desc[ctx.w] \in TestDescs /\ ctx.w = NONSECURE /\ ctx.k0 = "interop"
      BY <1>4, <1>a, <1>b DEF SvcTest, SvcRequest
    <2>2. buf' \in TestDescs
      BY <1>4, <2>1, InteropStageType DEF SvcTest
    <2>3. Linked([ctx EXCEPT !.k1 = "test_smc"])
      BY <2>1, <1>e DEF Linked, K1
    <2>4. SmcRequest'
      BY <1>4, <2>2, <1>c DEF SvcTest, SmcRequest, K1
    <2>5. buf' \in Descriptor(Request)
      BY <2>2 DEF Descriptor
    <2> QED BY <1>4, <1>d, <1>f, <2>1, <2>3, <2>4, <2>5 DEF SvcTest
  <1>5. CASE SvcDispatchAway
    <2>1. /\ desc[ctx.w] \in DispDescs(Request) /\ ctx.k0 = "ran"
          /\ IF ctx.w = SECURE THEN desc[ctx.w].req.el # 0 /\ desc[ctx.w].req.state = SECURE
                               ELSE ~ Local(desc[ctx.w].req, 0, NONSECURE)
      BY <1>5, <1>a, <1>b DEF SvcDispatchAway, SvcRequest
    <2>2. desc[ctx.w].req \in [fid : Nat, el : Level, state : World]
      BY <2>1, ScriptsAssumption DEF DispDescs
    <2>3. buf' = desc[ctx.w] /\ ~ Local(desc[ctx.w].req, 1, ctx.w)
      BY <1>5 DEF SvcDispatchAway
    <2>4. Linked([ctx EXCEPT !.k1 = "dispatch"])
      BY <2>1, <1>b, <1>e DEF Linked, K1
    <2>5. SmcRequest'
      BY <1>5, <2>1, <2>2, <2>3, <1>a, <1>c
         DEF SvcDispatchAway, SmcRequest, Local, Context, K1
    <2>6. buf' \in Descriptor(Request)
      BY <2>1, <2>3 DEF Descriptor
    <2>7. ctx.w = SECURE => saved[NONSECURE].k1 = "dispatch"
      BY <1>b, <2>1 DEF OtherWorldParked
    <2> QED BY <1>5, <1>d, <1>f, <2>4, <2>5, <2>6, <2>7 DEF SvcDispatchAway
  <1>6. CASE SvcRegMonitor(SVC_OP_GET_REG, SMC_OP_GET_REG, "get_reg")
    <2>1. /\ ForStep(desc[ctx.w]) /\ ctx.k0 = "test_ret" /\ Step.op = "get"
          /\ buf' = desc[ctx.w] /\ buf'.lvl = 3 /\ test' = test
      BY <1>6, <1>a, <1>b DEF SvcRegMonitor, SvcRequest, runvars
    <2>2. Linked([ctx EXCEPT !.k1 = "get_reg"])
      BY <2>1, <1>b, <1>e DEF Linked, K1
    <2>a. Step' = Step /\ ForStep(buf)'
      BY <2>1 DEF ForStep, Step
    <2>3. SmcRequest'
      BY <1>6, <2>1, <2>a, <1>c DEF SvcRegMonitor, SmcRequest, K1
    <2>4. buf' \in Descriptor(Request)
      BY <2>1 DEF ForStep, Descriptor
    <2>5. ctx.w = SECURE => saved[NONSECURE].k1 = "dispatch"
      BY <1>b, <2>1 DEF OtherWorldParked
    <2> QED BY <1>6, <1>d, <1>f, <2>2, <2>3, <2>4, <2>5 DEF SvcRegMonitor
  <1>7. CASE SvcRegMonitor(SVC_OP_SET_REG, SMC_OP_SET_REG, "set_reg")
    <2>1. /\ ForStep(desc[ctx.w]) /\ ctx.k0 = "test_ret" /\ Step.op = "set"
          /\ ScrData(desc[ctx.w]) /\ buf' = desc[ctx.w] /\ buf'.lvl = 3 /\ test' = test
      BY <1>7, <1>a, <1>b DEF SvcRegMonitor, SvcRequest, runvars
    <2>2. Linked([ctx EXCEPT !.k1 = "set_reg"])
      BY <2>1, <1>b, <1>e DEF Linked, K1
    <2>b. ctx'.k1 = "set_reg" /\ ctx'.w = ctx.w /\ x0' = SMC_OP_SET_REG
      BY <1>7, <1>c DEF SvcRegMonitor, K1
    <2>a. Step' = Step /\ ForStep(buf)' /\ ScrData(buf)'
      BY <2>1, <2>b DEF ForStep, Step, ScrData, OwnNS, Accessible
    <2>3. SmcRequest'
      BY <2>1, <2>a, <2>b DEF SmcRequest
    <2>4. buf' \in Descriptor(Request)
      BY <2>1 DEF ForStep, Descriptor
    <2>5. ctx.w = SECURE => saved[NONSECURE].k1 = "dispatch"
      BY <1>b, <2>1 DEF OtherWorldParked
    <2> QED BY <1>7, <1>d, <1>f, <2>2, <2>3, <2>4, <2>5 DEF SvcRegMonitor
  <1> QED BY <1>1, <1>2, <1>3, <1>4, <1>5, <1>6, <1>7

\* The cases of el1_handle_svc() that return to EL0, at once or after their SMC.
LEMMA KernelReturns ==
    ASSUME IInv,
           \/ SvcYieldReturn \/ SvcAlloc \/ SvcMapHere \/ SvcGetSyscntl
           \/ SvcTestReturn \/ SvcCopyOut \/ SvcPlainReturn
    PROVE  IInv'
  <1> USE DEF Handling, AtEl1, At
  <1>a. /\ ctx \in Context /\ el = 1 /\ fault = NoFault /\ fault.st = "none"
        /\ Cur = 1 /\ desc \in [World -> Descriptor(Request)] /\ x0 \in 0 .. 9
        /\ buf \in Descriptor(Request) /\ tcmap \in [Space -> Page] /\ ctx.w \in Space
    BY DEF IInv, TypeOK, Cur, NoFault, SvcYieldReturn, SvcAlloc, SvcMapHere,
           Context, Space, SvcGetSyscntl, SvcTestReturn, SvcCopyOut,
           SvcPlainReturn
  <1>b. SvcRequest /\ SmcResult /\ OtherWorldParked /\ Linked(ctx)
    BY DEF IInv, Requests, Results, Stacks, ContextsLinked
  <1>c. ASSUME NEW ret \in 0 .. 9, SvcReturn(ctx, ret)
        PROVE  /\ ctx' \in Context /\ ctx'.k1 = "idle" /\ ctx'.k0 = ctx.k0
               /\ ctx'.w = ctx.w /\ el' = 0 /\ x0' = ret
    BY <1>a, <1>c DEF SvcReturn, Context, K1
  \* A kernel return, given what it leaves in the descriptor and the buffer.
  <1>d. ASSUME NEW ret \in 0 .. 9, SvcReturn(ctx, ret),
               UNCHANGED <<power, scr, cptr, secure_state, saved, k3, fault, excp>>,
               UNCHANGED runvars, UNCHANGED <<cnt, judged>>,
               tcmap' \in [Space -> Page],
               desc' \in [World -> Descriptor(Request)],
               buf' \in Descriptor(Request),
               ctx.k0 \notin {"off", "exit", "test"},
               ctx.w = SECURE /\ saved[NONSECURE].k1 = "test_smc" => buf' \in TestDescs,
               SvcResult'
        PROVE  IInv'
    <2>1. TypeOK'
      BY <1>c, <1>d DEF IInv, TypeOK, runvars
    <2> QED BY <1>a, <1>d, <2>1, SvcReturns DEF runvars
  <1>1. CASE SvcYieldReturn
    <2>1. /\ ctx.k0 = "loop" /\ ctx.w = SECURE /\ Delivered(x0, buf)
          /\ x0 \in {SVC_OP_MAP, SVC_OP_TEST, SVC_OP_DISPATCH}
          /\ saved[NONSECURE].k1 = WaitsIn(x0)
      BY <1>1, <1>a, <1>b DEF SvcYieldReturn, SmcResult, Linked
    <2>2. desc'[SECURE] = buf /\ desc' \in [World -> Descriptor(Request)]
      BY <1>1, <2>1, <1>a DEF SvcYieldReturn
    <2>3. SvcReturn(ctx, x0) /\ saved' = saved
      BY <1>1 DEF SvcYieldReturn
    <2>4. SvcResult'
      BY <2>1, <2>2, <2>3, <1>a, <1>c DEF SvcResult, Delivered, WaitsIn
    <2> QED BY <1>1, <1>a, <1>b, <1>d, <2>1, <2>2, <2>3, <2>4
               DEF SvcYieldReturn, OtherWorldParked, tcvars, IInv, TypeOK
  <1>2. CASE SvcAlloc
    <2>1. ctx.k0 = "alloced" /\ ctx.w = NONSECURE
      BY <1>2, <1>a, <1>b DEF SvcAlloc, SvcRequest, Linked, Context
    <2>2. SvcResult'
      BY <1>2, <2>1, <1>c DEF SvcAlloc, SvcResult
    <2>3. tcmap' \in [Space -> Page]
      BY <1>2, <1>a DEF SvcAlloc, Page
    <2> QED BY <1>2, <1>a, <1>d, <2>1, <2>2, <2>3 DEF SvcAlloc, IInv, TypeOK
  <1>3. CASE SvcMapHere
    <2>1. ctx.k0 = "loop" /\ ctx.w = SECURE /\ desc[ctx.w] \in MapDescs
      BY <1>3, <1>a, <1>b DEF SvcMapHere, SvcRequest
    <2>2. SvcResult'
      BY <1>3, <2>1, <1>c DEF SvcMapHere, SvcResult
    <2>3. tcmap' \in [Space -> Page]
      BY <1>3, <1>a, <2>1 DEF SvcMapHere, MapDescs
    <2> QED BY <1>3, <1>a, <1>b, <1>d, <2>1, <2>2, <2>3
               DEF SvcMapHere, OtherWorldParked, IInv, TypeOK
  <1>4. CASE SvcGetSyscntl
    <2>1. ctx.k0 = "got_syscntl"
      BY <1>4, <1>a, <1>b DEF SvcGetSyscntl, SvcRequest
    <2>2. SvcResult'
      BY <1>4, <2>1, <1>c DEF SvcGetSyscntl, SvcResult
    <2>3. desc' \in [World -> Descriptor(Request)]
      BY <1>4, <1>a DEF SvcGetSyscntl, Descriptor
    <2> QED BY <1>4, <1>a, <1>b, <1>d, <2>1, <2>2, <2>3
               DEF SvcGetSyscntl, OtherWorldParked, tcvars, IInv, TypeOK
  <1>5. CASE SvcTestReturn
    <2>1. ctx.k0 = "interop" /\ ctx.w = NONSECURE /\ buf \in TestDescs
      BY <1>5, <1>a, <1>b DEF SvcTestReturn, SmcResult, Linked
    <2>2. SvcResult'
      BY <1>5, <2>1, <1>c DEF SvcTestReturn, SvcResult
    <2>3. InteropStage(buf) \in Descriptor(Request)
      BY <2>1, InteropStageType DEF Descriptor
    <2>4. desc' \in [World -> Descriptor(Request)] /\ buf' \in Descriptor(Request)
      BY <1>5, <1>a, <2>3 DEF SvcTestReturn
    <2> QED BY <1>5, <1>d, <2>1, <2>2, <2>4
               DEF SvcTestReturn, tcvars, IInv, TypeOK
  <1>6. CASE SvcCopyOut
    <2>1. /\ desc'[ctx.w] = buf /\ desc' \in [World -> Descriptor(Request)]
          /\ ctx.k0 \in {"ran", "test_ret"} /\ test' = test
          /\ ctx.k0 = "test_ret" => ForStep(buf) /\ ScrData(buf)
      BY <1>6, <1>a, <1>b DEF SvcCopyOut, SmcResult, Linked, runvars, Context
    <2>3. ctx'.k0 = ctx.k0 /\ ctx'.w = ctx.w /\ desc'[ctx'.w] = buf
      BY <1>6, <1>c, <2>1 DEF SvcCopyOut
    <2>4. ctx.k0 = "test_ret" => ForStep(desc[ctx.w])' /\ ScrData(desc[ctx.w])'
      BY <2>1, <2>3 DEF ForStep, Step, ScrData, OwnNS, Accessible
    <2>2. SvcResult'
      BY <2>1, <2>3, <2>4 DEF SvcResult
    <2> QED BY <1>6, <1>a, <1>b, <1>d, <2>1, <2>2
               DEF SvcCopyOut, OtherWorldParked, tcvars, IInv, TypeOK
  <1>7. CASE SvcPlainReturn
    <2>1. /\ ctx.k0 \in {"mapped", "test_ret"} /\ test' = test
          /\ ctx.k0 = "test_ret" => Step.op = "set"
      BY <1>7, <1>a, <1>b DEF SvcPlainReturn, SmcResult, Linked, runvars
    <2>2. SvcResult'
      BY <1>7, <2>1, <1>c DEF SvcPlainReturn, SvcResult, Step
    <2> QED BY <1>7, <1>a, <1>b, <1>d, <2>1, <2>2
               DEF SvcPlainReturn, OtherWorldParked, tcvars, IInv, TypeOK
  <1> QED BY <1>1, <1>2, <1>3, <1>4, <1>5, <1>6, <1>7

\* GET_REG and SET_REG of el1_handle_svc() for a register of EL1, trapping,
\* skipped or completed.
LEMMA KernelRegisters ==
    ASSUME IInv,
           \/ SvcRegTrap(SVC_OP_GET_REG) \/ SvcRegTrap(SVC_OP_SET_REG)
           \/ SvcGetRegHere \/ SvcSetRegHere
    PROVE  IInv'
  <1>a. /\ ctx \in Context /\ el = 1 /\ ctx.k1 = "svc" /\ fault.st # "taken"
        /\ Cur = 1 /\ desc \in [World -> Descriptor(Request)] /\ ctx.w \in World
        /\ x0 \in {SVC_OP_GET_REG, SVC_OP_SET_REG} /\ desc[ctx.w].lvl = 1
    BY DEF IInv, TypeOK, Cur, NoFault, Context, SvcRegTrap, SvcGetRegHere,
           SvcSetRegHere
  <1>b. /\ ForStep(desc[ctx.w]) /\ ctx.k0 = "test_ret"
        /\ x0 = SVC_OP_GET_REG => Step.op = "get"
        /\ x0 = SVC_OP_SET_REG => Step.op = "set" /\ ScrData(desc[ctx.w])
    BY <1>a DEF IInv, Requests, SvcRequest
  <1>c. OtherWorldParked /\ StepInRange /\ Active
    BY <1>b DEF IInv, Stacks, Tests, TestActive, Active
  <1>d. /\ Accessible(1) => TrapOf("mon_reg") = NoTrap
        /\ fault # NoFault => ~ (Step.op = "get" /\ Step.key = "SCR" /\ Accessible(Step.lvl))
    BY <1>a DEF Accessible, TrapOf, MonRegTrap, IInv, Tests, TestActive
  <1>1. ASSUME NEW op \in {SVC_OP_GET_REG, SVC_OP_SET_REG}, SvcRegTrap(op) PROVE IInv'
    <2>1. Step.key = "SCR" => ~ Accessible(Step.lvl)
      BY <1>1, <1>a, <1>b, <1>d DEF SvcRegTrap, ForStep, AccessInsn
    <2> QED BY <1>1, <1>b, <1>c, <2>1, Raising DEF SvcRegTrap, runvars, NoFault
  <1>2. CASE SvcGetRegHere
    <2>1. PICK v \in IF Skipped THEN Garbage(desc[ctx.w].key) ELSE {ReadReg(desc[ctx.w].key)} :
               desc' = [desc EXCEPT ![ctx.w].data = v]
      BY <1>2 DEF SvcGetRegHere
    <2>2. desc[ctx.w] \in RegDescs /\ v \in SUBSET RegBits
      BY <1>b, <2>1
         DEF ForStep, Garbage, BitsOf, ReadReg, RegBits, ScrBits, CptrBits,
             CpacrBits, SctlrBits, IInv, TypeOK, Context
    <2>3. /\ desc'[ctx.w] \in RegDescs /\ desc'[ctx.w].key = desc[ctx.w].key
          /\ desc'[ctx.w].lvl = desc[ctx.w].lvl /\ desc'[ctx.w].data = v
          /\ desc' \in [World -> Descriptor(Request)]
      BY <1>a, <2>1, <2>2 DEF RegDescs, Descriptor
    <2>4. ctx'.w = ctx.w /\ ctx'.k0 = ctx.k0 /\ ctx' \in Context /\ test' = test
      BY <1>2, <1>a DEF SvcGetRegHere, SvcReturn, Context, K1, runvars
    <2>5. desc[ctx.w].key = "SCR" /\ Accessible(1) => OwnNS(v)
      BY <1>2, <1>a, <1>b, <1>d, <2>1
         DEF SvcGetRegHere, ForStep, Skipped, NoFault, ReadReg, OwnNS, IInv,
             TypeOK, WorldConsistency, NSBit
    <2>6. ForStep(desc[ctx.w])' /\ ScrData(desc[ctx.w])'
      BY <1>a, <1>b, <2>3, <2>4, <2>5
         DEF ForStep, ScrData, Step, OwnNS, Accessible
    <2>7. SvcResult'
      BY <1>b, <2>4, <2>6 DEF SvcResult
    <2>8. TypeOK'
      BY <1>2, <2>3, <2>4
         DEF SvcGetRegHere, SvcReturn, runvars, tcvars, IInv, TypeOK, Fault,
             NoFault
    <2> QED BY <1>2, <1>a, <1>b, <1>c, <2>4, <2>7, <2>8, SvcReturns
               DEF SvcGetRegHere, OtherWorldParked
  <1>3. CASE SvcSetRegHere
    <2> DEFINE d == desc[ctx.w]
    <2>0. TrapOf(AccessInsn("SCR")) = NoTrap => Accessible(1)
      <3>1. AccessInsn("SCR") = "mon_reg"
        BY DEF AccessInsn
      <3>2. TrapOf("mon_reg") = MonRegTrap
        BY DEF TrapOf
      <3> QED BY <3>1, <3>2, <1>a DEF MonRegTrap, Trap, NoTrap, Accessible
    <2>1. PICK c \in {ctx, WrittenCtx(ctx, d.key, d.data)} :
               /\ SvcReturn(c, 0)
               /\ scr' = scr \/ (scr' = d.data \cap ScrBits /\ d.key = "SCR" /\ Accessible(1))
               /\ cptr' \in {cptr, d.data \cap CptrBits}
      <3>1. CASE Skipped
        BY <1>3, <3>1 DEF SvcSetRegHere
      <3>2. CASE ~ Skipped
        <4>1. /\ WriteReg(d.key, d.data) /\ TrapOf(AccessInsn(d.key)) = NoTrap
              /\ SvcReturn(WrittenCtx(ctx, d.key, d.data), 0)
          BY <1>3, <3>2 DEF SvcSetRegHere
        <4> QED BY <4>1, <2>0 DEF WriteReg
      <3> QED BY <3>1, <3>2
    <2>2. c \in Context /\ c.w = ctx.w /\ c.k0 = ctx.k0
      <3> DEFINE wr == WrittenCtx(ctx, d.key, d.data)
      <3>1. wr \in Context /\ wr.w = ctx.w /\ wr.k0 = ctx.k0
        BY <1>a DEF WrittenCtx, Context
      <3> QED BY <3>1, <1>a
    <2>3. scr' \in SUBSET ScrBits /\ cptr' \in SUBSET CptrBits /\ ("NS" \in scr' <=> "NS" \in scr)
      BY <1>3, <1>a, <1>b, <2>1
         DEF SvcSetRegHere, ForStep, ScrData, OwnNS, ScrBits, IInv, TypeOK,
             WorldConsistency, NSBit
    <2>4. ctx'.k0 = ctx.k0 /\ ctx' \in Context /\ test' = test /\ x0' = 0 /\ el' = 0
      BY <1>3, <2>1, <2>2 DEF SvcSetRegHere, SvcReturn, Context, K1, runvars
    <2>5. SvcResult'
      BY <1>3, <1>b, <2>4 DEF SvcSetRegHere, SvcResult, Step
    <2>6. TypeOK'
      BY <1>3, <2>3, <2>4
         DEF SvcSetRegHere, runvars, tcvars, IInv, TypeOK, Fault, NoFault
    <2> QED BY <1>3, <1>a, <1>b, <1>c, <2>1, <2>2, <2>3, <2>4, <2>5, <2>6,
               SvcReturns
               DEF SvcSetRegHere, OtherWorldParked
  <1> QED BY <1>1, <1>2, <1>3

\* Every step of el1.c, with el1_start() and the local run_test().
LEMMA KernelStep ==
    ASSUME IInv, El1Next PROVE IInv'
  <1> USE DEF AtEl1, Handling, At
  <1>t. /\ ctx \in Context /\ ctx.w \in World
        /\ desc \in [World -> Descriptor(Request)]
    BY DEF IInv, TypeOK, Context
  <1>1. CASE El1Start
    <2>1. /\ ctx'.w = ctx.w /\ ctx'.k0 = "main" /\ ctx'.k1 = "idle"
          /\ ctx' \in Context /\ k3' = k3 /\ k3 = "none" /\ fault' = NoFault
          /\ el' = 0 /\ Cur' = 0 /\ saved' = saved /\ ctx.k0 = "off"
      <3>1. Cur = 1 /\ ctx.k1 = "init"
        BY <1>1 DEF El1Start, Cur, NoFault
      <3>2. k3 = "none" /\ ctx.k0 = "off"
        BY <3>1 DEF IInv, TypeOK, Stacks, LevelsAgree, ContextsLinked, Linked
      <3>3. ctx' = [ctx EXCEPT !.k0 = "main", !.k1 = "idle", !.cpacr = CpacrBits]
        BY <1>1 DEF El1Start
      <3>4. /\ ctx'.w = ctx.w /\ ctx'.k0 = "main" /\ ctx'.k1 = "idle"
            /\ ctx' \in Context
        BY <1>t, <3>3 DEF Context, K0, K1
      <3> QED BY <1>1, <3>2, <3>4 DEF El1Start, Cur, NoFault
    <2>2. TypeOK'
      BY <1>1, <2>1 DEF El1Start, IInv, TypeOK, runvars, tcvars
    <2>3. WorldConsistency' /\ Stacks'
      BY <1>1, <2>1
         DEF El1Start, IInv, WorldConsistency, NSBit, Stacks, ContextsLinked,
             Linked, LevelsAgree, OtherWorldParked, NoFault
    <2>4. Tests' /\ Requests' /\ Results'
      BY <2>1
         DEF Tests, TestActive, LocalScr, Active, Requests, SvcRequest,
             SmcRequest, Results, SmcResult, SvcResult
    <2> QED BY <2>2, <2>3, <2>4 DEF IInv
  <1>2. CASE SvcDispatchHere
    <2> DEFINE r == desc[ctx.w].req
    <2>1. /\ desc[ctx.w] \in DispDescs(Request) /\ ctx.k0 = "ran"
          /\ ctx.k1 = "svc" /\ k3 = "none" /\ Cur = 1
      BY <1>2
         DEF SvcDispatchHere, IInv, Requests, SvcRequest, Stacks, LevelsAgree,
             Cur, NoFault
    <2>2. r \in Request
      BY <2>1 DEF DispDescs
    <2>3. /\ ctx'.w = ctx.w /\ ctx'.k0 = "ran" /\ ctx'.k1 = "test"
          /\ ctx' \in Context /\ k3' = "none" /\ fault' = NoFault
          /\ Cur' = 1 /\ saved' = saved
      BY <1>2, <1>t, <2>1 DEF SvcDispatchHere, Context, K1, Cur, NoFault
    <2>4. /\ test' \in RunningTest /\ test'.pc = 1
          /\ executed' \in Seq([req : Request, el : Level, state : World])
      BY <1>2, <1>t, <2>2
         DEF SvcDispatchHere, StartTest, RunningTest, RegKey, IInv, TypeOK
    <2>5. TypeOK'
      BY <1>2, <2>3, <2>4 DEF SvcDispatchHere, IInv, TypeOK, tcvars
    <2>6. WorldConsistency' /\ Stacks'
      BY <1>2, <2>1, <2>3
         DEF SvcDispatchHere, IInv, WorldConsistency, NSBit, Stacks,
             ContextsLinked, Linked, LevelsAgree, OtherWorldParked, NoFault
    <2>7. Tests'
      BY <2>3, <2>4 DEF Tests, TestActive, LocalScr, NoFault
    <2>8. Requests' /\ Results'
      BY <2>3
         DEF Requests, SvcRequest, SmcRequest, Results, SmcResult, SvcResult
    <2> QED BY <2>5, <2>6, <2>7, <2>8 DEF IInv
  <1>3. CASE El1HandleException
    BY <1>3, HandlingExceptions
  <1> QED BY <1>1, <1>2, <1>3, KernelCalls, KernelReturns, KernelRegisters
             DEF El1Next

\* Every step of el3.c: start-up, each case of el3_handle_smc() and
\* el3_handle_exception().
LEMMA MonitorStep ==
    ASSUME IInv, El3Next PROVE IInv'
  <1> USE DEF Monitor, At
  <1>t. /\ ctx \in Context /\ ctx.w \in World /\ x0 \in 0 .. 9
        /\ buf \in Descriptor(Request) /\ tcmap \in [Space -> Page]
        /\ saved \in [World -> Context] /\ 3 \in Space
    BY DEF IInv, TypeOK, Context, Space
  <1>u. SmcRequest /\ OtherWorldParked /\ Linked(ctx)
    BY DEF IInv, Requests, Stacks, ContextsLinked
  <1>1. CASE El3Start
    <2>1. /\ ctx'.w = SECURE /\ ctx'.k0 = "off" /\ ctx'.k1 = "init" /\ ctx' \in Context
          /\ k3' = "none" /\ fault' = NoFault /\ el' = 1 /\ Cur' = 1 /\ saved' = saved
          /\ saved[NONSECURE].k1 = "init"
      BY <1>1, <1>t
         DEF El3Start, Restored, Context, IInv, Stacks, ContextsLinked, Linked,
             LevelsAgree, WorldConsistency, Cur, NoFault
    <2>2. TypeOK'
      BY <1>1, <2>1 DEF El3Start, IInv, TypeOK, runvars, tcvars, K3
    <2>3. WorldConsistency' /\ Stacks'
      BY <1>1, <2>1
         DEF El3Start, IInv, WorldConsistency, NSBit, Stacks, ContextsLinked,
             Linked, LevelsAgree, OtherWorldParked, NoFault
    <2>4. Tests' /\ Requests' /\ Results'
      BY <2>1
         DEF Tests, TestActive, LocalScr, Active, Requests, SvcRequest,
             SmcRequest, Results, SmcResult, SvcResult
    <2> QED BY <2>2, <2>3, <2>4 DEF IInv
  <1>2. CASE SmcYield
    <2>1. /\ monitor_switch /\ secure_state' = 1 - secure_state /\ ctx.k1 = "yield"
          /\ el' = 1 /\ x0' = SVC_OP_YIELD /\ k3' = "none" /\ fault' = NoFault /\ Cur' = 1
          /\ buf' = buf
      BY <1>2, <1>u DEF SmcYield, SmcReturn, SmcRequest, Cur, NoFault
    <2>2. /\ WorldConsistency' /\ ContextsLinked' /\ secure_state' \in World
          /\ ctx' \in Context /\ saved' \in [World -> Context] /\ scr' \in SUBSET ScrBits
          /\ ctx'.w = NONSECURE /\ ctx'.k1 \in {"init", "map", "test_smc", "dispatch"}
          /\ ctx'.k1 = "test_smc" => buf \in TestDescs
          /\ saved'[SECURE].k1 = "yield"
      BY <2>1, <1>t, <1>u, WorldSwitch DEF OtherWorldParked, Linked
    <2>3. TypeOK'
      BY <1>2, <2>1, <2>2 DEF SmcYield, IInv, TypeOK, K3, runvars, tcvars
    <2>4. Stacks'
      BY <2>1, <2>2 DEF Stacks, LevelsAgree, OtherWorldParked, NoFault
    <2>5. Tests' /\ Requests' /\ Results'
      BY <2>1, <2>2
         DEF Tests, TestActive, LocalScr, Active, Requests, SvcRequest,
             SmcRequest, Results, SmcResult, SvcResult, ContextsLinked, Linked
    <2> QED BY <2>2, <2>3, <2>4, <2>5 DEF IInv
  <1>3. CASE SmcNoop
    <2>1. ctx.k1 = "test_ret" /\ Step.op = "noop"
      BY <1>3, <1>u DEF SmcNoop, SmcRequest
    <2>2. TypeOK' /\ test' = test
      BY <1>3 DEF SmcNoop, SmcReturn, IInv, TypeOK, K3, runvars, tcvars
    <2>3. SmcResult'
      BY <1>3, <2>1, <2>2 DEF SmcNoop, SmcReturn, SmcResult, Step
    <2> QED BY <1>3, <1>t, <1>u, <2>1, <2>2, <2>3, SmcReturnsToCaller
               DEF SmcNoop, SmcReturn, OtherWorldParked
  <1>4. CASE SmcExit
    <2>1. UNCHANGED <<el, scr, secure_state, x0, ctx, saved, k3, fault, desc, buf, test>> /\ TypeOK'
          /\ Cur' = Cur
      BY <1>4 DEF SmcExit, IInv, TypeOK, runvars, tcvars, Cur
    <2>2. Tests'
      BY <2>1
         DEF IInv, Tests, TestActive, LocalScr, Active, StepInRange, Step,
             Accessible, OwnNS
    <2> QED BY <1>4, <2>1, <2>2, Exceptions DEF SmcExit, NoFault
  <1>5. CASE SmcMap
    <2>1. ctx.k1 = "map" /\ ctx.w = NONSECURE /\ buf \in MapDescs
      BY <1>5, <1>u DEF SmcMap, SmcRequest, Linked
    <2>2. tcmap' \in [Space -> Page]
      BY <1>5, <1>t, <2>1 DEF SmcMap, MapDescs
    <2>3. CASE "SEC_EL1" \in buf.type
      <3>1. SmcReturn(SVC_OP_MAP) /\ buf' \in MapDescs /\ "EL3" \notin buf'.type
        BY <1>5, <2>1, <2>3 DEF SmcMap, MapDescs
      <3>2. Delivered(SVC_OP_MAP, buf)' /\ buf' \in Descriptor(Request)
        BY <3>1 DEF Delivered, Descriptor
      <3> QED BY <1>5, <1>t, <2>1, <2>2, <3>1, <3>2, SmcDelivers
                 DEF SmcMap, WaitsIn
    <2>4. CASE "SEC_EL1" \notin buf.type
      <3>1. SmcReturn(0) /\ buf' = buf
        BY <1>5, <2>4 DEF SmcMap
      <3>2. TypeOK' /\ test' = test
        BY <1>5, <2>2, <3>1 DEF SmcMap, SmcReturn, IInv, TypeOK, K3, runvars
      <3>3. SmcResult'
        BY <2>1, <3>1 DEF SmcReturn, SmcResult
      <3> QED BY <1>5, <1>t, <2>1, <3>1, <3>2, <3>3, SmcReturnsToCaller
                 DEF SmcMap, SmcReturn
    <2> QED BY <2>3, <2>4
  <1>6. CASE SmcDispatchHere
    <2>1. buf \in DispDescs(Request) /\ ctx.k1 = "dispatch" /\ ctx.k0 = "ran"
      BY <1>6, <1>u DEF SmcDispatchHere, SmcRequest, Linked
    <2>2. /\ test' \in RunningTest /\ test'.pc = 1
          /\ executed' \in Seq([req : Request, el : Level, state : World])
      BY <1>6, <2>1
         DEF SmcDispatchHere, StartTest, DispDescs, RunningTest, RegKey, IInv,
             TypeOK
    <2>3. TypeOK'
      BY <1>6, <2>2 DEF SmcDispatchHere, IInv, TypeOK, K3, tcvars
    <2>4. WorldConsistency' /\ Stacks'
      BY <1>6, <2>1
         DEF SmcDispatchHere, IInv, WorldConsistency, NSBit, Stacks,
             ContextsLinked, Linked, LevelsAgree, OtherWorldParked, Cur,
             NoFault
    <2>5. Tests' /\ Requests' /\ Results'
      BY <1>6, <2>1, <2>2
         DEF SmcDispatchHere, Tests, TestActive, LocalScr, Cur, NoFault,
             Requests, SvcRequest, SmcRequest, Results, SmcResult, SvcResult
    <2> QED BY <2>3, <2>4, <2>5 DEF IInv
  <1>7. CASE SmcDispatchAway
    <2>1. /\ buf \in DispDescs(Request) /\ ctx.k1 = "dispatch"
          /\ IF ctx.w = SECURE THEN Local(buf.req, 3, SECURE)
             ELSE ~ Local(buf.req, 0, NONSECURE) /\ ~ Local(buf.req, 1, NONSECURE)
      BY <1>7, <1>u DEF SmcDispatchAway, SmcRequest
    <2>2. buf.req \in [fid : Nat, el : Level, state : World]
      BY <2>1, ScriptsAssumption DEF DispDescs
    <2>3. ctx.w = NONSECURE /\ buf.req.state = SECURE
      BY <1>7, <1>t, <2>1, <2>2
         DEF SmcDispatchAway, Local, IInv, WorldConsistency
    <2>4. Delivered(SVC_OP_DISPATCH, buf)'
      BY <1>7, <2>1, <2>3 DEF SmcDispatchAway, Delivered
    <2> QED BY <1>7, <1>t, <2>1, <2>3, <2>4, SmcDelivers
               DEF SmcDispatchAway, WaitsIn, tcvars
  <1>8. CASE SmcTest
    <2>1. buf \in TestDescs /\ ctx.k1 = "test_smc" /\ ctx.w = NONSECURE
      BY <1>8, <1>u DEF SmcTest, SmcRequest, Linked
    <2>2. InteropStage(buf) \in TestDescs
      BY <2>1, InteropStageType
    <2>3. PICK v \in Nat : buf' = [InteropStage(buf) EXCEPT !.val = v]
      <3>1. InteropStage(buf).val \in Nat
        BY <2>2 DEF TestDescs
      <3> QED BY <1>8, <3>1 DEF SmcTest
    <2>4. buf' \in TestDescs
      BY <2>2, <2>3 DEF TestDescs
    <2>5. Delivered(SVC_OP_TEST, buf)' /\ buf' \in Descriptor(Request)
      BY <2>4 DEF Delivered, Descriptor
    <2> QED BY <1>8, <1>t, <2>1, <2>5, SmcDelivers DEF SmcTest, WaitsIn, tcvars
  <1>9. CASE SmcGetReg
    <2>1. /\ ForStep(buf) /\ buf \in RegDescs /\ buf.lvl = 3 /\ Step.op = "get"
          /\ ctx.k1 \in {"get_reg", "test_ret"} /\ ctx.k0 \in {"test_ret", "ran"}
      BY <1>9, <1>u DEF SmcGetReg, SmcRequest, ForStep, Linked
    <2>2. ReadReg(buf.key) \in SUBSET RegBits
      BY DEF ReadReg, RegBits, IInv, TypeOK, Context
    <2>3. /\ buf' \in RegDescs /\ buf'.key = buf.key /\ buf'.lvl = buf.lvl
          /\ buf'.data = ReadReg(buf.key)
      BY <1>9, <2>1, <2>2 DEF SmcGetReg, RegDescs
    <2>4. buf.key = "SCR" => OwnNS(ReadReg(buf.key))
      BY <1>t DEF ReadReg, OwnNS, IInv, WorldConsistency, NSBit
    <2>5. UNCHANGED <<ctx, test, saved, secure_state, scr, fault>> /\ el' = 1 /\ k3' = "none" /\ x0' = 0
      BY <1>9 DEF SmcGetReg, SmcReturn, runvars
    <2>6. ForStep(buf)' /\ ScrData(buf)'
      BY <2>1, <2>3, <2>4, <2>5 DEF ForStep, ScrData, Step, OwnNS, Accessible
    <2>7. TypeOK'
      BY <1>9, <2>3, <2>5
         DEF SmcGetReg, IInv, TypeOK, K3, runvars, tcvars, Descriptor
    <2>8. SmcResult'
      BY <2>1, <2>5, <2>6 DEF SmcResult, Step
    <2> QED BY <1>9, <1>t, <1>u, <2>1, <2>5, <2>7, <2>8, SmcReturnsToCaller
               DEF SmcGetReg, OtherWorldParked
  <1>10. CASE SmcSetReg
    <2>1. /\ ForStep(buf) /\ buf \in RegDescs /\ buf.lvl = 3 /\ Step.op = "set" /\ ScrData(buf)
          /\ ctx.k1 \in {"set_reg", "test_ret"} /\ ctx.k0 \in {"test_ret", "ran"}
      BY <1>10, <1>u DEF SmcSetReg, SmcRequest, ForStep, Linked
    <2>2. /\ scr' = scr \/ (scr' = buf.data \cap ScrBits /\ buf.key = "SCR")
          /\ cptr' \in {cptr, buf.data \cap CptrBits}
          /\ ctx' = WrittenCtx(ctx, buf.key, buf.data)
      BY <1>10, <2>1 DEF SmcSetReg, WriteReg
    <2>a. scr' = buf.data \cap ScrBits /\ buf.key = "SCR" => ("NS" \in scr' <=> "NS" \in scr)
      <3>1. buf.key = "SCR" => ("NS" \in buf.data <=> ctx.w = NONSECURE)
        BY <2>1 DEF ScrData, OwnNS, Accessible
      <3>2. "NS" \in scr <=> ctx.w = NONSECURE
        BY <1>t DEF IInv, WorldConsistency, NSBit
      <3> QED BY <3>1, <3>2 DEF ScrBits
    <2>3. /\ scr' \in SUBSET ScrBits /\ cptr' \in SUBSET CptrBits
          /\ "NS" \in scr' <=> "NS" \in scr
      BY <2>2, <2>a DEF IInv, TypeOK
    <2>4. ctx' \in Context /\ ctx'.w = ctx.w /\ ctx'.k0 = ctx.k0 /\ ctx'.k1 = ctx.k1
      BY <1>t, <2>2 DEF WrittenCtx, Context
    <2>5. UNCHANGED <<test, buf, saved, secure_state, fault>> /\ el' = 1 /\ k3' = "none" /\ x0' = 0
      BY <1>10 DEF SmcSetReg, runvars
    <2>6. TypeOK'
      BY <1>10, <2>3, <2>4, <2>5
         DEF SmcSetReg, IInv, TypeOK, K3, runvars, tcvars
    <2>7. SmcResult'
      BY <2>1, <2>4, <2>5 DEF SmcResult, Step
    <2> QED BY <1>10, <1>t, <1>u, <2>1, <2>3, <2>4, <2>5, <2>6, <2>7,
               SmcReturnsToCaller
               DEF SmcSetReg, OtherWorldParked
  <1>11. CASE El3HandleException
    BY <1>11, HandlingExceptions
  <1> QED BY <1>1, <1>2, <1>3, <1>4, <1>5, <1>6, <1>7, <1>8, <1>9, <1>10, <1>11
             DEF El3Next

=============================================================================
