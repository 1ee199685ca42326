--------------------------- MODULE TzTestProofs -----------------------------
(***************************************************************************)
(* The steps of the test functions preserve the inductive invariant.       *)
(***************************************************************************)
EXTENDS TzImageProofs

USE DEF SECURE, NONSECURE, World, Level,
    SMC_OP_NOOP, SMC_OP_YIELD, SMC_OP_EXIT, SMC_OP_MAP, SMC_OP_GET_REG,
    SMC_OP_SET_REG, SMC_OP_TEST, SMC_OP_DISPATCH,
    SVC_OP_YIELD, SVC_OP_EXIT, SVC_OP_MAP, SVC_OP_GET_REG, SVC_OP_SET_REG,
    SVC_OP_TEST, SVC_OP_DISPATCH, SVC_OP_GET_SYSCNTL, SVC_OP_ALLOC

\* Where the labels are while a test function runs at each level.
LEMMA InTestFacts ==
    ASSUME IInv, InTest
    PROVE  /\ Active /\ test \in RunningTest /\ Cur = el /\ ctx \in Context
           /\ fault.st # "taken" /\ ctx.w \in World
           /\ \/ el = 0 /\ ctx.k0 = "test" /\ ctx.k1 = "idle" /\ k3 = "none"
              \/ el = 1 /\ ctx.k0 = "ran" /\ ctx.k1 = "test" /\ k3 = "none"
              \/ el = 3 /\ ctx.k0 = "ran" /\ ctx.k1 = "dispatch" /\ k3 = "test"
  <1>1. /\ Cur = el /\ fault.st # "taken" /\ Active
        /\ \/ el = 0 /\ ctx.k0 = "test"
           \/ el = 1 /\ ctx.k1 = "test"
           \/ el = 3 /\ k3 = "test"
    BY DEF InTest, Cur, Active
  <1>2. test \in RunningTest /\ ctx \in Context /\ ctx.w \in World
    BY <1>1 DEF IInv, TypeOK, Tests, TestActive, Context
  <1>3. LevelsAgree /\ Linked(ctx)
    BY DEF IInv, Stacks, ContextsLinked
  <1>4. el = 0 => ctx.k1 = "idle" /\ k3 = "none"
    BY <1>1, <1>3 DEF LevelsAgree
  <1>5. el = 1 => k3 = "none"
    BY <1>1, <1>3 DEF LevelsAgree
  <1>6. k3 = "test" => ctx.k1 = "dispatch"
    BY <1>3 DEF LevelsAgree
  <1>7. ctx.k1 \in {"dispatch", "test"} => ctx.k0 = "ran"
    BY <1>3 DEF Linked
  <1> QED BY <1>1, <1>2, <1>4, <1>5, <1>6, <1>7

\* Within its script a test stands at a well-formed step.
LEMMA StepType ==
    ASSUME StepInRange
    PROVE  Step \in ScriptStep /\ test.pc \in 1 .. Len(Scripts[test.req])
           /\ test.req \in Request
  BY ScriptsAssumption DEF StepInRange, Step, RunningTest, Request

\* Moving past a step keeps the NS bit of a test's copy of SCR equal to that of
\* the world the test runs in.
LEMMA LocalScrAdvances ==
    ASSUME IInv, Active, StepInRange, ctx'.w = ctx.w, test' \in RunningTest,
           test'.req = test.req, test'.pc = test.pc + 1,
           Step.op = "get" /\ Step.key = "SCR" /\ Accessible(Step.lvl) =>
               OwnNS(test'.loc["SCR"]),
           ~ (Step.op = "get" /\ Step.key = "SCR") =>
               test'.loc["SCR"] = test.loc["SCR"]
    PROVE  LocalScr'
  <1> DEFINE S == Scripts[test.req]
  <1> SUFFICES ASSUME NEW j \in 1 .. test.pc, S[j].op = "get", S[j].key = "SCR",
                      Accessible(S[j].lvl)
               PROVE  OwnNS(test'.loc["SCR"])
    BY DEF LocalScr, Accessible, OwnNS, StepInRange, RunningTest
  <1>1. test.pc \in 1 .. Len(S) /\ test.req \in Request /\ Step = S[test.pc]
    BY StepType DEF Step
  <1>2. CASE j = test.pc
    BY <1>1, <1>2
  <1>3. CASE j # test.pc
    <2>1. j \in 1 .. test.pc - 1 /\ j <= Len(S) /\ j \in 1 .. Len(S)
      BY <1>1, <1>3
    <2>2. OwnNS(test.loc["SCR"])
      BY <2>1 DEF IInv, Tests, LocalScr
    <2>3. Step.op = "get" /\ Step.key = "SCR" => Step.lvl = S[j].lvl
      BY <1>1, <2>1, ScrDisciplineAssumption
    <2> QED BY <2>2, <2>3
  <1> QED BY <1>2, <1>3

\* What a SET_REG of SCR writes carries the NS bit of the running world: the test
\* read it there and changes other bits only.
LEMMA NewValueKeepsNS ==
    ASSUME IInv, Active, StepInRange, Step.op = "set"
    PROVE  /\ NewValue \in SUBSET RegBits
           /\ Step.key = "SCR" /\ Accessible(Step.lvl) => OwnNS(NewValue)
  <1> DEFINE S == Scripts[test.req]
  <1>1. /\ Step \in ScriptStep /\ test.pc \in 1 .. Len(S)
        /\ test.req \in Request /\ Step = S[test.pc] /\ test \in RunningTest
    BY StepType DEF Step, StepInRange
  <1>2. Step.key \in RegKey /\ Step.add \in SUBSET RegBits /\ test.loc[Step.key] \in SUBSET RegBits
    BY <1>1 DEF ScriptStep, RunningTest
  <1>3. ASSUME Step.key = "SCR", Accessible(Step.lvl) PROVE OwnNS(NewValue)
    <2>1. /\ "NS" \notin Step.add \cup Step.del
          /\ \E n \in 1 .. test.pc - 1 : S[n].op = "get" /\ S[n].key = "SCR"
      BY <1>1, <1>3, ScrDisciplineAssumption
    <2>2. PICK n \in 1 .. test.pc - 1 : S[n].op = "get" /\ S[n].key = "SCR"
      BY <2>1
    <2>3. n \in 1 .. Len(S) /\ n <= Len(S)
      BY <1>1
    <2>4. S[n].lvl = Step.lvl
      BY <1>1, <1>3, <2>2, <2>3, ScrDisciplineAssumption
    <2>5. OwnNS(test.loc["SCR"])
      BY <1>3, <2>2, <2>3, <2>4 DEF IInv, Tests, LocalScr
    <2> QED BY <1>3, <2>1, <2>5 DEF NewValue, OwnNS
  <1> QED BY <1>2, <1>3 DEF NewValue

\* Advance moves the program counter and nothing else.
LEMMA AdvanceType ==
    ASSUME test \in RunningTest, Advance
    PROVE  /\ test' \in RunningTest /\ test'.req = test.req
           /\ test'.pc = test.pc + 1 /\ test'.loc = test.loc
  BY DEF Advance, RunningTest

\* What a GET_REG macro stores on its return.
LEMMA FetchedType ==
    ASSUME test \in RunningTest, Step \in ScriptStep,
           NEW v \in SUBSET RegBits, Fetched(v)
    PROVE  /\ test' \in RunningTest /\ test'.req = test.req
           /\ test'.pc = test.pc + 1
           /\ Step.op = "get" /\ Step.key = "SCR" => test'.loc["SCR"] = v
           /\ ~ (Step.op = "get" /\ Step.key = "SCR") =>
                 test'.loc["SCR"] = test.loc["SCR"]
  <1>1. Step.key \in RegKey /\ "SCR" \in RegKey
    BY DEF ScriptStep, RegKey
  <1> DEFINE l == IF Step.op = "get" THEN [test.loc EXCEPT ![Step.key] = v]
                                     ELSE test.loc
  <1> DEFINE t == [test EXCEPT !.pc = test.pc + 1]
  <1>2. test' = [t EXCEPT !.loc = l]
    BY DEF Fetched
  <1>a. t \in RunningTest /\ t.req = test.req /\ t.pc = test.pc + 1
    BY DEF RunningTest
  <1>3. l \in [RegKey -> SUBSET RegBits]
    BY <1>1 DEF RunningTest
  <1>4. /\ Step.op = "get" /\ Step.key = "SCR" => l["SCR"] = v
        /\ ~ (Step.op = "get" /\ Step.key = "SCR") => l["SCR"] = test.loc["SCR"]
    BY <1>1 DEF RunningTest
  <1> HIDE DEF l, t
  <1>5. /\ test' \in RunningTest /\ test'.req = test.req
        /\ test'.pc = test.pc + 1 /\ test'.loc = l
    BY <1>2, <1>3, <1>a DEF RunningTest
  <1> QED BY <1>4, <1>5

\* A test function moving past a step that stays at its level.
LEMMA TestAdvances ==
    ASSUME IInv, InTest, StepInRange,
           UNCHANGED <<el, x0, secure_state, saved, k3, desc, buf>>,
           ctx'.w = ctx.w, ctx'.k0 = ctx.k0, ctx'.k1 = ctx.k1,
           "NS" \in scr' <=> "NS" \in scr, fault' = NoFault,
           test' \in RunningTest, test'.req = test.req, test'.pc = test.pc + 1,
           Step.op = "get" /\ Step.key = "SCR" /\ Accessible(Step.lvl) =>
               OwnNS(test'.loc["SCR"]),
           ~ (Step.op = "get" /\ Step.key = "SCR") =>
               test'.loc["SCR"] = test.loc["SCR"],
           TypeOK'
    PROVE  IInv'
  <1>1. /\ Active /\ Cur = el /\ Cur' = el /\ fault.st # "taken" /\ ctx.w \in World
        /\ \/ el = 0 /\ ctx.k0 = "test" /\ ctx.k1 = "idle" /\ k3 = "none"
           \/ el = 1 /\ ctx.k0 = "ran" /\ ctx.k1 = "test" /\ k3 = "none"
           \/ el = 3 /\ ctx.k0 = "ran" /\ ctx.k1 = "dispatch" /\ k3 = "test"
    BY InTestFacts DEF Cur, NoFault
  <1>2. WorldConsistency'
    BY DEF IInv, WorldConsistency, NSBit
  <1>3. Stacks'
    BY <1>1
       DEF IInv, Stacks, ContextsLinked, Linked, LevelsAgree, OtherWorldParked,
           NoFault
  <1>4. LocalScr'
    BY <1>1, LocalScrAdvances
  <1>5. TestActive'
    BY <1>1 DEF TestActive
  <1>6. Requests' /\ Results'
    BY <1>1 DEF Requests, SvcRequest, SmcRequest, Results, SmcResult, SvcResult
  <1> QED BY <1>2, <1>3, <1>4, <1>5, <1>6 DEF IInv, Tests

\* TEST_MSG, the exception log macros, a completed instruction and the
\* TEST_CONDITIONs.
LEMMA TestQuietSteps ==
    ASSUME IInv, TestMsg \/ TestLog \/ TestReset \/ TestRun \/ TestVerdict
    PROVE  IInv'
  <1>1. /\ InTest /\ test.pc <= Len(Scripts[test.req]) /\ Advance /\ Still
        /\ Step.op # "get"
        /\ fault' = NoFault \/ (fault' = fault /\ Step.op \notin {"run", "get", "set"})
    BY DEF TestMsg, TestLog, TestReset, TestRun, TestVerdict, At_Step
  <1>2. /\ test \in RunningTest /\ StepInRange /\ ctx \in Context
        /\ ctx.w \in World /\ el \in Level
    BY <1>1, InTestFacts DEF StepInRange, IInv, TypeOK
  <1>3. fault' = NoFault
    BY <1>1 DEF IInv, Tests, TestActive
  <1>4. /\ test' \in RunningTest /\ test'.req = test.req
        /\ test'.pc = test.pc + 1 /\ test'.loc = test.loc
    BY <1>1, <1>2, AdvanceType
  <1>5. excp' \in [log : BOOLEAN, skip : BOOLEAN, taken : BOOLEAN,
                   ec : ExcpClass, el : Level]
    <2>1. \/ excp' = excp \/ excp' = Clear
          \/ excp' = [excp EXCEPT !.skip = TRUE, !.log = TRUE]
      BY DEF TestMsg, TestLog, TestReset, TestRun, TestVerdict
    <2>2. Clear \in [log : BOOLEAN, skip : BOOLEAN, taken : BOOLEAN,
                     ec : ExcpClass, el : Level]
      BY DEF Clear, ExcpClass
    <2> QED BY <2>1, <2>2 DEF IInv, TypeOK
  <1>6. ASSUME NEW c \in Counters, NEW pass PROVE Tally(c, pass) \in Counters
    BY DEF Tally, Counters
  <1>7. /\ tcmap' \in [Space -> Page] /\ cnt' \in [Page -> Counters]
        /\ judged' \in Counters
    BY <1>2, <1>6
       DEF TestMsg, TestLog, TestReset, TestRun, TestVerdict, tcvars,
           TEST_CONDITION, HereSpace, Space, IInv, TypeOK
  <1>8. TypeOK'
    BY <1>1, <1>3, <1>4, <1>5, <1>7
       DEF IInv, TypeOK, Still, Quiet, Fault, NoFault
  <1> QED BY <1>1, <1>2, <1>3, <1>4, <1>8, TestAdvances DEF Still, Quiet

\* A trapping instruction, and a trapping register access at EL1.
LEMMA TestTraps ==
    ASSUME IInv, TestTrap \/ TestDirectTrap
    PROVE  IInv'
  <1>1. CASE TestTrap
    <2>1. InTest /\ StepInRange /\ Step.op = "run" /\ Active /\ fault.st # "taken"
      BY <1>1, InTestFacts DEF TestTrap, At_Step, StepInRange
    <2> QED BY <1>1, <2>1, Raising DEF TestTrap, Quiet
  <1>2. CASE TestDirectTrap
    <2>1. /\ InTest /\ StepInRange /\ Step.op \in {"get", "set"} /\ Active
          /\ fault.st # "taken" /\ Step.lvl = 1 /\ el = 1
      BY <1>2, InTestFacts DEF TestDirectTrap, At_Step, StepInRange
    <2>2. Step.key = "SCR" => ~ Accessible(1)
      BY <1>2, <2>1
         DEF TestDirectTrap, AccessInsn, TrapOf, MonRegTrap, Accessible
    <2> QED BY <1>2, <2>1, <2>2, Raising DEF TestDirectTrap, Quiet
  <1> QED BY <1>1, <1>2

\* SVC_GET_REG and SVC_SET_REG at EL0; SMC_GET_REG, SMC_SET_REG and the SMC_OP_NOOP
\* at EL1.
LEMMA TestCalls ==
    ASSUME IInv, TestSvc \/ TestSmc
    PROVE  IInv'
  <1>t. /\ InTest /\ StepInRange /\ Active /\ test \in RunningTest
        /\ Cur = el /\ fault.st # "taken" /\ ctx \in Context /\ ctx.w \in World
        /\ Step \in ScriptStep
        /\ \/ el = 0 /\ ctx.k0 = "test" /\ ctx.k1 = "idle" /\ k3 = "none"
           \/ el = 1 /\ ctx.k0 = "ran" /\ ctx.k1 = "test" /\ k3 = "none"
           \/ el = 3 /\ ctx.k0 = "ran" /\ ctx.k1 = "dispatch" /\ k3 = "test"
    <2>1. InTest /\ test.pc <= Len(Scripts[test.req])
      BY DEF TestSvc, TestSmc, At_Step
    <2>2. StepInRange
      BY <2>1, InTestFacts DEF StepInRange
    <2> QED BY <2>1, <2>2, InTestFacts, StepType
  <1>n. /\ Step.op = "set" => NewValue \in SUBSET RegBits
        /\ Step.op = "set" /\ Step.key = "SCR" /\ Accessible(Step.lvl) => OwnNS(NewValue)
    BY <1>t, NewValueKeepsNS
  <1>r. ASSUME NEW v \in SUBSET RegBits, NEW l \in {1, 3}
        PROVE  RegDesc(Step.key, l, v) \in RegDescs
    BY <1>t DEF RegDesc, RegDescs, ScriptStep
  <1>1. CASE TestSvc
    <2>1. PICK op \in {SVC_OP_GET_REG, SVC_OP_SET_REG}, v \in SUBSET RegBits :
             /\ Svc(op, RegDesc(Step.key, Step.lvl, v), "test_ret")
             /\ op = SVC_OP_GET_REG => Step.op = "get"
             /\ op = SVC_OP_SET_REG => Step.op = "set" /\ v = NewValue
      <3>1. CASE At_Step("get") /\ Svc(SVC_OP_GET_REG, RegDesc(Step.key, Step.lvl, {}), "test_ret")
        BY <3>1 DEF At_Step
      <3>2. CASE At_Step("set") /\ Svc(SVC_OP_SET_REG, RegDesc(Step.key, Step.lvl, NewValue), "test_ret")
        BY <3>2, <1>n DEF At_Step
      <3> QED BY <1>1, <3>1, <3>2 DEF TestSvc
    <2> DEFINE d == RegDesc(Step.key, Step.lvl, v)
    <2>2. d \in RegDescs /\ d.key = Step.key /\ d.lvl = Step.lvl /\ d.data = v
      BY <1>t, <1>r DEF RegDesc, ScriptStep
    <2>3. /\ el' = 1 /\ x0' = op /\ ctx'.w = ctx.w /\ ctx'.k0 = "test_ret"
          /\ ctx'.k1 = "svc" /\ ctx' \in Context
      BY <1>t, <2>1 DEF Svc, Context, K0, K1
    <2>4. desc' \in [World -> Descriptor(Request)] /\ desc'[ctx.w] = d
      BY <1>t, <2>1, <2>2 DEF Svc, IInv, TypeOK, Descriptor
    <2> HIDE DEF d
    <2>5. /\ UNCHANGED <<scr, secure_state, saved, k3, buf, fault, test>>
          /\ k3 = "none" /\ Cur' = 1 /\ el = 0 /\ Step' = Step
      BY <1>1, <1>t, <2>3 DEF TestSvc, Quiet, Cur, Step
    <2>6. TypeOK'
      BY <1>1, <2>1, <2>3, <2>4 DEF TestSvc, Quiet, tcvars, IInv, TypeOK
    <2>7. WorldConsistency'
      BY <2>3, <2>5 DEF IInv, WorldConsistency, NSBit
    <2>8. Stacks'
      BY <1>t, <2>3, <2>5
         DEF IInv, Stacks, ContextsLinked, Linked, LevelsAgree,
             OtherWorldParked
    <2>9. Tests'
      BY <1>t, <2>1, <2>3, <2>5
         DEF IInv, Tests, TestActive, LocalScr, Active, StepInRange,
             Accessible, OwnNS
    <2>10. ForStep(desc[ctx.w])' /\ (op = SVC_OP_SET_REG => ScrData(desc[ctx.w])')
      BY <1>n, <2>1, <2>2, <2>3, <2>4, <2>5
         DEF ForStep, ScrData, OwnNS, Accessible
    <2>11. SvcRequest'
      BY <2>1, <2>3, <2>5, <2>10 DEF SvcRequest
    <2>12. SmcRequest' /\ Results'
      BY <2>3, <2>5 DEF SmcRequest, Results, SmcResult, SvcResult
    <2> QED BY <2>6, <2>7, <2>8, <2>9, <2>11, <2>12 DEF IInv, Requests
  <1>2. CASE TestSmc
    <2>a. el = 1 /\ ctx.k0 = "ran" /\ ctx.k1 = "test" /\ k3 = "none"
      BY <1>2, <1>t DEF TestSmc
    <2>1. PICK op \in {SMC_OP_NOOP, SMC_OP_GET_REG, SMC_OP_SET_REG}, v \in SUBSET RegBits :
             /\ Smc(op, "test_ret")
             /\ op = SMC_OP_NOOP => Step.op = "noop" /\ buf' = buf
             /\ op # SMC_OP_NOOP => Step.lvl = 3 /\ buf' = RegDesc(Step.key, 3, v)
             /\ op = SMC_OP_GET_REG => Step.op = "get"
             /\ op = SMC_OP_SET_REG => Step.op = "set" /\ v = NewValue
      <3>1. CASE At_Step("get") /\ Step.lvl = 3 /\ buf' = RegDesc(Step.key, 3, {})
                 /\ Smc(SMC_OP_GET_REG, "test_ret")
        BY <3>1 DEF At_Step
      <3>2. CASE At_Step("set") /\ Step.lvl = 3 /\ buf' = RegDesc(Step.key, 3, NewValue)
                 /\ Smc(SMC_OP_SET_REG, "test_ret")
        BY <3>2, <1>n DEF At_Step
      <3>3. CASE At_Step("noop") /\ buf' = buf /\ Smc(SMC_OP_NOOP, "test_ret")
        BY <3>3 DEF At_Step
      <3> QED BY <1>2, <3>1, <3>2, <3>3 DEF TestSmc
    <2>2. /\ op # SMC_OP_NOOP => /\ buf' \in RegDescs /\ buf'.key = Step.key
                                 /\ buf'.lvl = 3 /\ buf'.data = v
          /\ buf' \in Descriptor(Request)
      <3>1. RegDesc(Step.key, 3, v) \in RegDescs
        BY <1>r
      <3>2. /\ RegDesc(Step.key, 3, v).key = Step.key
            /\ RegDesc(Step.key, 3, v).lvl = 3 /\ RegDesc(Step.key, 3, v).data = v
        BY DEF RegDesc
      <3> QED BY <2>1, <3>1, <3>2 DEF IInv, TypeOK, Descriptor
    <2>3. /\ el' = 3 /\ x0' = op /\ k3' = "smc" /\ ctx'.w = ctx.w
          /\ ctx'.k0 = ctx.k0 /\ ctx'.k1 = "test_ret" /\ ctx' \in Context
      BY <1>t, <2>1 DEF Smc, Context, K1
    <2>4. /\ UNCHANGED <<scr, secure_state, saved, fault, test>> /\ Step' = Step
      BY <1>2 DEF TestSmc, Quiet, Step
    <2>5. TypeOK'
      BY <1>2, <2>1, <2>2, <2>3 DEF TestSmc, Quiet, tcvars, IInv, TypeOK, K3
    <2>6. op # SMC_OP_NOOP => ForStep(buf)' /\ (op = SMC_OP_SET_REG => ScrData(buf)')
      BY <1>n, <2>1, <2>2, <2>3, <2>4 DEF ForStep, ScrData, OwnNS, Accessible
    <2>7. SmcRequest'
      BY <2>1, <2>2, <2>3, <2>4, <2>6 DEF SmcRequest
    <2>8. Linked([ctx EXCEPT !.k1 = "test_ret"])
      <3>1. /\ [ctx EXCEPT !.k1 = "test_ret"].k1 = "test_ret"
            /\ [ctx EXCEPT !.k1 = "test_ret"].k0 = "ran"
            /\ [ctx EXCEPT !.k1 = "test_ret"].w = ctx.w
        BY <1>t, <2>a DEF Context
      <3> QED BY <3>1 DEF Linked
    <2>9. ctx.w = SECURE => saved[NONSECURE].k1 = "dispatch"
      BY <2>a DEF IInv, Stacks, OtherWorldParked
    <2>10. Cur = 1 /\ "test_ret" \in K1 /\ op \in 0 .. 7
           /\ Step.op \in {"get", "set", "noop"}
      BY <1>t, <2>a, <2>1 DEF K1
    <2> QED BY <1>t, <2>1, <2>4, <2>5, <2>7, <2>8, <2>9, <2>10, <2>a, SmcCalls
  <1> QED BY <1>1, <1>2

\* A register macro back from its SVC or SMC.
LEMMA TestReturns ==
    ASSUME IInv, TestCallReturn
    PROVE  IInv'
  <1>1. /\ fault = NoFault /\ fault.st # "taken" /\ Cur = el /\ ctx \in Context
        /\ ctx.w \in World /\ desc \in [World -> Descriptor(Request)]
        /\ \/ el = 0 /\ ctx.k0 = "test_ret"
           \/ el = 1 /\ ctx.k1 = "test_ret"
    BY DEF TestCallReturn, NoFault, Cur, IInv, TypeOK, Context
  <1>2. /\ Active /\ StepInRange /\ test \in RunningTest
        /\ Step.op \in {"get", "set", "noop"} /\ k3 = "none"
        /\ el = 0 => ctx.k1 = "idle"
        /\ el = 1 => ctx.k0 = "ran"
    BY <1>1
       DEF Active, IInv, Tests, TestActive, StepInRange, Stacks, LevelsAgree,
           ContextsLinked, Linked
  <1>3. Step \in ScriptStep
    BY <1>2, StepType
  <1>4. PICK v \in SUBSET RegBits :
           /\ Fetched(v)
           /\ Step.op = "get" /\ Step.key = "SCR" /\ Accessible(Step.lvl) => OwnNS(v)
    <2>1. CASE el = 0
      <3>1. /\ Fetched(IF Step.op = "get" THEN desc[ctx.w].data ELSE {})
            /\ ctx.k0 = "test_ret"
        BY <2>1 DEF TestCallReturn
      <3>2. Step.op = "get" => ForStep(desc[ctx.w]) /\ ScrData(desc[ctx.w])
        BY <1>1, <2>1, <3>1 DEF IInv, Results, SvcResult
      <3> QED BY <3>1, <3>2 DEF ForStep, RegDescs, ScrData
    <2>2. CASE el = 1
      <3>1. /\ Fetched(IF Step.op = "get" THEN buf.data ELSE {})
            /\ ctx.k1 = "test_ret"
        BY <2>2 DEF TestCallReturn
      <3>2. Step.op = "get" => ForStep(buf) /\ ScrData(buf)
        BY <1>1, <2>2, <3>1 DEF IInv, Results, SmcResult
      <3> QED BY <3>1, <3>2 DEF ForStep, RegDescs, ScrData
    <2> QED BY <1>1, <2>1, <2>2
  <1>5. /\ test' \in RunningTest /\ test'.req = test.req /\ test'.pc = test.pc + 1
        /\ Step.op = "get" /\ Step.key = "SCR" => test'.loc["SCR"] = v
        /\ ~ (Step.op = "get" /\ Step.key = "SCR") =>
              test'.loc["SCR"] = test.loc["SCR"]
    BY <1>2, <1>3, <1>4, FetchedType
  <1>6. /\ ctx' \in Context /\ ctx'.w = ctx.w
        /\ el = 0 => ctx'.k0 = "test" /\ ctx'.k1 = "idle"
        /\ el = 1 => ctx'.k0 = "ran" /\ ctx'.k1 = "test"
    <2>1. CASE el = 0
      BY <1>1, <1>2, <2>1 DEF TestCallReturn, Context, K0
    <2>2. CASE el = 1
      BY <1>1, <1>2, <2>2 DEF TestCallReturn, Context, K1
    <2> QED BY <1>1, <2>1, <2>2
  <1>7. /\ UNCHANGED <<el, scr, secure_state, saved, k3, desc, buf, x0>>
        /\ fault' = NoFault /\ Cur' = el
    BY <1>1 DEF TestCallReturn, Quiet, Cur
  <1>8. TypeOK'
    BY <1>5, <1>6 DEF TestCallReturn, Quiet, tcvars, IInv, TypeOK
  <1>9. WorldConsistency'
    BY <1>6, <1>7 DEF IInv, WorldConsistency, NSBit
  <1>10. Stacks'
    BY <1>1, <1>2, <1>6, <1>7
       DEF IInv, Stacks, ContextsLinked, Linked, LevelsAgree, OtherWorldParked,
           NoFault
  <1>11. LocalScr'
    BY <1>2, <1>4, <1>5, <1>6, LocalScrAdvances
  <1>12. TestActive'
    BY <1>1, <1>5, <1>6, <1>7 DEF TestActive
  <1>13. Requests' /\ Results'
    BY <1>1, <1>2, <1>6, <1>7
       DEF Requests, SvcRequest, SmcRequest, Results, SmcResult, SvcResult
  <1> QED BY <1>8, <1>9, <1>10, <1>11, <1>12, <1>13 DEF IInv, Tests

\* READ_x() and WRITE_x() made by a test at EL1.
LEMMA TestDirectAccess ==
    ASSUME IInv, TestDirectGet \/ TestDirectSet
    PROVE  IInv'
  <1>1. /\ InTest /\ StepInRange /\ test \in RunningTest /\ Active
        /\ fault.st # "taken" /\ ctx \in Context /\ ctx.w \in World
        /\ Step \in ScriptStep /\ el = 1 /\ Step.lvl = 1
    <2>1. InTest /\ test.pc <= Len(Scripts[test.req])
      BY DEF TestDirectGet, TestDirectSet, At_Step
    <2>2. StepInRange
      BY <2>1, InTestFacts DEF StepInRange
    <2> QED BY <2>1, <2>2, InTestFacts, StepType
               DEF TestDirectGet, TestDirectSet
  <1>2. /\ fault' = NoFault /\ NoFault \in Fault
        /\ UNCHANGED <<el, x0, secure_state, saved, k3, desc, buf>>
    BY DEF TestDirectGet, TestDirectSet, Still, Quiet, Fault, NoFault
  <1>3. CASE TestDirectGet
    <2>1. PICK v \in IF Skipped THEN Garbage(Step.key) ELSE {ReadReg(Step.key)} :
             Fetched(v)
      BY <1>3 DEF TestDirectGet
    <2>2. v \in SUBSET RegBits
      BY <2>1
         DEF Garbage, BitsOf, ReadReg, RegBits, ScrBits, CptrBits, CpacrBits,
             SctlrBits, IInv, TypeOK, Context
    <2>3. /\ test' \in RunningTest /\ test'.req = test.req /\ test'.pc = test.pc + 1
          /\ Step.op = "get" /\ Step.key = "SCR" => test'.loc["SCR"] = v
          /\ ~ (Step.op = "get" /\ Step.key = "SCR") =>
                test'.loc["SCR"] = test.loc["SCR"]
      BY <1>1, <2>1, <2>2, FetchedType
    <2>4. ASSUME Step.op = "get", Step.key = "SCR", Accessible(Step.lvl)
          PROVE  OwnNS(v)
      <3>1. fault = NoFault
        BY <2>4 DEF IInv, Tests, TestActive
      <3>2. v = scr
        BY <2>1, <2>4, <3>1 DEF Skipped, NoFault, ReadReg
      <3> QED BY <1>1, <3>2 DEF OwnNS, IInv, WorldConsistency, NSBit
    <2>5. TypeOK'
      BY <1>2, <1>3, <2>3 DEF TestDirectGet, Still, Quiet, tcvars, IInv, TypeOK
    <2> QED BY <1>1, <1>2, <1>3, <2>3, <2>4, <2>5, TestAdvances
               DEF TestDirectGet, Still
  <1>4. CASE TestDirectSet
    <2>1. Step.op = "set" /\ Advance
      BY <1>4 DEF TestDirectSet, At_Step
    <2>2. /\ NewValue \in SUBSET RegBits
          /\ Step.key = "SCR" /\ Accessible(Step.lvl) => OwnNS(NewValue)
      BY <1>1, <2>1, NewValueKeepsNS
    <2>3. /\ scr' = scr \/ (/\ scr' = NewValue \cap ScrBits
                            /\ Step.key = "SCR" /\ Accessible(Step.lvl))
          /\ cptr' \in {cptr, NewValue \cap CptrBits}
          /\ ctx' \in {ctx, WrittenCtx(ctx, Step.key, NewValue)}
      BY <1>4, <1>1
         DEF TestDirectSet, WriteReg, TrapOf, MonRegTrap, AccessInsn, Trap,
             NoTrap, Accessible
    <2>4. ctx' \in Context /\ ctx'.w = ctx.w /\ ctx'.k0 = ctx.k0 /\ ctx'.k1 = ctx.k1
      BY <1>1, <2>3 DEF WrittenCtx, Context
    <2>5. "NS" \in scr <=> ctx.w = NONSECURE
      BY <1>1 DEF IInv, WorldConsistency, NSBit
    <2>6. /\ scr' \in SUBSET ScrBits /\ cptr' \in SUBSET CptrBits
          /\ "NS" \in scr' <=> "NS" \in scr
      BY <2>2, <2>3, <2>5 DEF OwnNS, ScrBits, IInv, TypeOK
    <2>7. /\ test' \in RunningTest /\ test'.req = test.req
          /\ test'.pc = test.pc + 1 /\ test'.loc = test.loc
      BY <1>1, <2>1, AdvanceType
    <2>8. TypeOK'
      BY <1>2, <1>4, <2>4, <2>6, <2>7
         DEF TestDirectSet, Quiet, tcvars, IInv, TypeOK
    <2> QED BY <1>1, <1>2, <2>1, <2>4, <2>6, <2>7, <2>8, TestAdvances
  <1> QED BY <1>3, <1>4

\* A test function returning through run_test() to the loop or handler that
\* called it.
LEMMA TestFinishes ==
    ASSUME IInv, TestEnd
    PROVE  IInv'
  <1>1. /\ InTest /\ test \in RunningTest /\ Cur = el /\ ctx \in Context
        /\ ctx.w \in World /\ fault.st # "taken"
        /\ \/ el = 0 /\ ctx.k0 = "test" /\ ctx.k1 = "idle" /\ k3 = "none"
           \/ el = 1 /\ ctx.k0 = "ran" /\ ctx.k1 = "test" /\ k3 = "none"
           \/ el = 3 /\ ctx.k0 = "ran" /\ ctx.k1 = "dispatch" /\ k3 = "test"
    BY InTestFacts DEF TestEnd
  <1>2. fault = NoFault
    <2>1. test.pc > Len(Scripts[test.req])
      BY DEF TestEnd
    <2>2. Len(Scripts[test.req]) \in Nat /\ test.pc \in Nat
      BY <1>1, ScriptsAssumption DEF RunningTest
    <2> QED BY <2>1, <2>2 DEF IInv, Tests, TestActive, StepInRange
  <1>3. /\ UNCHANGED <<secure_state, saved, fault, cptr, desc, buf, power>>
        /\ test' = NoTest /\ fault' = NoFault
    BY <1>2 DEF TestEnd, Quiet
  <1>4. ctx.w = SECURE => saved[NONSECURE].k1 = "dispatch"
    BY <1>1 DEF IInv, Stacks, OtherWorldParked
  <1>5. CASE el = 0
    <2>1. /\ UNCHANGED <<el, scr, x0, k3>> /\ ctx' \in Context /\ ctx'.w = ctx.w
          /\ ctx'.k0 = "ran" /\ ctx'.k1 = "idle" /\ Cur' = 0 /\ k3 = "none"
      BY <1>1, <1>3, <1>5 DEF TestEnd, Context, K0, Cur, NoFault
    <2>2. TypeOK'
      BY <1>3, <2>1 DEF TestEnd, Quiet, tcvars, IInv, TypeOK
    <2>3. WorldConsistency'
      BY <1>3, <2>1 DEF IInv, WorldConsistency, NSBit
    <2>4. Stacks'
      BY <1>1, <1>3, <1>4, <2>1
         DEF IInv, Stacks, ContextsLinked, Linked, LevelsAgree,
             OtherWorldParked, NoFault
    <2>5. Tests' /\ Requests' /\ Results'
      BY <1>3, <2>1
         DEF Tests, TestActive, LocalScr, Active, Requests, SvcRequest,
             SmcRequest, Results, SmcResult, SvcResult
    <2> QED BY <2>2, <2>3, <2>4, <2>5 DEF IInv
  <1>6. CASE el = 1
    <2>1. SvcReturn(ctx, 0) /\ UNCHANGED <<scr, k3>> /\ ctx.k0 = "ran"
      BY <1>1, <1>6 DEF TestEnd
    <2>2. ctx' \in Context /\ ctx'.k0 = "ran" /\ el' = 0 /\ x0' = 0
      BY <1>1, <2>1 DEF SvcReturn, Context, K1
    <2>3. TypeOK'
      BY <1>3, <2>1, <2>2 DEF TestEnd, Quiet, tcvars, IInv, TypeOK
    <2>4. SvcResult'
      BY <2>2 DEF SvcResult
    <2> QED BY <1>1, <1>3, <1>4, <1>6, <2>1, <2>3, <2>4, SvcReturns
  <1>7. CASE el = 3
    <2>1. /\ el' = 1 /\ x0' = 0 /\ k3' = "none" /\ UNCHANGED <<ctx, scr>>
          /\ ctx.k1 = "dispatch" /\ k3 = "test"
      BY <1>1, <1>7 DEF TestEnd, SmcReturn
    <2>2. TypeOK'
      BY <1>3, <2>1 DEF TestEnd, Quiet, tcvars, IInv, TypeOK, K3
    <2>3. SmcResult'
      BY <2>1 DEF SmcResult
    <2> QED BY <1>1, <1>2, <1>3, <1>4, <2>1, <2>2, <2>3, SmcReturnsToCaller
  <1> QED BY <1>1, <1>5, <1>6, <1>7

\* Every step of a test function, at any level.
LEMMA TestStep ==
    ASSUME IInv, TestNext PROVE IInv'
  BY TestQuietSteps, TestTraps, TestCalls, TestReturns, TestDirectAccess,
     TestFinishes
     DEF TestNext

=============================================================================
