----------------------------- MODULE TzProofs -------------------------------
(***************************************************************************)
(* The theorems about the composed system.  IInv is an inductive invariant *)
(* and gives the agreement of the worlds, of the parked code and of the    *)
(* descriptors.  FullInv adds where the request under way is, how far the  *)
(* table is executed by then and which pages are mapped by then: the       *)
(* system implements TestRunner, tests run only where the test control     *)
(* block is mapped, and its counters are accurate.                         *)
(***************************************************************************)
EXTENDS TzImageProofs, TzTestProofs

USE DEF SECURE, NONSECURE, World, Level,
    SMC_OP_NOOP, SMC_OP_YIELD, SMC_OP_EXIT, SMC_OP_MAP, SMC_OP_GET_REG,
    SMC_OP_SET_REG, SMC_OP_TEST, SMC_OP_DISPATCH,
    SVC_OP_YIELD, SVC_OP_EXIT, SVC_OP_MAP, SVC_OP_GET_REG, SVC_OP_SET_REG,
    SVC_OP_TEST, SVC_OP_DISPATCH, SVC_OP_GET_SYSCNTL, SVC_OP_ALLOC

\* At reset, before el3_start(), the inductive invariant holds.
THEOREM InitEstablishesIInv == Init => IInv
  <1> SUFFICES ASSUME Init PROVE IInv
    OBVIOUS
  <1>a. ctx = [w |-> SECURE, k0 |-> "off", k1 |-> "init",
               cpacr |-> CpacrBits, sctlr |-> {}]
    BY DEF Init, FreshContext
  <1>b. saved = [w \in World |-> FreshContext(w)]
    BY DEF Init
  <1>c. /\ \A w \in World : /\ FreshContext(w) \in Context
                            /\ FreshContext(w).w = w
                            /\ FreshContext(w).k0 = "off"
                            /\ FreshContext(w).k1 = "init"
        /\ ctx \in Context
    BY <1>a DEF FreshContext, Context, K0, K1
  <1>1. TypeOK
    BY <1>b, <1>c
       DEF Init, TypeOK, K3, Fault, NoFault, Descriptor, Clear, ExcpClass,
           Space, Page, Counters
  <1>2. WorldConsistency
    BY <1>a, <1>b, <1>c DEF Init, WorldConsistency, NSBit
  <1>3. Cur = 3 /\ fault.st = "none"
    BY DEF Init, Cur, NoFault
  <1>4. Stacks
    BY <1>a, <1>b, <1>c, <1>3
       DEF Init, Stacks, ContextsLinked, Linked, LevelsAgree, OtherWorldParked
  <1>5. Tests /\ Requests /\ Results
    BY <1>a, <1>3
       DEF Init, Tests, TestActive, LocalScr, Active, Requests, SvcRequest,
           SmcRequest, Results, SmcResult, SvcResult
  <1> QED BY <1>1, <1>2, <1>4, <1>5 DEF IInv

\* Every step of every image, every trap and every world switch preserves the
\* inductive invariant.
THEOREM NextPreservesIInv == IInv /\ [Next \/ Off]_vars => IInv'
  <1> SUFFICES ASSUME IInv, [Next \/ Off]_vars PROVE IInv'
    OBVIOUS
  <1>1. CASE El3Next
    BY <1>1, MonitorStep
  <1>2. CASE El1Next
    BY <1>2, KernelStep
  <1>3. CASE El0Next
    BY <1>3, El0Calls, El0Stays DEF El0Next
  <1>4. CASE TestNext
    BY <1>4, TestStep
  <1>5. CASE UNCHANGED vars
    <2>1. /\ TypeOK' /\ WorldConsistency'
      BY <1>5 DEF vars, IInv, TypeOK, WorldConsistency, NSBit
    <2>2. Stacks'
      BY <1>5
         DEF vars, IInv, Stacks, ContextsLinked, Linked, LevelsAgree,
             OtherWorldParked, Cur
    <2>3. Tests'
      BY <1>5
         DEF vars, IInv, Tests, TestActive, LocalScr, Active, StepInRange,
             Step, Accessible, OwnNS
    <2>4. UNCHANGED <<Cur, Step>>
      BY <1>5 DEF vars, Cur, Step
    <2>5. Requests' /\ Results'
      BY <1>5, <2>4
         DEF vars, IInv, Requests, SvcRequest, SmcRequest, Results, SmcResult,
             SvcResult, ForStep, ScrData, OwnNS, Accessible, Delivered, WaitsIn
    <2> QED BY <2>1, <2>2, <2>3, <2>5 DEF IInv
  <1> QED BY <1>1, <1>2, <1>3, <1>4, <1>5 DEF Next, Off

\* The inductive invariant holds in every reachable state, for any test
\* functions within ScriptsAssumption and ScrDisciplineAssumption, any tables and
\* both architectures.
THEOREM Inductive == Spec => []IInv
  BY InitEstablishesIInv, NextPreservesIInv, PTL DEF Spec

\* Type correctness: el3_handle_smc(), el1_handle_svc() and the EL0 loops never
\* read a member a descriptor does not have, and secure_state stays a bit.
THEOREM TypeCorrect == Spec => []TypeOK
  <1>1. IInv => TypeOK
    BY DEF IInv
  <1> QED BY <1>1, Inductive, PTL

\* el3.c's secure_state, SCR.NS and the loaded EL1&0 context name the same world
\* in every state, although the tests rewrite SCR and the monitor switches on
\* whatever SCR.NS says.
THEOREM WorldsAgree == Spec => []WorldConsistency
  <1>1. IInv => WorldConsistency
    BY DEF IInv
  <1> QED BY <1>1, Inductive, PTL

\* Whenever nonsecure code runs, the secure service waits in its YIELD; whenever
\* secure code runs, the nonsecure kernel waits in the SMC that let it run.
THEOREM ServiceAlwaysParked == Spec => []ServiceParked
  <1>1. IInv => ServiceParked
    BY DEF IInv, Stacks, OtherWorldParked, ContextsLinked, Linked,
           ServiceParked
  <1> QED BY <1>1, Inductive, PTL

\* Every handler of an opcode finds the union member the opcode means, in EL0's
\* descriptor and in the interop buffer.
THEOREM DescriptorsMatch == Spec => []OpMatchesDescriptor
  <1>1. ASSUME IInv PROVE OpMatchesDescriptor
    <2>a. /\ \A d \in MapDescs : d.kind = "map"
          /\ \A d \in RegDescs : d.kind = "reg"
          /\ \A d \in TestDescs : d.kind = "test"
          /\ \A d \in DispDescs(Request) : d.kind = "disp"
      BY DEF MapDescs, RegDescs, TestDescs, DispDescs
    <2>b. ctx.w \in World /\ ctx \in Context
      BY <1>1 DEF IInv, TypeOK, Context
    <2>1. ASSUME At(3), k3 = "smc" PROVE buf.kind \in KindOf(x0)
      <3>1. SmcRequest
        BY <1>1 DEF IInv, Requests
      <3> QED BY <2>1, <2>a, <3>1 DEF SmcRequest, ForStep, KindOf
    <2>2. ASSUME AtEl1("svc") PROVE desc[ctx.w].kind \in KindOf(x0)
      <3>1. SvcRequest /\ Cur = 1 /\ ctx.k1 = "svc"
        BY <1>1, <2>2 DEF IInv, Requests, AtEl1, At, Cur, NoFault
      <3> QED BY <2>a, <2>b, <3>1 DEF SvcRequest, ForStep, KindOf
    <2>3. ASSUME AtEl0(SECURE, "loop") PROVE desc[SECURE].kind \in KindOf(x0)
      <3>1. SvcResult /\ Cur = 0 /\ ctx.w = SECURE /\ ctx.k0 = "loop"
        BY <1>1, <2>3 DEF IInv, Results, AtEl0, At, Cur, NoFault
      <3> QED BY <2>a, <3>1 DEF SvcResult, Delivered, KindOf
    <2>4. ASSUME AtEl1("test_smc") PROVE buf.kind = "test"
      <3>1. SmcResult /\ Cur = 1 /\ ctx.k1 = "test_smc"
        BY <1>1, <2>4 DEF IInv, Results, AtEl1, At, Cur, NoFault
      <3> QED BY <2>a, <3>1 DEF SmcResult
    <2> QED BY <2>1, <2>2, <2>3, <2>4 DEF OpMatchesDescriptor
  <1> QED BY <1>1, Inductive, PTL

----------------------------------------------------------------------------
(***************************************************************************)
(* The whole run.  Most steps touch nothing FullInv adds to IInv:          *)
(* Undisturbed and SamePlace dispose of them, and the steps that move a    *)
(* request, execute it or map a page are taken one by one.                 *)
(***************************************************************************)
\* The facts about one state that every step below starts from.
LEMMA StateFacts ==
    ASSUME IInv
    PROVE  /\ ctx \in Context /\ saved \in [World -> Context]
           /\ saved[SECURE] \in Context /\ saved[NONSECURE] \in Context
           /\ Linked(ctx) /\ Linked(saved[SECURE]) /\ Linked(saved[NONSECURE])
           /\ saved[SECURE].w = SECURE /\ saved[NONSECURE].w = NONSECURE
           /\ ctx.w \in World /\ Ns \in Context
           /\ idx \in Nat \ {0} /\ table \in Seq(Request) /\ Len(table) \in Nat
           /\ executed \in Seq([req : Request, el : Level, state : World])
           /\ Len(executed) \in Nat
           /\ Cur \in Level /\ (Cur = 3 <=> k3 # "none")
           /\ tcmap \in [Space -> Page]
  <1>1. /\ ctx \in Context /\ saved \in [World -> Context]
        /\ idx \in Nat \ {0} /\ table \in Seq(Request)
        /\ executed \in Seq([req : Request, el : Level, state : World])
        /\ el \in Level /\ fault \in Fault /\ tcmap \in [Space -> Page]
    BY TablesAssumption DEF IInv, TypeOK
  <1>2. saved[SECURE] \in Context /\ saved[NONSECURE] \in Context /\ Ns \in Context
    BY <1>1 DEF Ns
  <1>3. Cur \in Level
    BY <1>1 DEF Cur, Fault
  <1>4. /\ Linked(ctx) /\ Linked(saved[SECURE]) /\ Linked(saved[NONSECURE])
        /\ saved[SECURE].w = SECURE /\ saved[NONSECURE].w = NONSECURE
        /\ (Cur = 3 <=> k3 # "none")
    BY DEF IInv, Stacks, ContextsLinked, LevelsAgree, WorldConsistency
  <1>5. ctx.w \in World
    BY <1>1 DEF Context
  <1> QED BY <1>1, <1>2, <1>3, <1>4, <1>5

\* A DISPATCH under way is one the nonsecure EL0 waits for in run_test(), and
\* whoever is at work on it reads a dispatch descriptor.
LEMMA DispatchOrigin ==
    ASSUME IInv, InFlight(SVC_OP_DISPATCH)
    PROVE  /\ Ns.k0 = "ran" /\ Carried \in DispDescs(Request)
           /\ k3 = "smc" => ctx.k1 = "dispatch"
           /\ Cur = 1 /\ ctx.k1 = "yield" => ctx.w = SECURE
  <1>a. /\ Linked(ctx) /\ Linked(saved[NONSECURE]) /\ ctx.w \in World
        /\ saved[NONSECURE].w = NONSECURE /\ OtherWorldParked
        /\ (Cur = 3 <=> k3 # "none")
    BY StateFacts DEF IInv, Stacks
  <1>1. CASE Cur = 1 /\ ctx.k1 = "svc"
    <2>1. ctx.k0 = "ran" /\ desc[ctx.w] \in DispDescs(Request)
      BY <1>1 DEF IInv, Requests, SvcRequest, InFlight
    <2> QED BY <1>1, <1>a, <2>1 DEF Ns, Carried, OtherWorldParked, Linked
  <1>2. CASE Cur = 1 /\ ctx.k1 = "yield"
    <2>1. ctx.w = SECURE /\ saved[NONSECURE].k1 = "dispatch" /\ buf \in DispDescs(Request)
      BY <1>2, <1>a DEF IInv, Results, SmcResult, InFlight, WaitsIn, Delivered, Linked
    <2> QED BY <1>2, <1>a, <2>1 DEF Ns, Carried, Linked
  <1>3. CASE k3 = "smc"
    <2>1. ctx.k1 = "dispatch" /\ buf \in DispDescs(Request)
      BY <1>3 DEF IInv, Requests, SmcRequest, InFlight
    <2> QED BY <1>3, <1>a, <2>1 DEF Ns, Carried, OtherWorldParked, Linked
  <1>4. CASE Cur = 0 /\ ctx.w = SECURE /\ ctx.k0 = "loop"
    <2>1. saved[NONSECURE].k1 = "dispatch" /\ desc[SECURE] \in DispDescs(Request)
      BY <1>4 DEF IInv, Results, SvcResult, InFlight, WaitsIn, Delivered
    <2>2. ctx.k1 = "idle"
      BY <1>4 DEF IInv, Stacks, LevelsAgree
    <2> QED BY <1>4, <1>a, <2>1, <2>2 DEF Ns, Carried, Linked
  <1> QED BY <1>1, <1>2, <1>3, <1>4 DEF InFlight

\* A step away from every request: nothing is executed or mapped and the
\* nonsecure EL0 stays where it is.
LEMMA Undisturbed ==
    ASSUME FullInv, Ns'.k0 = Ns.k0,
           ~ InFlight(SVC_OP_MAP), ~ InFlight(SVC_OP_MAP)',
           ~ InFlight(SVC_OP_DISPATCH), ~ InFlight(SVC_OP_DISPATCH)',
           UNCHANGED <<table, idx, executed, tcmap>>,
           CountsKept', Allocated' => Allocated,
           ctx'.k1 = "exit" => ctx'.k0 = "exit",
           (fault.st = "taken" /\ fault.to = 3 =>
               fault.ec \in {"SYSINSN", "WFI_WFE", "SIMD"})'
    PROVE  TableProgress' /\ ControlMapped' /\ CountsKept'
  <1>1. EntryDone' <=> EntryDone
    BY DEF EntryDone
  <1>2. TableProgress'
    BY <1>1 DEF FullInv, TableProgress
  <1>3. ControlMapped'
    BY DEF FullInv, ControlMapped, PaSent
  <1> QED BY <1>2, <1>3

\* A step that leaves the running level, its labels and the descriptors alone.
LEMMA SamePlace ==
    ASSUME FullInv, UNCHANGED <<Cur, x0, ctx, saved, k3, desc, buf,
                                table, idx, executed, tcmap>>,
           CountsKept',
           (fault.st = "taken" /\ fault.to = 3 =>
               fault.ec \in {"SYSINSN", "WFI_WFE", "SIMD"})'
    PROVE  TableProgress' /\ ControlMapped' /\ CountsKept'
  <1>1. /\ Ns' = Ns /\ Carried' = Carried
        /\ InFlight(SVC_OP_MAP)' <=> InFlight(SVC_OP_MAP)
        /\ InFlight(SVC_OP_DISPATCH)' <=> InFlight(SVC_OP_DISPATCH)
    BY DEF Ns, Carried, InFlight
  <1>2. TableProgress'
    BY <1>1 DEF FullInv, TableProgress, EntryDone
  <1>3. ControlMapped'
    BY <1>1 DEF FullInv, ControlMapped, PaSent, Allocated
  <1> QED BY <1>2, <1>3

\* Exceptions to EL3 have a class that el3_handle_exception() returns from.
LEMMA TrapClasses ==
    ASSUME NEW insn, TrapOf(insn).to = 3
    PROVE  TrapOf(insn).ec \in {"SYSINSN", "WFI_WFE", "SIMD"}
  BY DEF TrapOf, WfxTrap, FpTrap, MonRegTrap, Trap, NoTrap

\* TEST_CONDITION on the page of the test control block, or with the counts
\* already lost to page zero, keeps the count of verdicts.
LEMMA CountedHere ==
    ASSUME IInv, CountsKept, NEW pass, TEST_CONDITION(pass),
           "zero" \notin UninitPa => tcmap[HereSpace] = "tc"
    PROVE  CountsKept'
  <1>1. "tc" \in Page /\ cnt \in [Page -> Counters]
    BY DEF Page, IInv, TypeOK
  <1> QED BY <1>1 DEF CountsKept, TEST_CONDITION, Tally

\* The world switch keeps the nonsecure context, wherever it is.
LEMMA SwitchKeepsNs ==
    ASSUME IInv, NEW ret, SmcReturn(ret) PROVE Ns'.k0 = Ns.k0
  <1>1. CASE ret = 0
    BY <1>1 DEF SmcReturn, Ns
  <1>2. CASE ret # 0
    <2>1. monitor_switch /\ secure_state' = 1 - secure_state
      BY <1>2 DEF SmcReturn
    <2>2. /\ ctx'.w = 1 - ctx.w /\ ctx'.k0 = saved[1 - ctx.w].k0
          /\ saved' = [saved EXCEPT ![ctx.w] = ctx]
      BY <2>1, WorldSwitch
    <2> QED BY <2>2, StateFacts DEF Ns
  <1> QED BY <1>1, <1>2
----------------------------------------------------------------------------
(***************************************************************************)
(* The monitor.                                                            *)
(***************************************************************************)

\* el3_map_mem() on the way of the one map request: EL3 maps the page, and the
\* request goes on to the secure world with the same page.
LEMMA MapForwarded ==
    ASSUME FullInv, IInv', SmcMap
    PROVE  TableProgress' /\ ControlMapped' /\ CountsKept'
  <1>a. /\ At(3) /\ k3 = "smc" /\ x0 = SVC_OP_MAP /\ Cur = 3 /\ IInv
        /\ fault = NoFault /\ InFlight(SVC_OP_MAP)
    BY DEF SmcMap, Monitor, At, Cur, NoFault, InFlight, FullInv
  <1>b. ctx.k1 = "map" /\ buf \in MapDescs /\ ctx.w = NONSECURE /\ ctx.k0 = "mapped"
    BY <1>a, StateFacts DEF IInv, Requests, SmcRequest, Linked
  <1>c. Carried = buf /\ buf.type = OP_MAP_ALL /\ PaSent(buf.pa) /\ tcmap[NONSECURE] = "tc"
    BY <1>a, <1>b DEF FullInv, ControlMapped, Carried, Allocated, Ns
  <1>d. /\ buf' = [buf EXCEPT !.type = @ \ {"EL3"}] /\ SmcReturn(SVC_OP_MAP)
        /\ tcmap' = [tcmap EXCEPT ![3] = buf.pa]
        /\ UNCHANGED <<cnt, judged, table, idx, executed, fault>>
    BY <1>c DEF SmcMap, OP_MAP_ALL, MapTarget, runvars
  <1>e. /\ monitor_switch /\ secure_state' = 1 - secure_state
        /\ el' = 1 /\ x0' = SVC_OP_MAP /\ k3' = "none"
    BY <1>d DEF SmcReturn
  <1>f. Cur' = 1
    BY <1>a, <1>d, <1>e DEF Cur, NoFault
  <1>g. ctx'.w = SECURE /\ ctx'.k1 = "yield"
    BY <1>a, <1>b, <1>e, WorldSwitch DEF IInv, Stacks, OtherWorldParked
  <1>h. Ns'.k0 = "mapped"
    BY <1>a, <1>b, <1>d, SwitchKeepsNs DEF Ns
  <1>i. ~ EntryDone /\ ~ EntryDone' /\ Ns.k0 = "mapped"
    BY <1>b, <1>h DEF EntryDone, Ns
  <1>j. InFlight(SVC_OP_MAP)' /\ ~ InFlight(SVC_OP_DISPATCH)' /\ Carried' = buf'
    BY <1>e, <1>f, <1>g DEF InFlight, Carried
  <1>1. TableProgress'
    BY <1>a, <1>d, <1>g, <1>h, <1>i, <1>j DEF FullInv, TableProgress, NoFault
  <1>2. /\ PaSent(buf'.pa) /\ PaSent(tcmap'[3]) /\ tcmap'[NONSECURE] = "tc"
    <2>1. 3 \in Space /\ NONSECURE \in Space /\ tcmap \in [Space -> Page]
      BY <1>a, StateFacts DEF Space
    <2>2. buf'.pa = buf.pa
      BY <1>b, <1>d DEF MapDescs
    <2> QED BY <1>c, <1>d, <2>1, <2>2
  <1>3. ControlMapped'
    BY <1>2, <1>g, <1>j DEF ControlMapped, PaSent
  <1>4. CountsKept'
    BY <1>d DEF FullInv, CountsKept
  <1> QED BY <1>1, <1>3, <1>4

\* SMC_OP_DISPATCH, for a test of EL3 or for the other world: the request is the
\* entry under the index, and running it is running that entry where it belongs.
LEMMA DispatchAtMonitor ==
    ASSUME FullInv, IInv', SmcDispatchHere \/ SmcDispatchAway
    PROVE  TableProgress' /\ ControlMapped' /\ CountsKept'
  <1>a. /\ At(3) /\ k3 = "smc" /\ x0 = SVC_OP_DISPATCH /\ Cur = 3 /\ IInv
        /\ fault = NoFault /\ InFlight(SVC_OP_DISPATCH) /\ ~ InFlight(SVC_OP_MAP)
    BY DEF SmcDispatchHere, SmcDispatchAway, Monitor, At, Cur, NoFault, InFlight, FullInv
  <1>b. /\ Ns.k0 = "ran" /\ Carried = buf /\ buf.req = table[idx] /\ ctx.k1 = "dispatch"
        /\ ~ EntryDone
    BY <1>a, DispatchOrigin DEF Carried, FullInv, TableProgress, EntryDone
  <1>1. CASE SmcDispatchHere
    <2>1. /\ UNCHANGED <<el, x0, ctx, saved, fault, table, idx, buf, tcmap, cnt, judged>>
          /\ k3' = "test"
          /\ executed' = Append(executed, [req |-> buf.req, el |-> 3, state |-> secure_state])
      BY <1>1 DEF SmcDispatchHere, StartTest, tcvars
    <2>2. Cur' = Cur /\ Ns' = Ns
      BY <2>1 DEF Cur, Ns
    <2>3. ~ InFlight(SVC_OP_DISPATCH)' /\ ~ InFlight(SVC_OP_MAP)'
      BY <1>a, <2>1, <2>2 DEF InFlight
    <2>4. EntryDone'
      BY <1>b, <2>2, <2>3 DEF EntryDone
    <2>5. Len(executed') = Len(executed) + 1
      BY <1>a, <2>1, StateFacts DEF IInv, TypeOK
    <2>6. TableProgress'
      BY <1>a, <1>b, <2>1, <2>2, <2>3, <2>4, <2>5, StateFacts
         DEF FullInv, TableProgress, NoFault
    <2>7. ControlMapped'
      BY <1>a, <2>1, <2>2, <2>3 DEF FullInv, ControlMapped, PaSent, Allocated
    <2> QED BY <2>1, <2>6, <2>7 DEF FullInv, CountsKept
  <1>2. CASE SmcDispatchAway
    <2>1. /\ SmcReturn(SVC_OP_DISPATCH)
          /\ UNCHANGED <<table, idx, executed, tcmap, cnt, judged, buf, fault>>
      BY <1>2 DEF SmcDispatchAway, runvars, tcvars
    <2>2. /\ monitor_switch /\ secure_state' = 1 - secure_state
          /\ el' = 1 /\ x0' = SVC_OP_DISPATCH /\ k3' = "none"
      BY <2>1 DEF SmcReturn
    <2>3. Cur' = 1 /\ Ns'.k0 = Ns.k0
      BY <1>a, <2>1, <2>2, SwitchKeepsNs DEF Cur, NoFault
    <2>4. ctx.w = NONSECURE
      BY <1>2, <1>a, StateFacts DEF SmcDispatchAway, IInv, Requests, SmcRequest, WorldConsistency
    <2>5. ctx'.w = SECURE /\ ctx'.k1 = "yield"
      BY <1>a, <2>2, <2>4, WorldSwitch DEF IInv, Stacks, OtherWorldParked
    <2>6. /\ InFlight(SVC_OP_DISPATCH)' /\ ~ InFlight(SVC_OP_MAP)'
          /\ Carried' = Carried /\ ~ EntryDone'
      BY <1>b, <2>1, <2>2, <2>3, <2>5 DEF InFlight, Carried, EntryDone
    <2>7. TableProgress'
      BY <1>a, <1>b, <2>1, <2>3, <2>5, <2>6 DEF FullInv, TableProgress, NoFault
    <2>8. ControlMapped'
      BY <1>a, <1>b, <2>1, <2>3, <2>6 DEF FullInv, ControlMapped, PaSent, Allocated
    <2> QED BY <2>1, <2>7, <2>8 DEF FullInv, CountsKept
  <1> QED BY <1>1, <1>2

\* Every other step of the monitor leaves the request and the table alone.
LEMMA MonitorKeeps ==
    ASSUME FullInv, IInv', El3Next
    PROVE  TableProgress' /\ ControlMapped' /\ CountsKept'
  <1>a. IInv
    BY DEF FullInv
  <1>1. CASE El3Start
    <2>1. /\ el = 3 /\ fault = NoFault /\ k3 = "start" /\ el' = 1 /\ k3' = "none"
          /\ ctx' = Restored(saved[SECURE])
          /\ UNCHANGED <<x0, saved, fault, table, idx, executed, tcmap, cnt, judged>>
      BY <1>1 DEF El3Start, At, runvars, tcvars
    <2>2. /\ Cur = 3 /\ Cur' = 1 /\ ctx.k1 = "init" /\ ctx.w = SECURE
          /\ saved[SECURE].k1 = "init"
      BY <1>a, <2>1 DEF Cur, NoFault, IInv, Stacks, LevelsAgree
    <2>3. ctx'.w = SECURE /\ ctx'.k1 = "init"
      BY <1>a, <2>1, <2>2, StateFacts DEF Restored, Context
    <2>4. Ns' = Ns
      BY <2>1, <2>2, <2>3 DEF Ns
    <2> QED BY <2>1, <2>2, <2>3, <2>4, Undisturbed
               DEF InFlight, FullInv, CountsKept, Allocated, NoFault
  <1>2. CASE SmcYield \/ SmcNoop \/ SmcTest \/ SmcGetReg
    <2>1. PICK ret \in {0, SVC_OP_YIELD, SVC_OP_TEST} : SmcReturn(ret)
      BY <1>2 DEF SmcYield, SmcNoop, SmcTest, SmcGetReg
    <2>2. /\ k3 = "smc" /\ x0 \in {0, 1, 4, 6} /\ fault = NoFault
          /\ UNCHANGED <<fault, table, idx, executed, tcmap, cnt, judged>>
      BY <1>2 DEF SmcYield, SmcNoop, SmcTest, SmcGetReg, Monitor, At, runvars, tcvars
    <2>3. el' = 1 /\ x0' = ret /\ k3' = "none"
      BY <2>1 DEF SmcReturn
    <2>4. ctx'.k1 # "exit" /\ Cur' = 1
      BY <2>2, <2>3 DEF IInv, Stacks, LevelsAgree, Cur, NoFault
    <2>5. Ns'.k0 = Ns.k0
      BY <1>a, <2>1, SwitchKeepsNs
    <2> QED BY <2>2, <2>3, <2>4, <2>5, Undisturbed
               DEF InFlight, FullInv, CountsKept, Allocated, NoFault
  <1>3. CASE SmcExit
    BY <1>3, SamePlace
       DEF SmcExit, At, Cur, FullInv, TableProgress, CountsKept, runvars, tcvars
  <1>4. CASE SmcMap
    BY <1>4, MapForwarded
  <1>5. CASE SmcDispatchHere \/ SmcDispatchAway
    BY <1>5, DispatchAtMonitor
  <1>6. CASE SmcSetReg
    <2>1. /\ k3 = "smc" /\ x0 = SMC_OP_SET_REG /\ fault = NoFault
          /\ el' = 1 /\ x0' = 0 /\ k3' = "none" /\ ctx.w \in World
          /\ UNCHANGED <<saved, fault, table, idx, executed, tcmap, cnt, judged>>
      BY <1>6, <1>a, StateFacts DEF SmcSetReg, Monitor, At, runvars, tcvars
    <2>2. ctx'.w = ctx.w /\ ctx'.k0 = ctx.k0
      BY <1>6, <1>a, StateFacts DEF SmcSetReg, WrittenCtx, Context
    <2>3. ctx'.k1 # "exit" /\ Cur' = 1
      BY <2>1 DEF IInv, Stacks, LevelsAgree, Cur, NoFault
    <2>4. Ns'.k0 = Ns.k0
      BY <2>1, <2>2 DEF Ns
    <2> QED BY <2>1, <2>3, <2>4, Undisturbed
               DEF InFlight, FullInv, CountsKept, Allocated, NoFault
  <1>7. CASE El3HandleException
    <2>1. fault.ec \in {"SYSINSN", "WFI_WFE", "SIMD"} /\ fault.st = "taken"
      BY <1>7 DEF El3HandleException, FullInv, TableProgress
    <2>2. /\ el' = fault.from /\ fault' \in {[st |-> "skipped"], NoFault}
          /\ UNCHANGED <<x0, ctx, saved, k3, desc, buf, table, idx, executed, tcmap, cnt, judged>>
      BY <1>7, <2>1 DEF El3HandleException, runvars, tcvars
    <2>3. fault'.st # "taken" /\ Cur' = Cur
      BY <2>1, <2>2 DEF Cur, NoFault
    <2> QED BY <2>2, <2>3, SamePlace DEF FullInv, CountsKept
  <1> QED BY <1>1, <1>2, <1>3, <1>4, <1>5, <1>6, <1>7 DEF El3Next

----------------------------------------------------------------------------
(***************************************************************************)
(* The kernels.                                                            *)
(***************************************************************************)

\* Start-up of an EL1 image, and the calls of a program that has not begun to
\* map or to test: no request is under way and nothing is executed.
LEMMA Booting ==
    ASSUME FullInv, IInv', ctx'.w = ctx.w, UNCHANGED <<saved, table, idx, executed, tcmap, cnt, judged>>,
           ctx.k0 \in {"off", "main", "got_syscntl"},
           ctx'.k0 \in {"main", "got_syscntl", "alloced"},
           ctx'.k0 = "alloced" => Cur' = 1, ctx'.k1 # "exit", fault' = NoFault,
           ~ InFlight(SVC_OP_MAP), ~ InFlight(SVC_OP_MAP)',
           ~ InFlight(SVC_OP_DISPATCH), ~ InFlight(SVC_OP_DISPATCH)'
    PROVE  TableProgress' /\ ControlMapped' /\ CountsKept'
  <1>1. CASE ctx.w = SECURE
    <2>1. Ns' = Ns
      BY <1>1 DEF Ns
    <2>2. Allocated' => Allocated
      BY <1>1, <2>1 DEF Allocated
    <2> QED BY <2>1, <2>2, Undisturbed DEF FullInv, CountsKept, NoFault
  <1>2. CASE ctx.w # SECURE
    <2>1. Ns = ctx /\ Ns' = ctx'
      BY <1>2, StateFacts DEF FullInv, Ns
    <2>2. ~ EntryDone /\ ~ EntryDone' /\ ~ Allocated'
      BY <2>1 DEF EntryDone, Allocated
    <2>3. TableProgress'
      BY <2>1, <2>2 DEF FullInv, TableProgress, NoFault
    <2>4. ControlMapped'
      BY <2>2 DEF ControlMapped
    <2> QED BY <2>3, <2>4 DEF FullInv, CountsKept
  <1> QED BY <1>1, <1>2

\* The steps of el1_handle_svc() that pass a MAP request on or carry it out.
LEMMA KernelMaps ==
    ASSUME FullInv, IInv', SvcAlloc \/ SvcMapForward \/ SvcMapHere
    PROVE  TableProgress' /\ ControlMapped' /\ CountsKept'
  <1>a. /\ IInv /\ el = 1 /\ fault = NoFault /\ ctx.k1 = "svc" /\ Cur = 1 /\ k3 = "none"
        /\ ctx \in Context /\ ctx.w \in World /\ tcmap \in [Space -> Page]
    BY StateFacts
       DEF SvcAlloc, SvcMapForward, SvcMapHere, Handling, AtEl1, At, Cur,
           NoFault, FullInv
  <1>b. 3 \in Space /\ NONSECURE \in Space /\ SECURE \in Space
    BY DEF Space
  <1>1. CASE SvcAlloc
    <2>1. /\ x0 = SVC_OP_ALLOC /\ tcmap' = [tcmap EXCEPT ![ctx.w] = "tc"]
          /\ el' = 0 /\ x0' = 0 /\ ctx' = [ctx EXCEPT !.k1 = "idle"]
          /\ UNCHANGED <<saved, k3, fault, table, idx, executed, cnt, judged>>
      BY <1>1 DEF SvcAlloc, Handling, SvcReturn, runvars
    <2>2. ctx.k0 = "alloced" /\ ctx.w = NONSECURE
      BY <1>a, <2>1, StateFacts DEF IInv, Requests, SvcRequest, Linked
    <2>3. Ns = ctx /\ Ns' = ctx' /\ ctx'.k0 = "alloced" /\ ctx'.k1 = "idle"
      BY <1>a, <2>1, <2>2 DEF Ns, Context
    <2>4. /\ ~ InFlight(SVC_OP_MAP)' /\ ~ InFlight(SVC_OP_DISPATCH)'
          /\ ~ EntryDone /\ ~ EntryDone'
      BY <2>1, <2>2, <2>3 DEF InFlight, EntryDone
    <2>5. TableProgress'
      BY <1>a, <2>1, <2>2, <2>3, <2>4 DEF FullInv, TableProgress, NoFault
    <2>6. ControlMapped'
      BY <1>a, <1>b, <2>1, <2>2, <2>3, <2>4 DEF ControlMapped
    <2> QED BY <2>1, <2>5, <2>6 DEF FullInv, CountsKept
  <1>2. CASE SvcMapForward
    <2>1. /\ x0 = SVC_OP_MAP /\ "EL3" \in desc[ctx.w].type /\ InFlight(SVC_OP_MAP)
          /\ el' = 3 /\ x0' = SMC_OP_MAP /\ k3' = "smc" /\ ctx' = [ctx EXCEPT !.k1 = "map"]
          /\ buf' = IF desc[ctx.w].pa # "zero" THEN [desc[ctx.w] EXCEPT !.pa = tcmap[ctx.w]]
                                               ELSE desc[ctx.w]
          /\ UNCHANGED <<saved, fault, table, idx, executed, tcmap, cnt, judged>>
      BY <1>2, <1>a DEF SvcMapForward, Handling, Smc, InFlight, runvars, tcvars
    <2>2. desc[ctx.w] \in MapDescs /\ ctx.w = NONSECURE /\ ctx.k0 = "mapped"
      BY <1>a, <2>1 DEF IInv, Requests, SvcRequest
    <2>3. /\ Ns = ctx /\ Ns' = ctx' /\ ctx'.k0 = "mapped" /\ ctx'.k1 = "map"
          /\ ctx'.w = NONSECURE
      BY <1>a, <2>1, <2>2 DEF Ns, Context
    <2>4. /\ Carried = desc[ctx.w] /\ Carried' = buf' /\ InFlight(SVC_OP_MAP)'
          /\ ~ InFlight(SVC_OP_DISPATCH)' /\ ~ EntryDone /\ ~ EntryDone'
      BY <1>a, <2>1, <2>2, <2>3 DEF InFlight, Carried, EntryDone
    <2>5. /\ desc[ctx.w].type = OP_MAP_ALL /\ desc[ctx.w].pa \in UninitPa
          /\ tcmap[NONSECURE] = "tc"
      BY <1>a, <2>1, <2>2, <2>3, <2>4 DEF FullInv, ControlMapped, Allocated
    <2>6. buf'.type = OP_MAP_ALL /\ PaSent(buf'.pa)
      BY <2>1, <2>2, <2>5 DEF PaSent, MapDescs
    <2>7. TableProgress'
      BY <1>a, <2>1, <2>2, <2>3, <2>4 DEF FullInv, TableProgress, NoFault
    <2>8. ControlMapped'
      BY <2>1, <2>3, <2>4, <2>5, <2>6 DEF ControlMapped
    <2> QED BY <2>1, <2>7, <2>8 DEF FullInv, CountsKept
  <1>3. CASE SvcMapHere
    <2>1. /\ x0 = SVC_OP_MAP /\ "EL3" \notin desc[ctx.w].type /\ InFlight(SVC_OP_MAP)
          /\ tcmap' = [tcmap EXCEPT ![ctx.w] = desc[ctx.w].pa]
          /\ el' = 0 /\ x0' = 0 /\ ctx' = [ctx EXCEPT !.k1 = "idle"]
          /\ UNCHANGED <<saved, k3, fault, table, idx, executed, cnt, judged>>
      BY <1>3, <1>a DEF SvcMapHere, Handling, SvcReturn, InFlight, runvars
    <2>2. ctx.w = SECURE /\ ctx.k0 = "loop"
      BY <1>a, <2>1 DEF IInv, Requests, SvcRequest
    <2>3. /\ Ns' = Ns /\ ctx'.w = SECURE /\ ctx'.k1 = "idle"
      BY <1>a, <2>1, <2>2 DEF Ns, Context
    <2>4. /\ Carried = desc[SECURE] /\ PaSent(desc[SECURE].pa) /\ PaSent(tcmap[3])
      BY <1>a, <2>1, <2>2 DEF FullInv, ControlMapped, Carried
    <2>5. /\ ~ InFlight(SVC_OP_DISPATCH) /\ ~ InFlight(SVC_OP_DISPATCH)'
          /\ ~ InFlight(SVC_OP_MAP)'
      BY <1>a, <2>1 DEF InFlight
    <2>6. TableProgress'
      BY <1>a, <2>1, <2>3, <2>5 DEF FullInv, TableProgress, EntryDone, NoFault
    <2>7. Allocated' => Allocated
      BY <2>3 DEF Allocated
    <2>8. PaSent(tcmap'[3]) /\ PaSent(tcmap'[SECURE]) /\ tcmap'[NONSECURE] = tcmap[NONSECURE]
      BY <1>a, <1>b, <2>1, <2>2, <2>4
    <2>9. ControlMapped'
      BY <2>5, <2>7, <2>8 DEF FullInv, ControlMapped, PaSent
    <2> QED BY <2>1, <2>6, <2>9 DEF FullInv, CountsKept
  <1> QED BY <1>1, <1>2, <1>3

\* The steps of el1_handle_svc() that hand a request on: out of the buffer to
\* the secure service, into the buffer to the monitor, or to a test of its own.
LEMMA KernelDispatches ==
    ASSUME FullInv, IInv', SvcYieldReturn \/ SvcDispatchHere \/ SvcDispatchAway
    PROVE  TableProgress' /\ ControlMapped' /\ CountsKept'
  <1>a. /\ IInv /\ el = 1 /\ fault = NoFault /\ ctx.k1 \in {"svc", "yield"} /\ Cur = 1
        /\ k3 = "none" /\ ctx \in Context /\ ctx.w \in World
        /\ desc \in [World -> Descriptor(Request)]
    BY StateFacts
       DEF SvcYieldReturn, SvcDispatchHere, SvcDispatchAway, Handling, AtEl1,
           At, Cur, NoFault, FullInv, IInv, TypeOK
  <1>1. CASE SvcYieldReturn
    <2>1. /\ ctx.k1 = "yield" /\ desc' = [desc EXCEPT ![ctx.w] = buf]
          /\ el' = 0 /\ x0' = x0 /\ ctx' = [ctx EXCEPT !.k1 = "idle"]
          /\ UNCHANGED <<saved, k3, fault, buf, table, idx, executed, tcmap, cnt, judged>>
      BY <1>1 DEF SvcYieldReturn, AtEl1, SvcReturn, runvars, tcvars
    <2>2. ctx.w = SECURE /\ ctx.k0 = "loop"
      BY <1>a, <2>1, StateFacts DEF Linked
    <2>3. /\ Ns' = Ns /\ ctx'.w = SECURE /\ ctx'.k1 = "idle" /\ ctx'.k0 = "loop" /\ Cur' = 0
      BY <1>a, <2>1, <2>2 DEF Ns, Context, Cur, NoFault
    <2>4. /\ Carried = buf /\ Carried' = buf
          /\ InFlight(SVC_OP_MAP)' <=> InFlight(SVC_OP_MAP)
          /\ InFlight(SVC_OP_DISPATCH)' <=> InFlight(SVC_OP_DISPATCH)
      BY <1>a, <2>1, <2>2, <2>3 DEF Carried, InFlight
    <2>5. TableProgress'
      BY <1>a, <2>1, <2>3, <2>4 DEF FullInv, TableProgress, EntryDone, NoFault
    <2>6. ControlMapped'
      BY <2>1, <2>2, <2>3, <2>4 DEF FullInv, ControlMapped, PaSent, Allocated
    <2> QED BY <2>1, <2>5, <2>6 DEF FullInv, CountsKept
  <1>b. ASSUME SvcDispatchHere \/ SvcDispatchAway
        PROVE  /\ x0 = SVC_OP_DISPATCH /\ ctx.k1 = "svc"
               /\ InFlight(SVC_OP_DISPATCH) /\ ~ InFlight(SVC_OP_MAP)
               /\ Ns.k0 = "ran" /\ Carried = desc[ctx.w] /\ ~ EntryDone
               /\ desc[ctx.w].req = table[idx]
    <2>1. x0 = SVC_OP_DISPATCH /\ ctx.k1 = "svc"
      BY <1>b DEF SvcDispatchHere, SvcDispatchAway, Handling, AtEl1
    <2>2. InFlight(SVC_OP_DISPATCH) /\ ~ InFlight(SVC_OP_MAP)
      BY <1>a, <2>1 DEF InFlight
    <2>3. Ns.k0 = "ran" /\ Carried = desc[ctx.w] /\ ~ EntryDone
      BY <1>a, <2>1, <2>2, DispatchOrigin DEF Carried, EntryDone
    <2> QED BY <2>1, <2>2, <2>3 DEF FullInv, TableProgress
  <1>2. CASE SvcDispatchHere
    <2>1. /\ UNCHANGED <<el, x0, saved, k3, fault, table, idx, tcmap, cnt, judged>>
          /\ ctx' = [ctx EXCEPT !.k1 = "test"]
          /\ executed' = Append(executed, [req |-> desc[ctx.w].req, el |-> 1, state |-> ctx.w])
      BY <1>2 DEF SvcDispatchHere, StartTest, tcvars
    <2>2. /\ Cur' = 1 /\ ctx'.k1 = "test" /\ ctx'.w = ctx.w /\ ctx'.k0 = ctx.k0
      BY <1>a, <2>1 DEF Cur, Context, NoFault
    <2>3. Ns'.k0 = Ns.k0
      BY <2>1, <2>2 DEF Ns
    <2>4. ~ InFlight(SVC_OP_DISPATCH)' /\ ~ InFlight(SVC_OP_MAP)'
      BY <1>a, <2>1, <2>2 DEF InFlight
    <2>5. EntryDone'
      BY <1>b, <1>2, <2>3, <2>4 DEF EntryDone
    <2>6. Len(executed') = Len(executed) + 1
      BY <1>a, <2>1, StateFacts DEF IInv, TypeOK
    <2>7. TableProgress'
      BY <1>a, <1>b, <1>2, <2>1, <2>2, <2>3, <2>4, <2>5, <2>6, StateFacts
         DEF FullInv, TableProgress, NoFault
    <2>8. ControlMapped'
      BY <1>b, <1>2, <2>1, <2>2, <2>3, <2>4 DEF FullInv, ControlMapped, PaSent, Allocated
    <2> QED BY <2>1, <2>7, <2>8 DEF FullInv, CountsKept
  <1>3. CASE SvcDispatchAway
    <2>1. /\ el' = 3 /\ x0' = SMC_OP_DISPATCH /\ k3' = "smc" /\ buf' = desc[ctx.w]
          /\ ctx' = [ctx EXCEPT !.k1 = "dispatch"]
          /\ UNCHANGED <<saved, fault, table, idx, executed, tcmap, cnt, judged>>
      BY <1>3 DEF SvcDispatchAway, Smc, runvars, tcvars
    <2>2. ctx'.k1 = "dispatch" /\ ctx'.w = ctx.w /\ ctx'.k0 = ctx.k0
      BY <1>a, <2>1 DEF Context
    <2>3. Ns'.k0 = Ns.k0
      BY <2>1, <2>2 DEF Ns
    <2>4. /\ InFlight(SVC_OP_DISPATCH)' /\ ~ InFlight(SVC_OP_MAP)'
          /\ Carried' = Carried /\ ~ EntryDone'
      BY <1>b, <1>3, <2>1, <2>3 DEF InFlight, Carried, EntryDone
    <2>5. TableProgress'
      BY <1>a, <1>b, <1>3, <2>1, <2>2, <2>3, <2>4 DEF FullInv, TableProgress, NoFault
    <2>6. ControlMapped'
      BY <1>b, <1>3, <2>1, <2>2, <2>3, <2>4 DEF FullInv, ControlMapped, PaSent, Allocated
    <2> QED BY <2>1, <2>5, <2>6 DEF FullInv, CountsKept
  <1> QED BY <1>1, <1>2, <1>3
\* The other steps of the kernels: none of them carries a request.
LEMMA KernelKeeps ==
    ASSUME FullInv, IInv', El1Next
    PROVE  TableProgress' /\ ControlMapped' /\ CountsKept'
  <1>a. /\ IInv /\ ctx \in Context /\ ctx.w \in World /\ Linked(ctx)
    BY StateFacts DEF FullInv
  \* A handler that returns to EL0 with result 0.
  <1>b. ASSUME Cur = 1, NEW c \in Context, c.w = ctx.w, c.k0 = ctx.k0,
               SvcReturn(c, 0), fault' = NoFault,
               ~ InFlight(SVC_OP_MAP), ~ InFlight(SVC_OP_DISPATCH),
               ctx.k0 # "alloced",
               UNCHANGED <<saved, k3>>, UNCHANGED <<table, idx, executed>>,
               UNCHANGED tcvars
        PROVE  TableProgress' /\ ControlMapped' /\ CountsKept'
    <2>1. /\ ctx'.k1 = "idle" /\ ctx'.k0 = ctx.k0 /\ ctx'.w = ctx.w /\ x0' = 0 /\ Cur' = 0
      BY <1>b DEF SvcReturn, Context, Cur, NoFault
    <2>2. Ns'.k0 = Ns.k0
      BY <1>b, <2>1 DEF Ns
    <2>3. Allocated' => Allocated
      BY <1>b, <2>1, <2>2 DEF Allocated, Ns
    <2>4. CountsKept'
      BY <1>b DEF FullInv, CountsKept, tcvars
    <2> QED BY <1>b, <2>1, <2>2, <2>3, <2>4, Undisturbed DEF InFlight, NoFault, tcvars
  \* A handler that issues an SMC that carries no request.
  <1>c. ASSUME At(1), ctx.k1 = "svc", NEW op \in {1, 2, 4, 5, 6}, x0 = op,
               NEW k \in K1, Smc(op, k), k = "exit" => ctx.k0 = "exit",
               UNCHANGED <<saved, fault>>, UNCHANGED runvars, UNCHANGED tcvars
        PROVE  TableProgress' /\ ControlMapped' /\ CountsKept'
    <2>1. /\ ctx'.k1 = k /\ ctx'.k0 = ctx.k0 /\ ctx'.w = ctx.w /\ x0' = op /\ Cur' = 3
          /\ Cur = 1 /\ fault.st = "none" /\ fault' = fault
      BY <1>a, <1>c DEF Smc, Context, Cur, NoFault, At
    <2>2. Ns'.k0 = Ns.k0
      BY <1>c, <2>1 DEF Ns
    <2>3. Allocated' => Allocated
      BY <2>1, <2>2 DEF Allocated
    <2>4. CountsKept'
      BY <1>c DEF FullInv, CountsKept, tcvars
    <2> QED BY <1>c, <2>1, <2>2, <2>3, <2>4, Undisturbed DEF InFlight, runvars, tcvars
  <1>1. CASE El1Start
    <2>1. /\ el = 1 /\ fault = NoFault /\ ctx.k1 = "init" /\ el' = 0
          /\ ctx' = [ctx EXCEPT !.k0 = "main", !.k1 = "idle", !.cpacr = CpacrBits]
          /\ UNCHANGED <<x0, saved, fault, k3, table, idx, executed, tcmap, cnt, judged>>
      BY <1>1 DEF El1Start, AtEl1, At, runvars, tcvars
    <2>2. /\ ctx'.w = ctx.w /\ ctx'.k0 = "main" /\ ctx'.k1 = "idle" /\ ctx.k0 = "off"
          /\ Cur = 1 /\ Cur' = 0 /\ k3 = "none"
      BY <1>a, <2>1, StateFacts DEF Context, Linked, Cur, NoFault
    <2> QED BY <2>1, <2>2, Booting DEF InFlight
  <1>2. CASE SvcExit
    <2>1. ctx.k0 = "exit"
      BY <1>2, <1>a
         DEF SvcExit, Handling, AtEl1, At, Cur, NoFault, IInv, Requests, SvcRequest
    <2> QED BY <1>2, <1>c, <2>1 DEF SvcExit, Handling, AtEl1, K1
  <1>3. CASE SvcYield
    BY <1>3, <1>c DEF SvcYield, Handling, AtEl1, K1
  <1>4. CASE SvcTest
    BY <1>4, <1>c DEF SvcTest, Handling, AtEl1, K1
  <1>5. CASE \/ SvcRegMonitor(SVC_OP_GET_REG, SMC_OP_GET_REG, "get_reg")
             \/ SvcRegMonitor(SVC_OP_SET_REG, SMC_OP_SET_REG, "set_reg")
    BY <1>5, <1>c DEF SvcRegMonitor, Handling, AtEl1, K1
  <1>6. CASE SvcAlloc \/ SvcMapForward \/ SvcMapHere
    BY <1>6, KernelMaps
  <1>7. CASE SvcYieldReturn \/ SvcDispatchHere \/ SvcDispatchAway
    BY <1>7, KernelDispatches
  <1>8. CASE SvcGetSyscntl
    <2>1. Cur = 1 /\ x0 = SVC_OP_GET_SYSCNTL /\ ctx.k1 = "svc" /\ fault = NoFault /\ k3 = "none"
      BY <1>8, <1>a, StateFacts DEF SvcGetSyscntl, Handling, AtEl1, At, Cur, NoFault
    <2>2. ctx.k0 = "got_syscntl"
      BY <1>a, <2>1 DEF IInv, Requests, SvcRequest
    <2> QED BY <1>8, <1>a, <1>b, <2>1, <2>2 DEF SvcGetSyscntl, InFlight, runvars
  <1>9. CASE SvcTestReturn \/ SvcCopyOut \/ SvcPlainReturn
    <2>1. /\ Cur = 1 /\ ctx.k1 \in {"test_smc", "get_reg", "dispatch", "set_reg", "map"}
          /\ fault = NoFault /\ k3 = "none"
          /\ SvcReturn(ctx, 0) /\ UNCHANGED <<saved, k3, fault>>
          /\ UNCHANGED runvars /\ UNCHANGED tcvars
      BY <1>9, <1>a, StateFacts
         DEF SvcTestReturn, SvcCopyOut, SvcPlainReturn, AtEl1, At, Cur, NoFault
    <2>2. ctx.k0 # "alloced"
      BY <1>a, <2>1 DEF Linked
    <2> QED BY <1>a, <1>b, <2>1, <2>2 DEF InFlight, runvars
  <1>10. CASE SvcGetRegHere \/ SvcSetRegHere
    <2>1. /\ Cur = 1 /\ x0 \in {4, 5} /\ ctx.k1 = "svc" /\ k3 = "none" /\ fault' = NoFault
          /\ UNCHANGED <<saved, k3>> /\ UNCHANGED runvars /\ UNCHANGED tcvars
      BY <1>10, <1>a, StateFacts DEF SvcGetRegHere, SvcSetRegHere, Cur
    <2>2. ctx.k0 = "test_ret"
      BY <1>a, <2>1 DEF IInv, Requests, SvcRequest
    <2>3. PICK c : SvcReturn(c, 0) /\ c \in Context /\ c.w = ctx.w /\ c.k0 = ctx.k0
      <3>1. WrittenCtx(ctx, desc[ctx.w].key, desc[ctx.w].data) \in Context
            /\ WrittenCtx(ctx, desc[ctx.w].key, desc[ctx.w].data).w = ctx.w
            /\ WrittenCtx(ctx, desc[ctx.w].key, desc[ctx.w].data).k0 = ctx.k0
        BY <1>a DEF WrittenCtx, Context
      <3> QED BY <1>10, <1>a, <3>1 DEF SvcGetRegHere, SvcSetRegHere
    <2> QED BY <1>b, <2>1, <2>2, <2>3 DEF InFlight, runvars
  <1>11. CASE SvcRegTrap(SVC_OP_GET_REG) \/ SvcRegTrap(SVC_OP_SET_REG)
    <2>1. PICK insn : TrapOf(insn) # NoTrap /\ Raise(TrapOf(insn))
      BY <1>11 DEF SvcRegTrap
    <2>2. /\ fault = NoFault
          /\ UNCHANGED <<x0, ctx, saved, k3, desc, buf, table, idx, executed, tcmap, cnt, judged>>
      BY <1>11 DEF SvcRegTrap, runvars, tcvars
    <2>3. /\ fault' = [st |-> "taken", ec |-> TrapOf(insn).ec, to |-> TrapOf(insn).to, from |-> el]
          /\ Cur' = Cur
      BY <2>1, <2>2 DEF Raise, Cur, NoFault
    <2> QED BY <2>1, <2>2, <2>3, SamePlace, TrapClasses DEF FullInv, CountsKept
  <1>12. CASE El1HandleException
    <2>1. fault.ec \in {"UNKNOWN", "WFI_WFE", "SIMD"} /\ fault.st = "taken"
      BY <1>12, <1>a DEF El1HandleException, IInv, Stacks, LevelsAgree
    <2>2. /\ el' = fault.from /\ fault' \in {[st |-> "skipped"], NoFault}
          /\ UNCHANGED <<x0, ctx, saved, k3, desc, buf, table, idx, executed, tcmap, cnt, judged>>
      BY <1>12, <2>1 DEF El1HandleException, runvars, tcvars
    <2>3. fault'.st # "taken" /\ Cur' = Cur
      BY <2>1, <2>2 DEF Cur, NoFault
    <2> QED BY <2>2, <2>3, SamePlace DEF FullInv, CountsKept
  <1> QED BY <1>1, <1>2, <1>3, <1>4, <1>5, <1>6, <1>7, <1>8, <1>9, <1>10,
             <1>11, <1>12 DEF El1Next

----------------------------------------------------------------------------
(***************************************************************************)
(* The EL0 programs.                                                       *)
(***************************************************************************)

\* The nonsecure driver: main(), then tztest_start() over the table.
LEMMA DriverKeeps ==
    ASSUME FullInv, IInv',
           \/ NsMain \/ alloc_mem \/ map_va \/ InteropSend \/ InteropJudge
           \/ NsRunHere \/ NsDispatch \/ NsRan \/ NsExit
    PROVE  TableProgress' /\ ControlMapped' /\ CountsKept'
  <1> USE DEF AtEl0, At
  <1>a. /\ IInv /\ ctx \in Context /\ el = 0 /\ fault = NoFault /\ ctx.w = NONSECURE
        /\ Cur = 0 /\ k3 = "none" /\ ctx.k1 = "idle" /\ fault.st = "none"
        /\ desc \in [World -> Descriptor(Request)]
    BY StateFacts
       DEF NsMain, alloc_mem, map_va, InteropSend, InteropJudge, NsRunHere,
           NsDispatch, NsRan, NsExit, Cur, NoFault, FullInv, IInv, TypeOK,
           Stacks, LevelsAgree
  <1>b. ~ InFlight(SVC_OP_MAP) /\ ~ InFlight(SVC_OP_DISPATCH) /\ Ns = ctx
    BY <1>a DEF InFlight, Ns
  <1>c. ASSUME NEW op, NEW d, NEW k, CallSvc(op, d, k)
        PROVE  /\ ctx'.k1 = "svc" /\ ctx'.k0 = k /\ ctx'.w = NONSECURE /\ x0' = op
               /\ Cur' = 1 /\ Ns' = ctx' /\ desc'[NONSECURE] = d /\ Carried' = d
               /\ k3' = "none" /\ fault' = NoFault
               /\ UNCHANGED <<saved, table, idx, executed, tcmap, cnt, judged>>
    <2>1. /\ ctx'.k1 = "svc" /\ ctx'.k0 = k /\ ctx'.w = NONSECURE /\ x0' = op
          /\ el' = 1 /\ desc'[NONSECURE] = d /\ k3' = "none" /\ fault' = NoFault
          /\ UNCHANGED <<saved, table, idx, executed, tcmap, cnt, judged>>
      BY <1>a, <1>c DEF CallSvc, Svc, Context, runvars, tcvars
    <2> QED BY <2>1 DEF Cur, NoFault, Ns, Carried
  <1>d. ASSUME NEW k, StayAtEl0(k)
        PROVE  /\ ctx'.k1 = "idle" /\ ctx'.k0 = k /\ ctx'.w = NONSECURE
               /\ Cur' = 0 /\ Ns' = ctx' /\ fault' = NoFault
               /\ ~ InFlight(SVC_OP_MAP)' /\ ~ InFlight(SVC_OP_DISPATCH)'
    <2>1. /\ ctx'.k1 = "idle" /\ ctx'.k0 = k /\ ctx'.w = NONSECURE
          /\ el' = 0 /\ k3' = "none" /\ fault' = NoFault
      BY <1>a, <1>d DEF StayAtEl0, Context
    <2> QED BY <2>1 DEF Cur, NoFault, Ns, InFlight
  <1>e. ASSUME UNCHANGED <<cnt, judged>> PROVE CountsKept'
    BY <1>e DEF FullInv, CountsKept
  <1>1. CASE NsMain \/ alloc_mem
    <2>1. PICK op \in {8, 9}, k \in {"got_syscntl", "alloced"} :
             \E d : CallSvc(op, d, k)
      BY <1>1 DEF NsMain, alloc_mem
    <2>2. PICK d : CallSvc(op, d, k)
      BY <2>1
    <2>3. ctx.k0 \in {"main", "got_syscntl"}
      BY <1>1 DEF NsMain, alloc_mem
    <2>4. ~ InFlight(SVC_OP_MAP)' /\ ~ InFlight(SVC_OP_DISPATCH)'
      BY <1>c, <2>2 DEF InFlight
    <2> QED BY <1>a, <1>b, <1>c, <2>2, <2>3, <2>4, Booting
  <1>2. CASE map_va
    <2>1. PICK pa \in UninitPa : CallSvc(SVC_OP_MAP, MapDesc(OP_MAP_ALL, pa), "mapped")
      BY <1>2 DEF map_va
    <2>2. ctx.k0 = "alloced"
      BY <1>2 DEF map_va
    <2>3. Carried'.type = OP_MAP_ALL /\ Carried'.pa \in UninitPa
      BY <1>c, <2>1 DEF MapDesc
    <2>4. /\ InFlight(SVC_OP_MAP)' /\ ~ InFlight(SVC_OP_DISPATCH)'
          /\ ~ EntryDone /\ ~ EntryDone'
      BY <1>b, <1>c, <2>1, <2>2 DEF InFlight, EntryDone
    <2>5. TableProgress'
      BY <1>b, <1>c, <2>1, <2>2, <2>4 DEF FullInv, TableProgress, NoFault
    <2>6. tcmap[NONSECURE] = "tc"
      BY <1>a, <1>b, <2>2 DEF FullInv, ControlMapped, Allocated
    <2>7. ControlMapped'
      BY <1>c, <2>1, <2>3, <2>4, <2>6 DEF ControlMapped
    <2> QED BY <1>c, <1>e, <2>1, <2>5, <2>7
  \* From here on the control block is mapped everywhere.
  <1>f. ASSUME ctx.k0 \in {"mapped", "interop", "loop", "ran"},
               ctx'.k0 \in {"interop", "loop", "ran", "test", "exit"},
               ~ InFlight(SVC_OP_MAP)', UNCHANGED tcmap
        PROVE  ControlMapped'
    <2>1. Allocated /\ tcmap[NONSECURE] = "tc" /\ PaSent(tcmap[3]) /\ PaSent(tcmap[SECURE])
      BY <1>b, <1>f DEF FullInv, ControlMapped, Allocated
    <2> QED BY <1>f, <2>1 DEF ControlMapped, PaSent
  <1>3. CASE InteropSend
    <2>1. PICK d : CallSvc(SVC_OP_TEST, d, "interop")
      BY <1>3 DEF InteropSend
    <2>2. ctx.k0 = "mapped"
      BY <1>3 DEF InteropSend
    <2>3. /\ ~ InFlight(SVC_OP_MAP)' /\ ~ InFlight(SVC_OP_DISPATCH)'
          /\ ~ EntryDone /\ ~ EntryDone'
      BY <1>b, <1>c, <2>1, <2>2 DEF InFlight, EntryDone
    <2>4. TableProgress'
      BY <1>b, <1>c, <2>1, <2>2, <2>3 DEF FullInv, TableProgress, NoFault
    <2> QED BY <1>c, <1>e, <1>f, <2>1, <2>2, <2>3, <2>4
  <1>4. CASE InteropJudge
    <2>1. /\ ctx.k0 = "interop" /\ StayAtEl0("loop")
          /\ UNCHANGED <<table, idx, executed, tcmap>>
      BY <1>4 DEF InteropJudge, runvars, TEST_CONDITION
    <2>2. ~ EntryDone /\ ~ EntryDone'
      BY <1>b, <1>d, <2>1 DEF EntryDone
    <2>3. TableProgress'
      BY <1>b, <1>d, <2>1, <2>2 DEF FullInv, TableProgress, NoFault
    <2>4. tcmap[HereSpace] = "tc"
      BY <1>a, <1>b, <2>1 DEF FullInv, ControlMapped, Allocated, HereSpace
    <2>5. CountsKept'
      BY <1>4, <1>a, <2>4, CountedHere DEF InteropJudge, FullInv
    <2> QED BY <1>d, <1>f, <2>1, <2>3, <2>5
  <1>5. CASE NsRunHere
    <2>1. /\ ctx.k0 = "loop" /\ StayAtEl0("test") /\ idx <= Len(table)
          /\ UNCHANGED <<table, idx, tcmap, cnt, judged>>
          /\ executed' = Append(executed, [req |-> table[idx], el |-> 0, state |-> NONSECURE])
      BY <1>5 DEF NsRunHere, StartTest, tcvars
    <2>2. ~ EntryDone /\ EntryDone'
      BY <1>b, <1>d, <2>1 DEF EntryDone
    <2>3. Len(executed') = Len(executed) + 1
      BY <1>a, <2>1, StateFacts DEF IInv, TypeOK
    <2>4. TableProgress'
      BY <1>a, <1>b, <1>d, <2>1, <2>2, <2>3, StateFacts DEF FullInv, TableProgress, NoFault
    <2> QED BY <1>d, <1>e, <1>f, <2>1, <2>4
  <1>6. CASE NsDispatch
    <2>1. /\ ctx.k0 = "loop" /\ idx <= Len(table)
          /\ CallSvc(SVC_OP_DISPATCH, DispDesc(table[idx]), "ran")
      BY <1>6 DEF NsDispatch
    <2>2. /\ InFlight(SVC_OP_DISPATCH)' /\ ~ InFlight(SVC_OP_MAP)'
          /\ ~ EntryDone /\ ~ EntryDone'
      BY <1>b, <1>c, <2>1 DEF InFlight, EntryDone
    <2>3. Carried'.req = table[idx]
      BY <1>c, <2>1 DEF DispDesc
    <2>4. TableProgress'
      BY <1>b, <1>c, <2>1, <2>2, <2>3 DEF FullInv, TableProgress, NoFault
    <2> QED BY <1>c, <1>e, <1>f, <2>1, <2>2, <2>4
  <1>7. CASE NsRan
    <2>1. /\ ctx.k0 = "ran" /\ StayAtEl0("loop") /\ idx' = idx + 1
          /\ UNCHANGED <<table, executed, tcmap, cnt, judged>>
      BY <1>7 DEF NsRan, tcvars
    <2>2. EntryDone /\ ~ EntryDone'
      BY <1>b, <1>d, <2>1 DEF EntryDone
    <2>3. TableProgress'
      BY <1>a, <1>b, <1>d, <2>1, <2>2, StateFacts DEF FullInv, TableProgress, NoFault
    <2> QED BY <1>d, <1>e, <1>f, <2>1, <2>3
  <1>8. CASE NsExit
    <2>1. ctx.k0 = "loop" /\ idx > Len(table) /\ CallSvc(SVC_OP_EXIT, NoDesc, "exit")
      BY <1>8 DEF NsExit
    <2>2. /\ ~ InFlight(SVC_OP_DISPATCH)' /\ ~ InFlight(SVC_OP_MAP)'
          /\ ~ EntryDone /\ ~ EntryDone'
      BY <1>b, <1>c, <2>1 DEF InFlight, EntryDone
    <2>3. TableProgress'
      BY <1>a, <1>b, <1>c, <2>1, <2>2, StateFacts DEF FullInv, TableProgress, NoFault
    <2> QED BY <1>c, <1>e, <1>f, <2>1, <2>2, <2>3
  <1> QED BY <1>1, <1>2, <1>3, <1>4, <1>5, <1>6, <1>7, <1>8

\* The secure service: main(), then el0_sec_loop() on what its YIELDs deliver.
LEMMA ServiceKeeps ==
    ASSUME FullInv, IInv',
           \/ SecMain \/ SecFirstYield \/ SecMap \/ SecTest
           \/ SecRunHere \/ SecDispatch \/ SecRan \/ SecOther
    PROVE  TableProgress' /\ ControlMapped' /\ CountsKept'
  <1> USE DEF AtEl0, At
  <1>a. /\ IInv /\ ctx \in Context /\ el = 0 /\ fault = NoFault /\ ctx.w = SECURE
        /\ Cur = 0 /\ k3 = "none" /\ ctx.k1 = "idle" /\ fault.st = "none"
        /\ desc \in [World -> Descriptor(Request)]
    BY StateFacts
       DEF SecMain, SecFirstYield, SecMap, SecTest, SecRunHere, SecDispatch,
           SecRan, SecOther, Cur, NoFault, FullInv, IInv, TypeOK, Stacks,
           LevelsAgree
  <1>c. ASSUME NEW op, NEW d, NEW k, CallSvc(op, d, k)
        PROVE  /\ ctx'.k1 = "svc" /\ ctx'.k0 = k /\ ctx'.w = SECURE /\ x0' = op
               /\ Cur' = 1 /\ Ns' = Ns /\ Carried' = d /\ k3' = "none" /\ fault' = NoFault
               /\ UNCHANGED <<saved, table, idx, executed, tcmap, cnt, judged>>
    <2>1. /\ ctx'.k1 = "svc" /\ ctx'.k0 = k /\ ctx'.w = SECURE /\ x0' = op
          /\ el' = 1 /\ desc'[SECURE] = d /\ k3' = "none" /\ fault' = NoFault
          /\ UNCHANGED <<saved, table, idx, executed, tcmap, cnt, judged>>
      BY <1>a, <1>c DEF CallSvc, Svc, Context, runvars, tcvars
    <2> QED BY <1>a, <2>1 DEF Cur, NoFault, Ns, Carried
  \* A call that carries no request, made when none is under way.
  <1>d. ASSUME NEW op \in {1, 8}, NEW d, NEW k, CallSvc(op, d, k),
               ctx.k0 # "loop" \/ x0 \notin {SVC_OP_MAP, SVC_OP_DISPATCH}
        PROVE  TableProgress' /\ ControlMapped' /\ CountsKept'
    <2>1. /\ ~ InFlight(SVC_OP_MAP) /\ ~ InFlight(SVC_OP_DISPATCH)
          /\ ~ InFlight(SVC_OP_MAP)' /\ ~ InFlight(SVC_OP_DISPATCH)'
      BY <1>a, <1>c, <1>d DEF InFlight
    <2>2. Allocated' => Allocated
      BY <1>a, <1>c, <1>d DEF Allocated
    <2>3. CountsKept'
      BY <1>c, <1>d DEF FullInv, CountsKept
    <2> QED BY <1>c, <1>d, <2>1, <2>2, <2>3, Undisturbed DEF NoFault
  <1>1. CASE SecMain
    BY <1>1, <1>d DEF SecMain
  <1>2. CASE SecFirstYield
    BY <1>2, <1>d DEF SecFirstYield
  <1>3. CASE SecTest
    BY <1>3, <1>d DEF SecTest
  <1>4. CASE SecRan
    BY <1>4, <1>d DEF SecRan
  <1>5. CASE SecOther
    <2>1. ctx.k0 = "loop" /\ x0 \notin {SVC_OP_MAP, SVC_OP_TEST, SVC_OP_DISPATCH}
      BY <1>5 DEF SecOther
    <2>2. x0 = 0
      BY <1>a, <2>1 DEF IInv, Results, SvcResult
    <2> QED BY <1>5, <1>d, <2>1, <2>2 DEF SecOther
  <1>6. CASE SecMap
    <2>1. /\ ctx.k0 = "loop" /\ x0 = SVC_OP_MAP
          /\ CallSvc(SVC_OP_MAP, desc[SECURE], "loop")
      BY <1>6 DEF SecMap
    <2>2. /\ InFlight(SVC_OP_MAP) /\ InFlight(SVC_OP_MAP)' /\ Carried' = Carried
          /\ ~ InFlight(SVC_OP_DISPATCH) /\ ~ InFlight(SVC_OP_DISPATCH)'
      BY <1>a, <1>c, <2>1 DEF InFlight, Carried
    <2>3. TableProgress'
      BY <1>a, <1>c, <2>1, <2>2 DEF FullInv, TableProgress, EntryDone, NoFault
    <2>4. ControlMapped'
      BY <1>a, <1>c, <2>1, <2>2 DEF FullInv, ControlMapped, PaSent, Allocated
    <2> QED BY <1>c, <2>1, <2>3, <2>4 DEF FullInv, CountsKept
  <1>7. CASE SecDispatch
    <2>1. /\ ctx.k0 = "loop" /\ x0 = SVC_OP_DISPATCH
          /\ CallSvc(SVC_OP_DISPATCH, desc[SECURE], "ran")
      BY <1>7 DEF SecDispatch
    <2>2. /\ InFlight(SVC_OP_DISPATCH) /\ InFlight(SVC_OP_DISPATCH)' /\ Carried' = Carried
          /\ ~ InFlight(SVC_OP_MAP) /\ ~ InFlight(SVC_OP_MAP)'
      BY <1>a, <1>c, <2>1 DEF InFlight, Carried
    <2>3. TableProgress'
      BY <1>a, <1>c, <2>1, <2>2 DEF FullInv, TableProgress, EntryDone, NoFault
    <2>4. ControlMapped'
      BY <1>a, <1>c, <2>1, <2>2 DEF FullInv, ControlMapped, PaSent, Allocated
    <2> QED BY <1>c, <2>1, <2>3, <2>4 DEF FullInv, CountsKept
  <1>8. CASE SecRunHere
    <2>1. /\ ctx.k0 = "loop" /\ x0 = SVC_OP_DISPATCH /\ el' = 0 /\ k3' = "none"
          /\ ctx' = [ctx EXCEPT !.k0 = "test"]
          /\ UNCHANGED <<table, idx, tcmap, cnt, judged, saved, fault>>
          /\ executed' = Append(executed, [req |-> desc[SECURE].req, el |-> 0, state |-> SECURE])
      BY <1>8, <1>a DEF SecRunHere, StartTest, StayAtEl0, tcvars
    <2>2. /\ ctx'.k0 = "test" /\ ctx'.k1 = "idle" /\ ctx'.w = SECURE /\ Cur' = 0 /\ Ns' = Ns
      BY <1>a, <2>1 DEF Context, Cur, NoFault, Ns
    <2>3. /\ InFlight(SVC_OP_DISPATCH) /\ ~ InFlight(SVC_OP_DISPATCH)'
          /\ ~ InFlight(SVC_OP_MAP) /\ ~ InFlight(SVC_OP_MAP)'
      BY <1>a, <2>1, <2>2 DEF InFlight
    <2>4. Ns.k0 = "ran" /\ ~ EntryDone /\ EntryDone'
      BY <1>a, <2>2, <2>3, DispatchOrigin DEF EntryDone
    <2>5. Len(executed') = Len(executed) + 1
      BY <1>a, <2>1, StateFacts DEF IInv, TypeOK
    <2>6. TableProgress'
      BY <1>a, <2>1, <2>2, <2>3, <2>4, <2>5, StateFacts DEF FullInv, TableProgress
    <2>7. ControlMapped'
      BY <1>a, <2>1, <2>2, <2>3 DEF FullInv, ControlMapped, PaSent, Allocated
    <2> QED BY <2>1, <2>6, <2>7 DEF FullInv, CountsKept
  <1> QED BY <1>1, <1>2, <1>3, <1>4, <1>5, <1>6, <1>7, <1>8

----------------------------------------------------------------------------
(***************************************************************************)
(* The test functions.                                                     *)
(***************************************************************************)

\* While a test function is at work its entry is counted as executed, no
\* request is under way and the control block is mapped where it runs.
LEMMA TestPlace ==
    ASSUME FullInv, InTest
    PROVE  /\ Cur = el /\ ~ InFlight(SVC_OP_MAP) /\ ~ InFlight(SVC_OP_DISPATCH)
           /\ EntryDone /\ PaSent(tcmap[HereSpace])
           /\ "zero" \notin UninitPa => tcmap[HereSpace] = "tc"
           /\ ctx.k1 # "exit" /\ fault.st # "taken"
           /\ el = 0 => ctx.k0 = "test" /\ ctx.k1 = "idle" /\ k3 = "none"
           /\ el = 1 => ctx.k0 = "ran" /\ ctx.k1 = "test" /\ k3 = "none"
           /\ el = 3 => ctx.k0 = "ran" /\ ctx.k1 = "dispatch" /\ k3 = "test"
  <1>a. /\ IInv /\ Linked(ctx) /\ Linked(saved[NONSECURE]) /\ ctx.w \in World
        /\ (Cur = 3 <=> k3 # "none") /\ OtherWorldParked /\ LevelsAgree
        /\ saved[NONSECURE].w = NONSECURE
    BY StateFacts DEF FullInv, IInv, Stacks
  <1>1. Cur = el /\ fault.st # "taken" /\ el \in Level
    BY <1>a, StateFacts DEF InTest, Cur
  <1>2. /\ el = 0 => ctx.k0 = "test" /\ ctx.k1 = "idle" /\ k3 = "none"
        /\ el = 1 => ctx.k0 = "ran" /\ ctx.k1 = "test" /\ k3 = "none"
        /\ el = 3 => ctx.k0 = "ran" /\ ctx.k1 = "dispatch" /\ k3 = "test"
    BY <1>a, <1>1 DEF InTest, Linked, LevelsAgree
  <1>3. ~ InFlight(SVC_OP_MAP) /\ ~ InFlight(SVC_OP_DISPATCH)
    BY <1>1, <1>2 DEF InFlight
  <1>4. Ns.k0 \in {"test", "ran"}
    BY <1>a, <1>1, <1>2 DEF Ns, OtherWorldParked, Linked
  <1>5. EntryDone
    BY <1>3, <1>4 DEF EntryDone
  <1>6. tcmap[NONSECURE] = "tc" /\ PaSent(tcmap[3]) /\ PaSent(tcmap[SECURE])
    BY <1>3, <1>4 DEF FullInv, ControlMapped, Allocated
  <1>7. PaSent(tcmap[HereSpace])
    BY <1>a, <1>6 DEF HereSpace, PaSent
  <1> QED BY <1>1, <1>2, <1>3, <1>5, <1>7 DEF PaSent

\* A test function neither executes a table entry nor maps a page; it counts
\* its verdicts in the control block.
LEMMA TestKeeps ==
    ASSUME FullInv, IInv', TestNext
    PROVE  TableProgress' /\ ControlMapped' /\ CountsKept'
  <1>a. IInv /\ ctx \in Context /\ ctx.w \in World /\ saved \in [World -> Context]
    BY StateFacts DEF FullInv
  <1>b. UNCHANGED <<saved, table, idx, executed, tcmap>>
    BY DEF TestNext, TestMsg, TestLog, TestReset, TestTrap, TestRun, TestSvc,
           TestSmc, TestCallReturn, TestDirectTrap, TestDirectGet,
           TestDirectSet, TestVerdict, TestEnd, Still, Quiet, tcvars,
           TEST_CONDITION
  \* The nonsecure EL0 stays in, or returns from, the test it runs.
  <1>c. ASSUME EntryDone, ~ InFlight(SVC_OP_MAP), ~ InFlight(SVC_OP_DISPATCH),
               ~ InFlight(SVC_OP_MAP)', ~ InFlight(SVC_OP_DISPATCH)',
               ctx'.w = ctx.w, ctx'.k1 # "exit", CountsKept',
               ctx'.k0 = ctx.k0 \/ ctx'.k0 \in {"test", "test_ret", "ran"},
               ctx.k0 \in {"test", "test_ret", "ran"},
               (fault.st = "taken" /\ fault.to = 3 =>
                   fault.ec \in {"SYSINSN", "WFI_WFE", "SIMD"})'
        PROVE  TableProgress' /\ ControlMapped' /\ CountsKept'
    <2>1. Ns.k0 \in {"test", "test_ret", "ran"} /\ Ns'.k0 \in {"test", "test_ret", "ran"}
      BY <1>a, <1>b, <1>c DEF EntryDone, Ns
    <2>2. EntryDone' /\ Allocated /\ Allocated'
      BY <1>c, <2>1 DEF EntryDone, Allocated
    <2>3. TableProgress'
      BY <1>b, <1>c, <2>1, <2>2 DEF FullInv, TableProgress
    <2>4. ControlMapped'
      BY <1>b, <1>c, <2>1, <2>2 DEF FullInv, ControlMapped, PaSent
    <2> QED BY <1>c, <2>3, <2>4
  <1>d. ASSUME UNCHANGED <<cnt, judged>> PROVE CountsKept'
    BY <1>d DEF FullInv, CountsKept
  \* Steps that stay at their place.
  <1>1. CASE TestMsg \/ TestLog \/ TestReset \/ TestRun \/ TestDirectGet \/ TestVerdict
    <2>1. /\ InTest /\ fault' \in {fault, NoFault}
          /\ UNCHANGED <<el, x0, ctx, k3, desc, buf>>
      BY <1>1 DEF TestMsg, TestLog, TestReset, TestRun, TestDirectGet,
                  TestVerdict, At_Step, Still
    <2>2. fault.st # "taken" /\ fault'.st # "taken" /\ Cur' = Cur
      BY <2>1 DEF InTest, Cur, NoFault
    <2>3. CountsKept'
      <3>1. CASE TestVerdict
        BY <1>a, <2>1, <3>1, TestPlace, CountedHere DEF TestVerdict, FullInv
      <3>2. CASE ~ TestVerdict
        BY <1>1, <1>d, <3>2 DEF TestMsg, TestLog, TestReset, TestRun, TestDirectGet, tcvars
      <3> QED BY <3>1, <3>2
    <2> QED BY <1>b, <2>1, <2>2, <2>3, SamePlace
  <1>2. CASE TestTrap \/ TestDirectTrap
    <2>1. PICK insn : Raise(TrapOf(insn))
      BY <1>2 DEF TestTrap, TestDirectTrap
    <2>2. /\ InTest /\ UNCHANGED <<x0, ctx, k3, desc, buf, cnt, judged>>
      BY <1>2 DEF TestTrap, TestDirectTrap, At_Step, tcvars
    <2>3. /\ fault' = [st |-> "taken", ec |-> TrapOf(insn).ec, to |-> TrapOf(insn).to, from |-> el]
          /\ Cur' = Cur
      BY <2>1, <2>2 DEF Raise, Cur, InTest
    <2> QED BY <1>b, <1>d, <2>2, <2>3, SamePlace, TrapClasses
  <1>3. CASE TestDirectSet
    <2>1. /\ InTest /\ el = 1 /\ el' = 1 /\ k3' = k3 /\ fault' = NoFault
          /\ UNCHANGED <<cnt, judged>>
      BY <1>3 DEF TestDirectSet, At_Step, tcvars
    <2>2. ctx'.w = ctx.w /\ ctx'.k0 = ctx.k0 /\ ctx'.k1 = ctx.k1
      BY <1>3, <1>a DEF TestDirectSet, WrittenCtx, Context
    <2>3. Cur' = 1 /\ fault'.st = "none"
      BY <2>1 DEF Cur, NoFault
    <2>4. ~ InFlight(SVC_OP_MAP)' /\ ~ InFlight(SVC_OP_DISPATCH)'
      BY <2>1, <2>2, <2>3, TestPlace DEF InFlight
    <2> QED BY <1>c, <1>d, <2>1, <2>2, <2>3, <2>4, TestPlace
  <1>4. CASE TestSvc \/ TestSmc
    <2>1. /\ InTest /\ UNCHANGED <<cnt, judged, fault>>
          /\ x0' \in {0, 4, 5}
      BY <1>4 DEF TestSvc, TestSmc, At_Step, Svc, Smc, tcvars
    <2>2. /\ ctx'.w = ctx.w /\ ctx'.k1 # "exit"
          /\ ctx'.k0 = ctx.k0 \/ ctx'.k0 = "test_ret"
      BY <1>4, <1>a DEF TestSvc, TestSmc, Svc, Smc, Context
    <2>3. ~ InFlight(SVC_OP_MAP)' /\ ~ InFlight(SVC_OP_DISPATCH)'
      BY <2>1 DEF InFlight
    <2>4. el \in Level
      BY <1>a DEF IInv, TypeOK
    <2> QED BY <1>c, <1>d, <2>1, <2>2, <2>3, <2>4, TestPlace
  <1>5. CASE TestCallReturn
    <2>1. /\ fault = NoFault /\ UNCHANGED <<el, x0, k3, desc, buf, fault, cnt, judged>>
          /\ \/ el = 0 /\ ctx.k0 = "test_ret" /\ ctx' = [ctx EXCEPT !.k0 = "test"]
             \/ el = 1 /\ ctx.k1 = "test_ret" /\ ctx' = [ctx EXCEPT !.k1 = "test"]
      BY <1>5 DEF TestCallReturn, tcvars
    <2>2. Cur = el /\ Cur' = el /\ fault'.st = "none"
      BY <2>1 DEF Cur, NoFault
    <2>3. k3 = "none" /\ (el = 1 => ctx.k0 = "ran") /\ (el = 0 => ctx.k1 = "idle")
      BY <1>a, <2>1, <2>2, StateFacts DEF Linked, IInv, Stacks, LevelsAgree
    <2>4. /\ ~ InFlight(SVC_OP_MAP) /\ ~ InFlight(SVC_OP_DISPATCH)
          /\ ctx'.w = ctx.w /\ ctx'.k1 # "exit" /\ ctx.k0 \in {"test_ret", "ran"}
          /\ ctx'.k0 = ctx.k0 \/ ctx'.k0 = "test"
          /\ ~ InFlight(SVC_OP_MAP)' /\ ~ InFlight(SVC_OP_DISPATCH)'
      BY <1>a, <2>1, <2>2, <2>3 DEF Context, InFlight
    <2>5. Ns.k0 \in {"test", "test_ret", "ran"}
      BY <1>a, <2>4, StateFacts DEF Ns, IInv, Stacks, OtherWorldParked, Linked
    <2>6. EntryDone
      BY <2>4, <2>5 DEF EntryDone
    <2> QED BY <1>c, <1>d, <2>1, <2>2, <2>4, <2>6
  <1>6. CASE TestEnd
    <2>1. /\ InTest /\ UNCHANGED <<cnt, judged, fault>>
      BY <1>6 DEF TestEnd, tcvars
    <2>2. CASE el = 0
      <3>1. ctx' = [ctx EXCEPT !.k0 = "ran"] /\ UNCHANGED <<el, x0, k3>>
        BY <1>6, <2>2 DEF TestEnd
      <3>2. ctx'.w = ctx.w /\ ctx'.k0 = "ran" /\ ctx'.k1 = "idle" /\ k3' = "none" /\ Cur' = 0
        BY <1>a, <2>1, <2>2, <3>1, TestPlace DEF Context, Cur
      <3>3. ~ InFlight(SVC_OP_MAP)' /\ ~ InFlight(SVC_OP_DISPATCH)'
        BY <3>2 DEF InFlight
      <3> QED BY <1>c, <1>d, <2>1, <2>2, <3>2, <3>3, TestPlace
    <2>3. CASE el = 1
      <3>1. x0' = 0 /\ ctx' = [ctx EXCEPT !.k1 = "idle"]
        BY <1>6, <2>3 DEF TestEnd, SvcReturn
      <3>2. ctx'.w = ctx.w /\ ctx'.k0 = ctx.k0 /\ ctx'.k1 = "idle"
        BY <1>a, <3>1 DEF Context
      <3>3. ~ InFlight(SVC_OP_MAP)' /\ ~ InFlight(SVC_OP_DISPATCH)'
        BY <3>1 DEF InFlight
      <3> QED BY <1>c, <1>d, <2>1, <2>3, <3>2, <3>3, TestPlace
    <2>4. CASE el = 3
      <3>1. x0' = 0 /\ ctx' = ctx
        BY <1>6, <2>4 DEF TestEnd, SmcReturn
      <3>2. ~ InFlight(SVC_OP_MAP)' /\ ~ InFlight(SVC_OP_DISPATCH)'
        BY <3>1 DEF InFlight
      <3> QED BY <1>c, <1>d, <2>1, <2>4, <3>1, <3>2, TestPlace
    <2> QED BY <1>6, <2>2, <2>3, <2>4 DEF TestEnd
  <1> QED BY <1>1, <1>2, <1>3, <1>4, <1>5, <1>6 DEF TestNext

----------------------------------------------------------------------------
(***************************************************************************)
(* The theorems.                                                           *)
(***************************************************************************)

\* At reset nothing is mapped, executed or under way.
THEOREM InitEstablishesFullInv == Init => FullInv
  <1> SUFFICES ASSUME Init PROVE FullInv
    OBVIOUS
  <1>1. IInv
    BY InitEstablishesIInv
  <1>2. /\ ctx.w = SECURE /\ ctx.k0 = "off" /\ ctx.k1 = "init" /\ Cur = 3
        /\ k3 = "start" /\ fault.st = "none" /\ Ns.k0 = "off"
    BY DEF Init, FreshContext, Cur, NoFault, Ns
  <1>3. ~ InFlight(SVC_OP_MAP) /\ ~ InFlight(SVC_OP_DISPATCH) /\ ~ EntryDone /\ ~ Allocated
    BY <1>2 DEF InFlight, EntryDone, Allocated
  <1>4. TableProgress
    BY <1>1, <1>2, <1>3, StateFacts DEF Init, TableProgress
  <1>5. ControlMapped /\ CountsKept
    BY <1>3 DEF Init, ControlMapped, CountsKept, Page
  <1> QED BY <1>1, <1>4, <1>5 DEF FullInv

\* Every step of every image preserves the full invariant.
THEOREM NextPreservesFullInv == FullInv /\ [Next \/ Off]_vars => FullInv'
  <1> SUFFICES ASSUME FullInv, [Next \/ Off]_vars PROVE FullInv'
    OBVIOUS
  <1>a. IInv'
    BY NextPreservesIInv DEF FullInv
  <1>1. CASE El3Next
    BY <1>1, <1>a, MonitorKeeps DEF FullInv
  <1>2. CASE El1Next
    BY <1>2, <1>a, KernelKeeps DEF FullInv
  <1>3. CASE El0Next
    BY <1>3, <1>a, DriverKeeps, ServiceKeeps DEF FullInv, El0Next
  <1>4. CASE TestNext
    BY <1>4, <1>a, TestKeeps DEF FullInv
  <1>5. CASE UNCHANGED vars
    <2>1. UNCHANGED <<Cur, x0, ctx, saved, k3, desc, buf, table, idx, executed, tcmap, fault>>
          /\ CountsKept'
      BY <1>5 DEF vars, Cur, FullInv, CountsKept
    <2> QED BY <1>a, <2>1, SamePlace DEF FullInv, TableProgress
  <1> QED BY <1>1, <1>2, <1>3, <1>4, <1>5 DEF Next, Off

\* The full invariant holds in every reachable state: how far the table is
\* executed always follows from where tztest_start() and its request are.
THEOREM FullyInductive == Spec => []FullInv
  BY InitEstablishesFullInv, NextPreservesFullInv, PTL DEF Spec

\* No test function runs in an image before SVC_OP_MAP has put the test control
\* block into its address space, so no TEST_CONDITION writes through an
\* unmapped syscntl->test_cntl.
THEOREM AlwaysMapped == Spec => []MappedBeforeUse
  <1>1. FullInv => MappedBeforeUse
    BY TestPlace DEF MappedBeforeUse, PaSent
  <1> QED BY <1>1, FullyInductive, PTL

\* Unless the uninitialised pa of map_va() happens to be null, the counters the
\* final report prints are exactly the verdicts of all images.
THEOREM CountsAreAccurate ==
    ASSUME "zero" \notin UninitPa PROVE Spec => []CountsAccurate
  <1>1. FullInv => CountsAccurate
    BY DEF FullInv, CountsKept, CountsAccurate
  <1> QED BY <1>1, FullyInductive, PTL

\* The entries of tztest[] are executed in order, each exactly once and by the
\* image of its level and state, and el3_shutdown() comes after the last:
\* the composed system implements TestRunner.
THEOREM TableIsRun == Spec => RunsTheTable
  <1>1. Init => Runner!Init
    BY DEF Init, Runner!Init
  <1>2. ASSUME FullInv, [Next \/ Off]_vars PROVE [Runner!Next]_(Runner!vars)
    <2>a. IInv
      BY <1>2 DEF FullInv
    \* A test started on the request under way is the next entry at its place.
    <2>b. ASSUME NEW req, NEW lvl, NEW w, power = "on", StartTest(req, lvl, w),
                 Local(req, lvl, w), UNCHANGED <<power, table>>,
                 ~ EntryDone, idx <= Len(table), req = table[idx]
          PROVE  Runner!ExecuteNext
      <3>1. Len(executed) = idx - 1 /\ idx \in Nat \ {0} /\ Len(table) \in Nat
        BY <1>2, <2>a, <2>b, StateFacts DEF FullInv, TableProgress
      <3>2. executed' = Append(executed, [req |-> req, el |-> req.el, state |-> req.state])
        BY <2>b DEF StartTest, Local
      <3>3. idx = Len(executed) + 1 /\ Len(executed) < Len(table)
        BY <2>b, <3>1
      <3> QED BY <2>b, <3>2, <3>3 DEF Runner!ExecuteNext
    <2>c. ASSUME InFlight(SVC_OP_DISPATCH)
          PROVE  ~ EntryDone /\ idx <= Len(table) /\ Carried.req = table[idx]
      BY <1>2, <2>a, <2>c, DispatchOrigin DEF EntryDone, FullInv, TableProgress
    <2>1. CASE SmcDispatchHere
      <3>1. InFlight(SVC_OP_DISPATCH) /\ Carried = buf
        BY <2>1 DEF SmcDispatchHere, Monitor, InFlight, Carried
      <3> QED BY <2>1, <2>b, <2>c, <3>1 DEF SmcDispatchHere, Monitor, At, Runner!Next
    <2>2. CASE SvcDispatchHere
      <3>1. InFlight(SVC_OP_DISPATCH) /\ Carried = desc[ctx.w]
        BY <2>2, <2>a, StateFacts
           DEF SvcDispatchHere, Handling, AtEl1, At, Cur, NoFault, InFlight, Carried
      <3> QED BY <2>2, <2>b, <2>c, <3>1
                 DEF SvcDispatchHere, Handling, AtEl1, At, Runner!Next
    <2>3. CASE SecRunHere
      <3>1. InFlight(SVC_OP_DISPATCH) /\ Carried = desc[SECURE]
        BY <2>3, <2>a, StateFacts
           DEF SecRunHere, AtEl0, At, Cur, NoFault, InFlight, Carried, IInv,
               Stacks, LevelsAgree
      <3> QED BY <2>3, <2>b, <2>c, <3>1
                 DEF SecRunHere, AtEl0, At, StayAtEl0, Runner!Next
    <2>4. CASE NsRunHere
      <3>1. ~ EntryDone
        BY <2>4 DEF NsRunHere, AtEl0, EntryDone, Ns
      <3> QED BY <2>4, <2>b, <3>1 DEF NsRunHere, AtEl0, At, StayAtEl0, Runner!Next
    <2>5. CASE SmcExit
      <3>1. ctx.k1 = "exit"
        BY <2>5, <2>a DEF SmcExit, IInv, Requests, SmcRequest
      <3>2. Ns.k0 = "exit"
        BY <1>2, <2>a, <3>1, StateFacts DEF FullInv, TableProgress, Linked, Ns
      <3>3. Len(executed) = Len(table)
        BY <1>2, <2>a, <3>2, StateFacts DEF FullInv, TableProgress, EntryDone
      <3> QED BY <2>5, <3>3 DEF SmcExit, At, runvars, Runner!Finish, Runner!Next
    \* The other steps are invisible.
    <2>6. CASE El3HandleException
      <3>1. fault.ec \in {"SYSINSN", "WFI_WFE", "SIMD"}
        BY <1>2, <2>6 DEF El3HandleException, FullInv, TableProgress
      <3> QED BY <2>6, <3>1 DEF El3HandleException, runvars, Runner!vars
    <2>7. CASE \/ El3Start \/ SmcYield \/ SmcNoop \/ SmcMap \/ SmcDispatchAway
               \/ SmcTest \/ SmcGetReg \/ SmcSetReg
      BY <2>7 DEF El3Start, SmcYield, SmcNoop, SmcMap, SmcDispatchAway, SmcTest,
                  SmcGetReg, SmcSetReg, runvars, Runner!vars
    <2>8. CASE El1Next /\ ~ SvcDispatchHere
      BY <2>8 DEF El1Next, El1Start, SvcExit, SvcYield, SvcYieldReturn, SvcAlloc,
                  SvcMapForward, SvcMapHere, SvcGetSyscntl, SvcTest,
                  SvcTestReturn, SvcRegTrap, SvcGetRegHere, SvcSetRegHere,
                  SvcRegMonitor, SvcCopyOut, SvcPlainReturn, SvcDispatchAway,
                  El1HandleException, runvars, Runner!vars
    <2>9. CASE El0Next /\ ~ (NsRunHere \/ SecRunHere)
      BY <2>9 DEF El0Next, NsMain, alloc_mem, map_va, InteropSend, InteropJudge,
                  NsDispatch, NsRan, NsExit, SecMain, SecFirstYield, SecMap,
                  SecTest, SecDispatch, SecRan, SecOther, CallSvc, StayAtEl0,
                  runvars, Runner!vars
    <2>10. CASE TestNext
      BY <2>10 DEF TestNext, TestMsg, TestLog, TestReset, TestTrap, TestRun,
                   TestSvc, TestSmc, TestCallReturn, TestDirectTrap,
                   TestDirectGet, TestDirectSet, TestVerdict, TestEnd, Still,
                   Quiet, Runner!vars
    <2>11. CASE UNCHANGED vars
      BY <2>11 DEF vars, Runner!vars
    <2> QED BY <1>2, <2>1, <2>2, <2>3, <2>4, <2>5, <2>6, <2>7, <2>8, <2>9,
               <2>10, <2>11 DEF Next, Off, El3Next
  <1> QED BY <1>1, <1>2, FullyInductive, PTL DEF Spec, RunsTheTable, Runner!Spec
=============================================================================
