--------------------------- MODULE TestInterpreter ---------------------------
(***************************************************************************)
(* A test function at work, at EL0, EL1 or EL3: the steps of its script    *)
(* (TestMacros) in order.  Register accesses take the route of the level   *)
(* the test runs at: SVC from EL0; SMC or the instruction itself from EL1. *)
(***************************************************************************)
EXTENDS TzMachine

Step == Scripts[test.req][test.pc]

\* A test function is executing at this level, and is not inside a call.
InTest == /\ power = "on" /\ fault.st # "taken"
          /\ \/ el = 0 /\ ctx.k0 = "test"
             \/ el = 1 /\ ctx.k1 = "test"
             \/ el = 3 /\ k3 = "test"

At_Step(op) == /\ InTest /\ test.pc <= Len(Scripts[test.req])
               /\ Step.op = op

Advance == test' = [test EXCEPT !.pc = @ + 1]

Quiet == UNCHANGED <<power, secure_state, saved, table, idx, executed>>
Still == Quiet /\ UNCHANGED <<el, scr, cptr, x0, ctx, k3, desc, buf>>

\* printf(): the C library's variadic prologue uses floating point.
TestMsg ==
    /\ At_Step("msg") /\ Advance
    /\ Still /\ UNCHANGED <<fault, excp>> /\ UNCHANGED tcvars

TestLog ==
    /\ At_Step("log") /\ Advance
    /\ excp' = [excp EXCEPT !.skip = TRUE, !.log = TRUE]
    /\ Still /\ UNCHANGED fault /\ UNCHANGED tcvars

TestReset ==
    /\ At_Step("reset") /\ Advance
    /\ excp' = Clear
    /\ Still /\ UNCHANGED fault /\ UNCHANGED tcvars

\* A bare instruction: it traps, or it completes (or was skipped).  A wfi that
\* is executed never completes: no interrupt is ever raised.
TestTrap ==
    /\ At_Step("run") /\ ~ Skipped
    /\ TrapOf(Step.insn) # NoTrap
    /\ Raise(TrapOf(Step.insn))
    /\ Quiet /\ UNCHANGED <<scr, cptr, x0, ctx, k3, desc, buf, excp, test>>
    /\ UNCHANGED tcvars

TestRun ==
    /\ At_Step("run")
    /\ Skipped \/ (TrapOf(Step.insn) = NoTrap /\ Step.insn # "wfi")
    /\ fault' = NoFault /\ Advance
    /\ Still /\ UNCHANGED excp /\ UNCHANGED tcvars

----------------------------------------------------------------------------
\* The value a SET_REG step writes.
NewValue == (test.loc[Step.key] \cup Step.add) \ Step.del

\* SVC_GET_REG / SVC_SET_REG at EL0.
TestSvc ==
    /\ el = 0
    /\ \/ /\ At_Step("get")
          /\ Svc(SVC_OP_GET_REG, RegDesc(Step.key, Step.lvl, {}), "test_ret")
       \/ /\ At_Step("set")
          /\ Svc(SVC_OP_SET_REG, RegDesc(Step.key, Step.lvl, NewValue),
                 "test_ret")
    /\ Quiet /\ UNCHANGED <<scr, cptr, k3, buf, fault, excp, test>>
    /\ UNCHANGED tcvars

\* SMC_GET_REG / SMC_SET_REG / __smc(SMC_OP_NOOP) at EL1.
TestSmc ==
    /\ el = 1
    /\ \/ /\ At_Step("get") /\ Step.lvl = 3
          /\ buf' = RegDesc(Step.key, 3, {})
          /\ Smc(SMC_OP_GET_REG, "test_ret")
       \/ /\ At_Step("set") /\ Step.lvl = 3
          /\ buf' = RegDesc(Step.key, 3, NewValue)
          /\ Smc(SMC_OP_SET_REG, "test_ret")
       \/ /\ At_Step("noop")
          /\ buf' = buf
          /\ Smc(SMC_OP_NOOP, "test_ret")
    /\ Quiet /\ UNCHANGED <<scr, cptr, desc, fault, excp, test>>
    /\ UNCHANGED tcvars

\* Back in the test: a GET_REG stores what the descriptor holds.
Fetched(data) ==
    test' = [test EXCEPT !.pc = @ + 1,
                         !.loc = IF Step.op = "get"
                                 THEN [@ EXCEPT ![Step.key] = data] ELSE @]
TestCallReturn ==
    /\ power = "on" /\ fault = NoFault
    /\ \/ /\ el = 0 /\ ctx.k0 = "test_ret"
          /\ ctx' = [ctx EXCEPT !.k0 = "test"]
          /\ Fetched(IF Step.op = "get" THEN desc[ctx.w].data ELSE {})
       \/ /\ el = 1 /\ ctx.k1 = "test_ret"
          /\ ctx' = [ctx EXCEPT !.k1 = "test"]
          /\ Fetched(IF Step.op = "get" THEN buf.data ELSE {})
    /\ Quiet /\ UNCHANGED <<el, scr, cptr, x0, k3, desc, buf, fault, excp>>
    /\ UNCHANGED tcvars

\* READ_x() / WRITE_x() made directly at EL1: trap, or act, or be skipped.
TestDirectTrap ==
    /\ el = 1 /\ (At_Step("get") \/ At_Step("set")) /\ Step.lvl = 1
    /\ ~ Skipped /\ TrapOf(AccessInsn(Step.key)) # NoTrap
    /\ Raise(TrapOf(AccessInsn(Step.key)))
    /\ Quiet /\ UNCHANGED <<scr, cptr, x0, ctx, k3, desc, buf, excp, test>>
    /\ UNCHANGED tcvars

TestDirectGet ==
    /\ el = 1 /\ At_Step("get") /\ Step.lvl = 1
    /\ Skipped \/ TrapOf(AccessInsn(Step.key)) = NoTrap
    /\ \E v \in IF Skipped THEN Garbage(Step.key) ELSE {ReadReg(Step.key)} :
          Fetched(v)
    /\ fault' = NoFault
    /\ Still /\ UNCHANGED excp /\ UNCHANGED tcvars

TestDirectSet ==
    /\ el = 1 /\ At_Step("set") /\ Step.lvl = 1
    /\ \/ Skipped /\ UNCHANGED <<scr, cptr, ctx>>
       \/ /\ ~ Skipped /\ TrapOf(AccessInsn(Step.key)) = NoTrap
          /\ WriteReg(Step.key, NewValue)
          /\ ctx' = WrittenCtx(ctx, Step.key, NewValue)
    /\ fault' = NoFault /\ Advance
    /\ Quiet /\ UNCHANGED <<el, x0, k3, desc, buf, excp>> /\ UNCHANGED tcvars

----------------------------------------------------------------------------
\* The condition of the verdict at hand.  A CPSR.F / CPSR.A write sticks in
\* secure state or when SCR.FW / SCR.AW allow it; monitor mode is entered with
\* A, I and F set (external).
Sticks(bit) == ctx.w = SECURE \/ bit \in scr
Verdict ==
    CASE Step.op = "verdict" ->
            IF Step.ec = "none" THEN ~ excp.taken
            ELSE excp.taken /\ excp.el = Step.to /\ excp.ec = Step.ec
      [] Step.op = "cpsr"    -> /\ \A b \in Step.add : Sticks(b)
                                /\ \A b \in Step.del : ~ Sticks(b)
      [] OTHER               -> TRUE

TestVerdict ==
    /\ At_Step("verdict") \/ At_Step("cpsr") \/ At_Step("monitor")
    /\ TEST_CONDITION(Verdict) /\ Advance
    /\ Still /\ UNCHANGED <<fault, excp>>

\* The function returns to run_test(), and run_test() to its caller: the EL0
\* loop, el1_handle_svc() or el3_handle_smc().
TestEnd ==
    /\ InTest /\ test.pc > Len(Scripts[test.req])
    /\ test' = NoTest
    /\ \/ /\ el = 0
          /\ ctx' = [ctx EXCEPT !.k0 = "ran"]
          /\ UNCHANGED <<el, scr, x0, k3>>
       \/ /\ el = 1
          /\ SvcReturn(ctx, 0)
          /\ UNCHANGED <<scr, k3>>
       \/ /\ el = 3
          /\ SmcReturn(0)
    /\ Quiet /\ UNCHANGED <<cptr, desc, buf, fault, excp>> /\ UNCHANGED tcvars

TestNext ==
    \/ TestMsg \/ TestLog \/ TestReset \/ TestTrap \/ TestRun
    \/ TestSvc \/ TestSmc \/ TestCallReturn
    \/ TestDirectTrap \/ TestDirectGet \/ TestDirectSet
    \/ TestVerdict \/ TestEnd
=============================================================================
