------------------------------ MODULE TzSystem ------------------------------
(***************************************************************************)
(* The composed system - monitor, kernels, EL0 programs and test functions *)
(* - and the properties that make it a trustworthy test bench.             *)
(***************************************************************************)
EXTENDS El3Monitor, El1Kernel, El0Programs, TestInterpreter

Next == El3Next \/ El1Next \/ El0Next \/ TestNext

\* After shutdown the machine waits in wfi for ever.
Off == power = "off" /\ UNCHANGED vars

\* The processor does not stop while an instruction can be executed.
Spec == Init /\ [][Next \/ Off]_vars /\ WF_vars(Next)

----------------------------------------------------------------------------
RunningTest == [req : Request, pc : Nat \ {0}, loc : [RegKey -> SUBSET RegBits]]
Fault == [st : {"none", "skipped"}]
         \cup [st : {"taken"}, ec : ExcpClass, to : {1, 3}, from : Level]
Counters == [test : Nat, fail : Nat]

\* The states the C types, the labels and the descriptor kinds allow: every
\* field access of every handler finds the member it names, and the world
\* indicator el3.c flips with an exclusive or stays a bit.
TypeOK ==
    /\ power \in {"on", "off"} /\ el \in Level /\ k3 \in K3
    /\ scr \in SUBSET ScrBits /\ cptr \in SUBSET CptrBits
    /\ secure_state \in World /\ x0 \in 0 .. 9
    /\ ctx \in Context /\ saved \in [World -> Context]
    /\ fault \in Fault
    /\ desc \in [World -> Descriptor(Request)] /\ buf \in Descriptor(Request)
    /\ table \in Tables /\ idx \in Nat \ {0}
    /\ test \in RunningTest \cup {NoTest}
    /\ excp \in [log : BOOLEAN, skip : BOOLEAN, taken : BOOLEAN,
                 ec : ExcpClass, el : Level]
    /\ tcmap \in [Space -> Page] /\ cnt \in [Page -> Counters]
    /\ executed \in Seq([req : Request, el : Level, state : World])
    /\ judged \in Counters

\* The three notions of "current world" agree: SCR.NS, which the hardware and
\* monitor_switch go by, secure_state, which EL3's run_test goes by, and the
\* EL1&0 context that is loaded; and each state buffer holds its own world.
WorldConsistency ==
    /\ secure_state = NSBit
    /\ ctx.w = NSBit
    /\ \A w \in World : saved[w].w = w

\* The request protocol between the worlds.  Whenever nonsecure code runs, the
\* secure service is parked in the SMC of its YIELD, so the next request is
\* picked up; while secure code serves a request, the nonsecure kernel is
\* parked in the very SMC that forwarded it (or has not been started).
ServiceParked ==
    /\ ctx.w = NONSECURE =>
          saved[SECURE].k0 = "loop" /\ saved[SECURE].k1 = "yield"
    /\ ctx.w = SECURE =>
          saved[NONSECURE].k1 \in {"init", "map", "test_smc", "dispatch"}

\* Descriptors are unions: whoever acts on an opcode finds the member that
\* opcode means, at EL1 (from EL0), at EL3 and in the secure service loop.
KindOf(op) == CASE op = SVC_OP_MAP -> {"map"}
                [] op = SVC_OP_TEST -> {"test"}
                [] op = SVC_OP_DISPATCH -> {"disp"}
                [] op \in {SVC_OP_GET_REG, SVC_OP_SET_REG} -> {"reg"}
                [] OTHER -> {d.kind : d \in {buf, desc[SECURE], desc[NONSECURE]}}
OpMatchesDescriptor ==
    /\ At(3) /\ k3 = "smc" => buf.kind \in KindOf(x0)
    /\ AtEl1("svc") => desc[ctx.w].kind \in KindOf(x0)
    /\ AtEl0(SECURE, "loop") => desc[SECURE].kind \in KindOf(x0)
    /\ AtEl1("test_smc") => buf.kind = "test"

\* A test function only runs where syscntl->test_cntl is mapped.
MappedBeforeUse == InTest => tcmap[HereSpace] # "none"

\* The counters the final report prints are the number of conditions that were
\* evaluated, and that failed, in all images together.
CountsAccurate == cnt["tc"] = judged

\* Between two table entries every register a test may touch is back at its
\* value from boot, in both worlds, and the exception log is disarmed.
RegistersRestored ==
    AtEl0(NONSECURE, "loop") =>
        /\ scr = {"NS"} /\ cptr = {}
        /\ \A c \in {ctx, saved[SECURE]} : c.cpacr = CpacrBits /\ c.sctlr = {}
        /\ excp = Clear

\* Every exception is one a test provoked: it is taken while the log is armed
\* and SKIP is set, so no handler returns to the faulting instruction.
NoStrayException == fault.st = "taken" => excp.log /\ excp.skip

\* printf() uses floating point, which some tests switch off: nothing is
\* printed while an FP instruction would trap at the printing level.
PrintNeverTraps ==
    At_Step("msg") \/ At_Step("verdict") => FpTrap = NoTrap

\* Every condition every test evaluates is true, the interop check included; and
\* the check of the secure service in el0_sec_loop(), whose outcome never reaches
\* interop_test() because SVC_OP_YIELD copies nothing in, has nothing to report.
AllTestsPass ==
    /\ judged.fail = 0
    /\ AtEl0(SECURE, "loop") /\ x0 = SVC_OP_TEST => InteropStage(desc[SECURE]).fail = 0

\* The system executes the table as TestRunner promises.
Runner == INSTANCE TestRunner WITH finished <- power = "off"
RunsTheTable == Runner!Spec

\* No call waits for ever: every run reaches el3_shutdown.
ReachesShutdown == Runner!Terminates
=============================================================================
