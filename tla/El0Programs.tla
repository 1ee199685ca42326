----------------------------- MODULE El0Programs -----------------------------
(***************************************************************************)
(* The two EL0 programs: the nonsecure one, which drives the tests         *)
(* (el0/nonsecure/el0_nsec.c, el0/el0.c, tztest/tztest.c), and the secure  *)
(* service loop (el0/secure/el0_sec.c).                                    *)
(***************************************************************************)
EXTENDS TzMachine

InteropOrig == 1024         \* test.orig = test.val = 1024 in interop_test()

\* An EL0 step that only makes one SVC.
CallSvc(op, d, k) ==
    /\ Svc(op, d, k)
    /\ UNCHANGED <<power, scr, cptr, secure_state, saved, k3, fault, buf, excp>>
    /\ UNCHANGED runvars /\ UNCHANGED tcvars

\* An EL0 step that stays at EL0.
StayAtEl0(k) ==
    /\ ctx' = [ctx EXCEPT !.k0 = k]
    /\ UNCHANGED <<power, el, scr, cptr, secure_state, x0, saved, k3, fault,
                   desc, buf, excp>>

----------------------------------------------------------------------------
\* Nonsecure main(): fetch syscntl, allocate the test control block, map it
\* everywhere.  map_va() leaves op.map.pa uninitialised.
NsMain == AtEl0(NONSECURE, "main")
          /\ CallSvc(SVC_OP_GET_SYSCNTL, NoDesc, "got_syscntl")

alloc_mem == AtEl0(NONSECURE, "got_syscntl")
             /\ CallSvc(SVC_OP_ALLOC, AllocDesc, "alloced")

map_va == AtEl0(NONSECURE, "alloced")
          /\ \E pa \in UninitPa :
                CallSvc(SVC_OP_MAP, MapDesc(OP_MAP_ALL, pa), "mapped")

\* interop_test(): send the descriptor round, then judge what came back.
InteropSend == AtEl0(NONSECURE, "mapped")
    /\ CallSvc(SVC_OP_TEST, TestDesc(InteropOrig, InteropOrig), "interop")

InteropPass(t) == t.fail = 0 /\ t.val = t.orig \div (2 ^ t.count)
InteropJudge ==
    /\ AtEl0(NONSECURE, "interop")
    /\ TEST_CONDITION(InteropPass(desc[NONSECURE]))
    /\ StayAtEl0("loop")
    /\ UNCHANGED runvars

\* tztest_start(): one run_test() per table entry, then SVC_OP_EXIT.
NsRunHere ==
    /\ AtEl0(NONSECURE, "loop") /\ idx <= Len(table)
    /\ Local(table[idx], 0, NONSECURE)
    /\ StartTest(table[idx], 0, NONSECURE)
    /\ StayAtEl0("test")
    /\ UNCHANGED <<table, idx>> /\ UNCHANGED tcvars

NsDispatch ==
    /\ AtEl0(NONSECURE, "loop") /\ idx <= Len(table)
    /\ ~ Local(table[idx], 0, NONSECURE)
    /\ CallSvc(SVC_OP_DISPATCH, DispDesc(table[idx]), "ran")

NsRan ==
    /\ AtEl0(NONSECURE, "ran")
    /\ idx' = idx + 1
    /\ StayAtEl0("loop")
    /\ UNCHANGED <<table, test, executed>> /\ UNCHANGED tcvars

NsExit ==
    /\ AtEl0(NONSECURE, "loop") /\ idx > Len(table)
    /\ CallSvc(SVC_OP_EXIT, NoDesc, "exit")

----------------------------------------------------------------------------
\* Secure main() and el0_sec_loop(): yield, then act on the opcode the yield
\* returned; every operation ends in another yield.
SecMain == AtEl0(SECURE, "main")
           /\ CallSvc(SVC_OP_GET_SYSCNTL, NoDesc, "got_syscntl")

SecFirstYield == AtEl0(SECURE, "got_syscntl")
                 /\ CallSvc(SVC_OP_YIELD, NoDesc, "loop")

SecMap == AtEl0(SECURE, "loop") /\ x0 = SVC_OP_MAP
          /\ CallSvc(SVC_OP_MAP, desc[SECURE], "loop")

\* Faulty variant of SecTest: the service passes the test on, as a nonsecure
\* EL0 does, instead of yielding.
SecTest_NoYield ==
    AtEl0(SECURE, "loop") /\ x0 = SVC_OP_TEST
    /\ CallSvc(SVC_OP_TEST, InteropStage(desc[SECURE]), "loop")

SecTest == AtEl0(SECURE, "loop") /\ x0 = SVC_OP_TEST
           /\ CallSvc(SVC_OP_YIELD, InteropStage(desc[SECURE]), "loop")

SecRunHere ==
    /\ AtEl0(SECURE, "loop") /\ x0 = SVC_OP_DISPATCH
    /\ Local(desc[SECURE].req, 0, SECURE)
    /\ StartTest(desc[SECURE].req, 0, SECURE)
    /\ StayAtEl0("test")
    /\ UNCHANGED <<table, idx>> /\ UNCHANGED tcvars

SecDispatch ==
    /\ AtEl0(SECURE, "loop") /\ x0 = SVC_OP_DISPATCH
    /\ ~ Local(desc[SECURE].req, 0, SECURE)
    /\ CallSvc(SVC_OP_DISPATCH, desc[SECURE], "ran")

SecRan == AtEl0(SECURE, "ran")
          /\ CallSvc(SVC_OP_YIELD, desc[SECURE], "loop")

\* 0 and YIELD yield again; EXIT and an unknown opcode leave the loop.
SecOther ==
    /\ AtEl0(SECURE, "loop")
    /\ x0 \notin {SVC_OP_MAP, SVC_OP_TEST, SVC_OP_DISPATCH}
    /\ CallSvc(IF x0 \in {0, SVC_OP_YIELD} THEN SVC_OP_YIELD ELSE SVC_OP_EXIT,
               desc[SECURE], "loop")

El0Next ==
    \/ NsMain \/ alloc_mem \/ map_va \/ InteropSend \/ InteropJudge
    \/ NsRunHere \/ NsDispatch \/ NsRan \/ NsExit
    \/ SecMain \/ SecFirstYield \/ SecMap \/ SecTest
    \/ SecRunHere \/ SecDispatch \/ SecRan \/ SecOther
=============================================================================
