----------------------------- MODULE El3Monitor -----------------------------
(***************************************************************************)
(* EL3: start-up, el3_handle_smc() and el3_handle_exception() of el3/el3.c *)
(* with the vectors and monitor_switch of el3/*/*.S.                       *)
(***************************************************************************)
EXTENDS TzMachine

\* el3_start(): the monitor allocates the shared blocks, prepares both state
\* buffers, restores the secure one and returns to the secure EL1 image.
El3Start ==
    /\ At(3) /\ k3 = "start"
    /\ el' = 1 /\ k3' = "none"
    /\ ctx' = Restored(saved[SECURE])
    /\ UNCHANGED <<power, scr, cptr, secure_state, x0, saved, fault, desc, buf,
                   excp>>
    /\ UNCHANGED runvars /\ UNCHANGED tcvars

SmcYield ==
    /\ Monitor(SMC_OP_YIELD)
    /\ SmcReturn(SVC_OP_YIELD)
    /\ UNCHANGED <<power, cptr, fault, desc, buf, excp>>
    /\ UNCHANGED runvars /\ UNCHANGED tcvars

SmcNoop ==
    /\ Monitor(SMC_OP_NOOP)
    /\ SmcReturn(0)
    /\ UNCHANGED <<power, cptr, fault, desc, buf, excp>>
    /\ UNCHANGED runvars /\ UNCHANGED tcvars

\* el3_shutdown(), for EXIT and for any opcode the switch does not know.
SmcExit ==
    /\ At(3) /\ k3 = "smc"
    /\ x0 \notin {SMC_OP_NOOP, SMC_OP_YIELD, SMC_OP_MAP, SMC_OP_GET_REG,
                  SMC_OP_SET_REG, SMC_OP_TEST, SMC_OP_DISPATCH}
    /\ power' = "off"
    /\ UNCHANGED <<el, scr, cptr, secure_state, x0, ctx, saved, k3, fault,
                   desc, buf, excp>>
    /\ UNCHANGED runvars /\ UNCHANGED tcvars

\* Faulty variant of SmcMap: the secure world is never told.
SmcMap_NoForward ==
    /\ Monitor(SMC_OP_MAP)
    /\ tcmap' = [tcmap EXCEPT ![3] = buf.pa]
    /\ SmcReturn(0)
    /\ UNCHANGED <<power, cptr, fault, desc, buf, excp, cnt, judged>>
    /\ UNCHANGED runvars

\* Faulty variant of SmcMap: the EL3 target stays in the forwarded request.
SmcMap_KeepsEl3 ==
    /\ Monitor(SMC_OP_MAP)
    /\ tcmap' = IF "EL3" \in buf.type THEN [tcmap EXCEPT ![3] = buf.pa]
                                      ELSE tcmap
    /\ buf' = buf
    /\ SmcReturn(IF "SEC_EL1" \in buf.type THEN SVC_OP_MAP ELSE 0)
    /\ UNCHANGED <<power, cptr, fault, desc, excp, cnt, judged>>
    /\ UNCHANGED runvars

\* el3_map_mem(): map the page at EL3 when asked to, then hand the request,
\* less EL3, to the secure world when that is named too.
SmcMap ==
    /\ Monitor(SMC_OP_MAP)
    /\ tcmap' = IF "EL3" \in buf.type THEN [tcmap EXCEPT ![3] = buf.pa]
                                      ELSE tcmap
    /\ IF "SEC_EL1" \in buf.type
       THEN buf' = [buf EXCEPT !.type = @ \ {"EL3"}] /\ SmcReturn(SVC_OP_MAP)
       ELSE buf' = buf /\ SmcReturn(0)
    /\ UNCHANGED <<power, cptr, fault, desc, excp, cnt, judged>>
    /\ UNCHANGED runvars

\* SMC_OP_DISPATCH of a request for EL3 in the state SCR.NS names: run_test()
\* calls the test function, because secure_state agrees with SCR.NS.
SmcDispatchHere ==
    /\ Monitor(SMC_OP_DISPATCH)
    /\ Local(buf.req, 3, NSBit) /\ Local(buf.req, 3, secure_state)
    /\ StartTest(buf.req, 3, secure_state)
    /\ k3' = "test"
    /\ UNCHANGED <<power, el, scr, cptr, secure_state, x0, ctx, saved, fault,
                   desc, buf, table, idx, excp>>
    /\ UNCHANGED tcvars

\* Any other request goes to the other world.
SmcDispatchAway ==
    /\ Monitor(SMC_OP_DISPATCH)
    /\ ~ Local(buf.req, 3, NSBit)
    /\ SmcReturn(SVC_OP_DISPATCH)
    /\ UNCHANGED <<power, cptr, fault, desc, buf, excp>>
    /\ UNCHANGED runvars /\ UNCHANGED tcvars

\* SMC_OP_TEST has no break: it falls through into SMC_OP_GET_REG, which sees
\* test.count as get.el and test.orig as get.key, and overwrites test.val if
\* they spell a register of EL3.
FallsThrough(t) == t.count = 3 /\ t.orig \in RegKeyCodes(Arch)
SmcTest ==
    /\ Monitor(SMC_OP_TEST)
    /\ LET t == InteropStage(buf)
       IN  \E v \in IF FallsThrough(t) THEN {0, 1} ELSE {t.val} :
              buf' = [t EXCEPT !.val = v]
    /\ SmcReturn(SVC_OP_TEST)
    /\ UNCHANGED <<power, cptr, fault, desc, excp>>
    /\ UNCHANGED runvars /\ UNCHANGED tcvars

SmcGetReg ==
    /\ Monitor(SMC_OP_GET_REG)
    /\ buf' = IF buf.lvl = 3 THEN [buf EXCEPT !.data = ReadReg(buf.key)]
                             ELSE buf
    /\ SmcReturn(0)
    /\ UNCHANGED <<power, cptr, fault, desc, excp>>
    /\ UNCHANGED runvars /\ UNCHANGED tcvars

SmcSetReg ==
    /\ Monitor(SMC_OP_SET_REG)
    /\ el' = 1 /\ x0' = 0 /\ k3' = "none"
    /\ IF buf.lvl = 3
       THEN /\ WriteReg(buf.key, buf.data)
            /\ ctx' = WrittenCtx(ctx, buf.key, buf.data)
       ELSE UNCHANGED <<scr, cptr, ctx>>
    /\ UNCHANGED <<power, secure_state, saved, fault, desc, buf, excp>>
    /\ UNCHANGED runvars /\ UNCHANGED tcvars

\* The log entry both exception handlers make when logging is on.
Logged(level) ==
    IF excp.log
    THEN [excp EXCEPT !.taken = TRUE, !.ec = fault.ec, !.el = level]
    ELSE excp

\* Faulty variant of El3HandleException: SKIP is ignored.
El3HandleException_NoSkip ==
    /\ power = "on" /\ fault.st = "taken" /\ fault.to = 3
    /\ excp' = Logged(3)
    /\ el' = fault.from /\ fault' = NoFault
    /\ UNCHANGED <<power, scr, cptr, secure_state, x0, ctx, saved, k3, desc,
                   buf>>
    /\ UNCHANGED runvars /\ UNCHANGED tcvars

\* el3_handle_exception(): return past the instruction if SKIP is set and onto
\* it if not; an exception it does not know shuts the machine down.
El3HandleException ==
    /\ power = "on" /\ fault.st = "taken" /\ fault.to = 3
    /\ excp' = Logged(3)
    /\ IF fault.ec \in {"SYSINSN", "WFI_WFE", "SIMD"}
       THEN /\ el' = fault.from
            /\ fault' = IF excp.skip THEN [st |-> "skipped"] ELSE NoFault
            /\ UNCHANGED power
       ELSE power' = "off" /\ UNCHANGED <<el, fault>>
    /\ UNCHANGED <<scr, cptr, secure_state, x0, ctx, saved, k3, desc, buf>>
    /\ UNCHANGED runvars /\ UNCHANGED tcvars

El3Next ==
    \/ El3Start \/ SmcYield \/ SmcNoop \/ SmcExit \/ SmcMap
    \/ SmcDispatchHere \/ SmcDispatchAway \/ SmcTest \/ SmcGetReg \/ SmcSetReg
    \/ El3HandleException
=============================================================================
