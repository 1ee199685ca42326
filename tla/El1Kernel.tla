------------------------------ MODULE El1Kernel ------------------------------
(***************************************************************************)
(* EL1 of either world: start-up, el1_handle_svc() and                     *)
(* el1_handle_exception() of el1/el1.c.  An SVC whose handler issues an    *)
(* SMC is two actions, the handler up to the SMC and the handler after it; *)
(* between the two the other world may run.                                *)
(***************************************************************************)
EXTENDS TzMachine

\* el1_init and el1_start(): floating point is enabled, the shared blocks are
\* mapped, the EL0 image is loaded and entered.
El1Start ==
    /\ AtEl1("init")
    /\ el' = 0
    /\ ctx' = [ctx EXCEPT !.k0 = "main", !.k1 = "idle", !.cpacr = CpacrBits]
    /\ UNCHANGED <<power, scr, cptr, secure_state, x0, saved, k3, fault, desc,
                   buf, excp>>
    /\ UNCHANGED runvars /\ UNCHANGED tcvars

SvcExit ==
    /\ Handling(SVC_OP_EXIT)
    /\ Smc(SMC_OP_EXIT, "exit")
    /\ UNCHANGED <<power, scr, cptr, secure_state, saved, fault, desc, buf,
                   excp>>
    /\ UNCHANGED runvars /\ UNCHANGED tcvars

SvcYield ==
    /\ Handling(SVC_OP_YIELD)
    /\ Smc(SMC_OP_YIELD, "yield")
    /\ UNCHANGED <<power, scr, cptr, secure_state, saved, fault, desc, buf,
                   excp>>
    /\ UNCHANGED runvars /\ UNCHANGED tcvars

\* Faulty variant of SvcYieldReturn: the buffer is not copied out.
SvcYieldReturn_NoCopy ==
    /\ AtEl1("yield")
    /\ SvcReturn(ctx, x0)
    /\ UNCHANGED <<power, scr, cptr, secure_state, saved, k3, fault, desc, buf,
                   excp>>
    /\ UNCHANGED runvars /\ UNCHANGED tcvars

\* The world is resumed with an opcode: the buffer is copied out to EL0's
\* descriptor and the opcode returned.  Nothing is ever copied in.
SvcYieldReturn ==
    /\ AtEl1("yield")
    /\ desc' = [desc EXCEPT ![ctx.w] = buf]
    /\ SvcReturn(ctx, x0)
    /\ UNCHANGED <<power, scr, cptr, secure_state, saved, k3, fault, buf, excp>>
    /\ UNCHANGED runvars /\ UNCHANGED tcvars

\* el1_alloc_mem(): a heap page, mapped in this world's address space.
SvcAlloc ==
    /\ Handling(SVC_OP_ALLOC)
    /\ tcmap' = [tcmap EXCEPT ![ctx.w] = "tc"]
    /\ SvcReturn(ctx, 0)
    /\ UNCHANGED <<power, scr, cptr, secure_state, saved, k3, fault, desc, buf,
                   excp, cnt, judged>>
    /\ UNCHANGED runvars

\* Faulty variant of SvcMapForward: the physical address is not looked up.
SvcMapForward_NoLookup ==
    /\ Handling(SVC_OP_MAP) /\ "EL3" \in desc[ctx.w].type
    /\ buf' = desc[ctx.w]
    /\ Smc(SMC_OP_MAP, "map")
    /\ UNCHANGED <<power, scr, cptr, secure_state, saved, fault, desc, excp>>
    /\ UNCHANGED runvars /\ UNCHANGED tcvars

\* el1_map_secure() for a request that names EL3: the physical address is
\* looked up only if the caller's pa happens to be non-null.
SvcMapForward ==
    /\ Handling(SVC_OP_MAP) /\ "EL3" \in desc[ctx.w].type
    /\ LET d == desc[ctx.w]
       IN  buf' = IF d.pa # "zero" THEN [d EXCEPT !.pa = tcmap[ctx.w]] ELSE d
    /\ Smc(SMC_OP_MAP, "map")
    /\ UNCHANGED <<power, scr, cptr, secure_state, saved, fault, desc, excp>>
    /\ UNCHANGED runvars /\ UNCHANGED tcvars

SvcMapHere ==
    /\ Handling(SVC_OP_MAP) /\ "EL3" \notin desc[ctx.w].type
    /\ tcmap' = [tcmap EXCEPT ![ctx.w] = desc[ctx.w].pa]
    /\ SvcReturn(ctx, 0)
    /\ UNCHANGED <<power, scr, cptr, secure_state, saved, k3, fault, desc, buf,
                   excp, cnt, judged>>
    /\ UNCHANGED runvars

SvcGetSyscntl ==
    /\ Handling(SVC_OP_GET_SYSCNTL)
    /\ desc' = [desc EXCEPT ![ctx.w] = SyscntlDesc]
    /\ SvcReturn(ctx, 0)
    /\ UNCHANGED <<power, scr, cptr, secure_state, saved, k3, fault, buf, excp>>
    /\ UNCHANGED runvars /\ UNCHANGED tcvars

\* el1_interop_test(): copy in, one stage, SMC; on return another stage in the
\* buffer, copied out to the caller.
SvcTest ==
    /\ Handling(SVC_OP_TEST)
    /\ buf' = InteropStage(desc[ctx.w])
    /\ Smc(SMC_OP_TEST, "test_smc")
    /\ UNCHANGED <<power, scr, cptr, secure_state, saved, fault, desc, excp>>
    /\ UNCHANGED runvars /\ UNCHANGED tcvars

SvcTestReturn ==
    /\ AtEl1("test_smc")
    /\ buf' = InteropStage(buf)
    /\ desc' = [desc EXCEPT ![ctx.w] = InteropStage(buf)]
    /\ SvcReturn(ctx, 0)
    /\ UNCHANGED <<power, scr, cptr, secure_state, saved, k3, fault, excp>>
    /\ UNCHANGED runvars /\ UNCHANGED tcvars

----------------------------------------------------------------------------
\* GET_REG and SET_REG.  A level-1 access is made here and may trap; after the
\* trap handler skipped the instruction the read leaves garbage and the write
\* has no effect.  A level-3 access goes to the monitor through the buffer.

SvcRegTrap(op) ==
    /\ power = "on" /\ el = 1 /\ ctx.k1 = "svc" /\ x0 = op /\ fault = NoFault
    /\ desc[ctx.w].lvl = 1
    /\ TrapOf(AccessInsn(desc[ctx.w].key)) # NoTrap
    /\ Raise(TrapOf(AccessInsn(desc[ctx.w].key)))
    /\ UNCHANGED <<power, scr, cptr, secure_state, x0, ctx, saved, k3, desc,
                   buf, excp>>
    /\ UNCHANGED runvars /\ UNCHANGED tcvars

SvcGetRegHere ==
    /\ power = "on" /\ el = 1 /\ ctx.k1 = "svc" /\ x0 = SVC_OP_GET_REG
    /\ fault.st # "taken" /\ desc[ctx.w].lvl = 1
    /\ \/ Skipped
       \/ TrapOf(AccessInsn(desc[ctx.w].key)) = NoTrap
    /\ \E v \in IF Skipped THEN Garbage(desc[ctx.w].key)
                           ELSE {ReadReg(desc[ctx.w].key)} :
          desc' = [desc EXCEPT ![ctx.w].data = v]
    /\ fault' = NoFault
    /\ SvcReturn(ctx, 0)
    /\ UNCHANGED <<power, scr, cptr, secure_state, saved, k3, buf, excp>>
    /\ UNCHANGED runvars /\ UNCHANGED tcvars

SvcSetRegHere ==
    /\ power = "on" /\ el = 1 /\ ctx.k1 = "svc" /\ x0 = SVC_OP_SET_REG
    /\ fault.st # "taken" /\ desc[ctx.w].lvl = 1
    /\ LET d == desc[ctx.w]
       IN  \/ /\ Skipped
              /\ SvcReturn(ctx, 0)
              /\ UNCHANGED <<scr, cptr>>
           \/ /\ ~ Skipped /\ TrapOf(AccessInsn(d.key)) = NoTrap
              /\ WriteReg(d.key, d.data)
              /\ SvcReturn(WrittenCtx(ctx, d.key, d.data), 0)
    /\ fault' = NoFault
    /\ UNCHANGED <<power, secure_state, saved, k3, desc, buf, excp>>
    /\ UNCHANGED runvars /\ UNCHANGED tcvars

SvcRegMonitor(op, smc, k) ==
    /\ Handling(op) /\ desc[ctx.w].lvl = 3
    /\ buf' = desc[ctx.w]
    /\ Smc(smc, k)
    /\ UNCHANGED <<power, scr, cptr, secure_state, saved, fault, desc, excp>>
    /\ UNCHANGED runvars /\ UNCHANGED tcvars

\* SVC handlers that end by copying the buffer out (GET_REG, DISPATCH) or by
\* just returning (SET_REG, MAP).
SvcCopyOut ==
    /\ AtEl1("get_reg") \/ AtEl1("dispatch")
    /\ desc' = [desc EXCEPT ![ctx.w] = buf]
    /\ SvcReturn(ctx, 0)
    /\ UNCHANGED <<power, scr, cptr, secure_state, saved, k3, fault, buf, excp>>
    /\ UNCHANGED runvars /\ UNCHANGED tcvars

SvcPlainReturn ==
    /\ AtEl1("set_reg") \/ AtEl1("map")
    /\ SvcReturn(ctx, 0)
    /\ UNCHANGED <<power, scr, cptr, secure_state, saved, k3, fault, desc, buf,
                   excp>>
    /\ UNCHANGED runvars /\ UNCHANGED tcvars

----------------------------------------------------------------------------
\* DISPATCH: run a request this image owns, pass any other to the monitor.
SvcDispatchHere ==
    /\ Handling(SVC_OP_DISPATCH)
    /\ Local(desc[ctx.w].req, 1, ctx.w)
    /\ StartTest(desc[ctx.w].req, 1, ctx.w)
    /\ ctx' = [ctx EXCEPT !.k1 = "test"]
    /\ UNCHANGED <<power, el, scr, cptr, secure_state, x0, saved, k3, fault,
                   desc, buf, table, idx, excp>>
    /\ UNCHANGED tcvars

SvcDispatchAway ==
    /\ Handling(SVC_OP_DISPATCH)
    /\ ~ Local(desc[ctx.w].req, 1, ctx.w)
    /\ buf' = desc[ctx.w]
    /\ Smc(SMC_OP_DISPATCH, "dispatch")
    /\ UNCHANGED <<power, scr, cptr, secure_state, saved, fault, desc, excp>>
    /\ UNCHANGED runvars /\ UNCHANGED tcvars

\* Faulty variant of El1HandleException: it logs the level the exception came
\* from, not its own.
El1HandleException_LogsOrigin ==
    /\ power = "on" /\ fault.st = "taken" /\ fault.to = 1
    /\ excp' = IF excp.log
               THEN [excp EXCEPT !.taken = TRUE, !.ec = fault.ec,
                                 !.el = fault.from]
               ELSE excp
    /\ el' = fault.from
    /\ fault' = IF excp.skip \/ Arch = "arm" THEN [st |-> "skipped"]
                                             ELSE NoFault
    /\ UNCHANGED <<x0, k3, ctx, power, scr, cptr, secure_state, saved, desc,
                   buf>>
    /\ UNCHANGED runvars /\ UNCHANGED tcvars

\* Faulty variant of El1HandleException: it returns onto the instruction.
El1HandleException_Retries ==
    /\ power = "on" /\ fault.st = "taken" /\ fault.to = 1
    /\ excp' = IF excp.log
               THEN [excp EXCEPT !.taken = TRUE, !.ec = fault.ec, !.el = 1]
               ELSE excp
    /\ el' = fault.from /\ fault' = NoFault
    /\ UNCHANGED <<x0, k3, ctx, power, scr, cptr, secure_state, saved, desc,
                   buf>>
    /\ UNCHANGED runvars /\ UNCHANGED tcvars

\* el1_handle_exception(): log, then return past the instruction or onto it.
\* On AArch64 SKIP decides.  On ARM the return address cannot be changed
\* (__set_exception_return is empty) and already lies past the instruction.
\* Any other class ends the run through SMC_EXIT.
El1HandleException ==
    /\ power = "on" /\ fault.st = "taken" /\ fault.to = 1
    /\ excp' = IF excp.log
               THEN [excp EXCEPT !.taken = TRUE, !.ec = fault.ec, !.el = 1]
               ELSE excp
    /\ IF fault.ec \in {"UNKNOWN", "WFI_WFE", "SIMD"}
       THEN /\ el' = fault.from
            /\ fault' = IF excp.skip \/ Arch = "arm" THEN [st |-> "skipped"]
                                                     ELSE NoFault
            /\ UNCHANGED <<x0, k3, ctx>>
       ELSE Smc(SMC_OP_EXIT, "exit") /\ fault' = NoFault
    /\ UNCHANGED <<power, scr, cptr, secure_state, saved, desc, buf>>
    /\ UNCHANGED runvars /\ UNCHANGED tcvars

El1Next ==
    \/ El1Start \/ SvcExit \/ SvcYield \/ SvcYieldReturn \/ SvcAlloc
    \/ SvcMapForward \/ SvcMapHere \/ SvcGetSyscntl \/ SvcTest \/ SvcTestReturn
    \/ SvcRegTrap(SVC_OP_GET_REG) \/ SvcRegTrap(SVC_OP_SET_REG)
    \/ SvcGetRegHere \/ SvcSetRegHere
    \/ SvcRegMonitor(SVC_OP_GET_REG, SMC_OP_GET_REG, "get_reg")
    \/ SvcRegMonitor(SVC_OP_SET_REG, SMC_OP_SET_REG, "set_reg")
    \/ SvcCopyOut \/ SvcPlainReturn \/ SvcDispatchHere \/ SvcDispatchAway
    \/ El1HandleException
=============================================================================
