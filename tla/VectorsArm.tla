------------------------------ MODULE VectorsArm ------------------------------
(***************************************************************************)
(* The ARM vectors of EL1 and of the monitor, and its monitor_switch.  A   *)
(* vector saves the return address and SPSR of its mode with srsdb and     *)
(* returns with rfefd, so __set_exception_return() has nothing to do.      *)
(* Traps are undefined instructions; aborts end in shutdown and interrupts *)
(* do not occur, so the banks of those modes are left out.                 *)
(***************************************************************************)
EXTENDS VectorState

\* The processor takes an exception to mode m, to return to addr.
Take(c, m, addr) ==
    [c EXCEPT !.lr[m] = addr, !.spsr[m] = Psr(c.mode), !.mode = m]
Srs(c) == Push(c, <<c.spsr[c.mode], c.lr[c.mode]>>)
Rfe(c) == [Pop(c, 2) EXCEPT !.pc = Top(c, 1), !.mode = Top(c, 2)[1][2]]

\* A C handler keeps the callee-saved registers in its frame.
CallC(c, a) ==
    [Push(c, <<c.gpr["keep"], c.gpr["x4"], Own(a)>>)
        EXCEPT !.gpr = [g \in Gpr |-> Own(a)], !.lr[c.mode] = Own(a),
               !.pc = <<a, "body">>]
ReturnC(c) ==
    [Pop(c, 3) EXCEPT
        !.gpr = [g \in Gpr |-> CASE g = "keep" -> Top(c, 3)
                                 [] g = "x4"   -> Top(c, 2)
                                 [] g = "x0"   -> Result(c.pc[1])
                                 [] OTHER      -> Junk],
        !.lr[c.mode] = Junk]

----------------------------------------------------------------------------
\* el1_init and el1_start, up to the entry of EL0.
El1Boot ==
    LET w == Running[1]
        main == <<w, "main">>
        stack(m) == [of |-> <<w, m>>, n |-> IF m = "UND" THEN 0 ELSE 1]
    IN  /\ Place = "entry"
        /\ cpu' = [cpu EXCEPT
                     !.sp = [m \in DOMAIN @ |-> IF m = "MON" THEN @[m] ELSE stack(m)],
                     !.stk[<<w, "SVC">>] = <<Own(<<w, "boot">>)>>,
                     !.stk[<<w, "USR">>] = <<Own(main)>>,
                     !.gpr = [g \in Gpr |-> Own(main)], !.lr["USR"] = Own(main),
                     !.mode = "USR", !.pc = <<main, "body">>]
        /\ UNCHANGED <<buf, excp, switches>>

\* el1_svc_vect.
Svc ==
    LET c == Srs(Take(Live(cpu), "SVC", <<Running, "ret">>))
    IN  /\ At({"main"})
        /\ cpu' = CallC(Push(c, <<c.gpr["x2"], c.gpr["x1"]>>), <<Running[1], "svc">>)
        /\ UNCHANGED <<buf, excp, switches>>

\* Faulty variant of SvcReturn: r0 is popped with r1 to r3.
SvcReturn_PopR0 ==
    LET c == ReturnC(cpu)
    IN  /\ At({"svc"})
        /\ cpu' = Rfe([Pop(c, 2) EXCEPT !.gpr["x0"] = Top(c, 1), !.gpr["x2"] = Top(c, 2)])
        /\ UNCHANGED <<buf, excp, switches>>

SvcReturn ==
    LET c == ReturnC(cpu)
    IN  /\ At({"svc"})
        /\ cpu' = Rfe([Pop(c, 2) EXCEPT !.gpr["x1"] = Top(c, 1), !.gpr["x2"] = Top(c, 2)])
        /\ UNCHANGED <<buf, excp, switches>>

\* el1_undef_vect: LR_und is past the instruction that trapped, at EL0 or in an
\* SVC handler.  What el1_handle_exception() makes of elr is not used.
El1Exception ==
    LET c == Srs(Take(Live(cpu), "UND", <<Running, "next">>))
    IN  /\ Running[2] \in {"main", "svc"}
        /\ \E action \in Action : Traps(action, "UND")
        /\ cpu' = CallC(Push(c, <<c.gpr["x2"], c.gpr["x1"], c.gpr["x0"]>>),
                        <<Running[1], "und">>)
        /\ UNCHANGED <<buf, switches>>

\* Faulty variant of El1ExceptionReturn: r0 keeps what the handler left in it.
El1ExceptionReturn_KeepR0 ==
    LET c == ReturnC(cpu)
    IN  /\ At({"und"})
        /\ cpu' = Rfe([Pop(c, 3) EXCEPT !.gpr["x1"] = Top(c, 2), !.gpr["x2"] = Top(c, 3)])
        /\ UNCHANGED <<buf, excp, switches>>

El1ExceptionReturn ==
    LET c == ReturnC(cpu)
    IN  /\ At({"und"})
        /\ cpu' = Rfe([Pop(c, 3) EXCEPT !.gpr["x0"] = Top(c, 1), !.gpr["x1"] = Top(c, 2),
                                        !.gpr["x2"] = Top(c, 3)])
        /\ UNCHANGED <<buf, excp, switches>>

\* el3_smc_vect.
Smc ==
    /\ At({"svc"})
    /\ cpu' = CallC(Srs(Take(Live(cpu), "MON", <<Running, "ret">>)), <<MON, "smc">>)
    /\ UNCHANGED <<buf, excp, switches>>
SmcReturn ==
    /\ At({"smc"})
    /\ cpu' = Rfe(ReturnC(cpu))
    /\ UNCHANGED <<buf, excp, switches>>

----------------------------------------------------------------------------
\* Faulty variant of monitor_save_state: the link register of SVC mode is not saved.
monitor_save_state_NoLr(c, spsr, elr) ==
    [sp |-> [m \in {"USR", "SVC", "UND"} |-> c.sp[m]],
     lr |-> [m \in {"USR", "SVC", "UND"} |-> IF m = "SVC" THEN Junk ELSE c.lr[m]],
     spsr |-> [m \in {"SVC", "UND"} |-> c.spsr[m]],
     spsr3 |-> spsr, elr3 |-> elr,
     gpr |-> [g \in {"x4", "keep", "tmp"} |-> c.gpr[g]]]

\* The banks of each mode, the return frame and r4 to r12, as state_buf lists them.
monitor_save_state(c, spsr, elr) ==
    [sp |-> [m \in {"USR", "SVC", "UND"} |-> c.sp[m]],
     lr |-> [m \in {"USR", "SVC", "UND"} |-> c.lr[m]],
     spsr |-> [m \in {"SVC", "UND"} |-> c.spsr[m]],
     spsr3 |-> spsr, elr3 |-> elr,
     gpr |-> [g \in {"x4", "keep", "tmp"} |-> c.gpr[g]]]
\* Faulty variant of monitor_restore_state: the stack pointer of UND mode stays.
monitor_restore_state_NoUnd(c, b) ==
    Push([c EXCEPT !.sp = [m \in DOMAIN @ |-> IF m \in {"MON", "UND"} THEN @[m] ELSE b.sp[m]],
                   !.lr = [m \in DOMAIN @ |-> IF m = "MON" THEN Junk ELSE b.lr[m]],
                   !.spsr = [m \in DOMAIN @ |-> IF m = "MON" THEN @[m] ELSE b.spsr[m]],
                   !.gpr = [g \in Gpr |-> IF g \in DOMAIN b.gpr THEN b.gpr[g] ELSE Junk]],
         <<b.spsr3, b.elr3>>)

\* It leaves the return frame on the stack.
monitor_restore_state(c, b) ==
    Push([c EXCEPT !.sp = [m \in DOMAIN @ |-> IF m = "MON" THEN @[m] ELSE b.sp[m]],
                   !.lr = [m \in DOMAIN @ |-> IF m = "MON" THEN Junk ELSE b.lr[m]],
                   !.spsr = [m \in DOMAIN @ |-> IF m = "MON" THEN @[m] ELSE b.spsr[m]],
                   !.gpr = [g \in Gpr |-> IF g \in DOMAIN b.gpr THEN b.gpr[g] ELSE Junk]],
         <<b.spsr3, b.elr3>>)

\* Faulty variant of SmcSwitch: the frame of the vector is read, not popped.
SmcSwitch_NoPop ==
    LET c == ReturnC(cpu)
        d == Push(c, <<c.gpr["x1"], c.gpr["x0"]>>)
        r == monitor_restore_state(d, buf[1 - d.ns])
        p == Pop(r, 2)
        e == Push(Pop(p, 2), <<Top(r, 2), Top(r, 1)>>)
    IN  /\ At({"smc"}) /\ switches < MaxSwitches
        /\ cpu' = [e EXCEPT !.ns = 1 - d.ns, !.gpr["x0"] = Top(p, 1), !.gpr["x1"] = Top(p, 2),
                            !.pc = Top(e, 1), !.mode = Top(e, 2)[1][2]]
        /\ buf' = [buf EXCEPT ![d.ns] = monitor_save_state(d, Top(c, 2), Top(c, 1))]
        /\ switches' = switches + 1
        /\ UNCHANGED excp

\* A non-zero result: monitor_switch.  r0 and r1 travel on the stack, below the
\* return frame, which is pushed again and left there by `rfefd sp`.
SmcSwitch ==
    LET c == ReturnC(cpu)
        d == Push(Pop(c, 2), <<c.gpr["x1"], c.gpr["x0"]>>)
        r == monitor_restore_state(d, buf[1 - d.ns])
        p == Pop(r, 2)
        e == Push(Pop(p, 2), <<Top(r, 2), Top(r, 1)>>)
    IN  /\ At({"smc"}) /\ switches < MaxSwitches
        /\ cpu' = [e EXCEPT !.ns = 1 - d.ns, !.gpr["x0"] = Top(p, 1), !.gpr["x1"] = Top(p, 2),
                            !.pc = Top(e, 1), !.mode = Top(e, 2)[1][2]]
        /\ buf' = [buf EXCEPT ![d.ns] = monitor_save_state(d, Top(c, 2), Top(c, 1))]
        /\ switches' = switches + 1
        /\ UNCHANGED excp

----------------------------------------------------------------------------
\* Faulty variant of el3_monitor_init: reg[0] of nsec_state is left zero.
el3_monitor_init_NoReg(w) ==
    [sp |-> [m \in {"USR", "SVC", "UND"} |-> [of |-> <<MON, "MON">>, n |-> 0]],
     lr |-> [m \in {"USR", "SVC", "UND"} |-> Junk],
     spsr |-> [m \in {"SVC", "UND"} |-> Junk],
     spsr3 |-> Psr("SVC"), elr3 |-> <<<<w, "boot">>, "entry">>,
     gpr |-> [x4 |-> IF w = SECURE THEN Syscntl ELSE Junk, keep |-> Junk, tmp |-> Junk]]

\* The state buffers, and the start of the secure kernel from one of them.
el3_monitor_init(w) ==
    [sp |-> [m \in {"USR", "SVC", "UND"} |-> [of |-> <<MON, "MON">>, n |-> 0]],
     lr |-> [m \in {"USR", "SVC", "UND"} |-> Junk],
     spsr |-> [m \in {"SVC", "UND"} |-> Junk],
     spsr3 |-> Psr("SVC"), elr3 |-> <<<<w, "boot">>, "entry">>,
     gpr |-> [x4 |-> Syscntl, keep |-> Junk, tmp |-> Junk]]

\* EL3 as el3_start() leaves it.
Reset ==
    [mode |-> "MON", pc |-> <<<<MON, "start">>, "body">>, ns |-> SECURE,
     gpr |-> [g \in Gpr |-> Junk], lr |-> [m \in {"USR", "SVC", "UND", "MON"} |-> Junk],
     spsr |-> [m \in {"SVC", "UND", "MON"} |-> Junk],
     sp |-> [m \in {"USR", "SVC", "UND", "MON"} |->
                [of |-> <<MON, "MON">>, n |-> IF m = "MON" THEN 1 ELSE 0]],
     stk |-> [s \in (World \X {"USR", "SVC", "UND"}) \cup {<<MON, "MON">>} |->
                IF s[1] = MON THEN <<Own(<<MON, "start">>)>> ELSE <<>>]]

Init ==
    LET c == monitor_restore_state(Reset, el3_monitor_init(SECURE))
    IN  /\ cpu = Rfe(Push(c, <<Psr("SVC"), <<<<SECURE, "boot">>, "entry">>>>))
        /\ buf = [w \in World |-> el3_monitor_init(w)]
        /\ excp = [action |-> "NONE", to |-> "UND"]
        /\ switches = 0

Next == \/ El1Boot \/ Svc \/ SvcReturn \/ El1Exception \/ El1ExceptionReturn
        \/ Smc \/ SmcReturn \/ SmcSwitch
Spec == Init /\ [][Next]_vecvars
=============================================================================
