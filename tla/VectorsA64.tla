------------------------------ MODULE VectorsA64 ------------------------------
(***************************************************************************)
(* The AArch64 vectors of EL1 and EL3, monitor_switch and what they rely   *)
(* on: the exception return the C handlers set up.                         *)
(***************************************************************************)
EXTENDS VectorState

\* The processor takes an exception to el, to return to addr.
Take(c, el, addr) ==
    [c EXCEPT !.elr[el] = addr, !.spsr[el] = Psr(c.mode), !.mode = el]
ERet(c) == [c EXCEPT !.pc = c.elr[c.mode], !.mode = c.spsr[c.mode][1][2]]

\* A C handler, entered with elr in x3: it keeps that and the callee-saved
\* registers in its frame, and ends with __set_exception_return().  x0 is its
\* result, or what a void handler leaves there.
CallC(c, a) ==
    [Push(c, <<c.gpr["keep"], c.elr[c.mode], Own(a)>>)
        EXCEPT !.gpr = [g \in Gpr |-> Own(a)], !.pc = <<a, "body">>]
ReturnC(c, elr) ==
    [Pop(c, 3) EXCEPT
        !.gpr = [g \in Gpr |-> CASE g = "keep" -> Top(c, 3)
                                 [] g = "x0"   -> Result(c.pc[1])
                                 [] OTHER      -> Junk],
        !.elr[c.mode] = elr]
Elr(c) == Top(c, 2)

\* The two entries, the same at EL1 and EL3: only a lower level's SPSR is saved.
LowerEntry(c) == Push(c, <<c.gpr["lr"], c.gpr["x2"], c.spsr[c.mode], c.gpr["x0"], c.gpr["x1"]>>)
CurrentEntry(c) == Push(c, <<c.gpr["lr"], c.gpr["x2"], c.gpr["x0"], c.gpr["x1"]>>)

\* Faulty variant of CallExit: the saved x0 is restored as well.
CallExit_OldX0(c) ==
    [Pop(c, 5) EXCEPT !.gpr["x1"] = Top(c, 1), !.gpr["x0"] = Top(c, 2),
                      !.spsr[c.mode] = Top(c, 3), !.gpr["x2"] = Top(c, 4),
                      !.gpr["lr"] = Top(c, 5)]

\* The three exits: x0 is the result, or is restored.
CallExit(c) ==
    [Pop(c, 5) EXCEPT !.gpr["x1"] = Top(c, 1), !.spsr[c.mode] = Top(c, 3),
                      !.gpr["x2"] = Top(c, 4), !.gpr["lr"] = Top(c, 5)]
LowerExit(c) == [CallExit(c) EXCEPT !.gpr["x0"] = Top(c, 2)]
CurrentExit(c) ==
    [Pop(c, 4) EXCEPT !.gpr["x1"] = Top(c, 1), !.gpr["x0"] = Top(c, 2),
                      !.gpr["x2"] = Top(c, 3), !.gpr["lr"] = Top(c, 4)]

----------------------------------------------------------------------------
\* el1_init and el1_start, up to the entry of EL0.
El1Boot ==
    LET w == Running[1]
        main == <<w, "main">>
    IN  /\ Place = "entry"
        /\ cpu' = [cpu EXCEPT
                     !.sp["EL1"] = [of |-> <<w, "EL1">>, n |-> 1],
                     !.sp["EL0"] = [of |-> <<w, "EL0">>, n |-> 1],
                     !.stk[<<w, "EL1">>] = <<Own(<<w, "boot">>)>>,
                     !.stk[<<w, "EL0">>] = <<Own(main)>>,
                     !.elr["EL1"] = <<main, "body">>, !.spsr["EL1"] = Psr("EL0"),
                     !.gpr = [g \in Gpr |-> Own(main)],
                     !.mode = "EL0", !.pc = <<main, "body">>]
        /\ UNCHANGED <<buf, excp, switches>>

\* el1_sync_exception_lower64, an SVC.
Svc ==
    /\ At({"main"})
    /\ cpu' = CallC(LowerEntry(Take(Live(cpu), "EL1", <<Running, "ret">>)),
                    <<Running[1], "svc">>)
    /\ UNCHANGED <<buf, excp, switches>>

\* Faulty variant of SvcReturn: el1_handle_svc() leaves elr as it finds it.
SvcReturn_NoSetReturn ==
    /\ At({"svc"})
    /\ cpu' = ERet(CallExit(ReturnC(cpu, cpu.elr["EL1"])))
    /\ UNCHANGED <<buf, excp, switches>>

SvcReturn ==
    /\ At({"svc"})
    /\ cpu' = ERet(CallExit(ReturnC(cpu, Elr(cpu))))
    /\ UNCHANGED <<buf, excp, switches>>

\* An instruction of a test traps, at EL0, in an SVC or in an SMC handler.
Trapped(el) == Take(Live(cpu), el, <<Running, "at">>)
El1Exception ==
    /\ Running[2] \in {"main", "svc"}
    /\ \E action \in Action : Traps(action, "EL1")
    /\ cpu' = IF cpu.mode = "EL1"
              THEN CallC(CurrentEntry(Trapped("EL1")), <<Running[1], "current">>)
              ELSE CallC(LowerEntry(Trapped("EL1")), <<Running[1], "lower">>)
    /\ UNCHANGED <<buf, switches>>

\* Faulty variant of El1ExceptionReturn: the vector for lower levels, too, leaves
\* through the exit of the one for the current level, which pops no SPSR.
El1ExceptionReturn_OneExit ==
    /\ Running[1] # MON /\ At({"lower", "current"})
    /\ cpu' = ERet(CurrentExit(ReturnC(cpu, Advance(Elr(cpu)))))
    /\ UNCHANGED <<buf, excp, switches>>

El1ExceptionReturn ==
    /\ Running[1] # MON /\ At({"lower", "current"})
    /\ LET c == ReturnC(cpu, Advance(Elr(cpu)))
       IN  cpu' = ERet(IF Running[2] = "current" THEN CurrentExit(c) ELSE CallExit(c))
    /\ UNCHANGED <<buf, excp, switches>>

El3Exception ==
    /\ Running[2] \in {"main", "svc", "smc"}
    /\ \E action \in Action : Traps(action, "EL3")
    /\ cpu' = IF cpu.mode = "EL3"
              THEN CallC(CurrentEntry(Trapped("EL3")), <<MON, "current">>)
              ELSE CallC(LowerEntry(Trapped("EL3")), <<MON, "lower">>)
    /\ UNCHANGED <<buf, switches>>
El3ExceptionReturn ==
    /\ Running[1] = MON /\ At({"lower", "current"})
    /\ LET c == ReturnC(cpu, Advance(Elr(cpu)))
       IN  cpu' = ERet(IF Running[2] = "current" THEN CurrentExit(c) ELSE LowerExit(c))
    /\ UNCHANGED <<buf, excp, switches>>

Smc ==
    /\ At({"svc"})
    /\ cpu' = CallC(LowerEntry(Take(Live(cpu), "EL3", <<Running, "ret">>)), <<MON, "smc">>)
    /\ UNCHANGED <<buf, excp, switches>>
SmcReturn ==
    /\ At({"smc"})
    /\ cpu' = ERet(CallExit(ReturnC(cpu, Elr(cpu))))
    /\ UNCHANGED <<buf, excp, switches>>

----------------------------------------------------------------------------
\* The banked registers and x4 to x30, as state_buf lists them.
MONITOR_SAVE_STATE(c) ==
    [elr3 |-> c.elr["EL3"], spsr3 |-> c.spsr["EL3"], elr1 |-> c.elr["EL1"],
     spsr1 |-> c.spsr["EL1"], sp1 |-> c.sp["EL1"], sp0 |-> c.sp["EL0"],
     x4 |-> c.gpr["x4"], tmp |-> c.gpr["tmp"], keep |-> c.gpr["keep"], lr |-> c.gpr["lr"]]

\* Faulty variant of MONITOR_RESTORE_STATE: sp_el0 is saved and not loaded.
MONITOR_RESTORE_STATE_NoSp0(c, b) ==
    [c EXCEPT !.elr = [@ EXCEPT !["EL3"] = b.elr3, !["EL1"] = b.elr1],
              !.spsr = [@ EXCEPT !["EL3"] = b.spsr3, !["EL1"] = b.spsr1],
              !.sp = [@ EXCEPT !["EL1"] = b.sp1],
              !.gpr = [@ EXCEPT !["x4"] = b.x4, !["tmp"] = b.tmp, !["keep"] = b.keep,
                                !["lr"] = b.lr]]

MONITOR_RESTORE_STATE(c, b) ==
    [c EXCEPT !.elr = [@ EXCEPT !["EL3"] = b.elr3, !["EL1"] = b.elr1],
              !.spsr = [@ EXCEPT !["EL3"] = b.spsr3, !["EL1"] = b.spsr1],
              !.sp = [@ EXCEPT !["EL1"] = b.sp1, !["EL0"] = b.sp0],
              !.gpr = [@ EXCEPT !["x4"] = b.x4, !["tmp"] = b.tmp, !["keep"] = b.keep,
                                !["lr"] = b.lr]]

\* Faulty variant of SmcSwitch: x2 and x3 are left on the monitor's stack.
SmcSwitch_HalfPop ==
    LET c == CallExit(ReturnC(cpu, Elr(cpu)))
        d == Push(c, <<c.gpr["x0"], c.gpr["x1"], c.gpr["x2"]>>)
        r == MONITOR_RESTORE_STATE(d, buf[1 - d.ns])
    IN  /\ At({"smc"}) /\ switches < MaxSwitches
        /\ cpu' = ERet([Pop(r, 2) EXCEPT !.ns = 1 - d.ns])
        /\ buf' = [buf EXCEPT ![d.ns] = MONITOR_SAVE_STATE(d)]
        /\ switches' = switches + 1
        /\ UNCHANGED excp

\* A non-zero result: monitor_switch.  x0 to x3 travel on the stack.
SmcSwitch ==
    LET c == CallExit(ReturnC(cpu, Elr(cpu)))
        d == Push(c, <<c.gpr["x0"], c.gpr["x1"], c.gpr["x2"]>>)
        r == MONITOR_RESTORE_STATE(d, buf[1 - d.ns])
    IN  /\ At({"smc"}) /\ switches < MaxSwitches
        /\ cpu' = ERet([Pop(r, 3) EXCEPT !.ns = 1 - d.ns, !.gpr["x0"] = Top(r, 3),
                                         !.gpr["x1"] = Top(r, 2), !.gpr["x2"] = Top(r, 1)])
        /\ buf' = [buf EXCEPT ![d.ns] = MONITOR_SAVE_STATE(d)]
        /\ switches' = switches + 1
        /\ UNCHANGED excp

----------------------------------------------------------------------------
\* The state buffers, and the start of the secure kernel from one of them.
Entry(w) == <<<<w, "boot">>, "entry">>
NoStack == [of |-> <<MON, "EL3">>, n |-> 0]

\* Faulty variant of el3_monitor_init: reg[0] of nsec_state is left zero.
el3_monitor_init_NoReg(w) ==
    [elr3 |-> Entry(w), spsr3 |-> Psr("EL1"), elr1 |-> Junk, spsr1 |-> Junk,
     sp1 |-> NoStack, sp0 |-> NoStack, x4 |-> IF w = SECURE THEN Syscntl ELSE Junk,
     tmp |-> Junk, keep |-> Junk, lr |-> Junk]

el3_monitor_init(w) ==
    [elr3 |-> Entry(w), spsr3 |-> Psr("EL1"), elr1 |-> Junk, spsr1 |-> Junk,
     sp1 |-> NoStack, sp0 |-> NoStack, x4 |-> Syscntl, tmp |-> Junk, keep |-> Junk, lr |-> Junk]

\* EL3 as el3_start() leaves it.
Reset ==
    [mode |-> "EL3", pc |-> <<<<MON, "start">>, "body">>, ns |-> SECURE,
     gpr |-> [g \in Gpr |-> Junk],
     elr |-> [m \in {"EL1", "EL3"} |-> Junk], spsr |-> [m \in {"EL1", "EL3"} |-> Junk],
     sp |-> [m \in {"EL0", "EL1", "EL3"} |->
                [of |-> <<MON, "EL3">>, n |-> IF m = "EL3" THEN 1 ELSE 0]],
     stk |-> [s \in (World \X {"EL0", "EL1"}) \cup {<<MON, "EL3">>} |->
                IF s[1] = MON THEN <<Own(<<MON, "start">>)>> ELSE <<>>]]

Init ==
    /\ cpu = ERet(MONITOR_RESTORE_STATE(Reset, el3_monitor_init(SECURE)))
    /\ buf = [w \in World |-> el3_monitor_init(w)]
    /\ excp = [action |-> "NONE", to |-> "EL1"]
    /\ switches = 0

Next == \/ El1Boot \/ Svc \/ SvcReturn \/ El1Exception \/ El1ExceptionReturn
        \/ El3Exception \/ El3ExceptionReturn \/ Smc \/ SmcReturn \/ SmcSwitch
Spec == Init /\ [][Next]_vecvars
=============================================================================
