------------------------- MODULE VectorsArmInvariant -------------------------
(***************************************************************************)
(* The inductive invariant of VectorsArm: which frames are on which stack, *)
(* which banked link register is whose, what the waiting world's buffer    *)
(* keeps for it, and how far the monitor's stack has moved.                *)
(***************************************************************************)
EXTENDS VectorsArm

\* The values of registers, stack words and stack pointers.
Name == {"any", "start", "boot", "main", "svc", "und", "smc", "USR", "SVC", "UND", "MON"}
Tag == {"own", "res", "psr", "junk", "syscntl", "entry", "body", "ret", "next"}
Activity == {SECURE, NONSECURE, MON} \X Name
Word == Activity \X Tag
Modes == {"USR", "SVC", "UND", "MON"}
Stack == (World \X {"USR", "SVC", "UND"}) \cup {<<MON, "MON">>}
Pointer == [of : Stack, n : Nat]
Cpu == [mode : Modes, pc : Word, ns : World, gpr : [Gpr -> Word], lr : [Modes -> Word],
        spsr : [{"SVC", "UND", "MON"} -> Word], sp : [Modes -> Pointer],
        stk : [Stack -> Seq(Word)]]
Buffer == [sp : [{"USR", "SVC", "UND"} -> Pointer], lr : [{"USR", "SVC", "UND"} -> Word],
           spsr : [{"SVC", "UND"} -> Word], spsr3 : Word, elr3 : Word,
           gpr : [{"x4", "keep", "tmp"} -> Word]]

----------------------------------------------------------------------------
\* The frame, above the first n words of s, of the handler h that interrupted a in
\* mode m: what srsdb stores, k scratch registers, and the C function's own.
Frame(s, n, k, a, m, place, h) ==
    /\ Len(s) >= n + k + 5
    /\ s[n + 1] = Psr(m) /\ s[n + 2] = <<a, place>>
    /\ \A i \in 3..(k + 4) : s[n + i] = Own(a)
    /\ s[n + k + 5] = Own(h)

\* The stacks of USR and SVC mode in world w, and the link registers of their
\* owners, while main runs and while its SVC is handled.
InMain(w, sp, lr, stk) ==
    /\ sp["USR"] = [of |-> <<w, "USR">>, n |-> 1] /\ lr["USR"] = Own(<<w, "main">>)
    /\ Len(stk[<<w, "USR">>]) >= 1 /\ stk[<<w, "USR">>][1] = Own(<<w, "main">>)
    /\ sp["SVC"] = [of |-> <<w, "SVC">>, n |-> 1] /\ Len(stk[<<w, "SVC">>]) >= 1
InSvc(w, sp, lr, stk) ==
    /\ sp["USR"] = [of |-> <<w, "USR">>, n |-> 1] /\ lr["USR"] = Own(<<w, "main">>)
    /\ Len(stk[<<w, "USR">>]) >= 1 /\ stk[<<w, "USR">>][1] = Own(<<w, "main">>)
    /\ sp["SVC"] = [of |-> <<w, "SVC">>, n |-> 8] /\ lr["SVC"] = Own(<<w, "svc">>)
    /\ Frame(stk[<<w, "SVC">>], 1, 2, <<w, "main">>, "USR", "ret", <<w, "svc">>)

\* The stack of UND mode, empty or with the frame of a handler.
NoTrap(w, sp) == sp["UND"] = [of |-> <<w, "UND">>, n |-> 0]
InTrap(w, sp, stk, a, m) ==
    /\ sp["UND"] = [of |-> <<w, "UND">>, n |-> 8]
    /\ Frame(stk[<<w, "UND">>], 0, 3, a, m, "next", <<w, "und">>)

----------------------------------------------------------------------------
\* The depth of the monitor's stack outside the monitor.
Depth == 1 + 2 * (1 + switches)
MonStack == cpu.stk[<<MON, "MON">>]
OutsideMonitor == cpu.sp["MON"].n = Depth /\ Len(MonStack) >= Depth

\* A kernel is about to start, with the address of the control block.
Starting ==
    /\ Running = <<cpu.ns, "boot">> /\ cpu.mode = "SVC"
    /\ cpu.gpr["x4"] = Syscntl /\ OutsideMonitor

\* The live world: the running activity, and the frames of those it interrupted.
Active ==
    LET w == cpu.ns
        main == <<w, "main">>
        svc == <<w, "svc">>
        user == InMain(w, cpu.sp, cpu.lr, cpu.stk)
        kernel == InSvc(w, cpu.sp, cpu.lr, cpu.stk)
    IN  /\ \/ Running = main /\ user /\ NoTrap(w, cpu.sp) /\ OutsideMonitor
           \/ Running = svc /\ kernel /\ NoTrap(w, cpu.sp) /\ OutsideMonitor
           \/ /\ Running = <<w, "und">> /\ Place = "body" /\ OutsideMonitor
              /\ \/ user /\ InTrap(w, cpu.sp, cpu.stk, main, "USR")
                 \/ kernel /\ InTrap(w, cpu.sp, cpu.stk, svc, "SVC")
           \/ /\ Running = <<MON, "smc">> /\ Place = "body" /\ kernel /\ NoTrap(w, cpu.sp)
              /\ cpu.sp["MON"].n = Depth + 5
              /\ Frame(MonStack, Depth, 0, svc, "SVC", "ret", Running)
        /\ cpu.mode = ModeOf(Running) /\ KeptOf(Running)
        /\ ResultDelivered /\ TrapRestoresSaved

\* The world that waits has not started, or waits in the SMC of an SVC handler.
Fresh(b, w) ==
    b.elr3 = <<<<w, "boot">>, "entry">> /\ b.spsr3 = Psr("SVC") /\ b.gpr["x4"] = Syscntl
Suspended(b, w, stk) ==
    /\ b.elr3 = <<<<w, "svc">>, "ret">> /\ b.spsr3 = Psr("SVC")
    /\ b.gpr["keep"] = Own(<<w, "svc">>) /\ b.gpr["x4"] = Own(<<w, "svc">>)
    /\ InSvc(w, b.sp, b.lr, stk) /\ NoTrap(w, b.sp)
Parked(b, w, stk) == Fresh(b, w) \/ Suspended(b, w, stk)

\* Whatever chain of calls, exceptions and world switches led here, every frame
\* the vectors pushed and every buffer monitor_switch filled still holds what its
\* owner will be resumed with.
FrameInv ==
    /\ cpu \in Cpu /\ buf \in [World -> Buffer] /\ switches \in Nat
    /\ cpu.sp["MON"].of = <<MON, "MON">>
    /\ IF Place = "entry" THEN Starting ELSE Active
    /\ Parked(buf[1 - cpu.ns], 1 - cpu.ns, cpu.stk)
=============================================================================
