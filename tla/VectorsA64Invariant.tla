------------------------- MODULE VectorsA64Invariant -------------------------
(***************************************************************************)
(* The inductive invariant of VectorsA64.  That whoever is resumed finds   *)
(* its own values (OwnContext) does not survive a step: what a return      *)
(* brings back is on a stack, or in the buffer of the world that waits.    *)
(* The parts below say what every frame holds, which frames are on which   *)
(* stack, and what the waiting world's buffer and stacks keep for it.      *)
(***************************************************************************)
EXTENDS VectorsA64

\* The values of registers, stack words and stack pointers.
Name == {"any", "start", "boot", "main", "svc", "lower", "current", "smc",
         "EL0", "EL1", "EL3"}
Tag == {"own", "res", "psr", "junk", "syscntl", "entry", "body", "ret", "at", "next"}
Activity == {SECURE, NONSECURE, MON} \X Name
Word == Activity \X Tag
Stack == (World \X {"EL0", "EL1"}) \cup {<<MON, "EL3">>}
Pointer == [of : Stack, n : Nat]
Modes == {"EL0", "EL1", "EL3"}
Cpu == [mode : Modes, pc : Word, ns : World, gpr : [Gpr -> Word],
        elr : [{"EL1", "EL3"} -> Word], spsr : [{"EL1", "EL3"} -> Word],
        sp : [Modes -> Pointer], stk : [Stack -> Seq(Word)]]
Buffer == [elr3 : Word, spsr3 : Word, elr1 : Word, spsr1 : Word, sp1 : Pointer,
           sp0 : Pointer, x4 : Word, tmp : Word, keep : Word, lr : Word]

----------------------------------------------------------------------------
\* The frames of the handler h that interrupted a: the vector's own and the C
\* function's above it.  From a lower level, in mode m, and from the same level,
\* on top of such a frame.
LowerFrame(s, a, m, place, h) ==
    /\ Len(s) >= 9
    /\ s[2] = Own(a) /\ s[3] = Own(a) /\ s[4] = Psr(m) /\ s[5] = Own(a) /\ s[6] = Own(a)
    /\ s[7] = Own(a) /\ s[8] = <<a, place>> /\ s[9] = Own(h)
CurrentFrame(s, a, h) ==
    /\ Len(s) >= 16
    /\ s[10] = Own(a) /\ s[11] = Own(a) /\ s[12] = Own(a) /\ s[13] = Own(a)
    /\ s[14] = Own(a) /\ s[15] = <<a, "at">> /\ s[16] = Own(h)

\* The first n words of s are what EL1's stack in world w holds while a, at EL0
\* or EL1, runs or is interrupted by EL3.
KernelStack(s, n, w, a) ==
    \/ a = <<w, "main">> /\ n = 1 /\ Len(s) >= 1
    \/ a = <<w, "svc">> /\ n = 9 /\ LowerFrame(s, <<w, "main">>, "EL0", "ret", a)
    \/ a = <<w, "lower">> /\ n = 9 /\ LowerFrame(s, <<w, "main">>, "EL0", "at", a)
    \/ /\ a = <<w, "current">> /\ n = 16
       /\ LowerFrame(s, <<w, "main">>, "EL0", "ret", <<w, "svc">>)
       /\ CurrentFrame(s, <<w, "svc">>, a)

\* Likewise EL3's stack while a runs: a is b itself, or a handler of EL3 that
\* interrupted b.
Mode(a) == IF a[2] = "main" THEN "EL0" ELSE "EL1"
MonitorFrames(s, n, b, a) ==
    \/ a = b /\ n = 1 /\ Len(s) >= 1
    \/ a = <<MON, "smc">> /\ n = 9 /\ b[2] = "svc" /\ LowerFrame(s, b, "EL1", "ret", a)
    \/ /\ a = <<MON, "lower">> /\ n = 9 /\ b[2] \in {"main", "svc"}
       /\ LowerFrame(s, b, Mode(b), "at", a)
    \/ /\ a = <<MON, "current">> /\ n = 16 /\ b[2] = "svc"
       /\ LowerFrame(s, b, "EL1", "ret", <<MON, "smc">>)
       /\ CurrentFrame(s, <<MON, "smc">>, a)

\* EL0's stack holds the frame of main alone.
UserStack(w, p, stk) ==
    /\ p = [of |-> <<w, "EL0">>, n |-> 1]
    /\ Len(stk[<<w, "EL0">>]) >= 1 /\ stk[<<w, "EL0">>][1] = Own(<<w, "main">>)

----------------------------------------------------------------------------
\* What runs below EL3: the running activity, or the one EL3 interrupted.
MonStack == cpu.stk[<<MON, "EL3">>]
Below == IF Running[1] = MON THEN MonStack[8][1] ELSE Running

\* A kernel is about to start, with the address of the control block.
Starting ==
    /\ Running = <<cpu.ns, "boot">> /\ cpu.mode = "EL1"
    /\ cpu.gpr["x4"] = Syscntl
    /\ cpu.sp["EL3"].n = 1 /\ Len(MonStack) >= 1

\* The live world: the running activity has its own mode and registers, and the
\* stacks hold exactly the frames of those it interrupted.
Active ==
    /\ cpu.mode = ModeOf(Running)
    /\ cpu.gpr["keep"] = Own(Running) /\ cpu.gpr["lr"] = Own(Running)
    /\ Below[1] = cpu.ns
    /\ UserStack(cpu.ns, cpu.sp["EL0"], cpu.stk)
    /\ cpu.sp["EL1"].of = <<cpu.ns, "EL1">>
    /\ KernelStack(cpu.stk[<<cpu.ns, "EL1">>], cpu.sp["EL1"].n, cpu.ns, Below)
    /\ MonitorFrames(MonStack, cpu.sp["EL3"].n, Below, Running)
    /\ Running[2] = "current" => cpu.spsr[cpu.mode] = Psr(cpu.mode)
    /\ Running[2] \in {"lower", "current"} => Place = "body"
    /\ Place = "ret" => Running[1] # MON
    /\ ResultDelivered

\* The world that waits has not started, or waits in the SMC of an SVC handler.
Fresh(b, w) == b.elr3 = Entry(w) /\ b.spsr3 = Psr("EL1") /\ b.x4 = Syscntl
Suspended(b, w, stk) ==
    /\ b.elr3 = <<<<w, "svc">>, "ret">> /\ b.spsr3 = Psr("EL1")
    /\ b.keep = Own(<<w, "svc">>) /\ b.lr = Own(<<w, "svc">>)
    /\ b.sp1.of = <<w, "EL1">> /\ UserStack(w, b.sp0, stk)
    /\ KernelStack(stk[<<w, "EL1">>], b.sp1.n, w, <<w, "svc">>)
Parked(b, w, stk) == Fresh(b, w) \/ Suspended(b, w, stk)

\* Whatever chain of calls, exceptions and world switches led here, every frame
\* the vectors pushed and every buffer monitor_switch filled still holds what its
\* owner will be resumed with.
FrameInv ==
    /\ cpu \in Cpu /\ buf \in [World -> Buffer] /\ switches \in Nat
    /\ cpu.sp["EL3"].of = <<MON, "EL3">>
    /\ IF Place = "entry" THEN Starting ELSE Active
    /\ Parked(buf[1 - cpu.ns], 1 - cpu.ns, cpu.stk)
=============================================================================
