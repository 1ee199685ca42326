-------------------------- MODULE VectorsA64Proofs ---------------------------
(***************************************************************************)
(* The AArch64 vectors and monitor_switch give every activity its context  *)
(* back, for any number of world switches.                                 *)
(*                                                                         *)
(* The first part says what each operation on the processor does, as a     *)
(* predicate on the state before and after (Pushes, Takes, Calls, Returns, *)
(* Unwinds, Resumes, Restores), so that the rest need not look inside a    *)
(* register file.  Entries and exits are then taken by level (Enters...,   *)
(* Leaves...), with the start of a kernel and the switch of worlds on      *)
(* their own.                                                              *)
(***************************************************************************)
EXTENDS VectorsA64Invariant, TLAPS

USE DEF SECURE, NONSECURE, World, MON

----------------------------------------------------------------------------
\* The words the vectors and handlers store are words.
LEMMA Words ==
    /\ \A d \in {SECURE, NONSECURE, MON}, t \in Name : <<d, t>> \in Activity
    /\ \A a \in Activity, t \in Tag : <<a, t>> \in Word
    /\ \A a \in Activity : Own(a) \in Word /\ Result(a) \in Word
    /\ \A m \in Modes : Psr(m) \in Word /\ Psr(m)[1][2] = m
    /\ Junk \in Word /\ Syscntl \in Word
  BY DEF Word, Activity, Name, Tag, Modes, Own, Result, Psr, Junk, Syscntl

\* t is the first n words of s and then the k words.
Grows(t, s, n, words, k) ==
    /\ t \in Seq(Word) /\ Len(t) = n + k
    /\ \A i \in 1..n : t[i] = s[i]
    /\ \A i \in 1..k : t[n + i] = words[i]

\* What a stack holds after a push over the words above the stack pointer.
LEMMA Pushed ==
    ASSUME NEW s \in Seq(Word), NEW n \in Nat, n <= Len(s),
           NEW words \in Seq(Word), NEW k \in Nat, k = Len(words)
    PROVE  Grows(SubSeq(s, 1, n) \o words, s, n, words, k)
  BY DEF Grows

\* d is c with k words pushed at n.
Pushes(d, c, n, words, k) ==
    LET s == c.sp[c.mode].of
    IN  /\ d \in Cpu /\ d.mode = c.mode /\ d.pc = c.pc /\ d.ns = c.ns
        /\ d.gpr = c.gpr /\ d.elr = c.elr /\ d.spsr = c.spsr
        /\ d.sp[c.mode].of = s /\ d.sp[c.mode].n = n + k
        /\ \A m \in Modes : m # c.mode => d.sp[m] = c.sp[m]
        /\ \A u \in Stack : u # s => d.stk[u] = c.stk[u]
        /\ Len(d.stk[s]) = n + k
        /\ \A i \in 1..n : d.stk[s][i] = c.stk[s][i]
        /\ \A i \in 1..k : d.stk[s][n + i] = words[i]

\* A push, by a vector or by the prologue of a C function, changes the stack of
\* the current mode alone, and there nothing below the stack pointer.
LEMMA PushFacts ==
    ASSUME NEW c \in Cpu, NEW words \in Seq(Word), NEW n \in Nat, NEW k \in Nat,
           c.sp[c.mode].n = n, Len(words) = k, n <= Len(c.stk[c.sp[c.mode].of])
    PROVE  Pushes(Push(c, words), c, n, words, k)
  <1> DEFINE p == c.sp[c.mode]
             s == p.of
             t == SubSeq(c.stk[s], 1, n) \o words
             d == [c EXCEPT !.stk[s] = t, !.sp[c.mode].n = n + k]
  <1>1. p \in Pointer /\ s \in Stack /\ c.stk[s] \in Seq(Word) /\ n + k \in Nat
    BY DEF Cpu, Pointer
  <1>2. Grows(t, c.stk[s], n, words, k)
    BY <1>1, Pushed
  <1>3. Push(c, words) = d
    BY DEF Push
  <1> HIDE DEF t, s, p
  <1>4. d.stk = [c.stk EXCEPT ![s] = t] /\ d.sp = [c.sp EXCEPT ![c.mode].n = n + k]
    BY DEF Cpu
  <1>5. d = [c EXCEPT !.stk = [c.stk EXCEPT ![s] = t],
                      !.sp = [c.sp EXCEPT ![c.mode].n = n + k]]
    BY DEF Cpu
  <1>6. /\ d.mode = c.mode /\ d.pc = c.pc /\ d.ns = c.ns
        /\ d.gpr = c.gpr /\ d.elr = c.elr /\ d.spsr = c.spsr
    BY DEF Cpu
  <1> HIDE DEF d
  <1>7. /\ d.sp[c.mode] = [p EXCEPT !.n = n + k]
        /\ \A m \in Modes : m # c.mode => d.sp[m] = c.sp[m]
    BY <1>4 DEF Cpu, Modes, p
  <1>8. [p EXCEPT !.n = n + k] \in Pointer /\ d.sp[c.mode].of = s /\ d.sp[c.mode].n = n + k
    BY <1>1, <1>7 DEF Pointer, s
  <1>9. d.stk \in [Stack -> Seq(Word)] /\ d.sp \in [Modes -> Pointer]
    BY <1>1, <1>2, <1>4, <1>8 DEF Cpu, Modes, p, Grows
  <1>10. d \in Cpu
    BY <1>4, <1>5, <1>9 DEF Cpu, Modes
  <1>11. d.stk[s] = t /\ \A u \in Stack : u # s => d.stk[u] = c.stk[u]
    BY <1>1, <1>4 DEF Cpu
  <1> QED BY <1>2, <1>3, <1>6, <1>7, <1>8, <1>10, <1>11 DEF Pushes, Grows, p, s

\* d is c with all words above n popped.
Pops(d, c, n) ==
    /\ d \in Cpu /\ d.mode = c.mode /\ d.pc = c.pc /\ d.ns = c.ns
    /\ d.gpr = c.gpr /\ d.elr = c.elr /\ d.spsr = c.spsr /\ d.stk = c.stk
    /\ d.sp[c.mode].of = c.sp[c.mode].of /\ d.sp[c.mode].n = n
    /\ \A m \in Modes : m # c.mode => d.sp[m] = c.sp[m]

\* A pop moves the stack pointer of the current mode and leaves memory alone.
LEMMA PopFacts ==
    ASSUME NEW c \in Cpu, NEW n \in Nat, NEW k \in Nat, c.sp[c.mode].n = n + k
    PROVE  Pops(Pop(c, k), c, n)
  <1> DEFINE p == c.sp[c.mode]
             d == [c EXCEPT !.sp[c.mode].n = n]
  <1>1. p \in Pointer
    BY DEF Cpu
  <1>2. Pop(c, k) = d
    BY DEF Pop
  <1> HIDE DEF p
  <1>3. d.sp = [c.sp EXCEPT ![c.mode].n = n]
    BY DEF Cpu
  <1>4. d = [c EXCEPT !.sp = [c.sp EXCEPT ![c.mode].n = n]]
    BY DEF Cpu
  <1>5. /\ d.mode = c.mode /\ d.pc = c.pc /\ d.ns = c.ns /\ d.stk = c.stk
        /\ d.gpr = c.gpr /\ d.elr = c.elr /\ d.spsr = c.spsr
    BY DEF Cpu
  <1> HIDE DEF d
  <1>6. /\ d.sp[c.mode] = [p EXCEPT !.n = n]
        /\ \A m \in Modes : m # c.mode => d.sp[m] = c.sp[m]
    BY <1>3 DEF Cpu, Modes, p
  <1>7. [p EXCEPT !.n = n] \in Pointer /\ d.sp[c.mode].of = p.of /\ d.sp[c.mode].n = n
    BY <1>1, <1>6 DEF Pointer
  <1>8. d.sp \in [Modes -> Pointer]
    BY <1>1, <1>3, <1>7 DEF Cpu, Modes, p
  <1>9. d \in Cpu
    BY <1>3, <1>4, <1>8 DEF Cpu, Modes
  <1> QED BY <1>2, <1>5, <1>6, <1>7, <1>9 DEF Pops, p

\* The general registers on AArch64, and those a callee preserves.
LEMMA GprFacts ==
    ASSUME Arch = "aarch64"
    PROVE  /\ Gpr = {"x0", "x1", "x2", "x4", "tmp", "keep", "lr"}
           /\ Kept = {"keep", "lr"}
  BY DEF Gpr, Kept

\* d is c with an exception taken to el, to return to addr.
Takes(d, c, el, addr) ==
    /\ d \in Cpu /\ d.mode = el /\ d.pc = c.pc /\ d.ns = c.ns
    /\ d.sp = c.sp /\ d.stk = c.stk
    /\ d.elr[el] = addr /\ d.spsr[el] = Psr(c.mode)
    /\ \A g \in {"x0", "x1", "x2"} : d.gpr[g] = Own(c.pc[1])
    /\ \A g \in {"keep", "lr"} : d.gpr[g] = c.gpr[g]

\* Taking an exception changes ELR, SPSR and the mode; the interrupted program
\* has its own values in the registers it computes with.
LEMMA TakeFacts ==
    ASSUME Arch = "aarch64", NEW c \in Cpu, NEW el \in {"EL1", "EL3"},
           NEW addr \in Word
    PROVE  Takes(Take(Live(c), el, addr), c, el, addr)
  <1> DEFINE b == Live(c)
             d == Take(b, el, addr)
  <1>1. c.pc[1] \in Activity /\ Psr(c.mode) \in Word
    BY Words DEF Cpu, Word, Modes
  <1>2. /\ b \in Cpu /\ b.mode = c.mode /\ b.pc = c.pc /\ b.ns = c.ns /\ b.sp = c.sp
        /\ b.stk = c.stk /\ b.elr = c.elr /\ b.spsr = c.spsr
        /\ \A g \in {"x0", "x1", "x2"} : b.gpr[g] = Own(c.pc[1])
        /\ \A g \in {"keep", "lr"} : b.gpr[g] = c.gpr[g]
    BY <1>1, Words, GprFacts DEF Cpu, Live
  <1> HIDE DEF b
  <1>3. d = [b EXCEPT !.elr = [b.elr EXCEPT ![el] = addr],
                      !.spsr = [b.spsr EXCEPT ![el] = Psr(c.mode)], !.mode = el]
    BY <1>2 DEF Cpu, Take
  <1>4. /\ d.elr = [b.elr EXCEPT ![el] = addr]
        /\ d.spsr = [b.spsr EXCEPT ![el] = Psr(c.mode)]
    BY <1>2, <1>3 DEF Cpu
  <1>5. /\ [b.elr EXCEPT ![el] = addr] \in [{"EL1", "EL3"} -> Word]
        /\ [b.spsr EXCEPT ![el] = Psr(c.mode)] \in [{"EL1", "EL3"} -> Word]
    BY <1>1, <1>2 DEF Cpu
  <1>6. d \in Cpu
    BY <1>2, <1>3, <1>5 DEF Cpu, Modes
  <1>7. /\ d.mode = el /\ d.pc = c.pc /\ d.ns = c.ns
        /\ d.sp = c.sp /\ d.stk = c.stk /\ d.gpr = b.gpr
    BY <1>2, <1>3 DEF Cpu
  <1>8. d.elr[el] = addr /\ d.spsr[el] = Psr(c.mode)
    BY <1>2, <1>4 DEF Cpu
  <1> HIDE DEF d
  <1> QED BY <1>2, <1>6, <1>7, <1>8 DEF Takes, b, d

\* d is c with the handler h called, its frame at n.
Calls(d, c, n, h) ==
    LET s == c.sp[c.mode].of
    IN  /\ d \in Cpu /\ d.mode = c.mode /\ d.pc = <<h, "body">> /\ d.ns = c.ns
        /\ d.gpr["keep"] = Own(h) /\ d.gpr["lr"] = Own(h) /\ d.spsr = c.spsr
        /\ d.sp[c.mode].of = s /\ d.sp[c.mode].n = n + 3
        /\ \A m \in Modes : m # c.mode => d.sp[m] = c.sp[m]
        /\ \A u \in Stack : u # s => d.stk[u] = c.stk[u]
        /\ Len(d.stk[s]) = n + 3
        /\ \A i \in 1..n : d.stk[s][i] = c.stk[s][i]
        /\ d.stk[s][n + 1] = c.gpr["keep"]
        /\ d.stk[s][n + 2] = c.elr[c.mode]
        /\ d.stk[s][n + 3] = Own(h)

\* The branch of a vector to its C handler: what the prologue keeps.
LEMMA CallFacts ==
    ASSUME Arch = "aarch64", NEW c \in Cpu, NEW h \in Activity, NEW n \in Nat,
           c.mode \in {"EL1", "EL3"}, c.sp[c.mode].n = n,
           n <= Len(c.stk[c.sp[c.mode].of])
    PROVE  Calls(CallC(c, h), c, n, h)
  <1> DEFINE words == <<c.gpr["keep"], c.elr[c.mode], Own(h)>>
             e == Push(c, words)
             s == c.sp[c.mode].of
             d == [e EXCEPT !.gpr = [g \in Gpr |-> Own(h)], !.pc = <<h, "body">>]
  <1>1. /\ words \in Seq(Word) /\ Len(words) = 3
        /\ words[1] = c.gpr["keep"] /\ words[2] = c.elr[c.mode] /\ words[3] = Own(h)
    BY Words, GprFacts DEF Cpu
  <1>2. CallC(c, h) = d
    BY DEF CallC
  <1> HIDE DEF words
  <1>3. Pushes(e, c, n, words, 3)
    BY <1>1, PushFacts
  <1> HIDE DEF e
  <1>4. [g \in Gpr |-> Own(h)] \in [Gpr -> Word] /\ <<h, "body">> \in Word
    BY Words DEF Tag
  <1>5. e \in Cpu
    BY <1>3 DEF Pushes
  <1>6. d \in Cpu
    BY <1>4, <1>5 DEF Cpu
  <1>7. /\ d.mode = e.mode /\ d.ns = e.ns /\ d.spsr = e.spsr /\ d.sp = e.sp /\ d.stk = e.stk
        /\ d.gpr = [g \in Gpr |-> Own(h)] /\ d.pc = <<h, "body">>
    BY <1>5 DEF Cpu
  <1>8. d.gpr["keep"] = Own(h) /\ d.gpr["lr"] = Own(h)
    BY <1>7, GprFacts
  <1>9. /\ e.stk[s][n + 1] = words[1] /\ e.stk[s][n + 2] = words[2]
        /\ e.stk[s][n + 3] = words[3]
    <2>1. \A i \in 1..3 : e.stk[s][n + i] = words[i]
      BY <1>3 DEF Pushes
    <2>2. 1 \in 1..3 /\ 2 \in 1..3 /\ 3 \in 1..3
      OBVIOUS
    <2> QED BY <2>1, <2>2, Zenon
  <1> HIDE DEF d
  <1>10. /\ d.mode = c.mode /\ d.ns = c.ns /\ d.spsr = c.spsr
         /\ d.sp[c.mode].of = s /\ d.sp[c.mode].n = n + 3
         /\ \A m \in Modes : m # c.mode => d.sp[m] = c.sp[m]
    BY <1>3, <1>7 DEF Pushes
  <1>11. /\ \A u \in Stack : u # s => d.stk[u] = c.stk[u]
         /\ Len(d.stk[s]) = n + 3
    BY <1>3, <1>7 DEF Pushes
  <1>12. \A i \in 1..n : d.stk[s][i] = c.stk[s][i]
    BY <1>3, <1>7 DEF Pushes
  <1>13. /\ d.stk[s][n + 1] = c.gpr["keep"] /\ d.stk[s][n + 2] = c.elr[c.mode]
         /\ d.stk[s][n + 3] = Own(h)
    BY <1>1, <1>7, <1>9
  <1> QED BY <1>2, <1>6, <1>7, <1>8, <1>10, <1>11, <1>12, <1>13 DEF Calls

\* A handler h runs at level el, entered from c.
Handles(d, c, el, h) ==
    /\ d \in Cpu /\ d.mode = el /\ d.pc = <<h, "body">> /\ d.ns = c.ns
    /\ d.gpr["keep"] = Own(h) /\ d.gpr["lr"] = Own(h)
    /\ d.spsr[el] = Psr(c.mode) /\ d.sp[el].of = c.sp[el].of
    /\ \A m \in Modes : m # el => d.sp[m] = c.sp[m]
    /\ \A s \in Stack : s # c.sp[el].of => d.stk[s] = c.stk[s]

\* el1_sync_exception_lower64 and el3_sync_exception_lower64 and the prologue of
\* their handler leave a LowerFrame.
LEMMA LowerCall ==
    ASSUME Arch = "aarch64", NEW c \in Cpu, NEW el \in {"EL1", "EL3"},
           NEW place \in Tag, NEW h \in Activity,
           c.gpr["keep"] = Own(c.pc[1]), c.gpr["lr"] = Own(c.pc[1]),
           c.sp[el].n = 1, Len(c.stk[c.sp[el].of]) >= 1
    PROVE  LET a == c.pc[1]
               d == CallC(LowerEntry(Take(Live(c), el, <<a, place>>)), h)
           IN  /\ Handles(d, c, el, h)
               /\ d.sp[el].n = 9
               /\ LowerFrame(d.stk[c.sp[el].of], a, c.mode, place, h)
  <1> DEFINE a == c.pc[1]
             s == c.sp[el].of
             t == Take(Live(c), el, <<a, place>>)
             words == <<t.gpr["lr"], t.gpr["x2"], t.spsr[el], t.gpr["x0"], t.gpr["x1"]>>
             e == Push(t, words)
             d == CallC(e, h)
  <1>1. a \in Activity /\ <<a, place>> \in Word /\ Own(a) \in Word /\ Psr(c.mode) \in Word
        /\ s \in Stack
    BY Words DEF Cpu, Word, Modes, Pointer
  <1>2. Takes(t, c, el, <<a, place>>)
    BY <1>1, TakeFacts
  <1> HIDE DEF t
  <1>3. /\ t \in Cpu /\ t.mode = el /\ t.ns = c.ns /\ t.sp = c.sp /\ t.stk = c.stk
        /\ t.elr[el] = <<a, place>> /\ t.spsr[el] = Psr(c.mode)
        /\ t.gpr["x0"] = Own(a) /\ t.gpr["x1"] = Own(a) /\ t.gpr["x2"] = Own(a)
        /\ t.gpr["keep"] = Own(a) /\ t.gpr["lr"] = Own(a)
    BY <1>2 DEF Takes
  <1>4. CallC(LowerEntry(t), h) = d
    BY <1>3 DEF LowerEntry
  <1>5. /\ words \in Seq(Word) /\ Len(words) = 5
        /\ words[1] = Own(a) /\ words[2] = Own(a) /\ words[3] = Psr(c.mode)
        /\ words[4] = Own(a) /\ words[5] = Own(a)
    BY <1>1, <1>3
  <1> HIDE DEF words, a
  <1>6. Pushes(e, t, 1, words, 5)
    BY <1>3, <1>5, PushFacts
  <1>a. t.sp[t.mode].of = s
    BY <1>3
  <1> HIDE DEF e, s
  <1>7. /\ e \in Cpu /\ e.mode = el /\ e.ns = c.ns /\ e.elr = t.elr /\ e.spsr = t.spsr
        /\ e.gpr = t.gpr /\ e.sp[el].of = s /\ e.sp[el].n = 6
        /\ \A m \in Modes : m # el => e.sp[m] = c.sp[m]
        /\ \A u \in Stack : u # s => e.stk[u] = c.stk[u]
        /\ Len(e.stk[s]) = 6
    <2>1. /\ e \in Cpu /\ e.mode = el /\ e.ns = c.ns /\ e.elr = t.elr /\ e.spsr = t.spsr
          /\ e.gpr = t.gpr /\ e.sp[el].of = s
      BY <1>3, <1>6, <1>a DEF Pushes
    <2>2. \A m \in Modes : m # el => e.sp[m] = c.sp[m]
      BY <1>3, <1>6 DEF Pushes
    <2>3. \A u \in Stack : u # s => e.stk[u] = c.stk[u]
      BY <1>3, <1>6, <1>a DEF Pushes
    <2>4. e.sp[el].n = 6 /\ Len(e.stk[s]) = 6
      BY <1>3, <1>6, <1>a DEF Pushes
    <2> QED BY <2>1, <2>2, <2>3, <2>4
  <1>b. \A i \in 1..5 : e.stk[s][1 + i] = words[i]
    BY <1>6, <1>a DEF Pushes
  <1>8. /\ e.stk[s][2] = words[1] /\ e.stk[s][3] = words[2] /\ e.stk[s][4] = words[3]
        /\ e.stk[s][5] = words[4] /\ e.stk[s][6] = words[5]
    <2>2. /\ e.stk[s][1 + 1] = words[1] /\ e.stk[s][1 + 2] = words[2]
          /\ e.stk[s][1 + 3] = words[3] /\ e.stk[s][1 + 4] = words[4]
          /\ e.stk[s][1 + 5] = words[5]
      BY <1>b
    <2> QED BY <2>2
  <1>9. Calls(d, e, 6, h)
    <2>1. /\ e \in Cpu /\ e.mode \in {"EL1", "EL3"} /\ e.sp[e.mode].n = 6
          /\ 6 <= Len(e.stk[e.sp[e.mode].of])
      BY <1>7
    <2> QED BY <2>1, CallFacts
  <1> HIDE DEF d
  <1>10. /\ d \in Cpu /\ d.mode = el /\ d.pc = <<h, "body">> /\ d.ns = c.ns
         /\ d.gpr["keep"] = Own(h) /\ d.gpr["lr"] = Own(h) /\ d.spsr = e.spsr
         /\ d.sp[el].of = s /\ d.sp[el].n = 9
         /\ \A m \in Modes : m # el => d.sp[m] = e.sp[m]
         /\ \A u \in Stack : u # s => d.stk[u] = e.stk[u]
         /\ Len(d.stk[s]) = 9
         /\ \A i \in 1..6 : d.stk[s][i] = e.stk[s][i]
         /\ d.stk[s][7] = e.gpr["keep"] /\ d.stk[s][8] = e.elr[el] /\ d.stk[s][9] = Own(h)
    BY <1>7, <1>9 DEF Calls
  <1>11. Handles(d, c, el, h)
    BY <1>3, <1>7, <1>10 DEF Handles, s
  <1>12. LowerFrame(d.stk[s], a, c.mode, place, h)
    BY <1>3, <1>5, <1>7, <1>8, <1>10 DEF LowerFrame
  <1> QED BY <1>4, <1>10, <1>11, <1>12 DEF a, s, t

\* d is c with the handler returned from, to addr; its frame was at n.
Returns(d, c, n, addr) ==
    LET s == c.sp[c.mode].of
    IN  /\ d \in Cpu /\ d.mode = c.mode /\ d.pc = c.pc /\ d.ns = c.ns
        /\ d.stk = c.stk /\ d.spsr = c.spsr /\ d.elr[c.mode] = addr
        /\ d.gpr["keep"] = c.stk[s][n + 1] /\ d.gpr["x0"] = Result(c.pc[1])
        /\ d.sp[c.mode].of = s /\ d.sp[c.mode].n = n
        /\ \A m \in Modes : m # c.mode => d.sp[m] = c.sp[m]

\* The end of a C handler: callee-saved registers are back, ELR is what
\* __set_exception_return() wrote, x0 the result.
LEMMA ReturnFacts ==
    ASSUME Arch = "aarch64", NEW c \in Cpu, NEW n \in Nat, NEW addr \in Word,
           c.mode \in {"EL1", "EL3"}, c.sp[c.mode].n = n + 3,
           n + 3 <= Len(c.stk[c.sp[c.mode].of])
    PROVE  Returns(ReturnC(c, addr), c, n, addr)
  <1> DEFINE e == Pop(c, 3)
             s == c.sp[c.mode].of
             w == Top(c, 3)
             r == [g \in Gpr |-> CASE g = "keep" -> w
                                   [] g = "x0"   -> Result(c.pc[1])
                                   [] OTHER      -> Junk]
             d == [e EXCEPT !.gpr = r, !.elr[c.mode] = addr]
  <1>1. ReturnC(c, addr) = d
    BY DEF ReturnC
  <1>2. Pops(e, c, n)
    BY PopFacts
  <1>3. c.stk[s] \in Seq(Word) /\ c.pc[1] \in Activity
    BY DEF Cpu, Pointer, Word
  <1>4. w = c.stk[s][n + 1] /\ w \in Word
    BY <1>3 DEF Top
  <1> HIDE DEF w
  <1>5. r \in [Gpr -> Word] /\ r["keep"] = w /\ r["x0"] = Result(c.pc[1])
    BY <1>3, <1>4, Words, GprFacts
  <1> HIDE DEF r, e
  <1>6. e \in Cpu /\ e.elr = c.elr
    BY <1>2 DEF Pops
  <1>7. d = [e EXCEPT !.gpr = r, !.elr = [e.elr EXCEPT ![c.mode] = addr]]
    BY <1>6 DEF Cpu
  <1>8. /\ [e.elr EXCEPT ![c.mode] = addr] \in [{"EL1", "EL3"} -> Word]
        /\ [e.elr EXCEPT ![c.mode] = addr][c.mode] = addr
    BY <1>6 DEF Cpu
  <1>9. d \in Cpu
    BY <1>5, <1>6, <1>7, <1>8 DEF Cpu
  <1>10. /\ d.mode = e.mode /\ d.pc = e.pc /\ d.ns = e.ns /\ d.stk = e.stk
         /\ d.spsr = e.spsr /\ d.sp = e.sp /\ d.gpr = r
         /\ d.elr = [e.elr EXCEPT ![c.mode] = addr]
    BY <1>6, <1>7 DEF Cpu
  <1> HIDE DEF d
  <1>11. /\ d.mode = c.mode /\ d.pc = c.pc /\ d.ns = c.ns /\ d.stk = c.stk /\ d.spsr = c.spsr
         /\ d.sp[c.mode].of = c.sp[c.mode].of /\ d.sp[c.mode].n = n
         /\ \A m \in Modes : m # c.mode => d.sp[m] = c.sp[m]
    BY <1>2, <1>10 DEF Pops
  <1> QED BY <1>1, <1>4, <1>5, <1>8, <1>9, <1>10, <1>11 DEF Returns

\* d is c back in the frame of the interrupted activity a: n words are left, and
\* x0 is the result of the handler.
Unwinds(d, c, n, a, addr, m) ==
    /\ d \in Cpu /\ d.mode = c.mode /\ d.pc = c.pc /\ d.ns = c.ns /\ d.stk = c.stk
    /\ d.elr[c.mode] = addr /\ d.spsr[c.mode] = Psr(m)
    /\ d.gpr["keep"] = Own(a) /\ d.gpr["lr"] = Own(a)
    /\ d.sp[c.mode].of = c.sp[c.mode].of /\ d.sp[c.mode].n = n
    /\ \A k \in Modes : k # c.mode => d.sp[k] = c.sp[k]

\* From a LowerFrame, both exits of the vectors bring back the registers, the SPSR
\* and the stack pointer of the interrupted activity; the call exit keeps x0.
LEMMA LowerReturn ==
    ASSUME Arch = "aarch64", NEW c \in Cpu, NEW a \in Activity, NEW m \in Modes,
           NEW place \in Tag, NEW h \in Activity, NEW addr \in Word,
           c.mode \in {"EL1", "EL3"}, c.sp[c.mode].n = 9,
           LowerFrame(c.stk[c.sp[c.mode].of], a, m, place, h)
    PROVE  /\ Elr(c) = <<a, place>> /\ Top(c, 1) = Own(h)
           /\ Unwinds(CallExit(ReturnC(c, addr)), c, 1, a, addr, m)
           /\ CallExit(ReturnC(c, addr)).gpr["x0"] = Result(c.pc[1])
           /\ Unwinds(LowerExit(ReturnC(c, addr)), c, 1, a, addr, m)
  <1> DEFINE s == c.stk[c.sp[c.mode].of]
             r == ReturnC(c, addr)
             e == Pop(r, 5)
             d == CallExit(r)
             d2 == LowerExit(r)
  <1>1. s \in Seq(Word) /\ Len(s) >= 9 /\ Own(a) \in Word /\ Psr(m) \in Word
    BY Words DEF Cpu, Pointer, LowerFrame
  <1>2. Elr(c) = <<a, place>> /\ Top(c, 1) = Own(h)
    <2>1. Top(c, 1) = s[9] /\ Top(c, 2) = s[8]
      BY DEF Top
    <2> QED BY <2>1 DEF Elr, LowerFrame
  <1>3. Returns(r, c, 6, addr)
    <2>1. c.sp[c.mode].n = 6 + 3 /\ 6 + 3 <= Len(c.stk[c.sp[c.mode].of])
      BY <1>1
    <2> HIDE DEF r
    <2>2. Returns(ReturnC(c, addr), c, 6, addr)
      BY <2>1, ReturnFacts
    <2> QED BY <2>2 DEF r
  <1> HIDE DEF r
  <1>4. /\ r \in Cpu /\ r.mode = c.mode /\ r.stk = c.stk
        /\ r.sp[c.mode].of = c.sp[c.mode].of /\ r.sp[c.mode].n = 6 /\ r.gpr["keep"] = Own(a)
    <2>1. /\ r \in Cpu /\ r.mode = c.mode /\ r.stk = c.stk
          /\ r.sp[c.mode].of = c.sp[c.mode].of /\ r.sp[c.mode].n = 6
          /\ r.gpr["keep"] = s[6 + 1]
      BY <1>3 DEF Returns
    <2>2. s[7] = Own(a)
      BY DEF LowerFrame
    <2> HIDE DEF s
    <2> QED BY <2>1, <2>2
  <1>5. /\ Top(r, 1) = Own(a) /\ Top(r, 2) = Own(a) /\ Top(r, 3) = Psr(m)
        /\ Top(r, 4) = Own(a) /\ Top(r, 5) = Own(a)
    <2>1. /\ Top(r, 1) = s[6 + 1 - 1] /\ Top(r, 2) = s[6 + 1 - 2]
          /\ Top(r, 3) = s[6 + 1 - 3] /\ Top(r, 4) = s[6 + 1 - 4]
          /\ Top(r, 5) = s[6 + 1 - 5]
      BY <1>4 DEF Top
    <2>2. /\ s[6] = Own(a) /\ s[5] = Own(a)
          /\ s[4] = Psr(m) /\ s[3] = Own(a)
          /\ s[2] = Own(a)
      BY DEF LowerFrame
    <2> HIDE DEF s
    <2> QED BY <2>1, <2>2
  <1>6. Pops(e, r, 1)
    <2>1. r.sp[r.mode].n = 1 + 5
      BY <1>4
    <2> QED BY <1>4, <2>1, PopFacts
  <1>7. d = [e EXCEPT !.gpr["x1"] = Own(a), !.spsr[c.mode] = Psr(m),
                      !.gpr["x2"] = Own(a), !.gpr["lr"] = Own(a)]
    BY <1>4, <1>5 DEF CallExit
  <1> HIDE DEF e, s
  <1>8. e \in Cpu /\ e.mode = c.mode
    BY <1>4, <1>6 DEF Pops
  <1> DEFINE g == [[[e.gpr EXCEPT !["x1"] = Own(a)] EXCEPT !["x2"] = Own(a)]
                     EXCEPT !["lr"] = Own(a)]
             p == [e.spsr EXCEPT ![c.mode] = Psr(m)]
  <1>9. /\ g \in [Gpr -> Word] /\ g["lr"] = Own(a) /\ g["keep"] = e.gpr["keep"]
        /\ g["x0"] = e.gpr["x0"]
    BY <1>1, <1>8, GprFacts DEF Cpu
  <1>10. p \in [{"EL1", "EL3"} -> Word] /\ p[c.mode] = Psr(m)
    BY <1>1, <1>8 DEF Cpu
  <1>11. d = [e EXCEPT !.gpr = g, !.spsr = p]
    BY <1>7, <1>8 DEF Cpu
  <1> HIDE DEF d, g, p
  <1>12. /\ d \in Cpu /\ d.mode = e.mode /\ d.pc = e.pc /\ d.ns = e.ns /\ d.stk = e.stk
         /\ d.elr = e.elr /\ d.sp = e.sp /\ d.gpr = g /\ d.spsr = p
    BY <1>8, <1>9, <1>10, <1>11 DEF Cpu
  <1>13. Unwinds(d, c, 1, a, addr, m) /\ d.gpr["x0"] = Result(c.pc[1])
    <2>1. /\ r.pc = c.pc /\ r.ns = c.ns /\ r.elr[c.mode] = addr
          /\ r.gpr["x0"] = Result(c.pc[1])
          /\ \A k \in Modes : k # c.mode => r.sp[k] = c.sp[k]
      BY <1>3 DEF Returns
    <2>2. /\ e.pc = r.pc /\ e.ns = r.ns /\ e.elr = r.elr /\ e.gpr = r.gpr /\ e.stk = r.stk
          /\ e.sp[c.mode].of = c.sp[c.mode].of /\ e.sp[c.mode].n = 1
          /\ \A k \in Modes : k # c.mode => e.sp[k] = r.sp[k]
      BY <1>4, <1>6 DEF Pops
    <2> QED BY <1>4, <1>8, <1>9, <1>10, <1>12, <2>1, <2>2 DEF Unwinds
  <1>14. d2 = [d EXCEPT !.gpr = [d.gpr EXCEPT !["x0"] = Own(a)]]
    BY <1>5, <1>12 DEF LowerExit, Cpu, d
  <1> HIDE DEF d2
  <1>15. Unwinds(d2, c, 1, a, addr, m)
    BY <1>1, <1>12, <1>13, <1>14, GprFacts DEF Unwinds, Cpu
  <1> QED BY <1>2, <1>13, <1>15 DEF d, d2, r

\* el1_sync_exception_current and el3_sync_exception_current leave a CurrentFrame
\* above the frame of the handler that trapped.
LEMMA CurrentCall ==
    ASSUME Arch = "aarch64", NEW c \in Cpu, NEW h \in Activity,
           c.mode \in {"EL1", "EL3"},
           c.gpr["keep"] = Own(c.pc[1]), c.gpr["lr"] = Own(c.pc[1]),
           c.sp[c.mode].n = 9, Len(c.stk[c.sp[c.mode].of]) >= 9
    PROVE  LET a == c.pc[1]
               s == c.sp[c.mode].of
               d == CallC(CurrentEntry(Take(Live(c), c.mode, <<a, "at">>)), h)
           IN  /\ Handles(d, c, c.mode, h)
               /\ d.sp[c.mode].n = 16
               /\ \A i \in 1..9 : d.stk[s][i] = c.stk[s][i]
               /\ CurrentFrame(d.stk[s], a, h)
  <1> DEFINE a == c.pc[1]
             el == c.mode
             s == c.sp[el].of
             t == Take(Live(c), el, <<a, "at">>)
             words == <<t.gpr["lr"], t.gpr["x2"], t.gpr["x0"], t.gpr["x1"]>>
             e == Push(t, words)
             d == CallC(e, h)
  <1>1. a \in Activity /\ <<a, "at">> \in Word /\ Own(a) \in Word /\ s \in Stack
    BY Words DEF Cpu, Word, Pointer, Tag
  <1>2. Takes(t, c, el, <<a, "at">>)
    BY <1>1, TakeFacts
  <1> HIDE DEF t
  <1>3. /\ t \in Cpu /\ t.mode = el /\ t.ns = c.ns /\ t.sp = c.sp /\ t.stk = c.stk
        /\ t.elr[el] = <<a, "at">> /\ t.spsr[el] = Psr(el)
        /\ t.gpr["x0"] = Own(a) /\ t.gpr["x1"] = Own(a) /\ t.gpr["x2"] = Own(a)
        /\ t.gpr["keep"] = Own(a) /\ t.gpr["lr"] = Own(a)
    BY <1>2 DEF Takes
  <1>4. CallC(CurrentEntry(t), h) = d
    BY <1>3 DEF CurrentEntry
  <1>5. /\ words \in Seq(Word) /\ Len(words) = 4
        /\ words[1] = Own(a) /\ words[2] = Own(a)
        /\ words[3] = Own(a) /\ words[4] = Own(a)
    BY <1>1, <1>3
  <1> HIDE DEF words, a
  <1>6. Pushes(e, t, 9, words, 4)
    BY <1>3, <1>5, PushFacts
  <1>a. el \in {"EL1", "EL3"} /\ el = c.mode
    OBVIOUS
  <1>e. t.sp[t.mode].of = s
    BY <1>3
  <1> HIDE DEF e, s, el
  <1>7. /\ e \in Cpu /\ e.mode = el /\ e.ns = c.ns /\ e.elr = t.elr /\ e.spsr = t.spsr
        /\ e.gpr = t.gpr /\ e.sp[el].of = s /\ e.sp[el].n = 13
        /\ \A m \in Modes : m # el => e.sp[m] = c.sp[m]
        /\ \A u \in Stack : u # s => e.stk[u] = c.stk[u]
        /\ Len(e.stk[s]) = 13
    <2>1. /\ e \in Cpu /\ e.mode = el /\ e.ns = c.ns /\ e.elr = t.elr /\ e.spsr = t.spsr
          /\ e.gpr = t.gpr /\ e.sp[el].of = s
      BY <1>3, <1>6, <1>e DEF Pushes
    <2>2. \A m \in Modes : m # el => e.sp[m] = c.sp[m]
      BY <1>3, <1>6 DEF Pushes
    <2>3. \A u \in Stack : u # s => e.stk[u] = c.stk[u]
      BY <1>3, <1>6, <1>e DEF Pushes
    <2>4. e.sp[el].n = 13 /\ Len(e.stk[s]) = 13
      BY <1>3, <1>6, <1>e DEF Pushes
    <2> QED BY <2>1, <2>2, <2>3, <2>4
  <1>b. \A i \in 1..9 : e.stk[s][i] = c.stk[s][i]
    BY <1>3, <1>6, <1>e DEF Pushes
  <1>c. \A i \in 1..4 : e.stk[s][9 + i] = words[i]
    BY <1>6, <1>e DEF Pushes
  <1>8. /\ e.stk[s][10] = words[1] /\ e.stk[s][11] = words[2] /\ e.stk[s][12] = words[3]
        /\ e.stk[s][13] = words[4]
    <2>2. /\ e.stk[s][9 + 1] = words[1] /\ e.stk[s][9 + 2] = words[2]
          /\ e.stk[s][9 + 3] = words[3] /\ e.stk[s][9 + 4] = words[4]
      BY <1>c
    <2> QED BY <2>2
  <1>9. Calls(d, e, 13, h)
    <2>1. /\ e.mode \in {"EL1", "EL3"} /\ e.sp[e.mode].n = 13
          /\ 13 <= Len(e.stk[e.sp[e.mode].of])
      BY <1>7, <1>a
    <2> QED BY <1>7, <2>1, CallFacts
  <1> HIDE DEF d
  <1>10. /\ d \in Cpu /\ d.mode = el /\ d.pc = <<h, "body">> /\ d.ns = c.ns
         /\ d.gpr["keep"] = Own(h) /\ d.gpr["lr"] = Own(h) /\ d.spsr = e.spsr
         /\ d.sp[el].of = s /\ d.sp[el].n = 16
         /\ \A m \in Modes : m # el => d.sp[m] = e.sp[m]
         /\ \A u \in Stack : u # s => d.stk[u] = e.stk[u]
         /\ Len(d.stk[s]) = 16
         /\ d.stk[s][14] = e.gpr["keep"] /\ d.stk[s][15] = e.elr[el]
         /\ d.stk[s][16] = Own(h)
    BY <1>7, <1>9 DEF Calls
  <1>d. \A i \in 1..13 : d.stk[s][i] = e.stk[s][i]
    BY <1>7, <1>9 DEF Calls
  <1>11. Handles(d, c, el, h)
    <2>1. /\ d.spsr[el] = Psr(c.mode) /\ d.sp[el].of = c.sp[el].of
          /\ \A m \in Modes : m # el => d.sp[m] = c.sp[m]
      BY <1>3, <1>7, <1>10, <1>a DEF s
    <2>2. \A u \in Stack : u # s => d.stk[u] = c.stk[u]
      BY <1>7, <1>10
    <2> QED BY <1>10, <2>1, <2>2 DEF Handles, s
  <1>12. CurrentFrame(d.stk[s], a, h)
    BY <1>3, <1>5, <1>7, <1>8, <1>10, <1>d DEF CurrentFrame
  <1>13. \A i \in 1..9 : d.stk[s][i] = c.stk[s][i]
    <2> SUFFICES ASSUME NEW i \in 1..9 PROVE d.stk[s][i] = c.stk[s][i]
      OBVIOUS
    <2>1. i \in 1..13
      OBVIOUS
    <2> QED BY <2>1, <1>b, <1>d
  <1> QED BY <1>4, <1>10, <1>11, <1>12, <1>13 DEF a, s, t, el

\* From a CurrentFrame the vector returns to the handler that trapped.  SPSR is not
\* in the frame: it must still be the one of the trap.
LEMMA CurrentReturn ==
    ASSUME Arch = "aarch64", NEW c \in Cpu, NEW a \in Activity,
           NEW h \in Activity, NEW addr \in Word,
           c.mode \in {"EL1", "EL3"}, c.sp[c.mode].n = 16, c.spsr[c.mode] = Psr(c.mode),
           CurrentFrame(c.stk[c.sp[c.mode].of], a, h)
    PROVE  /\ Elr(c) = <<a, "at">> /\ Top(c, 1) = Own(h)
           /\ Unwinds(CurrentExit(ReturnC(c, addr)), c, 9, a, addr, c.mode)
  <1> DEFINE s == c.stk[c.sp[c.mode].of]
             r == ReturnC(c, addr)
             e == Pop(r, 4)
             d == CurrentExit(r)
  <1>1. s \in Seq(Word) /\ Len(s) >= 16 /\ Own(a) \in Word
    BY Words DEF Cpu, Pointer, CurrentFrame
  <1>2. Elr(c) = <<a, "at">> /\ Top(c, 1) = Own(h)
    <2>1. Top(c, 1) = s[16] /\ Top(c, 2) = s[15]
      BY DEF Top
    <2> QED BY <2>1 DEF Elr, CurrentFrame
  <1>3. Returns(r, c, 13, addr)
    <2>1. c.sp[c.mode].n = 13 + 3 /\ 13 + 3 <= Len(c.stk[c.sp[c.mode].of])
      BY <1>1
    <2> HIDE DEF r
    <2>2. Returns(ReturnC(c, addr), c, 13, addr)
      BY <2>1, ReturnFacts
    <2> QED BY <2>2 DEF r
  <1> HIDE DEF r
  <1>4. /\ r \in Cpu /\ r.mode = c.mode /\ r.stk = c.stk
        /\ r.sp[c.mode].of = c.sp[c.mode].of /\ r.sp[c.mode].n = 13
        /\ r.gpr["keep"] = Own(a)
    <2>1. /\ r \in Cpu /\ r.mode = c.mode /\ r.stk = c.stk
          /\ r.sp[c.mode].of = c.sp[c.mode].of /\ r.sp[c.mode].n = 13
          /\ r.gpr["keep"] = s[13 + 1]
      BY <1>3 DEF Returns
    <2>2. s[14] = Own(a)
      BY DEF CurrentFrame
    <2> HIDE DEF s
    <2> QED BY <2>1, <2>2
  <1>5. /\ Top(r, 1) = Own(a) /\ Top(r, 2) = Own(a) /\ Top(r, 3) = Own(a)
        /\ Top(r, 4) = Own(a)
    <2>1. /\ Top(r, 1) = s[13 + 1 - 1] /\ Top(r, 2) = s[13 + 1 - 2]
          /\ Top(r, 3) = s[13 + 1 - 3] /\ Top(r, 4) = s[13 + 1 - 4]
      BY <1>4 DEF Top
    <2>2. /\ s[13] = Own(a) /\ s[12] = Own(a)
          /\ s[11] = Own(a) /\ s[10] = Own(a)
      BY DEF CurrentFrame
    <2> HIDE DEF s
    <2> QED BY <2>1, <2>2
  <1>6. Pops(e, r, 9)
    <2>1. r.sp[r.mode].n = 9 + 4
      BY <1>4
    <2> QED BY <1>4, <2>1, PopFacts
  <1>7. d = [e EXCEPT !.gpr["x1"] = Own(a), !.gpr["x0"] = Own(a),
                      !.gpr["x2"] = Own(a), !.gpr["lr"] = Own(a)]
    BY <1>4, <1>5 DEF CurrentExit
  <1> HIDE DEF e, s
  <1>8. e \in Cpu /\ e.mode = c.mode
    BY <1>4, <1>6 DEF Pops
  <1> DEFINE g == [[[[e.gpr EXCEPT !["x1"] = Own(a)] EXCEPT !["x0"] = Own(a)]
                     EXCEPT !["x2"] = Own(a)] EXCEPT !["lr"] = Own(a)]
  <1>9. g \in [Gpr -> Word] /\ g["lr"] = Own(a) /\ g["keep"] = e.gpr["keep"]
    BY <1>1, <1>8, GprFacts DEF Cpu
  <1>10. d = [e EXCEPT !.gpr = g]
    BY <1>7, <1>8 DEF Cpu
  <1> HIDE DEF d, g
  <1>11. /\ d \in Cpu /\ d.mode = e.mode /\ d.pc = e.pc /\ d.ns = e.ns /\ d.stk = e.stk
         /\ d.elr = e.elr /\ d.sp = e.sp /\ d.gpr = g /\ d.spsr = e.spsr
    BY <1>8, <1>9, <1>10 DEF Cpu
  <1>12. Unwinds(d, c, 9, a, addr, c.mode)
    <2>1. /\ r.pc = c.pc /\ r.ns = c.ns /\ r.elr[c.mode] = addr /\ r.spsr = c.spsr
          /\ \A k \in Modes : k # c.mode => r.sp[k] = c.sp[k]
      BY <1>3 DEF Returns
    <2>2. /\ e.pc = r.pc /\ e.ns = r.ns /\ e.elr = r.elr /\ e.gpr = r.gpr /\ e.stk = r.stk
          /\ e.spsr = r.spsr /\ e.sp[c.mode].of = c.sp[c.mode].of /\ e.sp[c.mode].n = 9
          /\ \A k \in Modes : k # c.mode => e.sp[k] = r.sp[k]
      BY <1>4, <1>6 DEF Pops
    <2> QED BY <1>4, <1>8, <1>9, <1>11, <2>1, <2>2 DEF Unwinds
  <1> QED BY <1>2, <1>12 DEF d, r

\* d resumes the activity of addr in mode m.
Resumes(d, e, addr, m) ==
    /\ d \in Cpu /\ d.mode = m /\ d.pc = addr /\ d.ns = e.ns /\ d.stk = e.stk
    /\ d.sp = e.sp /\ d.gpr = e.gpr

\* The exception return changes the program counter and the mode.
LEMMA ERetFacts ==
    ASSUME NEW e \in Cpu, e.mode \in {"EL1", "EL3"}, NEW m \in Modes,
           e.spsr[e.mode] = Psr(m)
    PROVE  Resumes(ERet(e), e, e.elr[e.mode], m)
  <1>1. e.elr[e.mode] \in Word /\ Psr(m)[1][2] = m
    BY Words DEF Cpu
  <1>2. ERet(e) = [e EXCEPT !.pc = e.elr[e.mode], !.mode = m]
    BY <1>1 DEF ERet
  <1> QED BY <1>1, <1>2 DEF Cpu, Modes, Resumes

----------------------------------------------------------------------------
\* Where the processor is, and which frames are on the stacks.
LEMMA Situation ==
    ASSUME Arch = "aarch64", FrameInv, Place # "entry"
    PROVE  LET w == cpu.ns
               n1 == cpu.sp["EL1"].n
               n3 == cpu.sp["EL3"].n
           IN  \/ /\ Running = <<w, "main">> /\ Below = Running /\ cpu.mode = "EL0"
                  /\ n1 = 1 /\ n3 = 1
               \/ /\ Running = <<w, "svc">> /\ Below = Running /\ cpu.mode = "EL1"
                  /\ n1 = 9 /\ n3 = 1
               \/ /\ Running = <<w, "lower">> /\ Below = Running /\ cpu.mode = "EL1"
                  /\ n1 = 9 /\ n3 = 1
               \/ /\ Running = <<w, "current">> /\ Below = Running /\ cpu.mode = "EL1"
                  /\ n1 = 16 /\ n3 = 1
               \/ /\ Running = <<MON, "smc">> /\ Below = <<w, "svc">> /\ cpu.mode = "EL3"
                  /\ n1 = 9 /\ n3 = 9
               \/ /\ Running = <<MON, "lower">> /\ cpu.mode = "EL3" /\ n3 = 9
                  /\ Below \in {<<w, "main">>, <<w, "svc">>}
               \/ /\ Running = <<MON, "current">> /\ Below = <<w, "svc">>
                  /\ cpu.mode = "EL3" /\ n1 = 9 /\ n3 = 16
  <1>1. Active /\ cpu.ns \in World
    BY DEF FrameInv, Cpu
  <1> DEFINE w == cpu.ns
             n1 == cpu.sp["EL1"].n
             n3 == cpu.sp["EL3"].n
  <1>2. /\ cpu.mode = ModeOf(Running) /\ w # MON /\ Below[1] = w
        /\ (Running[1] # MON => Below = Running)
    BY <1>1 DEF Active, Below
  <1>3. \/ Below = <<w, "main">> /\ n1 = 1
        \/ Below = <<w, "svc">> /\ n1 = 9
        \/ Below = <<w, "lower">> /\ n1 = 9
        \/ Below = <<w, "current">> /\ n1 = 16
    BY <1>1 DEF Active, KernelStack
  <1>4. \/ Running = Below /\ n3 = 1
        \/ Running = <<MON, "smc">> /\ n3 = 9 /\ Below[2] = "svc"
        \/ Running = <<MON, "lower">> /\ n3 = 9 /\ Below[2] \in {"main", "svc"}
        \/ Running = <<MON, "current">> /\ n3 = 16 /\ Below[2] = "svc"
    BY <1>1 DEF Active, MonitorFrames
  <1> HIDE DEF n1, n3, w
  <1>5. CASE Running = Below
    <2>1. n3 = 1
      BY <1>2, <1>4, <1>5
    <2> QED BY <1>2, <1>3, <1>5, <2>1 DEF ModeOf, n1, n3, w
  <1>6. CASE Running # Below
    BY <1>2, <1>3, <1>4, <1>6 DEF ModeOf, n1, n3, w
  <1> QED BY <1>5, <1>6

\* A world that waits does not notice what happens on the stacks of the others.
LEMMA ParkedKept ==
    ASSUME NEW w \in World, NEW b, NEW stk, NEW k, Parked(b, w, stk),
           \A s \in Stack : s[1] = w => k[s] = stk[s]
    PROVE  Parked(b, w, k)
  <1>1. <<w, "EL0">> \in Stack /\ <<w, "EL1">> \in Stack
    BY DEF Stack
  <1>2. k[<<w, "EL0">>] = stk[<<w, "EL0">>] /\ k[<<w, "EL1">>] = stk[<<w, "EL1">>]
    BY <1>1
  <1> QED BY <1>2 DEF Parked, Suspended, UserStack

\* The rest of the invariant after a step that stays in the world.
LEMMA SameWorld ==
    ASSUME FrameInv, cpu' \in Cpu, cpu'.ns = cpu.ns, buf' = buf, switches' = switches,
           \A s \in Stack : s[1] = 1 - cpu.ns => cpu'.stk[s] = cpu.stk[s],
           cpu'.sp["EL3"].of = <<MON, "EL3">>, Place' # "entry", Active'
    PROVE  FrameInv'
  <1> DEFINE w == 1 - cpu.ns
  <1>1. w \in World /\ Parked(buf[w], w, cpu.stk)
    BY DEF FrameInv, Cpu
  <1>2. Parked(buf[w], w, cpu'.stk)
    BY <1>1, ParkedKept
  <1>3. Parked(buf[1 - cpu.ns], 1 - cpu.ns, cpu.stk)'
    BY <1>2
  <1> QED BY <1>3 DEF FrameInv

\* A frame survives what is pushed above it.
LEMMA FrameKept ==
    ASSUME NEW s, NEW t, NEW a, NEW m, NEW place, NEW h,
           LowerFrame(s, a, m, place, h), \A i \in 1..9 : t[i] = s[i], Len(t) >= 9
    PROVE  LowerFrame(t, a, m, place, h)
  <1>1. /\ t[2] = s[2] /\ t[3] = s[3] /\ t[4] = s[4] /\ t[5] = s[5] /\ t[6] = s[6]
        /\ t[7] = s[7] /\ t[8] = s[8] /\ t[9] = s[9]
    OBVIOUS
  <1> QED BY <1>1 DEF LowerFrame

\* The handler h has been entered in world w; b is what runs below EL3.
Entered(c, w, b, h) ==
    /\ c.pc = <<h, "body">> /\ c.ns = w /\ c.mode = ModeOf(h)
    /\ c.gpr["keep"] = Own(h) /\ c.gpr["lr"] = Own(h)
    /\ UserStack(w, c.sp["EL0"], c.stk) /\ c.sp["EL1"].of = <<w, "EL1">>
    /\ KernelStack(c.stk[<<w, "EL1">>], c.sp["EL1"].n, w, b)
    /\ MonitorFrames(c.stk[<<MON, "EL3">>], c.sp["EL3"].n, b, h)
    /\ b[1] = w
    /\ IF h[1] = MON THEN c.stk[<<MON, "EL3">>][8][1] = b ELSE h = b
    /\ h[2] = "current" => c.spsr[c.mode] = Psr(c.mode)

\* A handler that has just been entered is active.
LEMMA HandlerActive ==
    ASSUME NEW w, NEW b, NEW h, Entered(cpu', w, b, h)
    PROVE  Active' /\ Place' # "entry"
  <1>1. Running' = h /\ Place' = "body"
    BY DEF Entered, Running, Place
  <1>2. Below' = b
    BY <1>1 DEF Entered, Below, MonStack
  <1> QED BY <1>1, <1>2 DEF Entered, Active, MonStack, ResultDelivered

\* An exception from EL0 to EL1: an SVC, or an instruction that traps.
LEMMA EntersKernel ==
    ASSUME Arch = "aarch64", FrameInv, Place # "entry", Running[2] = "main",
           NEW place, NEW name,
           \/ place = "ret" /\ name = "svc"
           \/ place = "at" /\ name = "lower",
           cpu' = CallC(LowerEntry(Take(Live(cpu), "EL1", <<Running, place>>)),
                        <<Running[1], name>>),
           buf' = buf, switches' = switches
    PROVE  FrameInv'
  <1> DEFINE w == cpu.ns
             main == <<w, "main">>
             h == <<w, name>>
  <1>1. /\ Running = main /\ Below = Running /\ cpu.mode = "EL0"
        /\ cpu.sp["EL1"].n = 1 /\ cpu.sp["EL3"].n = 1
    BY Situation
  <1>2. Active /\ w \in World /\ cpu \in Cpu /\ cpu.pc[1] = main
        /\ cpu.sp["EL3"].of = <<MON, "EL3">>
    BY <1>1 DEF FrameInv, Cpu, Running
  <1>3. /\ cpu.gpr["keep"] = Own(main) /\ cpu.gpr["lr"] = Own(main)
        /\ UserStack(w, cpu.sp["EL0"], cpu.stk)
        /\ cpu.sp["EL1"].of = <<w, "EL1">> /\ Len(cpu.stk[<<w, "EL1">>]) >= 1
        /\ Len(MonStack) >= 1
    BY <1>1, <1>2 DEF Active, KernelStack, MonitorFrames, Running, LowerFrame
  <1>4. h \in Activity /\ place \in Tag
    BY <1>2 DEF Activity, Name, Tag
  <1>5. cpu' = CallC(LowerEntry(Take(Live(cpu), "EL1", <<cpu.pc[1], place>>)), h)
    BY <1>1 DEF Running
  <1>6. /\ Handles(cpu', cpu, "EL1", h) /\ cpu'.sp["EL1"].n = 9
        /\ LowerFrame(cpu'.stk[<<w, "EL1">>], main, "EL0", place, h)
    BY <1>1, <1>2, <1>3, <1>4, <1>5, LowerCall
  <1>7. /\ cpu' \in Cpu /\ cpu'.mode = "EL1" /\ cpu'.pc = <<h, "body">> /\ cpu'.ns = w
        /\ cpu'.gpr["keep"] = Own(h) /\ cpu'.gpr["lr"] = Own(h)
        /\ cpu'.sp["EL1"].of = <<w, "EL1">> /\ cpu'.sp["EL0"] = cpu.sp["EL0"]
        /\ cpu'.sp["EL3"] = cpu.sp["EL3"]
        /\ \A s \in Stack : s # <<w, "EL1">> => cpu'.stk[s] = cpu.stk[s]
    BY <1>3, <1>6 DEF Handles, Modes
  <1>8. /\ cpu'.stk[<<MON, "EL3">>] = MonStack
        /\ cpu'.stk[<<w, "EL0">>] = cpu.stk[<<w, "EL0">>]
        /\ \A s \in Stack : s[1] = 1 - w => cpu'.stk[s] = cpu.stk[s]
    BY <1>2, <1>7 DEF Stack, MonStack
  <1>9. h[1] = w /\ h[2] = name /\ w # MON
    BY <1>2
  <1>10. KernelStack(cpu'.stk[<<w, "EL1">>], cpu'.sp["EL1"].n, w, h)
    BY <1>6 DEF KernelStack
  <1>11. MonitorFrames(cpu'.stk[<<MON, "EL3">>], cpu'.sp["EL3"].n, h, h)
    BY <1>1, <1>3, <1>7, <1>8 DEF MonitorFrames
  <1>12. UserStack(w, cpu'.sp["EL0"], cpu'.stk)
    BY <1>3, <1>7, <1>8 DEF UserStack
  <1>13. cpu'.mode = ModeOf(h)
    BY <1>2, <1>7 DEF ModeOf
  <1>14. Active' /\ Place' # "entry"
    <2>1. Entered(cpu', w, h, h)
      BY <1>7, <1>9, <1>10, <1>11, <1>12, <1>13 DEF Entered
    <2> QED BY <2>1, HandlerActive
  <1> QED BY <1>2, <1>7, <1>8, <1>14, SameWorld

\* An exception from EL0 or EL1 to EL3: an SMC, or an instruction that traps.
LEMMA EntersMonitor ==
    ASSUME Arch = "aarch64", FrameInv, Place # "entry",
           NEW place, NEW name,
           \/ place = "ret" /\ name = "smc" /\ Running[2] = "svc"
           \/ place = "at" /\ name = "lower" /\ Running[2] \in {"main", "svc"},
           cpu' = CallC(LowerEntry(Take(Live(cpu), "EL3", <<Running, place>>)),
                        <<MON, name>>),
           buf' = buf, switches' = switches
    PROVE  FrameInv'
  <1> DEFINE w == cpu.ns
             b == Running
             h == <<MON, name>>
             m3 == <<MON, "EL3">>
  <1>1. /\ b \in {<<w, "main">>, <<w, "svc">>} /\ Below = b /\ cpu.mode = Mode(b)
        /\ cpu.sp["EL3"].n = 1
    BY Situation DEF Mode
  <1>2. Active /\ w \in World /\ cpu \in Cpu /\ cpu.sp["EL3"].of = m3
    BY DEF FrameInv, Cpu
  <1>3. /\ cpu.gpr["keep"] = Own(b) /\ cpu.gpr["lr"] = Own(b)
        /\ UserStack(w, cpu.sp["EL0"], cpu.stk) /\ cpu.sp["EL1"].of = <<w, "EL1">>
        /\ KernelStack(cpu.stk[<<w, "EL1">>], cpu.sp["EL1"].n, w, b)
        /\ Len(cpu.stk[m3]) >= 1
    BY <1>1, <1>2 DEF Active, MonitorFrames, MonStack, LowerFrame
  <1>4. h \in Activity /\ place \in Tag
    BY DEF Activity, Name, Tag
  <1>5. cpu' = CallC(LowerEntry(Take(Live(cpu), "EL3", <<cpu.pc[1], place>>)), h)
    BY DEF Running
  <1>6. /\ Handles(cpu', cpu, "EL3", h) /\ cpu'.sp["EL3"].n = 9
        /\ LowerFrame(cpu'.stk[m3], b, cpu.mode, place, h)
    BY <1>1, <1>2, <1>3, <1>4, <1>5, LowerCall DEF Running
  <1> HIDE DEF b
  <1>7. /\ cpu' \in Cpu /\ cpu'.mode = "EL3" /\ cpu'.pc = <<h, "body">> /\ cpu'.ns = w
        /\ cpu'.gpr["keep"] = Own(h) /\ cpu'.gpr["lr"] = Own(h)
        /\ cpu'.sp["EL3"].of = m3 /\ cpu'.sp["EL0"] = cpu.sp["EL0"]
        /\ cpu'.sp["EL1"] = cpu.sp["EL1"]
        /\ \A s \in Stack : s # m3 => cpu'.stk[s] = cpu.stk[s]
    BY <1>2, <1>6 DEF Handles, Modes
  <1>8. /\ cpu'.stk[<<w, "EL1">>] = cpu.stk[<<w, "EL1">>]
        /\ cpu'.stk[<<w, "EL0">>] = cpu.stk[<<w, "EL0">>]
        /\ \A s \in Stack : s[1] = 1 - w => cpu'.stk[s] = cpu.stk[s]
    BY <1>2, <1>7 DEF Stack
  <1>9. b[1] = w /\ h[1] = MON /\ h[2] # "current" /\ cpu'.stk[m3][8][1] = b
    BY <1>1, <1>6 DEF LowerFrame
  <1>10. KernelStack(cpu'.stk[<<w, "EL1">>], cpu'.sp["EL1"].n, w, b)
    BY <1>3, <1>7, <1>8
  <1>11. MonitorFrames(cpu'.stk[m3], cpu'.sp["EL3"].n, b, h)
    BY <1>1, <1>6 DEF MonitorFrames, Mode, b
  <1>12. UserStack(w, cpu'.sp["EL0"], cpu'.stk)
    BY <1>3, <1>7, <1>8 DEF UserStack
  <1>13. cpu'.mode = ModeOf(h)
    BY <1>7 DEF ModeOf
  <1>14. Active' /\ Place' # "entry"
    <2> HIDE DEF h, w
    <2>1. Entered(cpu', w, b, h)
      BY <1>3, <1>7, <1>9, <1>10, <1>11, <1>12, <1>13 DEF Entered
    <2> QED BY <2>1, HandlerActive
  <1> QED BY <1>2, <1>7, <1>8, <1>14, SameWorld

\* An exception in an SVC handler that EL1 takes itself.
LEMMA EntersKernelAgain ==
    ASSUME Arch = "aarch64", FrameInv, Place # "entry", Running[2] = "svc",
           cpu' = CallC(CurrentEntry(Take(Live(cpu), "EL1", <<Running, "at">>)),
                        <<Running[1], "current">>),
           buf' = buf, switches' = switches
    PROVE  FrameInv'
  <1> DEFINE w == cpu.ns
             svc == <<w, "svc">>
             h == <<w, "current">>
             s1 == <<w, "EL1">>
  <1>1. /\ Running = svc /\ Below = Running /\ cpu.mode = "EL1"
        /\ cpu.sp["EL1"].n = 9 /\ cpu.sp["EL3"].n = 1
    BY Situation
  <1>2. Active /\ w \in World /\ cpu \in Cpu /\ cpu.pc[1] = svc
        /\ cpu.sp["EL3"].of = <<MON, "EL3">>
    BY <1>1 DEF FrameInv, Cpu, Running
  <1>3. /\ cpu.gpr["keep"] = Own(svc) /\ cpu.gpr["lr"] = Own(svc)
        /\ UserStack(w, cpu.sp["EL0"], cpu.stk) /\ cpu.sp["EL1"].of = s1
        /\ LowerFrame(cpu.stk[s1], <<w, "main">>, "EL0", "ret", svc)
        /\ Len(MonStack) >= 1
    <2>1. /\ cpu.gpr["keep"] = Own(svc) /\ cpu.gpr["lr"] = Own(svc)
          /\ UserStack(w, cpu.sp["EL0"], cpu.stk) /\ cpu.sp["EL1"].of = s1
          /\ KernelStack(cpu.stk[s1], cpu.sp["EL1"].n, w, svc)
          /\ MonitorFrames(MonStack, cpu.sp["EL3"].n, svc, svc)
      BY <1>1, <1>2 DEF Active
    <2>2. LowerFrame(cpu.stk[s1], <<w, "main">>, "EL0", "ret", svc)
      BY <2>1 DEF KernelStack
    <2>3. Len(MonStack) >= 1
      BY <1>2, <2>1 DEF MonitorFrames
    <2> QED BY <2>1, <2>2, <2>3
  <1>4. h \in Activity /\ Len(cpu.stk[s1]) >= 9
    BY <1>2, <1>3 DEF Activity, Name, LowerFrame
  <1>5. cpu' = CallC(CurrentEntry(Take(Live(cpu), cpu.mode, <<cpu.pc[1], "at">>)), h)
    BY <1>1 DEF Running
  <1>6. /\ Handles(cpu', cpu, "EL1", h) /\ cpu'.sp["EL1"].n = 16
        /\ \A i \in 1..9 : cpu'.stk[s1][i] = cpu.stk[s1][i]
        /\ CurrentFrame(cpu'.stk[s1], svc, h)
    <2> DEFINE s == cpu.sp[cpu.mode].of
    <2>1. s = s1 /\ cpu.mode \in {"EL1", "EL3"}
      BY <1>1, <1>2, <1>3
    <2>2. /\ cpu.gpr["keep"] = Own(cpu.pc[1]) /\ cpu.gpr["lr"] = Own(cpu.pc[1])
          /\ cpu.sp[cpu.mode].n = 9
      BY <1>1, <1>2, <1>3
    <2>3. Len(cpu.stk[s]) >= 9
      BY <1>4, <2>1
    <2>4. /\ Handles(cpu', cpu, cpu.mode, h) /\ cpu'.sp[cpu.mode].n = 16
          /\ \A i \in 1..9 : cpu'.stk[s][i] = cpu.stk[s][i]
          /\ CurrentFrame(cpu'.stk[s], cpu.pc[1], h)
      <3> HIDE DEF h
      <3> QED BY <1>2, <1>4, <1>5, <2>1, <2>2, <2>3, CurrentCall
    <2> HIDE DEF s, h
    <2> QED BY <1>1, <1>2, <2>1, <2>4
  <1>7. /\ cpu' \in Cpu /\ cpu'.mode = "EL1" /\ cpu'.pc = <<h, "body">> /\ cpu'.ns = w
        /\ cpu'.gpr["keep"] = Own(h) /\ cpu'.gpr["lr"] = Own(h)
        /\ cpu'.spsr["EL1"] = Psr("EL1")
        /\ cpu'.sp["EL1"].of = s1 /\ cpu'.sp["EL0"] = cpu.sp["EL0"]
        /\ cpu'.sp["EL3"] = cpu.sp["EL3"]
        /\ \A s \in Stack : s # s1 => cpu'.stk[s] = cpu.stk[s]
    BY <1>1, <1>3, <1>6 DEF Handles, Modes
  <1>8. /\ cpu'.stk[<<MON, "EL3">>] = MonStack
        /\ cpu'.stk[<<w, "EL0">>] = cpu.stk[<<w, "EL0">>]
        /\ \A s \in Stack : s[1] = 1 - w => cpu'.stk[s] = cpu.stk[s]
    BY <1>2, <1>7 DEF Stack, MonStack
  <1>9. h[1] = w /\ w # MON
    BY <1>2
  <1>10. KernelStack(cpu'.stk[s1], cpu'.sp["EL1"].n, w, h)
    <2>1. LowerFrame(cpu'.stk[s1], <<w, "main">>, "EL0", "ret", svc)
      <3> DEFINE s == cpu.stk[s1]
                 t == cpu'.stk[s1]
                 main == <<w, "main">>
      <3>1. LowerFrame(s, main, "EL0", "ret", svc) /\ \A i \in 1..9 : t[i] = s[i]
        BY <1>3, <1>6
      <3> HIDE DEF s, svc, main, h
      <3>4. CurrentFrame(t, svc, h)
        BY <1>6
      <3> HIDE DEF t
      <3>3. Len(t) >= 9
        BY <3>4 DEF CurrentFrame
      <3>2. LowerFrame(t, main, "EL0", "ret", svc)
        BY <3>1, <3>3, FrameKept
      <3> QED BY <3>2 DEF t, main
    <2> QED BY <1>6, <2>1 DEF KernelStack
  <1>11. MonitorFrames(cpu'.stk[<<MON, "EL3">>], cpu'.sp["EL3"].n, h, h)
    BY <1>1, <1>3, <1>7, <1>8 DEF MonitorFrames
  <1>12. UserStack(w, cpu'.sp["EL0"], cpu'.stk)
    BY <1>3, <1>7, <1>8 DEF UserStack
  <1>13. cpu'.mode = ModeOf(h)
    BY <1>2, <1>7 DEF ModeOf
  <1>14. Active' /\ Place' # "entry"
    <2>1. Entered(cpu', w, h, h)
      BY <1>7, <1>9, <1>10, <1>11, <1>12, <1>13 DEF Entered
    <2> QED BY <2>1, HandlerActive
  <1> QED BY <1>2, <1>7, <1>8, <1>14, SameWorld

\* An exception in an SMC handler, taken to EL3.
LEMMA EntersMonitorAgain ==
    ASSUME Arch = "aarch64", FrameInv, Place # "entry", Running[2] = "smc",
           cpu' = CallC(CurrentEntry(Take(Live(cpu), "EL3", <<Running, "at">>)),
                        <<MON, "current">>),
           buf' = buf, switches' = switches
    PROVE  FrameInv'
  <1> DEFINE w == cpu.ns
             svc == <<w, "svc">>
             smc == <<MON, "smc">>
             h == <<MON, "current">>
             m3 == <<MON, "EL3">>
  <1>1. /\ Running = smc /\ Below = svc /\ cpu.mode = "EL3" /\ cpu.sp["EL3"].n = 9
    BY Situation
  <1>2. Active /\ w \in World /\ cpu \in Cpu /\ cpu.pc[1] = smc
        /\ cpu.sp["EL3"].of = m3
    BY <1>1 DEF FrameInv, Cpu, Running
  <1>3. /\ cpu.gpr["keep"] = Own(smc) /\ cpu.gpr["lr"] = Own(smc)
        /\ UserStack(w, cpu.sp["EL0"], cpu.stk) /\ cpu.sp["EL1"].of = <<w, "EL1">>
        /\ KernelStack(cpu.stk[<<w, "EL1">>], cpu.sp["EL1"].n, w, svc)
        /\ LowerFrame(cpu.stk[m3], svc, "EL1", "ret", smc)
    BY <1>1, <1>2 DEF Active, MonitorFrames, MonStack
  <1>4. h \in Activity /\ Len(cpu.stk[m3]) >= 9
    BY <1>3 DEF Activity, Name, LowerFrame
  <1>5. cpu' = CallC(CurrentEntry(Take(Live(cpu), cpu.mode, <<cpu.pc[1], "at">>)), h)
    BY <1>1 DEF Running
  <1>6. /\ Handles(cpu', cpu, "EL3", h) /\ cpu'.sp["EL3"].n = 16
        /\ \A i \in 1..9 : cpu'.stk[m3][i] = cpu.stk[m3][i]
        /\ CurrentFrame(cpu'.stk[m3], smc, h)
    <2> DEFINE s == cpu.sp[cpu.mode].of
    <2>1. s = m3 /\ cpu.mode \in {"EL1", "EL3"}
      BY <1>1, <1>2, <1>3
    <2>2. /\ cpu.gpr["keep"] = Own(cpu.pc[1]) /\ cpu.gpr["lr"] = Own(cpu.pc[1])
          /\ cpu.sp[cpu.mode].n = 9
      BY <1>1, <1>2, <1>3
    <2>3. Len(cpu.stk[s]) >= 9
      BY <1>4, <2>1
    <2>4. /\ Handles(cpu', cpu, cpu.mode, h) /\ cpu'.sp[cpu.mode].n = 16
          /\ \A i \in 1..9 : cpu'.stk[s][i] = cpu.stk[s][i]
          /\ CurrentFrame(cpu'.stk[s], cpu.pc[1], h)
      <3> HIDE DEF h
      <3> QED BY <1>2, <1>4, <1>5, <2>1, <2>2, <2>3, CurrentCall
    <2> HIDE DEF s, h
    <2> QED BY <1>1, <1>2, <2>1, <2>4
  <1>7. /\ cpu' \in Cpu /\ cpu'.mode = "EL3" /\ cpu'.pc = <<h, "body">> /\ cpu'.ns = w
        /\ cpu'.gpr["keep"] = Own(h) /\ cpu'.gpr["lr"] = Own(h)
        /\ cpu'.spsr["EL3"] = Psr("EL3")
        /\ cpu'.sp["EL3"].of = m3 /\ cpu'.sp["EL0"] = cpu.sp["EL0"]
        /\ cpu'.sp["EL1"] = cpu.sp["EL1"]
        /\ \A s \in Stack : s # m3 => cpu'.stk[s] = cpu.stk[s]
    BY <1>1, <1>2, <1>6 DEF Handles, Modes
  <1>8. /\ cpu'.stk[<<w, "EL1">>] = cpu.stk[<<w, "EL1">>]
        /\ cpu'.stk[<<w, "EL0">>] = cpu.stk[<<w, "EL0">>]
        /\ \A s \in Stack : s[1] = 1 - w => cpu'.stk[s] = cpu.stk[s]
    BY <1>2, <1>7 DEF Stack
  <1>9. LowerFrame(cpu'.stk[m3], svc, "EL1", "ret", smc)
    <2> DEFINE s == cpu.stk[m3]
               t == cpu'.stk[m3]
    <2>1. LowerFrame(s, svc, "EL1", "ret", smc) /\ \A i \in 1..9 : t[i] = s[i]
      BY <1>3, <1>6
    <2>3. CurrentFrame(t, smc, h)
      BY <1>6
    <2> HIDE DEF s, t, svc, smc, h
    <2>4. Len(t) >= 9
      BY <2>3 DEF CurrentFrame
    <2>2. LowerFrame(t, svc, "EL1", "ret", smc)
      BY <2>1, <2>4, FrameKept
    <2> QED BY <2>2 DEF t
  <1>10. svc[1] = w /\ h[1] = MON /\ cpu'.stk[m3][8][1] = svc
    <2>1. cpu'.stk[m3][8] = <<svc, "ret">>
      BY <1>9 DEF LowerFrame
    <2> QED BY <2>1
  <1>11. KernelStack(cpu'.stk[<<w, "EL1">>], cpu'.sp["EL1"].n, w, svc)
    BY <1>3, <1>7, <1>8
  <1>12. MonitorFrames(cpu'.stk[m3], cpu'.sp["EL3"].n, svc, h)
    BY <1>6, <1>9 DEF MonitorFrames
  <1>13. UserStack(w, cpu'.sp["EL0"], cpu'.stk)
    BY <1>3, <1>7, <1>8 DEF UserStack
  <1>14. cpu'.mode = ModeOf(h)
    BY <1>7 DEF ModeOf
  <1>15. Active' /\ Place' # "entry"
    <2> HIDE DEF h, w, svc
    <2>1. Entered(cpu', w, svc, h)
      BY <1>3, <1>7, <1>10, <1>11, <1>12, <1>13, <1>14 DEF Entered
    <2> QED BY <2>1, HandlerActive
  <1> QED BY <1>2, <1>7, <1>8, <1>15, SameWorld

\* d is c after the return of its handler to a, at addr in mode m.
Back(d, c, n, a, addr, m) ==
    /\ d \in Cpu /\ d.mode = m /\ d.pc = addr /\ d.ns = c.ns /\ d.stk = c.stk
    /\ d.gpr["keep"] = Own(a) /\ d.gpr["lr"] = Own(a)
    /\ d.sp[c.mode].of = c.sp[c.mode].of /\ d.sp[c.mode].n = n
    /\ \A k \in Modes : k # c.mode => d.sp[k] = c.sp[k]

\* The exception return after a handler has been unwound.
LEMMA ReturnsTo ==
    ASSUME NEW c, NEW e, NEW n, NEW a, NEW addr, NEW m \in Modes,
           c.mode \in {"EL1", "EL3"}, Unwinds(e, c, n, a, addr, m)
    PROVE  Back(ERet(e), c, n, a, addr, m) /\ ERet(e).gpr = e.gpr
  <1>1. e \in Cpu /\ e.mode = c.mode /\ e.spsr[e.mode] = Psr(m) /\ e.elr[e.mode] = addr
    BY DEF Unwinds
  <1>2. Resumes(ERet(e), e, e.elr[e.mode], m)
    BY <1>1, ERetFacts
  <1> QED BY <1>1, <1>2 DEF Resumes, Unwinds, Back

\* The activity a is resumed at the given place in world w.
Resumed(c, w, b, a, place) ==
    /\ c.pc = <<a, place>> /\ place \in {"ret", "at", "next"} /\ c.ns = w
    /\ c.mode = ModeOf(a) /\ a[2] \in {"main", "svc", "smc"}
    /\ c.gpr["keep"] = Own(a) /\ c.gpr["lr"] = Own(a)
    /\ UserStack(w, c.sp["EL0"], c.stk) /\ c.sp["EL1"].of = <<w, "EL1">>
    /\ KernelStack(c.stk[<<w, "EL1">>], c.sp["EL1"].n, w, b)
    /\ MonitorFrames(c.stk[<<MON, "EL3">>], c.sp["EL3"].n, b, a)
    /\ b[1] = w
    /\ IF a[1] = MON THEN c.stk[<<MON, "EL3">>][8][1] = b ELSE a = b
    /\ place = "ret" => /\ a[1] # MON
                        /\ c.gpr["x0"] = Result(IF a[2] = "main" THEN <<a[1], "svc">>
                                                ELSE <<MON, "smc">>)

\* An activity that has just been resumed is active.
LEMMA CallerActive ==
    ASSUME NEW w, NEW b, NEW a, NEW place, Resumed(cpu', w, b, a, place)
    PROVE  Active' /\ Place' # "entry"
  <1>1. Running' = a /\ Place' = place
    BY DEF Resumed, Running, Place
  <1>2. Below' = b
    BY <1>1 DEF Resumed, Below, MonStack
  <1>3. ResultDelivered'
    BY <1>1 DEF Resumed, ResultDelivered
  <1> QED BY <1>1, <1>2, <1>3 DEF Resumed, Active, MonStack

\* The return from EL1 to EL0.
LEMMA LeavesKernel ==
    ASSUME Arch = "aarch64", FrameInv, Place # "entry", Running[1] # MON, NEW place,
           \/ Running[2] = "svc" /\ place = "ret"
           \/ Running[2] = "lower" /\ place \in {"at", "next"},
           cpu' = ERet(CallExit(ReturnC(cpu, <<Elr(cpu)[1], place>>))),
           buf' = buf, switches' = switches
    PROVE  FrameInv'
  <1> DEFINE w == cpu.ns
             main == <<w, "main">>
             h == Running
             old == IF Running[2] = "svc" THEN "ret" ELSE "at"
             s1 == <<w, "EL1">>
             addr == <<main, place>>
             e == CallExit(ReturnC(cpu, addr))
  <1>1. /\ h \in {<<w, "svc">>, <<w, "lower">>} /\ Below = h /\ cpu.mode = "EL1"
        /\ cpu.sp["EL1"].n = 9 /\ cpu.sp["EL3"].n = 1
    BY Situation
  <1>2. Active /\ w \in World /\ cpu \in Cpu /\ cpu.sp["EL3"].of = <<MON, "EL3">>
    BY DEF FrameInv, Cpu
  <1>3. /\ UserStack(w, cpu.sp["EL0"], cpu.stk) /\ cpu.sp["EL1"].of = s1
        /\ LowerFrame(cpu.stk[s1], main, "EL0", old, h) /\ Len(MonStack) >= 1
    <2>1. /\ UserStack(w, cpu.sp["EL0"], cpu.stk) /\ cpu.sp["EL1"].of = s1
          /\ KernelStack(cpu.stk[s1], 9, w, h) /\ MonitorFrames(MonStack, 1, h, h)
      BY <1>1, <1>2 DEF Active
    <2>2. LowerFrame(cpu.stk[s1], main, "EL0", old, h)
      BY <1>1, <2>1 DEF KernelStack
    <2>3. Len(MonStack) >= 1
      BY <1>1, <1>2, <2>1 DEF MonitorFrames
    <2> QED BY <2>1, <2>2, <2>3
  <1>4. /\ main \in Activity /\ h \in Activity /\ old \in Tag /\ addr \in Word
        /\ "EL0" \in Modes
    BY <1>1, <1>2 DEF Activity, Name, Tag, Word, Modes
  <1>5. Elr(cpu) = <<main, old>> /\ Unwinds(e, cpu, 1, main, addr, "EL0")
        /\ e.gpr["x0"] = Result(h)
    <2> HIDE DEF main, addr, old
    <2> QED BY <1>1, <1>2, <1>3, <1>4, LowerReturn DEF Running
  <1>6. cpu' = ERet(e)
    BY <1>5
  <1> HIDE DEF e
  <1>7. Back(cpu', cpu, 1, main, addr, "EL0") /\ cpu'.gpr = e.gpr
    BY <1>1, <1>4, <1>5, <1>6, ReturnsTo
  <1>8. /\ cpu' \in Cpu /\ cpu'.mode = "EL0" /\ cpu'.pc = <<main, place>> /\ cpu'.ns = w
        /\ cpu'.stk = cpu.stk /\ cpu'.gpr["keep"] = Own(main) /\ cpu'.gpr["lr"] = Own(main)
        /\ cpu'.gpr["x0"] = Result(h) /\ cpu'.sp["EL1"].of = s1 /\ cpu'.sp["EL1"].n = 1
        /\ cpu'.sp["EL0"] = cpu.sp["EL0"] /\ cpu'.sp["EL3"] = cpu.sp["EL3"]
    BY <1>1, <1>3, <1>5, <1>7 DEF Back, Modes
  <1>9. KernelStack(cpu'.stk[s1], cpu'.sp["EL1"].n, w, main)
    <2>1. cpu.stk[s1] \in Seq(Word) /\ Len(cpu.stk[s1]) >= 9
      BY <1>2, <1>3 DEF Cpu, Stack, LowerFrame
    <2> QED BY <1>8, <2>1 DEF KernelStack
  <1>10. MonitorFrames(cpu'.stk[<<MON, "EL3">>], cpu'.sp["EL3"].n, main, main)
    BY <1>1, <1>3, <1>8 DEF MonitorFrames, MonStack
  <1>11. UserStack(w, cpu'.sp["EL0"], cpu'.stk)
    BY <1>3, <1>8
  <1>12. /\ cpu'.mode = ModeOf(main) /\ main[1] = w /\ main[2] = "main" /\ w # MON
         /\ place = "ret" => h = <<w, "svc">>
    BY <1>1, <1>2, <1>8 DEF ModeOf
  <1>13. Resumed(cpu', w, main, main, place)
    BY <1>8, <1>9, <1>10, <1>11, <1>12 DEF Resumed
  <1>14. Active' /\ Place' # "entry"
    BY <1>13, CallerActive
  <1>15. FrameInv'
    BY <1>2, <1>8, <1>14, SameWorld
  <1> QED BY <1>5, <1>15

\* The return from EL3 to what runs below it.
LEMMA LeavesMonitor ==
    ASSUME Arch = "aarch64", FrameInv, Place # "entry", Running[1] = MON, NEW place,
           \/ /\ Running[2] = "smc" /\ place = "ret"
              /\ cpu' = ERet(CallExit(ReturnC(cpu, <<Elr(cpu)[1], place>>)))
           \/ /\ Running[2] = "lower" /\ place \in {"at", "next"}
              /\ cpu' = ERet(LowerExit(ReturnC(cpu, <<Elr(cpu)[1], place>>))),
           buf' = buf, switches' = switches
    PROVE  FrameInv'
  <1> DEFINE w == cpu.ns
             b == Below
             h == Running
             m == Mode(b)
             old == IF Running[2] = "smc" THEN "ret" ELSE "at"
             m3 == <<MON, "EL3">>
             addr == <<b, place>>
             r == ReturnC(cpu, addr)
             e == IF Running[2] = "smc" THEN CallExit(r) ELSE LowerExit(r)
  <1>1. /\ h \in {<<MON, "smc">>, <<MON, "lower">>} /\ b \in {<<w, "main">>, <<w, "svc">>}
        /\ cpu.mode = "EL3" /\ cpu.sp["EL3"].n = 9
        /\ Running[2] = "smc" => b = <<w, "svc">>
    <2>1. w \in World
      BY DEF FrameInv, Cpu
    <2> QED BY <2>1, Situation
  <1>2. Active /\ w \in World /\ cpu \in Cpu /\ cpu.sp["EL3"].of = m3
    BY DEF FrameInv, Cpu
  <1>3. /\ UserStack(w, cpu.sp["EL0"], cpu.stk) /\ cpu.sp["EL1"].of = <<w, "EL1">>
        /\ KernelStack(cpu.stk[<<w, "EL1">>], cpu.sp["EL1"].n, w, b)
        /\ LowerFrame(cpu.stk[m3], b, m, old, h)
    <2>1. /\ UserStack(w, cpu.sp["EL0"], cpu.stk) /\ cpu.sp["EL1"].of = <<w, "EL1">>
          /\ KernelStack(cpu.stk[<<w, "EL1">>], cpu.sp["EL1"].n, w, b)
          /\ MonitorFrames(cpu.stk[m3], 9, b, h)
      BY <1>1, <1>2 DEF Active, MonStack
    <2> HIDE DEF b, w
    <2>2. LowerFrame(cpu.stk[m3], b, m, old, h)
      BY <1>1, <2>1 DEF MonitorFrames, Mode
    <2> QED BY <2>1, <2>2
  <1>4. /\ b \in Activity /\ h \in Activity /\ old \in Tag /\ addr \in Word
        /\ m \in Modes /\ m \in {"EL0", "EL1"}
    BY <1>1, <1>2 DEF Activity, Name, Tag, Word, Modes, Mode
  <1>5. /\ Elr(cpu) = <<b, old>> /\ Unwinds(e, cpu, 1, b, addr, m)
        /\ Running[2] = "smc" => e.gpr["x0"] = Result(h)
    <2> HIDE DEF b, m, addr, old
    <2> QED BY <1>1, <1>2, <1>3, <1>4, LowerReturn DEF Running
  <1>6. cpu' = ERet(e) /\ Elr(cpu)[1] = b /\ (place = "ret" => Running[2] = "smc")
    <2>1. Elr(cpu)[1] = b
      <3> HIDE DEF b, old
      <3> QED BY <1>5
    <2> HIDE DEF b
    <2>2. CASE Running[2] = "smc"
      BY <2>1, <2>2
    <2>3. CASE Running[2] = "lower"
      BY <2>1, <2>3
    <2> QED BY <2>1, <2>2, <2>3
  <1> HIDE DEF e
  <1>7. Back(cpu', cpu, 1, b, addr, m) /\ cpu'.gpr = e.gpr
    <2>1. cpu.mode \in {"EL1", "EL3"}
      BY <1>1
    <2> HIDE DEF b, m, addr
    <2> QED BY <1>4, <1>5, <1>6, <2>1, ReturnsTo
  <1> HIDE DEF b
  <1>8. /\ cpu' \in Cpu /\ cpu'.mode = m /\ cpu'.pc = <<b, place>> /\ cpu'.ns = w
        /\ cpu'.stk = cpu.stk /\ cpu'.gpr["keep"] = Own(b) /\ cpu'.gpr["lr"] = Own(b)
        /\ cpu'.sp["EL3"].of = m3 /\ cpu'.sp["EL3"].n = 1
        /\ cpu'.sp["EL0"] = cpu.sp["EL0"] /\ cpu'.sp["EL1"] = cpu.sp["EL1"]
    BY <1>1, <1>2, <1>7 DEF Back, Modes
  <1>9. KernelStack(cpu'.stk[<<w, "EL1">>], cpu'.sp["EL1"].n, w, b)
    BY <1>3, <1>8
  <1>10. MonitorFrames(cpu'.stk[m3], cpu'.sp["EL3"].n, b, b)
    <2>1. cpu.stk[m3] \in Seq(Word) /\ Len(cpu.stk[m3]) >= 9
      BY <1>2, <1>3 DEF Cpu, Stack, LowerFrame
    <2> QED BY <1>8, <2>1 DEF MonitorFrames
  <1>11. UserStack(w, cpu'.sp["EL0"], cpu'.stk)
    BY <1>3, <1>8
  <1>12. cpu'.mode = ModeOf(b) /\ b[1] = w /\ b[2] \in {"main", "svc"} /\ w # MON
    BY <1>1, <1>2, <1>8 DEF ModeOf, Mode
  <1>13. place = "ret" => b[2] = "svc" /\ cpu'.gpr["x0"] = Result(<<MON, "smc">>)
    <2>1. SUFFICES ASSUME place = "ret"
                   PROVE  b[2] = "svc" /\ cpu'.gpr["x0"] = Result(<<MON, "smc">>)
      OBVIOUS
    <2>2. Running = <<MON, "smc">> /\ b = <<w, "svc">>
      BY <1>1, <1>6, <2>1
    <2>3. cpu'.gpr["x0"] = Result(Running)
      BY <1>5, <1>6, <1>7, <2>1
    <2> QED BY <2>2, <2>3
  <1>14. Resumed(cpu', w, b, b, place)
    <2> HIDE DEF w
    <2> QED BY <1>3, <1>8, <1>9, <1>10, <1>11, <1>12, <1>13 DEF Resumed
  <1>15. Active' /\ Place' # "entry"
    BY <1>14, CallerActive
  <1>16. FrameInv'
    BY <1>2, <1>8, <1>15, SameWorld
  <1> QED BY <1>5, <1>6, <1>16

\* The return to an SVC handler that trapped.
LEMMA LeavesKernelAgain ==
    ASSUME Arch = "aarch64", FrameInv, Place # "entry", Running[1] # MON, NEW place,
           Running[2] = "current", place \in {"at", "next"},
           cpu' = ERet(CurrentExit(ReturnC(cpu, <<Elr(cpu)[1], place>>))),
           buf' = buf, switches' = switches
    PROVE  FrameInv'
  <1> DEFINE w == cpu.ns
             svc == <<w, "svc">>
             h == Running
             s1 == <<w, "EL1">>
             addr == <<svc, place>>
             e == CurrentExit(ReturnC(cpu, addr))
  <1>1. /\ h = <<w, "current">> /\ Below = h /\ cpu.mode = "EL1"
        /\ cpu.sp["EL1"].n = 16 /\ cpu.sp["EL3"].n = 1
    BY Situation
  <1>2. Active /\ w \in World /\ cpu \in Cpu /\ cpu.sp["EL3"].of = <<MON, "EL3">>
    BY DEF FrameInv, Cpu
  <1>3. /\ UserStack(w, cpu.sp["EL0"], cpu.stk) /\ cpu.sp["EL1"].of = s1
        /\ LowerFrame(cpu.stk[s1], <<w, "main">>, "EL0", "ret", svc)
        /\ CurrentFrame(cpu.stk[s1], svc, h) /\ Len(MonStack) >= 1
        /\ cpu.spsr["EL1"] = Psr("EL1")
    <2>1. /\ UserStack(w, cpu.sp["EL0"], cpu.stk) /\ cpu.sp["EL1"].of = s1
          /\ KernelStack(cpu.stk[s1], 16, w, h) /\ MonitorFrames(MonStack, 1, h, h)
          /\ cpu.spsr["EL1"] = Psr("EL1")
      BY <1>1, <1>2 DEF Active
    <2>2. LowerFrame(cpu.stk[s1], <<w, "main">>, "EL0", "ret", svc)
          /\ CurrentFrame(cpu.stk[s1], svc, h)
      BY <1>1, <2>1 DEF KernelStack
    <2>3. Len(MonStack) >= 1
      BY <1>1, <1>2, <2>1 DEF MonitorFrames
    <2> QED BY <2>1, <2>2, <2>3
  <1>4. svc \in Activity /\ h \in Activity /\ addr \in Word /\ "EL1" \in Modes
    BY <1>1, <1>2 DEF Activity, Name, Tag, Word, Modes
  <1>5. Elr(cpu) = <<svc, "at">> /\ Unwinds(e, cpu, 9, svc, addr, "EL1")
    <2> HIDE DEF svc, addr
    <2> QED BY <1>1, <1>2, <1>3, <1>4, CurrentReturn
  <1>6. cpu' = ERet(e)
    BY <1>5
  <1> HIDE DEF e
  <1>7. Back(cpu', cpu, 9, svc, addr, "EL1")
    BY <1>1, <1>4, <1>5, <1>6, ReturnsTo
  <1>8. /\ cpu' \in Cpu /\ cpu'.mode = "EL1" /\ cpu'.pc = <<svc, place>> /\ cpu'.ns = w
        /\ cpu'.stk = cpu.stk /\ cpu'.gpr["keep"] = Own(svc) /\ cpu'.gpr["lr"] = Own(svc)
        /\ cpu'.sp["EL1"].of = s1 /\ cpu'.sp["EL1"].n = 9
        /\ cpu'.sp["EL0"] = cpu.sp["EL0"] /\ cpu'.sp["EL3"] = cpu.sp["EL3"]
    BY <1>1, <1>3, <1>7 DEF Back, Modes
  <1>9. KernelStack(cpu'.stk[s1], cpu'.sp["EL1"].n, w, svc)
    BY <1>3, <1>8 DEF KernelStack
  <1>10. MonitorFrames(cpu'.stk[<<MON, "EL3">>], cpu'.sp["EL3"].n, svc, svc)
    BY <1>1, <1>3, <1>8 DEF MonitorFrames, MonStack
  <1>11. UserStack(w, cpu'.sp["EL0"], cpu'.stk)
    BY <1>3, <1>8
  <1>12. cpu'.mode = ModeOf(svc) /\ svc[1] = w /\ svc[2] = "svc" /\ w # MON /\ place # "ret"
    BY <1>2, <1>8 DEF ModeOf
  <1>13. Resumed(cpu', w, svc, svc, place)
    <2> HIDE DEF svc, w
    <2> QED BY <1>8, <1>9, <1>10, <1>11, <1>12 DEF Resumed
  <1>14. Active' /\ Place' # "entry"
    BY <1>13, CallerActive
  <1>15. FrameInv'
    BY <1>2, <1>8, <1>14, SameWorld
  <1> QED BY <1>5, <1>15

\* The return to an SMC handler that trapped.
LEMMA LeavesMonitorAgain ==
    ASSUME Arch = "aarch64", FrameInv, Place # "entry", Running[1] = MON, NEW place,
           Running[2] = "current", place \in {"at", "next"},
           cpu' = ERet(CurrentExit(ReturnC(cpu, <<Elr(cpu)[1], place>>))),
           buf' = buf, switches' = switches
    PROVE  FrameInv'
  <1> DEFINE w == cpu.ns
             svc == <<w, "svc">>
             smc == <<MON, "smc">>
             h == Running
             m3 == <<MON, "EL3">>
             addr == <<smc, place>>
             e == CurrentExit(ReturnC(cpu, addr))
  <1>1. /\ h = <<MON, "current">> /\ Below = svc /\ cpu.mode = "EL3"
        /\ cpu.sp["EL3"].n = 16
    <2>1. w \in World
      BY DEF FrameInv, Cpu
    <2> QED BY <2>1, Situation
  <1>2. Active /\ w \in World /\ cpu \in Cpu /\ cpu.sp["EL3"].of = m3
    BY DEF FrameInv, Cpu
  <1>3. /\ UserStack(w, cpu.sp["EL0"], cpu.stk) /\ cpu.sp["EL1"].of = <<w, "EL1">>
        /\ KernelStack(cpu.stk[<<w, "EL1">>], cpu.sp["EL1"].n, w, svc)
        /\ LowerFrame(cpu.stk[m3], svc, "EL1", "ret", smc)
        /\ CurrentFrame(cpu.stk[m3], smc, h) /\ cpu.spsr["EL3"] = Psr("EL3")
    <2>1. /\ UserStack(w, cpu.sp["EL0"], cpu.stk) /\ cpu.sp["EL1"].of = <<w, "EL1">>
          /\ KernelStack(cpu.stk[<<w, "EL1">>], cpu.sp["EL1"].n, w, svc)
          /\ MonitorFrames(cpu.stk[m3], 16, svc, h) /\ cpu.spsr["EL3"] = Psr("EL3")
      BY <1>1, <1>2 DEF Active, MonStack
    <2>2. /\ LowerFrame(cpu.stk[m3], svc, "EL1", "ret", smc)
          /\ CurrentFrame(cpu.stk[m3], smc, h)
      <3> HIDE DEF svc
      <3> QED BY <1>1, <2>1 DEF MonitorFrames
    <2> QED BY <2>1, <2>2
  <1>4. smc \in Activity /\ h \in Activity /\ addr \in Word /\ "EL3" \in Modes
    BY <1>1 DEF Activity, Name, Tag, Word, Modes
  <1>5. Elr(cpu) = <<smc, "at">> /\ Unwinds(e, cpu, 9, smc, addr, "EL3")
    <2> HIDE DEF smc, addr
    <2> QED BY <1>1, <1>2, <1>3, <1>4, CurrentReturn
  <1>6. cpu' = ERet(e)
    BY <1>5
  <1> HIDE DEF e
  <1>7. Back(cpu', cpu, 9, smc, addr, "EL3")
    BY <1>1, <1>4, <1>5, <1>6, ReturnsTo
  <1>8. /\ cpu' \in Cpu /\ cpu'.mode = "EL3" /\ cpu'.pc = <<smc, place>> /\ cpu'.ns = w
        /\ cpu'.stk = cpu.stk /\ cpu'.gpr["keep"] = Own(smc) /\ cpu'.gpr["lr"] = Own(smc)
        /\ cpu'.sp["EL3"].of = m3 /\ cpu'.sp["EL3"].n = 9
        /\ cpu'.sp["EL0"] = cpu.sp["EL0"] /\ cpu'.sp["EL1"] = cpu.sp["EL1"]
    BY <1>1, <1>2, <1>7 DEF Back, Modes
  <1>9. KernelStack(cpu'.stk[<<w, "EL1">>], cpu'.sp["EL1"].n, w, svc)
    BY <1>3, <1>8
  <1>10. MonitorFrames(cpu'.stk[m3], cpu'.sp["EL3"].n, svc, smc)
    BY <1>3, <1>8 DEF MonitorFrames
  <1>11. UserStack(w, cpu'.sp["EL0"], cpu'.stk)
    BY <1>3, <1>8
  <1>12. /\ cpu'.mode = ModeOf(smc) /\ svc[1] = w /\ smc[1] = MON /\ smc[2] = "smc"
         /\ place # "ret"
    BY <1>8 DEF ModeOf
  <1>13. cpu'.stk[m3][8][1] = svc
    <2>1. cpu'.stk[m3][8] = <<svc, "ret">>
      BY <1>3, <1>8 DEF LowerFrame
    <2> QED BY <2>1
  <1>14. Resumed(cpu', w, svc, smc, place)
    <2> HIDE DEF svc, w, smc
    <2> QED BY <1>3, <1>8, <1>9, <1>10, <1>11, <1>12, <1>13 DEF Resumed
  <1>15. Active' /\ Place' # "entry"
    BY <1>14, CallerActive
  <1>16. FrameInv'
    BY <1>2, <1>8, <1>15, SameWorld
  <1> QED BY <1>5, <1>16

----------------------------------------------------------------------------
\* el1_init and el1_start leave EL0's main to run, on stacks of its own.
LEMMA BootKeeps ==
    ASSUME Arch = "aarch64", FrameInv, El1Boot
    PROVE  FrameInv'
  <1> DEFINE w == cpu.ns
             main == <<w, "main">>
             s0 == <<w, "EL0">>
             s1 == <<w, "EL1">>
             m3 == <<MON, "EL3">>
             p0 == [of |-> s0, n |-> 1]
             p1 == [of |-> s1, n |-> 1]
             t0 == <<Own(main)>>
             t1 == <<Own(<<w, "boot">>)>>
             sp == [[cpu.sp EXCEPT !["EL1"] = p1] EXCEPT !["EL0"] = p0]
             stk == [[cpu.stk EXCEPT ![s1] = t1] EXCEPT ![s0] = t0]
             elr == [cpu.elr EXCEPT !["EL1"] = <<main, "body">>]
             spsr == [cpu.spsr EXCEPT !["EL1"] = Psr("EL0")]
             gpr == [g \in Gpr |-> Own(main)]
  <1>1. Starting /\ w \in World /\ cpu \in Cpu /\ cpu.sp["EL3"].of = m3
    BY DEF FrameInv, El1Boot, Cpu
  <1>2. Running[1] = w /\ buf' = buf /\ switches' = switches
    BY <1>1 DEF Starting, El1Boot
  <1>3. cpu' = [cpu EXCEPT !.sp = sp, !.stk = stk, !.elr = elr, !.spsr = spsr, !.gpr = gpr,
                           !.mode = "EL0", !.pc = <<main, "body">>]
    <2>1. cpu' = [cpu EXCEPT !.sp["EL1"] = p1, !.sp["EL0"] = p0, !.stk[s1] = t1,
                             !.stk[s0] = t0, !.elr["EL1"] = <<main, "body">>,
                             !.spsr["EL1"] = Psr("EL0"), !.gpr = gpr, !.mode = "EL0",
                             !.pc = <<main, "body">>]
      BY <1>2 DEF El1Boot
    <2> HIDE DEF p0, p1, t0, t1, s0, s1, gpr, main
    <2> QED BY <1>1, <2>1 DEF Cpu
  <1>4. /\ main \in Activity /\ <<w, "boot">> \in Activity /\ <<main, "body">> \in Word
        /\ Own(main) \in Word /\ Own(<<w, "boot">>) \in Word /\ Psr("EL0") \in Word
        /\ s0 \in Stack /\ s1 \in Stack /\ m3 \in Stack
        /\ s0 # s1 /\ m3 # s0 /\ m3 # s1
    <2>1. main \in Activity /\ <<w, "boot">> \in Activity
      BY <1>1 DEF Activity, Name
    <2>2. /\ s0 \in Stack /\ s1 \in Stack /\ m3 \in Stack
          /\ s0 # s1 /\ m3 # s0 /\ m3 # s1
      BY <1>1 DEF Stack
    <2>3. "body" \in Tag /\ "EL0" \in Modes
      BY DEF Tag, Modes
    <2> HIDE DEF main, s0, s1, m3
    <2> QED BY <2>1, <2>2, <2>3, Words
  <1>5. p0 \in Pointer /\ p1 \in Pointer /\ t0 \in Seq(Word) /\ t1 \in Seq(Word)
        /\ p1.of = s1 /\ p1.n = 1 /\ Len(t0) = 1 /\ t0[1] = Own(main) /\ Len(t1) = 1
    BY <1>4 DEF Pointer
  <1> HIDE DEF p0, p1, t0, t1
  <1>6. /\ sp \in [Modes -> Pointer] /\ sp["EL0"] = p0 /\ sp["EL1"] = p1
        /\ sp["EL3"] = cpu.sp["EL3"]
    BY <1>1, <1>5 DEF Cpu, Modes
  <1>7. /\ stk \in [Stack -> Seq(Word)] /\ stk[s0] = t0 /\ stk[s1] = t1
        /\ \A s \in Stack : s # s0 /\ s # s1 => stk[s] = cpu.stk[s]
    <2> HIDE DEF s0, s1
    <2> QED BY <1>1, <1>4, <1>5 DEF Cpu
  <1>8. elr \in [{"EL1", "EL3"} -> Word] /\ spsr \in [{"EL1", "EL3"} -> Word]
    BY <1>1, <1>4 DEF Cpu
  <1>9. gpr \in [Gpr -> Word] /\ gpr["keep"] = Own(main) /\ gpr["lr"] = Own(main)
    BY <1>4, GprFacts
  <1> HIDE DEF sp, stk, elr, spsr, gpr
  <1>10. /\ cpu' \in Cpu /\ cpu'.sp = sp /\ cpu'.stk = stk /\ cpu'.gpr = gpr /\ cpu'.ns = w
         /\ cpu'.mode = "EL0" /\ cpu'.pc = <<main, "body">>
    BY <1>1, <1>3, <1>4, <1>6, <1>7, <1>8, <1>9 DEF Cpu, Modes
  <1>11. UserStack(w, cpu'.sp["EL0"], cpu'.stk)
    BY <1>5, <1>6, <1>7, <1>10 DEF UserStack, p0
  <1>12. KernelStack(cpu'.stk[s1], cpu'.sp["EL1"].n, w, main)
    <2>1. cpu'.stk[s1] = t1 /\ cpu'.sp["EL1"] = p1
      BY <1>6, <1>7, <1>10
    <2>2. Len(t1) >= 1
      BY <1>5
    <2> QED BY <1>5, <2>1, <2>2 DEF KernelStack
  <1>13. MonitorFrames(cpu'.stk[m3], cpu'.sp["EL3"].n, main, main)
    <2>1. cpu.sp["EL3"].n = 1 /\ Len(cpu.stk[m3]) >= 1
      BY <1>1 DEF Starting, MonStack
    <2>2. cpu'.stk[m3] = cpu.stk[m3]
      BY <1>4, <1>7, <1>10
    <2> QED BY <1>6, <1>10, <2>1, <2>2 DEF MonitorFrames
  <1>14. cpu'.mode = ModeOf(main) /\ main[1] = w /\ main[2] = "main" /\ w # MON
    BY <1>1, <1>10 DEF ModeOf
  <1>15. Entered(cpu', w, main, main)
    BY <1>5, <1>6, <1>9, <1>10, <1>11, <1>12, <1>13, <1>14 DEF Entered
  <1>16. Active' /\ Place' # "entry"
    BY <1>15, HandlerActive
  <1>17. \A s \in Stack : s[1] = 1 - w => cpu'.stk[s] = cpu.stk[s]
    BY <1>1, <1>7, <1>10
  <1> QED BY <1>1, <1>2, <1>6, <1>10, <1>16, <1>17, SameWorld

\* r is c with the saved state b in the banked registers and x4 to x30.
Restores(r, c, b) ==
    /\ r \in Cpu /\ r.mode = c.mode /\ r.ns = c.ns /\ r.stk = c.stk
    /\ r.elr["EL3"] = b.elr3 /\ r.spsr["EL3"] = b.spsr3
    /\ r.sp["EL3"] = c.sp["EL3"] /\ r.sp["EL1"] = b.sp1 /\ r.sp["EL0"] = b.sp0
    /\ r.gpr["x4"] = b.x4 /\ r.gpr["keep"] = b.keep /\ r.gpr["lr"] = b.lr

\* monitor_switch loads what the buffer of the other world holds.
LEMMA RestoreFacts ==
    ASSUME Arch = "aarch64", NEW c \in Cpu, NEW b \in Buffer
    PROVE  Restores(MONITOR_RESTORE_STATE(c, b), c, b)
  <1> DEFINE elr == [c.elr EXCEPT !["EL3"] = b.elr3, !["EL1"] = b.elr1]
             spsr == [c.spsr EXCEPT !["EL3"] = b.spsr3, !["EL1"] = b.spsr1]
             sp == [c.sp EXCEPT !["EL1"] = b.sp1, !["EL0"] = b.sp0]
             gpr == [c.gpr EXCEPT !["x4"] = b.x4, !["tmp"] = b.tmp, !["keep"] = b.keep,
                                  !["lr"] = b.lr]
             r == MONITOR_RESTORE_STATE(c, b)
  <1>1. r = [c EXCEPT !.elr = elr, !.spsr = spsr, !.sp = sp, !.gpr = gpr]
    BY DEF MONITOR_RESTORE_STATE, Cpu
  <1>2. elr \in [{"EL1", "EL3"} -> Word] /\ elr["EL3"] = b.elr3
    BY DEF Cpu, Buffer
  <1>3. spsr \in [{"EL1", "EL3"} -> Word] /\ spsr["EL3"] = b.spsr3
    BY DEF Cpu, Buffer
  <1>4. /\ sp \in [Modes -> Pointer] /\ sp["EL3"] = c.sp["EL3"] /\ sp["EL1"] = b.sp1
        /\ sp["EL0"] = b.sp0
    BY DEF Cpu, Buffer, Modes
  <1>5. /\ gpr \in [Gpr -> Word] /\ gpr["x4"] = b.x4 /\ gpr["keep"] = b.keep
        /\ gpr["lr"] = b.lr
    BY GprFacts DEF Cpu, Buffer
  <1> HIDE DEF elr, spsr, sp, gpr, r
  <1>6. /\ r \in Cpu /\ r.mode = c.mode /\ r.ns = c.ns /\ r.stk = c.stk
        /\ r.elr = elr /\ r.spsr = spsr /\ r.sp = sp /\ r.gpr = gpr
    BY <1>1, <1>2, <1>3, <1>4, <1>5 DEF Cpu, Modes
  <1> QED BY <1>2, <1>3, <1>4, <1>5, <1>6 DEF Restores, r

\* The processor in the other world v, as the switch from the SMC handler leaves it.
Switched(e, c, v, b) ==
    /\ e \in Cpu /\ e.mode = "EL1" /\ e.pc = b.elr3 /\ e.ns = v
    /\ e.sp["EL3"].of = <<MON, "EL3">> /\ e.sp["EL3"].n = 1
    /\ e.sp["EL1"] = b.sp1 /\ e.sp["EL0"] = b.sp0
    /\ e.gpr["x0"] = Result(<<MON, "smc">>)
    /\ e.gpr["x4"] = b.x4 /\ e.gpr["keep"] = b.keep /\ e.gpr["lr"] = b.lr
    /\ Len(e.stk[<<MON, "EL3">>]) >= 1
    /\ \A s \in Stack : s # <<MON, "EL3">> => e.stk[s] = c.stk[s]

\* x0 to x3 travel through the monitor's stack, which is then where it was; all
\* else comes from the buffer.
LEMMA SwitchFacts ==
    ASSUME Arch = "aarch64", NEW c \in Cpu, NEW v \in World, NEW b \in Buffer,
           c.mode = "EL3", c.sp["EL3"].of = <<MON, "EL3">>, c.sp["EL3"].n = 1,
           Len(c.stk[<<MON, "EL3">>]) >= 1, c.gpr["x0"] = Result(<<MON, "smc">>),
           b.spsr3 = Psr("EL1")
    PROVE  LET d == Push(c, <<c.gpr["x0"], c.gpr["x1"], c.gpr["x2"]>>)
               r == MONITOR_RESTORE_STATE(d, b)
           IN  /\ Switched(ERet([Pop(r, 3) EXCEPT !.ns = v, !.gpr["x0"] = Top(r, 3),
                                    !.gpr["x1"] = Top(r, 2), !.gpr["x2"] = Top(r, 1)]),
                           c, v, b)
               /\ d \in Cpu /\ d.ns = c.ns /\ d.elr = c.elr /\ d.spsr = c.spsr
               /\ d.gpr = c.gpr /\ d.sp["EL1"] = c.sp["EL1"] /\ d.sp["EL0"] = c.sp["EL0"]
  <1> DEFINE m3 == <<MON, "EL3">>
             words == <<c.gpr["x0"], c.gpr["x1"], c.gpr["x2"]>>
             d == Push(c, words)
             r == MONITOR_RESTORE_STATE(d, b)
             p == Pop(r, 3)
             q == [p EXCEPT !.ns = v, !.gpr["x0"] = Top(r, 3), !.gpr["x1"] = Top(r, 2),
                            !.gpr["x2"] = Top(r, 1)]
  <1>1. words \in Seq(Word) /\ Len(words) = 3 /\ words[1] = Result(<<MON, "smc">>)
    BY GprFacts DEF Cpu
  <1> HIDE DEF words
  <1>2. Pushes(d, c, 1, words, 3)
    BY <1>1, PushFacts
  <1> HIDE DEF d
  <1>3. /\ d \in Cpu /\ d.mode = "EL3" /\ d.ns = c.ns /\ d.elr = c.elr /\ d.spsr = c.spsr
        /\ d.gpr = c.gpr /\ d.sp["EL3"].of = m3 /\ d.sp["EL3"].n = 4
        /\ d.sp["EL1"] = c.sp["EL1"] /\ d.sp["EL0"] = c.sp["EL0"]
        /\ \A s \in Stack : s # m3 => d.stk[s] = c.stk[s]
        /\ Len(d.stk[m3]) = 4
    BY <1>2 DEF Pushes, Modes
  <1>4. d.stk[m3][2] = words[1]
    <2>1. \A i \in 1..3 : d.stk[m3][1 + i] = words[i]
      BY <1>2 DEF Pushes
    <2>2. d.stk[m3][1 + 1] = words[1]
      BY <2>1
    <2> QED BY <2>2
  <1>5. Restores(r, d, b)
    BY <1>3, RestoreFacts
  <1> HIDE DEF r
  <1>6. /\ r \in Cpu /\ r.mode = "EL3" /\ r.stk = d.stk /\ r.elr["EL3"] = b.elr3
        /\ r.spsr["EL3"] = Psr("EL1") /\ r.sp["EL3"] = d.sp["EL3"] /\ r.sp["EL1"] = b.sp1
        /\ r.sp["EL0"] = b.sp0 /\ r.gpr["x4"] = b.x4 /\ r.gpr["keep"] = b.keep
        /\ r.gpr["lr"] = b.lr
    BY <1>3, <1>5 DEF Restores
  <1>7. Top(r, 1) \in Word /\ Top(r, 2) \in Word /\ Top(r, 3) = Result(<<MON, "smc">>)
    <2>1. r.stk[m3] \in Seq(Word) /\ Len(r.stk[m3]) = 4
      BY <1>3, <1>6 DEF Cpu, Stack
    <2>2. Top(r, 1) = r.stk[m3][4] /\ Top(r, 2) = r.stk[m3][3] /\ Top(r, 3) = r.stk[m3][2]
      BY <1>3, <1>6 DEF Top
    <2> QED BY <1>1, <1>4, <1>6, <2>1, <2>2
  <1>8. Pops(p, r, 1)
    <2>1. r.sp[r.mode].n = 1 + 3
      BY <1>3, <1>6
    <2> QED BY <1>6, <2>1, PopFacts
  <1> HIDE DEF p
  <1>9. /\ p \in Cpu /\ p.mode = "EL3" /\ p.elr = r.elr /\ p.spsr = r.spsr /\ p.stk = r.stk
        /\ p.gpr = r.gpr /\ p.sp["EL3"].of = m3 /\ p.sp["EL3"].n = 1
        /\ p.sp["EL1"] = b.sp1 /\ p.sp["EL0"] = b.sp0
    BY <1>3, <1>6, <1>8 DEF Pops, Modes
  <1> DEFINE x0 == Top(r, 3)
             x1 == Top(r, 2)
             x2 == Top(r, 1)
             g == [[[p.gpr EXCEPT !["x0"] = x0] EXCEPT !["x1"] = x1] EXCEPT !["x2"] = x2]
  <1>10. /\ x0 \in Word /\ x1 \in Word /\ x2 \in Word /\ x0 = Result(<<MON, "smc">>)
    BY <1>7, Words DEF Activity, Name
  <1>11. q = [p EXCEPT !.ns = v, !.gpr["x0"] = x0, !.gpr["x1"] = x1, !.gpr["x2"] = x2]
    OBVIOUS
  <1> HIDE DEF x0, x1, x2, q
  <1>12. q = [p EXCEPT !.ns = v, !.gpr = g]
    BY <1>9, <1>11 DEF Cpu
  <1>13. /\ g \in [Gpr -> Word] /\ g["x0"] = x0 /\ g["x4"] = p.gpr["x4"]
         /\ g["keep"] = p.gpr["keep"] /\ g["lr"] = p.gpr["lr"]
    BY <1>9, <1>10, GprFacts DEF Cpu
  <1> HIDE DEF g
  <1>14. /\ q \in Cpu /\ q.mode = "EL3" /\ q.ns = v /\ q.elr = p.elr /\ q.spsr = p.spsr
         /\ q.stk = p.stk /\ q.sp = p.sp /\ q.gpr = g
    BY <1>9, <1>12, <1>13 DEF Cpu
  <1>15. Resumes(ERet(q), q, b.elr3, "EL1")
    <2>1. q.elr[q.mode] = b.elr3 /\ q.spsr[q.mode] = Psr("EL1") /\ "EL1" \in Modes
          /\ q.mode \in {"EL1", "EL3"}
      BY <1>6, <1>9, <1>14 DEF Modes
    <2>2. Resumes(ERet(q), q, q.elr[q.mode], "EL1")
      BY <1>14, <2>1, ERetFacts
    <2> QED BY <2>1, <2>2
  <1>16. Switched(ERet(q), c, v, b)
    <2> DEFINE e == ERet(q)
    <2>1. /\ e \in Cpu /\ e.mode = "EL1" /\ e.pc = b.elr3 /\ e.ns = v
          /\ e.stk = d.stk /\ e.sp = p.sp /\ e.gpr = g
      BY <1>6, <1>9, <1>14, <1>15 DEF Resumes
    <2> HIDE DEF e
    <2>2. /\ e.gpr["x0"] = Result(<<MON, "smc">>) /\ e.gpr["x4"] = b.x4
          /\ e.gpr["keep"] = b.keep /\ e.gpr["lr"] = b.lr
      BY <1>6, <1>9, <1>10, <1>13, <2>1
    <2>3. /\ Len(e.stk[m3]) >= 1
          /\ \A s \in Stack : s # m3 => e.stk[s] = c.stk[s]
      <3>1. Len(e.stk[m3]) = 4
        BY <1>3, <2>1
      <3>2. \A s \in Stack : s # m3 => e.stk[s] = c.stk[s]
        <4> HIDE DEF m3
        <4> QED BY <1>3, <2>1
      <3> QED BY <3>1, <3>2
    <2>4. Switched(e, c, v, b)
      BY <1>9, <2>1, <2>2, <2>3 DEF Switched
    <2> QED BY <2>4 DEF e
  <1> QED BY <1>3, <1>16 DEF q, p, r, d, words

\* monitor_switch parks the world that made the SMC and resumes the other one, in its
\* own SMC or at its start.
LEMMA SwitchKeeps ==
    ASSUME Arch = "aarch64", FrameInv, SmcSwitch
    PROVE  FrameInv'
  <1> DEFINE w == cpu.ns
             v == 1 - w
             svc == <<w, "svc">>
             smc == <<MON, "smc">>
             m3 == <<MON, "EL3">>
             addr == <<svc, "ret">>
             c == CallExit(ReturnC(cpu, Elr(cpu)))
             d == Push(c, <<c.gpr["x0"], c.gpr["x1"], c.gpr["x2"]>>)
             r == MONITOR_RESTORE_STATE(d, buf[v])
             save == MONITOR_SAVE_STATE(d)
  <1>1. Place # "entry" /\ Running[2] = "smc"
    BY DEF SmcSwitch, At
  <1>2. w \in World /\ v \in World /\ v # w /\ 1 - v = w /\ cpu \in Cpu
    BY DEF FrameInv, Cpu
  <1>3. /\ Running = smc /\ Below = svc /\ cpu.mode = "EL3" /\ cpu.sp["EL3"].n = 9
        /\ cpu.sp["EL1"].n = 9
    BY <1>1, <1>2, Situation
  <1>4. Active /\ cpu.sp["EL3"].of = m3 /\ buf[v] \in Buffer /\ buf \in [World -> Buffer]
        /\ Parked(buf[v], v, cpu.stk) /\ switches \in Nat
    BY <1>1, <1>2 DEF FrameInv
  <1>5. /\ UserStack(w, cpu.sp["EL0"], cpu.stk) /\ cpu.sp["EL1"].of = <<w, "EL1">>
        /\ KernelStack(cpu.stk[<<w, "EL1">>], cpu.sp["EL1"].n, w, svc)
        /\ LowerFrame(cpu.stk[m3], svc, "EL1", "ret", smc)
    <2>1. /\ UserStack(w, cpu.sp["EL0"], cpu.stk) /\ cpu.sp["EL1"].of = <<w, "EL1">>
          /\ KernelStack(cpu.stk[<<w, "EL1">>], cpu.sp["EL1"].n, w, svc)
          /\ MonitorFrames(cpu.stk[m3], 9, svc, smc)
      BY <1>3, <1>4 DEF Active, MonStack
    <2>2. LowerFrame(cpu.stk[m3], svc, "EL1", "ret", smc)
      <3> HIDE DEF svc
      <3> QED BY <2>1 DEF MonitorFrames
    <2> QED BY <2>1, <2>2
  <1>6. svc \in Activity /\ smc \in Activity /\ addr \in Word /\ "EL1" \in Modes
        /\ "ret" \in Tag
    BY <1>2 DEF Activity, Name, Tag, Word, Modes
  <1>7. Elr(cpu) = addr /\ Unwinds(c, cpu, 1, svc, addr, "EL1") /\ c.gpr["x0"] = Result(smc)
    <2>1. Elr(cpu) = addr /\ Unwinds(CallExit(ReturnC(cpu, addr)), cpu, 1, svc, addr, "EL1")
          /\ CallExit(ReturnC(cpu, addr)).gpr["x0"] = Result(cpu.pc[1])
      <3> HIDE DEF svc, smc
      <3> QED BY <1>2, <1>3, <1>4, <1>5, <1>6, LowerReturn
    <2> QED BY <1>3, <2>1 DEF Running
  <1> HIDE DEF c
  <1>8. /\ c \in Cpu /\ c.mode = "EL3" /\ c.ns = w /\ c.stk = cpu.stk
        /\ c.elr["EL3"] = addr /\ c.spsr["EL3"] = Psr("EL1")
        /\ c.gpr["keep"] = Own(svc) /\ c.gpr["lr"] = Own(svc)
        /\ c.sp["EL3"].of = m3 /\ c.sp["EL3"].n = 1
        /\ c.sp["EL1"] = cpu.sp["EL1"] /\ c.sp["EL0"] = cpu.sp["EL0"]
    BY <1>3, <1>4, <1>7 DEF Unwinds, Modes
  <1>9. /\ buf[v].spsr3 = Psr("EL1") /\ Len(c.stk[m3]) >= 1
    <2>1. cpu.stk[m3] \in Seq(Word) /\ Len(cpu.stk[m3]) >= 9
      BY <1>2, <1>5 DEF Cpu, Stack, LowerFrame
    <2>2. buf[v].spsr3 = Psr("EL1")
      <3> HIDE DEF v
      <3> QED BY <1>4 DEF Parked, Fresh, Suspended
    <2> QED BY <1>8, <2>1, <2>2
  <1> DEFINE e == ERet([Pop(r, 3) EXCEPT !.ns = v, !.gpr["x0"] = Top(r, 3),
                                         !.gpr["x1"] = Top(r, 2), !.gpr["x2"] = Top(r, 1)])
  <1>10. /\ Switched(e, c, v, buf[v])
         /\ d \in Cpu /\ d.ns = w /\ d.elr = c.elr /\ d.spsr = c.spsr /\ d.gpr = c.gpr
         /\ d.sp["EL1"] = c.sp["EL1"] /\ d.sp["EL0"] = c.sp["EL0"]
    <2> HIDE DEF v, w
    <2> QED BY <1>2, <1>4, <1>7, <1>8, <1>9, SwitchFacts
  <1>11. cpu' = e /\ buf' = [buf EXCEPT ![w] = save] /\ switches' = switches + 1
    BY <1>10 DEF SmcSwitch, c
  <1> HIDE DEF d, e
  <1>12. save \in Buffer /\ Suspended(save, w, cpu.stk)
    <2>1. save \in Buffer
      BY <1>10, GprFacts DEF Cpu, Buffer, Modes, MONITOR_SAVE_STATE
    <2>2. /\ save.elr3 = <<svc, "ret">> /\ save.spsr3 = Psr("EL1") /\ save.keep = Own(svc)
          /\ save.lr = Own(svc) /\ save.sp1 = cpu.sp["EL1"] /\ save.sp0 = cpu.sp["EL0"]
      BY <1>8, <1>10 DEF MONITOR_SAVE_STATE
    <2> HIDE DEF save
    <2> QED BY <1>5, <2>1, <2>2 DEF Suspended
  <1> HIDE DEF save, v
  <1>13. /\ cpu' \in Cpu /\ cpu'.mode = "EL1" /\ cpu'.pc = buf[v].elr3 /\ cpu'.ns = v
         /\ cpu'.sp["EL3"].of = m3 /\ cpu'.sp["EL3"].n = 1 /\ cpu'.sp["EL1"] = buf[v].sp1
         /\ cpu'.sp["EL0"] = buf[v].sp0 /\ cpu'.gpr["x0"] = Result(smc)
         /\ cpu'.gpr["x4"] = buf[v].x4 /\ cpu'.gpr["keep"] = buf[v].keep
         /\ cpu'.gpr["lr"] = buf[v].lr /\ Len(cpu'.stk[m3]) >= 1
         /\ \A s \in Stack : s # m3 => cpu'.stk[s] = cpu.stk[s]
    BY <1>8, <1>10, <1>11 DEF Switched
  <1>14. \A s \in Stack : s[1] # MON => cpu'.stk[s] = cpu.stk[s]
    BY <1>13
  <1>15. buf' \in [World -> Buffer] /\ buf'[w] = save /\ switches' \in Nat
    BY <1>2, <1>4, <1>11, <1>12
  <1>16. Parked(buf[1 - cpu.ns], 1 - cpu.ns, cpu.stk)'
    <2>1. Parked(save, w, cpu'.stk)
      <3>1. /\ Parked(save, w, cpu.stk)
            /\ \A s \in Stack : s[1] = w => cpu'.stk[s] = cpu.stk[s]
        BY <1>2, <1>12, <1>14 DEF Parked
      <3> HIDE DEF w
      <3> QED BY <1>2, <3>1, ParkedKept
    <2> QED BY <1>2, <1>13, <1>15, <2>1
  <1>17. CASE Fresh(buf[v], v)
    <2>1. Running' = <<v, "boot">> /\ Place' = "entry"
      BY <1>13, <1>17 DEF Fresh, Entry, Running, Place
    <2>2. Starting'
      BY <1>13, <1>17, <2>1 DEF Fresh, Starting, MonStack
    <2> QED BY <1>13, <1>15, <1>16, <2>1, <2>2 DEF FrameInv
  <1>18. CASE Suspended(buf[v], v, cpu.stk)
    <2> DEFINE a == <<v, "svc">>
               s1 == <<v, "EL1">>
    <2>1. Suspended(buf[v], v, cpu'.stk)
      <3>1. s1 \in Stack /\ <<v, "EL0">> \in Stack /\ s1 # m3 /\ <<v, "EL0">> # m3
        BY <1>2 DEF Stack
      <3>2. cpu'.stk[s1] = cpu.stk[s1] /\ cpu'.stk[<<v, "EL0">>] = cpu.stk[<<v, "EL0">>]
        BY <1>13, <3>1
      <3> QED BY <1>18, <3>2 DEF Suspended, UserStack
    <2>2. /\ cpu'.pc = <<a, "ret">> /\ cpu'.gpr["keep"] = Own(a) /\ cpu'.gpr["lr"] = Own(a)
          /\ UserStack(v, cpu'.sp["EL0"], cpu'.stk) /\ cpu'.sp["EL1"].of = s1
          /\ KernelStack(cpu'.stk[s1], cpu'.sp["EL1"].n, v, a)
      BY <1>13, <2>1 DEF Suspended
    <2>3. MonitorFrames(cpu'.stk[m3], cpu'.sp["EL3"].n, a, a)
      BY <1>13 DEF MonitorFrames
    <2>4. cpu'.mode = ModeOf(a) /\ a[1] = v /\ a[2] = "svc" /\ v # MON
      BY <1>2, <1>13 DEF ModeOf
    <2>5. Resumed(cpu', v, a, a, "ret")
      <3> HIDE DEF a
      <3> QED BY <1>13, <2>2, <2>3, <2>4 DEF Resumed
    <2>6. Active' /\ Place' # "entry"
      BY <2>5, CallerActive
    <2> QED BY <1>13, <1>15, <1>16, <2>6 DEF FrameInv
  <1> QED BY <1>4, <1>17, <1>18 DEF Parked

----------------------------------------------------------------------------
\* The return address in a handler's frame: after the SVC or SMC instruction, or at
\* the instruction that trapped.
LEMMA ReturnAddress ==
    ASSUME Arch = "aarch64", FrameInv, Place # "entry",
           Running[2] \in {"svc", "lower", "current", "smc"}
    PROVE  Elr(cpu) = <<Elr(cpu)[1], IF Running[2] \in {"svc", "smc"} THEN "ret" ELSE "at">>
  <1> DEFINE w == cpu.ns
             s1 == cpu.stk[<<w, "EL1">>]
             s3 == cpu.stk[<<MON, "EL3">>]
             place == IF Running[2] \in {"svc", "smc"} THEN "ret" ELSE "at"
  <1>1. Active /\ w \in World /\ w # MON /\ cpu.sp["EL3"].of = <<MON, "EL3">>
    BY DEF FrameInv, Cpu
  <1>2. /\ cpu.sp["EL1"].of = <<w, "EL1">> /\ KernelStack(s1, cpu.sp["EL1"].n, w, Below)
        /\ MonitorFrames(s3, cpu.sp["EL3"].n, Below, Running)
    BY <1>1 DEF Active, MonStack
  <1>3. \/ cpu.mode = "EL1" /\ cpu.sp["EL1"].n = 9 /\ \E a : s1[8] = <<a, place>>
        \/ cpu.mode = "EL1" /\ cpu.sp["EL1"].n = 16 /\ \E a : s1[15] = <<a, place>>
        \/ cpu.mode = "EL3" /\ cpu.sp["EL3"].n = 9 /\ \E a : s3[8] = <<a, place>>
        \/ cpu.mode = "EL3" /\ cpu.sp["EL3"].n = 16 /\ \E a : s3[15] = <<a, place>>
    <2> HIDE DEF s1, s3
    <2>1. CASE Running[2] = "svc"
      <3>1. Running = <<w, "svc">> /\ Below = Running /\ cpu.mode = "EL1" /\ cpu.sp["EL1"].n = 9
        BY <1>1, <2>1, Situation
      <3>2. s1[8] = <<<<w, "main">>, "ret">>
        BY <1>2, <3>1 DEF KernelStack, LowerFrame
      <3> QED BY <2>1, <3>1, <3>2
    <2>2. CASE Running = <<w, "lower">>
      <3>1. Below = Running /\ cpu.mode = "EL1" /\ cpu.sp["EL1"].n = 9
        BY <1>1, <2>2, Situation
      <3>2. s1[8] = <<<<w, "main">>, "at">>
        BY <1>2, <2>2, <3>1 DEF KernelStack, LowerFrame
      <3> QED BY <2>2, <3>1, <3>2
    <2>3. CASE Running = <<w, "current">>
      <3>1. Below = Running /\ cpu.mode = "EL1" /\ cpu.sp["EL1"].n = 16
        BY <1>1, <2>3, Situation
      <3>2. s1[15] = <<<<w, "svc">>, "at">>
        BY <1>2, <2>3, <3>1 DEF KernelStack, CurrentFrame
      <3> QED BY <2>3, <3>1, <3>2
    <2>4. CASE Running[2] = "smc"
      <3>1. Running = <<MON, "smc">> /\ Below # Running /\ cpu.mode = "EL3" /\ cpu.sp["EL3"].n = 9
        BY <1>1, <2>4, Situation
      <3>2. s3[8] = <<Below, "ret">>
        BY <1>2, <3>1 DEF MonitorFrames, LowerFrame
      <3> QED BY <2>4, <3>1, <3>2
    <2>5. CASE Running = <<MON, "lower">>
      <3>1. Below # Running /\ cpu.mode = "EL3" /\ cpu.sp["EL3"].n = 9
        BY <1>1, <2>5, Situation
      <3>2. s3[8] = <<Below, "at">>
        BY <1>2, <2>5, <3>1 DEF MonitorFrames, LowerFrame
      <3> QED BY <2>5, <3>1, <3>2
    <2>6. CASE Running = <<MON, "current">>
      <3>1. Below # Running /\ cpu.mode = "EL3" /\ cpu.sp["EL3"].n = 16
        BY <1>1, <2>6, Situation
      <3>2. s3[15] = <<<<MON, "smc">>, "at">>
        BY <1>2, <2>6, <3>1 DEF MonitorFrames, CurrentFrame
      <3> QED BY <2>6, <3>1, <3>2
    <2>7. \/ Running[2] \in {"svc", "smc"}
          \/ Running \in {<<w, "lower">>, <<w, "current">>, <<MON, "lower">>, <<MON, "current">>}
      BY Situation
    <2> QED BY <2>1, <2>2, <2>3, <2>4, <2>5, <2>6, <2>7
  <1>4. \E a : Elr(cpu) = <<a, place>>
    <2>1. /\ cpu.mode = "EL1" /\ cpu.sp["EL1"].n = 9 => Elr(cpu) = s1[8]
          /\ cpu.mode = "EL1" /\ cpu.sp["EL1"].n = 16 => Elr(cpu) = s1[15]
          /\ cpu.mode = "EL3" /\ cpu.sp["EL3"].n = 9 => Elr(cpu) = s3[8]
          /\ cpu.mode = "EL3" /\ cpu.sp["EL3"].n = 16 => Elr(cpu) = s3[15]
      <3>1. cpu.mode \in {"EL1", "EL3"} => Elr(cpu) = cpu.stk[cpu.sp[cpu.mode].of]
                                                              [cpu.sp[cpu.mode].n + 1 - 2]
        BY DEF Elr, Top
      <3>2. 9 + 1 - 2 = 8 /\ 16 + 1 - 2 = 15
        OBVIOUS
      <3> QED BY <1>1, <1>2, <3>1, <3>2
    <2> HIDE DEF s1, s3, place
    <2> QED BY <1>3, <2>1
  <1> HIDE DEF place
  <1>5. Elr(cpu) = <<Elr(cpu)[1], place>>
    BY <1>4
  <1> QED BY <1>5 DEF place

\* The SVC and the exceptions EL1 takes, entry and exit, preserve the invariant.
LEMMA El1Keeps ==
    ASSUME Arch = "aarch64", FrameInv,
           Svc \/ SvcReturn \/ El1Exception \/ El1ExceptionReturn
    PROVE  FrameInv'
  <1>1. CASE Svc
    BY <1>1, EntersKernel DEF Svc, At
  <1>2. CASE SvcReturn
    <2>1. Place # "entry" /\ Running[2] = "svc" /\ Running[1] # MON
          /\ Elr(cpu) = <<Elr(cpu)[1], "ret">>
      BY <1>2, ReturnAddress, Situation DEF SvcReturn, At, FrameInv, Cpu
    <2>2. cpu' = ERet(CallExit(ReturnC(cpu, <<Elr(cpu)[1], "ret">>)))
      BY <1>2, <2>1 DEF SvcReturn
    <2> QED BY <1>2, <2>1, <2>2, LeavesKernel DEF SvcReturn
  <1>3. CASE El1Exception
    BY <1>3, EntersKernel, EntersKernelAgain, Situation DEF El1Exception, Trapped, Traps
  <1>4. CASE El1ExceptionReturn
    <2>1. Place # "entry" /\ Running[2] \in {"lower", "current"} /\ Running[1] # MON
          /\ Elr(cpu) = <<Elr(cpu)[1], "at">>
      BY <1>4, ReturnAddress DEF El1ExceptionReturn, At
    <2>2. PICK place \in {"at", "next"} : Advance(Elr(cpu)) = <<Elr(cpu)[1], place>>
      BY <2>1 DEF Advance
    <2>3. CASE Running[2] = "lower"
      BY <1>4, <2>1, <2>2, <2>3, LeavesKernel DEF El1ExceptionReturn
    <2>4. CASE Running[2] = "current"
      BY <1>4, <2>1, <2>2, <2>4, LeavesKernelAgain DEF El1ExceptionReturn
    <2> QED BY <2>1, <2>3, <2>4
  <1> QED BY <1>1, <1>2, <1>3, <1>4

\* The SMC and the exceptions EL3 takes, entry and exit, preserve the invariant.
LEMMA El3Keeps ==
    ASSUME Arch = "aarch64", FrameInv,
           Smc \/ SmcReturn \/ El3Exception \/ El3ExceptionReturn
    PROVE  FrameInv'
  <1>1. CASE Smc
    BY <1>1, EntersMonitor DEF Smc, At
  <1>2. CASE SmcReturn
    <2>1. Place # "entry" /\ Running[2] = "smc" /\ Running[1] = MON
          /\ Elr(cpu) = <<Elr(cpu)[1], "ret">>
      BY <1>2, ReturnAddress, Situation DEF SmcReturn, At
    <2>2. cpu' = ERet(CallExit(ReturnC(cpu, <<Elr(cpu)[1], "ret">>)))
      BY <1>2, <2>1 DEF SmcReturn
    <2> QED BY <1>2, <2>1, <2>2, LeavesMonitor DEF SmcReturn
  <1>3. CASE El3Exception
    BY <1>3, EntersMonitor, EntersMonitorAgain, Situation DEF El3Exception, Trapped, Traps
  <1>4. CASE El3ExceptionReturn
    <2>1. Place # "entry" /\ Running[2] \in {"lower", "current"} /\ Running[1] = MON
          /\ Elr(cpu) = <<Elr(cpu)[1], "at">>
      BY <1>4, ReturnAddress DEF El3ExceptionReturn, At
    <2>2. PICK place \in {"at", "next"} : Advance(Elr(cpu)) = <<Elr(cpu)[1], place>>
      BY <2>1 DEF Advance
    <2>3. CASE Running[2] = "lower"
      BY <1>4, <2>1, <2>2, <2>3, LeavesMonitor DEF El3ExceptionReturn
    <2>4. CASE Running[2] = "current"
      BY <1>4, <2>1, <2>2, <2>4, LeavesMonitorAgain DEF El3ExceptionReturn
    <2> QED BY <2>1, <2>3, <2>4
  <1> QED BY <1>1, <1>2, <1>3, <1>4

----------------------------------------------------------------------------
\* EL3 starts the secure kernel; the nonsecure one waits in its buffer.
LEMMA Start ==
    ASSUME Arch = "aarch64", Init
    PROVE  FrameInv
  <1> DEFINE b == el3_monitor_init(SECURE)
             m3 == <<MON, "EL3">>
             r == MONITOR_RESTORE_STATE(Reset, b)
             p == [of |-> m3, n |-> 1]
  <1>1. NoStack \in Pointer /\ m3 \in Stack /\ p \in Pointer
    BY DEF NoStack, Pointer, Stack
  <1>2. \A w \in World : /\ Entry(w) \in Word /\ Entry(w)[1] = <<w, "boot">>
                         /\ Entry(w)[2] = "entry"
    BY DEF Entry, Word, Activity, Name, Tag
  <1>3. \A w \in World : el3_monitor_init(w) \in Buffer /\ Fresh(el3_monitor_init(w), w)
    BY <1>1, <1>2, Words DEF el3_monitor_init, Buffer, Fresh, Modes
  <1>4. /\ Reset \in Cpu /\ Reset.mode = "EL3" /\ Reset.ns = SECURE
        /\ Reset.sp["EL3"] = p /\ Len(Reset.stk[m3]) >= 1
    <2> DEFINE g == [x \in Gpr |-> Junk]
               j == [m \in {"EL1", "EL3"} |-> Junk]
               sp == [m \in {"EL0", "EL1", "EL3"} |->
                         [of |-> m3, n |-> IF m = "EL3" THEN 1 ELSE 0]]
               stk == [s \in Stack |->
                         IF s[1] = MON THEN <<Own(<<MON, "start">>)>> ELSE <<>>]
               pc == <<<<MON, "start">>, "body">>
    <2>1. g \in [Gpr -> Word] /\ j \in [{"EL1", "EL3"} -> Word]
      BY Words
    <2>2. sp \in [{"EL0", "EL1", "EL3"} -> Pointer] /\ sp["EL3"] = p
      BY <1>1 DEF Pointer
    <2>3. stk \in [Stack -> Seq(Word)] /\ Len(stk[m3]) >= 1
      <3>1. Own(<<MON, "start">>) \in Word
        BY Words DEF Activity, Name
      <3>2. <<Own(<<MON, "start">>)>> \in Seq(Word) /\ <<>> \in Seq(Word)
        BY <3>1
      <3>3. stk[m3] = <<Own(<<MON, "start">>)>>
        BY <1>1
      <3> QED BY <3>2, <3>3
    <2>4. pc \in Word
      BY DEF Word, Activity, Name, Tag
    <2>5. Reset = [mode |-> "EL3", pc |-> pc, ns |-> SECURE, gpr |-> g, elr |-> j,
                   spsr |-> j, sp |-> sp, stk |-> stk]
      BY DEF Reset, Stack
    <2> HIDE DEF g, j, sp, stk, pc
    <2> QED BY <2>1, <2>2, <2>3, <2>4, <2>5 DEF Cpu, Modes
  <1>5. Restores(r, Reset, b)
    BY <1>3, <1>4, RestoreFacts
  <1>6. b \in Buffer /\ Fresh(b, SECURE)
    BY <1>3
  <1> HIDE DEF r, b
  <1>7. Resumes(ERet(r), r, Entry(SECURE), "EL1")
    <2>1. /\ r \in Cpu /\ r.mode = "EL3" /\ r.spsr["EL3"] = Psr("EL1")
          /\ r.elr["EL3"] = Entry(SECURE) /\ "EL1" \in Modes
      BY <1>4, <1>5, <1>6 DEF Restores, Fresh, Modes
    <2>2. r.mode \in {"EL1", "EL3"} /\ r.spsr[r.mode] = Psr("EL1")
      BY <2>1
    <2>3. Resumes(ERet(r), r, r.elr[r.mode], "EL1")
      BY <2>1, <2>2, ERetFacts
    <2> QED BY <2>1, <2>3
  <1>8. cpu = ERet(r)
    BY DEF Init, r, b
  <1>9. /\ cpu \in Cpu /\ cpu.mode = "EL1" /\ cpu.pc = Entry(SECURE) /\ cpu.ns = SECURE
        /\ cpu.sp["EL3"] = p /\ Len(cpu.stk[m3]) >= 1 /\ cpu.gpr["x4"] = Syscntl
    BY <1>4, <1>5, <1>6, <1>7, <1>8 DEF Restores, Resumes, Fresh
  <1>10. Running = <<SECURE, "boot">> /\ Place = "entry"
    BY <1>2, <1>9 DEF Running, Place
  <1>11. Starting
    BY <1>9, <1>10 DEF Starting, MonStack
  <1>12. /\ buf \in [World -> Buffer] /\ switches \in Nat
         /\ Parked(buf[1 - cpu.ns], 1 - cpu.ns, cpu.stk)
    BY <1>3, <1>9 DEF Init, Parked
  <1> QED BY <1>9, <1>10, <1>11, <1>12 DEF FrameInv

\* A stuttering step preserves the invariant.
LEMMA Unchanged ==
    ASSUME FrameInv, UNCHANGED vecvars
    PROVE  FrameInv'
  BY DEF FrameInv, vecvars, Place, Running, Starting, Active, Below, MonStack,
         ResultDelivered

\* The invariant is inductive: every frame and every state buffer of the AArch64
\* vectors holds what its owner is resumed with, whatever MaxSwitches.
THEOREM FramesKept ==
    ASSUME Arch = "aarch64"
    PROVE  Spec => []FrameInv
  <1>1. Init => FrameInv
    BY Start
  <1>2. FrameInv /\ [Next]_vecvars => FrameInv'
    BY BootKeeps, El1Keeps, El3Keeps, SwitchKeeps, Unchanged DEF Next
  <1> QED BY <1>1, <1>2, PTL DEF Spec

\* On AArch64, whatever is resumed, by whatever chain of returns, nested exceptions
\* and world switches, has its own mode, callee-saved registers, link register and
\* stack frame.
THEOREM ContextIsOwn ==
    ASSUME Arch = "aarch64"
    PROVE  Spec => []OwnContext
  <1>1. FrameInv => OwnContext
    <2> SUFFICES ASSUME FrameInv, Place # "entry"
                 PROVE  /\ cpu.mode = ModeOf(Running) /\ Running[1] \in {MON, cpu.ns}
                        /\ KeptOf(Running)
                        /\ cpu.sp[cpu.mode].n > 0 /\ Top(cpu, 1) = Own(Running)
      BY DEF OwnContext
    <2>1. Active /\ cpu.ns \in World /\ cpu.sp["EL3"].of = <<MON, "EL3">>
      BY DEF FrameInv, Cpu
    <2>2. cpu.mode = ModeOf(Running) /\ KeptOf(Running)
      BY <2>1, GprFacts DEF Active, KeptOf
    <2>3. Running[1] \in {MON, cpu.ns}
      BY Situation
    <2>4. cpu.sp[cpu.mode].n > 0 /\ Top(cpu, 1) = Own(Running)
      <3> DEFINE w == cpu.ns
                 s1 == cpu.stk[<<w, "EL1">>]
                 s3 == cpu.stk[<<MON, "EL3">>]
      <3>1. /\ UserStack(w, cpu.sp["EL0"], cpu.stk) /\ cpu.sp["EL1"].of = <<w, "EL1">>
            /\ KernelStack(s1, cpu.sp["EL1"].n, w, Below)
            /\ MonitorFrames(s3, cpu.sp["EL3"].n, Below, Running)
        BY <2>1 DEF Active, MonStack
      <3>2. \/ cpu.mode = "EL0" /\ Running = <<w, "main">>
            \/ cpu.mode = "EL1" /\ cpu.sp["EL1"].n = 9 /\ s1[9] = Own(Running)
            \/ cpu.mode = "EL1" /\ cpu.sp["EL1"].n = 16 /\ s1[16] = Own(Running)
            \/ cpu.mode = "EL3" /\ cpu.sp["EL3"].n = 9 /\ s3[9] = Own(Running)
            \/ cpu.mode = "EL3" /\ cpu.sp["EL3"].n = 16 /\ s3[16] = Own(Running)
        <4> HIDE DEF s1, s3
        <4>1. CASE Running[1] # MON
          BY <2>1, <3>1, <4>1, Situation DEF KernelStack, LowerFrame, CurrentFrame
        <4>2. CASE Running[1] = MON
          BY <2>1, <3>1, <4>2, Situation DEF MonitorFrames, LowerFrame, CurrentFrame
        <4> QED BY <4>1, <4>2
      <3>3. CASE cpu.mode = "EL0"
        <4>1. Running = <<w, "main">>
          BY <3>2, <3>3
        <4>2. cpu.sp["EL0"].n = 1 /\ Top(cpu, 1) = cpu.stk[<<w, "EL0">>][1]
          BY <3>1, <3>3 DEF UserStack, Top
        <4> QED BY <3>1, <3>3, <4>1, <4>2 DEF UserStack
      <3>4. CASE cpu.mode = "EL1"
        BY <3>1, <3>2, <3>4 DEF Top
      <3>5. CASE cpu.mode = "EL3"
        BY <2>1, <3>2, <3>5 DEF Top
      <3> QED BY <3>2, <3>3, <3>4, <3>5
    <2> QED BY <2>2, <2>3, <2>4
  <1> QED BY <1>1, FramesKept, PTL

\* On AArch64 an SVC returns the result of el1_handle_svc(), an SMC that of
\* el3_handle_smc(), across world switches too.
THEOREM ResultIsDelivered ==
    ASSUME Arch = "aarch64"
    PROVE  Spec => []ResultDelivered
  <1>1. FrameInv => ResultDelivered
    BY DEF FrameInv, Active, ResultDelivered
  <1> QED BY <1>1, FramesKept, PTL

\* On AArch64 both kernels start at EL1 with the control block's address in x4, the
\* nonsecure one after any run of the secure world.
THEOREM KernelsGetSyscntl ==
    ASSUME Arch = "aarch64"
    PROVE  Spec => []BootHandover
  <1>1. FrameInv => BootHandover
    BY DEF FrameInv, Cpu, Starting, BootHandover, ModeOf
  <1> QED BY <1>1, FramesKept, PTL

\* On AArch64 the stack of EL3 is back where it was whenever EL3 is left: no vector
\* and no world switch leaks a word of it.
THEOREM MonitorStackIsKept ==
    ASSUME Arch = "aarch64"
    PROVE  Spec => []MonitorStack
  <1>1. FrameInv => MonitorStack
    BY Situation DEF FrameInv, Starting, MonitorStack, ModeOf
  <1> QED BY <1>1, FramesKept, PTL

\* On AArch64 EL0 runs with its kernel's stack where el1_start() left it: no path out
\* of the EL1 vector, and no world switch, leaks a word of it.
THEOREM KernelStacksAreKept ==
    ASSUME Arch = "aarch64"
    PROVE  Spec => []KernelStacks
  <1>1. FrameInv => KernelStacks
    <2> SUFFICES ASSUME FrameInv, Running[2] = "main"
                 PROVE  cpu.sp["EL1"] = [of |-> <<Running[1], "EL1">>, n |-> 1]
      BY DEF KernelStacks, KernelBase
    <2>1. Place # "entry"
      BY DEF FrameInv, Starting
    <2>2. Running = <<cpu.ns, "main">> /\ cpu.sp["EL1"].n = 1
      BY <2>1, Situation
    <2>3. cpu.sp["EL1"].of = <<cpu.ns, "EL1">> /\ cpu.sp["EL1"] \in Pointer
      BY <2>1 DEF FrameInv, Active, Cpu, Modes
    <2> QED BY <2>2, <2>3 DEF Pointer
  <1> QED BY <1>1, FramesKept, PTL
=============================================================================
