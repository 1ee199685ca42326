-------------------------- MODULE VectorsArmProofs ---------------------------
(***************************************************************************)
(* The ARM vectors and monitor_switch give every activity its context      *)
(* back, for any number of world switches, at the price of two words of    *)
(* the monitor's stack for each.                                           *)
(*                                                                         *)
(* As for AArch64, the operations on the processor are first described by  *)
(* predicates on the state before and after; here all three vectors leave  *)
(* a Frame of one form, so one entry and one exit serve them all.          *)
(***************************************************************************)
EXTENDS VectorsArmInvariant, TLAPS

USE DEF SECURE, NONSECURE, World, MON

----------------------------------------------------------------------------
\* The words the vectors and handlers store are words.
LEMMA Words ==
    /\ \A d \in {SECURE, NONSECURE, MON}, t \in Name : <<d, t>> \in Activity
    /\ \A a \in Activity, t \in Tag : <<a, t>> \in Word
    /\ \A a \in Activity : Own(a) \in Word /\ Result(a) \in Word
    /\ \A m \in Modes : Psr(m) \in Word /\ Psr(m)[1][2] = m
    /\ Junk \in Word /\ Syscntl \in Word
  BY DEF Word, Activity, Name, Tag, Modes, Own, Result, Psr, Junk, Syscntl

\* t is the first n words of s and then the k words.
Grows(t, s, n, words, k) ==
    /\ t \in Seq(Word) /\ Len(t) = n + k
    /\ \A i \in 1..n : t[i] = s[i]
    /\ \A i \in 1..k : t[n + i] = words[i]

\* What a stack holds after a push over the words above the stack pointer.
LEMMA Pushed ==
    ASSUME NEW s \in Seq(Word), NEW n \in Nat, n <= Len(s),
           NEW words \in Seq(Word), NEW k \in Nat, k = Len(words)
    PROVE  Grows(SubSeq(s, 1, n) \o words, s, n, words, k)
  BY DEF Grows

\* d is c with k words pushed at n.
Pushes(d, c, n, words, k) ==
    LET s == c.sp[c.mode].of
    IN  /\ d \in Cpu /\ d.mode = c.mode /\ d.pc = c.pc /\ d.ns = c.ns
        /\ d.gpr = c.gpr /\ d.lr = c.lr /\ d.spsr = c.spsr
        /\ d.sp[c.mode].of = s /\ d.sp[c.mode].n = n + k
        /\ \A m \in Modes : m # c.mode => d.sp[m] = c.sp[m]
        /\ \A u \in Stack : u # s => d.stk[u] = c.stk[u]
        /\ Len(d.stk[s]) = n + k
        /\ \A i \in 1..n : d.stk[s][i] = c.stk[s][i]
        /\ \A i \in 1..k : d.stk[s][n + i] = words[i]

\* A push, by a vector or by the prologue of a C function, changes the stack of
\* the current mode alone, and there nothing below the stack pointer.
LEMMA PushFacts ==
    ASSUME NEW c \in Cpu, NEW words \in Seq(Word), NEW n \in Nat, NEW k \in Nat,
           c.sp[c.mode].n = n, Len(words) = k, n <= Len(c.stk[c.sp[c.mode].of])
    PROVE  Pushes(Push(c, words), c, n, words, k)
  <1> DEFINE p == c.sp[c.mode]
             s == p.of
             t == SubSeq(c.stk[s], 1, n) \o words
             d == [c EXCEPT !.stk[s] = t, !.sp[c.mode].n = n + k]
  <1>1. p \in Pointer /\ s \in Stack /\ c.stk[s] \in Seq(Word) /\ n + k \in Nat
    BY DEF Cpu, Pointer
  <1>2. Grows(t, c.stk[s], n, words, k)
    BY <1>1, Pushed
  <1>3. Push(c, words) = d
    BY DEF Push
  <1> HIDE DEF t, s, p
  <1>4. d.stk = [c.stk EXCEPT ![s] = t] /\ d.sp = [c.sp EXCEPT ![c.mode].n = n + k]
    BY DEF Cpu
  <1>5. d = [c EXCEPT !.stk = [c.stk EXCEPT ![s] = t],
                      !.sp = [c.sp EXCEPT ![c.mode].n = n + k]]
    BY DEF Cpu
  <1>6. /\ d.mode = c.mode /\ d.pc = c.pc /\ d.ns = c.ns
        /\ d.gpr = c.gpr /\ d.lr = c.lr /\ d.spsr = c.spsr
    BY DEF Cpu
  <1> HIDE DEF d
  <1>7. /\ d.sp[c.mode] = [p EXCEPT !.n = n + k]
        /\ \A m \in Modes : m # c.mode => d.sp[m] = c.sp[m]
    BY <1>4 DEF Cpu, Modes, p
  <1>8. [p EXCEPT !.n = n + k] \in Pointer /\ d.sp[c.mode].of = s /\ d.sp[c.mode].n = n + k
    BY <1>1, <1>7 DEF Pointer, s
  <1>9. d.stk \in [Stack -> Seq(Word)] /\ d.sp \in [Modes -> Pointer]
    BY <1>1, <1>2, <1>4, <1>8 DEF Cpu, Modes, p, Grows
  <1>10. d \in Cpu
    BY <1>4, <1>5, <1>9 DEF Cpu, Modes
  <1>11. d.stk[s] = t /\ \A u \in Stack : u # s => d.stk[u] = c.stk[u]
    BY <1>1, <1>4 DEF Cpu
  <1> QED BY <1>2, <1>3, <1>6, <1>7, <1>8, <1>10, <1>11 DEF Pushes, Grows, p, s

\* d is c with all words above n popped.
Pops(d, c, n) ==
    /\ d \in Cpu /\ d.mode = c.mode /\ d.pc = c.pc /\ d.ns = c.ns
    /\ d.gpr = c.gpr /\ d.lr = c.lr /\ d.spsr = c.spsr /\ d.stk = c.stk
    /\ d.sp[c.mode].of = c.sp[c.mode].of /\ d.sp[c.mode].n = n
    /\ \A m \in Modes : m # c.mode => d.sp[m] = c.sp[m]

\* A pop moves the stack pointer of the current mode and leaves memory alone.
LEMMA PopFacts ==
    ASSUME NEW c \in Cpu, NEW n \in Nat, NEW k \in Nat, c.sp[c.mode].n = n + k
    PROVE  Pops(Pop(c, k), c, n)
  <1> DEFINE p == c.sp[c.mode]
             d == [c EXCEPT !.sp[c.mode].n = n]
  <1>1. p \in Pointer
    BY DEF Cpu
  <1>2. Pop(c, k) = d
    BY DEF Pop
  <1> HIDE DEF p
  <1>3. d.sp = [c.sp EXCEPT ![c.mode].n = n]
    BY DEF Cpu
  <1>4. d = [c EXCEPT !.sp = [c.sp EXCEPT ![c.mode].n = n]]
    BY DEF Cpu
  <1>5. /\ d.mode = c.mode /\ d.pc = c.pc /\ d.ns = c.ns /\ d.stk = c.stk
        /\ d.gpr = c.gpr /\ d.lr = c.lr /\ d.spsr = c.spsr
    BY DEF Cpu
  <1> HIDE DEF d
  <1>6. /\ d.sp[c.mode] = [p EXCEPT !.n = n]
        /\ \A m \in Modes : m # c.mode => d.sp[m] = c.sp[m]
    BY <1>3 DEF Cpu, Modes, p
  <1>7. [p EXCEPT !.n = n] \in Pointer /\ d.sp[c.mode].of = p.of /\ d.sp[c.mode].n = n
    BY <1>1, <1>6 DEF Pointer
  <1>8. d.sp \in [Modes -> Pointer]
    BY <1>1, <1>3, <1>7 DEF Cpu, Modes, p
  <1>9. d \in Cpu
    BY <1>3, <1>4, <1>8 DEF Cpu, Modes
  <1> QED BY <1>2, <1>5, <1>6, <1>7, <1>9 DEF Pops, p

\* The general registers on ARM, and those a callee preserves.
LEMMA GprFacts ==
    ASSUME Arch = "arm"
    PROVE  /\ Gpr = {"x0", "x1", "x2", "x4", "tmp", "keep"}
           /\ Kept = {"keep", "x4"}
  BY DEF Gpr, Kept

\* d is c with an exception taken to mode m, to return to addr.
Takes(d, c, m, addr) ==
    /\ d \in Cpu /\ d.mode = m /\ d.ns = c.ns /\ d.sp = c.sp /\ d.stk = c.stk
    /\ d.lr[m] = addr /\ d.spsr[m] = Psr(c.mode)
    /\ \A k \in Modes : k # m => d.lr[k] = c.lr[k]
    /\ \A g \in {"x0", "x1", "x2"} : d.gpr[g] = Own(c.pc[1])
    /\ \A g \in {"keep", "x4"} : d.gpr[g] = c.gpr[g]

\* Taking an exception changes the bank of its mode; the interrupted program has its
\* own values in the registers it computes with.
LEMMA TakeFacts ==
    ASSUME Arch = "arm", NEW c \in Cpu, NEW m \in {"SVC", "UND", "MON"},
           NEW addr \in Word
    PROVE  Takes(Take(Live(c), m, addr), c, m, addr)
  <1> DEFINE b == Live(c)
             d == Take(b, m, addr)
  <1>1. c.pc[1] \in Activity /\ Psr(c.mode) \in Word
    BY Words DEF Cpu, Word
  <1>2. /\ b \in Cpu /\ b.mode = c.mode /\ b.ns = c.ns /\ b.sp = c.sp
        /\ b.stk = c.stk /\ b.lr = c.lr /\ b.spsr = c.spsr
        /\ \A g \in {"x0", "x1", "x2"} : b.gpr[g] = Own(c.pc[1])
        /\ \A g \in {"keep", "x4"} : b.gpr[g] = c.gpr[g]
    BY <1>1, Words, GprFacts DEF Cpu, Live
  <1> HIDE DEF b
  <1>3. d = [b EXCEPT !.lr = [b.lr EXCEPT ![m] = addr],
                      !.spsr = [b.spsr EXCEPT ![m] = Psr(c.mode)], !.mode = m]
    BY <1>2 DEF Cpu, Take
  <1>4. /\ [b.lr EXCEPT ![m] = addr] \in [Modes -> Word]
        /\ [b.lr EXCEPT ![m] = addr][m] = addr
        /\ \A k \in Modes : k # m => [b.lr EXCEPT ![m] = addr][k] = c.lr[k]
    BY <1>2 DEF Cpu, Modes
  <1>5. /\ [b.spsr EXCEPT ![m] = Psr(c.mode)] \in [{"SVC", "UND", "MON"} -> Word]
        /\ [b.spsr EXCEPT ![m] = Psr(c.mode)][m] = Psr(c.mode)
    BY <1>1, <1>2 DEF Cpu
  <1> HIDE DEF d
  <1>6. d \in Cpu
    BY <1>2, <1>3, <1>4, <1>5 DEF Cpu, Modes
  <1>7. /\ d.mode = m /\ d.ns = c.ns /\ d.sp = c.sp /\ d.stk = c.stk /\ d.gpr = b.gpr
        /\ d.lr = [b.lr EXCEPT ![m] = addr] /\ d.spsr = [b.spsr EXCEPT ![m] = Psr(c.mode)]
    BY <1>2, <1>3 DEF Cpu
  <1> QED BY <1>2, <1>4, <1>5, <1>6, <1>7 DEF Takes, b, d

\* d is c in the vector of mode m, with the return state and k scratch registers of
\* a above the n words the stack held.
Stacked(d, c, m, n, k, a, addr) ==
    LET s == c.sp[m].of
    IN  /\ d \in Cpu /\ d.mode = m /\ d.ns = c.ns
        /\ \A g \in {"x0", "x1", "x2", "keep", "x4"} : d.gpr[g] = Own(a)
        /\ \A j \in Modes : j # m => d.lr[j] = c.lr[j]
        /\ \A j \in Modes : j # m => d.sp[j] = c.sp[j]
        /\ d.sp[m].of = s /\ d.sp[m].n = n + k + 2
        /\ \A u \in Stack : u # s => d.stk[u] = c.stk[u]
        /\ Len(d.stk[s]) = n + k + 2
        /\ \A i \in 1..n : d.stk[s][i] = c.stk[s][i]
        /\ d.stk[s][n + 1] = Psr(c.mode) /\ d.stk[s][n + 2] = addr
        /\ \A i \in 3..(k + 2) : d.stk[s][n + i] = Own(a)

\* srsdb in a vector.
LEMMA SrsFacts ==
    ASSUME Arch = "arm", NEW c \in Cpu, NEW m \in {"SVC", "UND", "MON"},
           NEW addr \in Word, NEW n \in Nat, c.sp[m].n = n,
           n <= Len(c.stk[c.sp[m].of]),
           c.gpr["keep"] = Own(c.pc[1]), c.gpr["x4"] = Own(c.pc[1])
    PROVE  Stacked(Srs(Take(Live(c), m, addr)), c, m, n, 0, c.pc[1], addr)
  <1> DEFINE t == Take(Live(c), m, addr)
             words == <<t.spsr[t.mode], t.lr[t.mode]>>
             s == c.sp[m].of
             d == Push(t, words)
  <1>1. Takes(t, c, m, addr)
    BY TakeFacts
  <1>2. Srs(t) = d
    BY DEF Srs
  <1> HIDE DEF t
  <1>3. /\ t \in Cpu /\ t.mode = m /\ t.sp = c.sp /\ t.stk = c.stk
        /\ t.lr[m] = addr /\ t.spsr[m] = Psr(c.mode) /\ m \in Modes
    BY <1>1 DEF Takes, Modes
  <1>4. /\ words \in Seq(Word) /\ Len(words) = 2 /\ words[1] = Psr(c.mode)
        /\ words[2] = addr
    BY <1>3 DEF Cpu
  <1> HIDE DEF words
  <1>5. Pushes(d, t, n, words, 2)
    BY <1>3, <1>4, PushFacts
  <1> HIDE DEF d
  <1>6. d.stk[s][n + 1] = words[1] /\ d.stk[s][n + 2] = words[2]
    <2>1. \A i \in 1..2 : d.stk[s][n + i] = words[i]
      BY <1>3, <1>5 DEF Pushes
    <2>2. 1 \in 1..2 /\ 2 \in 1..2
      OBVIOUS
    <2> QED BY <2>1, <2>2, Zenon
  <1>7. /\ d \in Cpu /\ d.mode = m /\ d.ns = t.ns /\ d.gpr = t.gpr /\ d.lr = t.lr
        /\ d.sp[m].of = s /\ d.sp[m].n = n + 2 /\ Len(d.stk[s]) = n + 2
        /\ \A j \in Modes : j # m => d.sp[j] = c.sp[j]
        /\ \A u \in Stack : u # s => d.stk[u] = c.stk[u]
        /\ \A i \in 1..n : d.stk[s][i] = c.stk[s][i]
    <2>0. t.sp[t.mode].of = s
      BY <1>3
    <2> HIDE DEF s
    <2>1. /\ d \in Cpu /\ d.mode = m /\ d.ns = t.ns /\ d.gpr = t.gpr /\ d.lr = t.lr
          /\ d.sp[m].of = s /\ d.sp[m].n = n + 2 /\ Len(d.stk[s]) = n + 2
      BY <1>3, <1>5, <2>0 DEF Pushes
    <2>2. \A j \in Modes : j # m => d.sp[j] = c.sp[j]
      BY <1>3, <1>5 DEF Pushes
    <2>3. /\ \A u \in Stack : u # s => d.stk[u] = c.stk[u]
          /\ \A i \in 1..n : d.stk[s][i] = c.stk[s][i]
      BY <1>3, <1>5, <2>0 DEF Pushes
    <2> QED BY <2>1, <2>2, <2>3
  <1>8. /\ d.ns = c.ns /\ \A g \in {"x0", "x1", "x2", "keep", "x4"} : d.gpr[g] = Own(c.pc[1])
        /\ \A j \in Modes : j # m => d.lr[j] = c.lr[j]
    BY <1>1, <1>7 DEF Takes
  <1>9. Stacked(d, c, m, n, 0, c.pc[1], addr)
    <2>1. n + 0 + 2 = n + 2 /\ 3..(0 + 2) = {}
      OBVIOUS
    <2> HIDE DEF s
    <2> QED BY <1>4, <1>6, <1>7, <1>8, <2>1 DEF Stacked, s
  <1> QED BY <1>2, <1>9 DEF t

\* The vector saves scratch registers of the interrupted program.
LEMMA ScratchSaved ==
    ASSUME NEW c, NEW e, NEW m \in Modes, NEW n \in Nat, NEW k \in Nat, NEW a, NEW addr,
           Stacked(e, c, m, n, 0, a, addr), NEW words \in Seq(Word), Len(words) = k,
           \A i \in 1..k : words[i] = Own(a)
    PROVE  Stacked(Push(e, words), c, m, n, k, a, addr)
  <1> DEFINE d == Push(e, words)
             s == c.sp[m].of
  <1>1. /\ e \in Cpu /\ e.mode = m /\ e.sp[m].of = s /\ e.sp[m].n = n + 2
        /\ Len(e.stk[s]) = n + 2 /\ n + 2 \in Nat
    <2>1. n + 0 + 2 = n + 2
      OBVIOUS
    <2> QED BY <2>1 DEF Stacked
  <1>2. Pushes(d, e, n + 2, words, k)
    <2>1. e.sp[e.mode].n = n + 2 /\ n + 2 <= Len(e.stk[e.sp[e.mode].of])
      BY <1>1
    <2> QED BY <1>1, <2>1, PushFacts
  <1> HIDE DEF d, s
  <1>3. /\ d \in Cpu /\ d.mode = m /\ d.ns = e.ns /\ d.gpr = e.gpr /\ d.lr = e.lr
        /\ d.sp[m].of = s /\ d.sp[m].n = n + 2 + k /\ Len(d.stk[s]) = n + 2 + k
        /\ \A j \in Modes : j # m => d.sp[j] = e.sp[j]
        /\ \A u \in Stack : u # s => d.stk[u] = e.stk[u]
    BY <1>1, <1>2 DEF Pushes
  <1>4. \A i \in 1..(n + 2) : d.stk[s][i] = e.stk[s][i]
    BY <1>1, <1>2 DEF Pushes
  <1>5. \A i \in 1..k : d.stk[s][n + 2 + i] = words[i]
    BY <1>1, <1>2 DEF Pushes
  <1>6. \A i \in 3..(k + 2) : d.stk[s][n + i] = Own(a)
    <2> SUFFICES ASSUME NEW i \in 3..(k + 2) PROVE d.stk[s][n + i] = Own(a)
      OBVIOUS
    <2>1. i - 2 \in 1..k /\ n + 2 + (i - 2) = n + i
      OBVIOUS
    <2>2. d.stk[s][n + 2 + (i - 2)] = words[i - 2] /\ words[i - 2] = Own(a)
      BY <1>5, <2>1
    <2> QED BY <2>1, <2>2
  <1>7. /\ \A i \in 1..n : d.stk[s][i] = e.stk[s][i]
        /\ d.stk[s][n + 1] = e.stk[s][n + 1] /\ d.stk[s][n + 2] = e.stk[s][n + 2]
    BY <1>4
  <1>8. n + 2 + k = n + k + 2
    OBVIOUS
  <1>9. Stacked(d, c, m, n, k, a, addr)
    <2>1. /\ \A u \in Stack : u # s => d.stk[u] = c.stk[u]
          /\ \A i \in 1..n : d.stk[s][i] = c.stk[s][i]
          /\ d.stk[s][n + 1] = Psr(c.mode) /\ d.stk[s][n + 2] = addr
      BY <1>3, <1>7 DEF Stacked, s
    <2>2. /\ d.ns = c.ns /\ \A g \in {"x0", "x1", "x2", "keep", "x4"} : d.gpr[g] = Own(a)
          /\ \A j \in Modes : j # m => d.lr[j] = c.lr[j]
          /\ \A j \in Modes : j # m => d.sp[j] = c.sp[j]
      BY <1>3 DEF Stacked
    <2> QED BY <1>3, <1>6, <1>8, <2>1, <2>2 DEF Stacked, s
  <1> QED BY <1>9 DEF d

\* d is c with the handler h of mode m at work, its frame above n words.
Framed(d, c, m, n, k, a, place, h) ==
    LET s == c.sp[m].of
    IN  /\ d \in Cpu /\ d.mode = m /\ d.pc = <<h, "body">> /\ d.ns = c.ns
        /\ d.gpr["keep"] = Own(h) /\ d.gpr["x4"] = Own(h) /\ d.lr[m] = Own(h)
        /\ \A j \in Modes : j # m => d.lr[j] = c.lr[j]
        /\ \A j \in Modes : j # m => d.sp[j] = c.sp[j]
        /\ d.sp[m].of = s /\ d.sp[m].n = n + k + 5
        /\ \A u \in Stack : u # s => d.stk[u] = c.stk[u]
        /\ Frame(d.stk[s], n, k, a, c.mode, place, h)

\* The branch of a vector to its C handler, whose prologue completes the frame.
LEMMA CallFacts ==
    ASSUME Arch = "arm", NEW c, NEW e, NEW m \in Modes, NEW n \in Nat,
           NEW k \in Nat, NEW a, NEW place, NEW h \in Activity,
           Stacked(e, c, m, n, k, a, <<a, place>>)
    PROVE  Framed(CallC(e, h), c, m, n, k, a, place, h)
  <1> DEFINE words == <<e.gpr["keep"], e.gpr["x4"], Own(h)>>
             s == c.sp[m].of
             p == Push(e, words)
             gpr == [g \in Gpr |-> Own(h)]
             d == [p EXCEPT !.gpr = gpr, !.lr[e.mode] = Own(h), !.pc = <<h, "body">>]
  <1>1. /\ e \in Cpu /\ e.mode = m /\ e.sp[m].of = s /\ e.sp[m].n = n + k + 2
        /\ Len(e.stk[s]) = n + k + 2 /\ n + k + 2 \in Nat
        /\ e.gpr["keep"] = Own(a) /\ e.gpr["x4"] = Own(a) /\ e.ns = c.ns
    <2>1. /\ e \in Cpu /\ e.mode = m /\ e.ns = c.ns
          /\ e.sp[m].of = s /\ e.sp[m].n = n + k + 2 /\ Len(e.stk[s]) = n + k + 2
      BY DEF Stacked
    <2>2. \A g \in {"x0", "x1", "x2", "keep", "x4"} : e.gpr[g] = Own(a)
      BY DEF Stacked
    <2>3. n + k + 2 \in Nat
      OBVIOUS
    <2> QED BY <2>1, <2>2, <2>3
  <1>a. /\ \A j \in Modes : j # m => e.lr[j] = c.lr[j]
        /\ \A j \in Modes : j # m => e.sp[j] = c.sp[j]
        /\ \A u \in Stack : u # s => e.stk[u] = c.stk[u]
    BY DEF Stacked
  <1>2. /\ words \in Seq(Word) /\ Len(words) = 3
        /\ words[1] = Own(a) /\ words[2] = Own(a) /\ words[3] = Own(h)
    <2>1. e.gpr["keep"] \in Word /\ e.gpr["x4"] \in Word /\ Own(h) \in Word
      BY <1>1, Words, GprFacts DEF Cpu
    <2> QED BY <1>1, <2>1
  <1>3. CallC(e, h) = d
    BY DEF CallC
  <1> HIDE DEF words
  <1>4. Pushes(p, e, n + k + 2, words, 3)
    <2>1. e.sp[e.mode].n = n + k + 2 /\ n + k + 2 <= Len(e.stk[e.sp[e.mode].of])
      BY <1>1
    <2> QED BY <1>1, <1>2, <2>1, PushFacts
  <1> HIDE DEF p, s
  <1>5. /\ p \in Cpu /\ p.mode = m /\ p.ns = c.ns /\ p.lr = e.lr
        /\ p.sp[m].of = s /\ p.sp[m].n = n + k + 2 + 3 /\ Len(p.stk[s]) = n + k + 2 + 3
        /\ \A j \in Modes : j # m => p.sp[j] = e.sp[j]
        /\ \A u \in Stack : u # s => p.stk[u] = e.stk[u]
    BY <1>1, <1>4 DEF Pushes
  <1>6. \A i \in 1..(n + k + 2) : p.stk[s][i] = e.stk[s][i]
    BY <1>1, <1>4 DEF Pushes
  <1>7. /\ p.stk[s][n + k + 2 + 1] = Own(a) /\ p.stk[s][n + k + 2 + 2] = Own(a)
        /\ p.stk[s][n + k + 2 + 3] = Own(h)
    <2>1. \A i \in 1..3 : p.stk[s][n + k + 2 + i] = words[i]
      BY <1>1, <1>4 DEF Pushes
    <2>2. 1 \in 1..3 /\ 2 \in 1..3 /\ 3 \in 1..3
      OBVIOUS
    <2>3. /\ p.stk[s][n + k + 2 + 1] = words[1] /\ p.stk[s][n + k + 2 + 2] = words[2]
          /\ p.stk[s][n + k + 2 + 3] = words[3]
      BY <2>1, <2>2, Zenon
    <2> QED BY <1>2, <2>3
  <1>8. Frame(p.stk[s], n, k, a, c.mode, place, h)
    <2>1. p.stk[s][n + 1] = Psr(c.mode) /\ p.stk[s][n + 2] = <<a, place>>
      <3>1. n + 1 \in 1..(n + k + 2) /\ n + 2 \in 1..(n + k + 2)
        OBVIOUS
      <3>2. e.stk[s][n + 1] = Psr(c.mode) /\ e.stk[s][n + 2] = <<a, place>>
        BY DEF Stacked, s
      <3> QED BY <1>6, <3>1, <3>2
    <2>2. \A i \in 3..(k + 4) : p.stk[s][n + i] = Own(a)
      <3> SUFFICES ASSUME NEW i \in 3..(k + 4) PROVE p.stk[s][n + i] = Own(a)
        OBVIOUS
      <3>1. CASE i \in 3..(k + 2)
        <4>1. n + i \in 1..(n + k + 2)
          BY <3>1
        <4>2. e.stk[s][n + i] = Own(a)
          BY <3>1 DEF Stacked, s
        <4> QED BY <1>6, <4>1, <4>2
      <3>2. CASE i = k + 3
        <4>1. n + i = n + k + 2 + 1
          BY <3>2
        <4> QED BY <1>7, <4>1
      <3>3. CASE i = k + 4
        <4>1. n + i = n + k + 2 + 2
          BY <3>3
        <4> QED BY <1>7, <4>1
      <3> QED BY <3>1, <3>2, <3>3
    <2>3. n + k + 2 + 3 = n + k + 5
      OBVIOUS
    <2>4. Len(p.stk[s]) >= n + k + 5 /\ p.stk[s][n + k + 5] = Own(h)
      BY <1>5, <1>7, <2>3
    <2> QED BY <2>1, <2>2, <2>4 DEF Frame
  <1> DEFINE lr == [p.lr EXCEPT ![m] = Own(h)]
  <1>9. d = [p EXCEPT !.gpr = gpr, !.lr = lr, !.pc = <<h, "body">>]
    BY <1>1, <1>5 DEF Cpu
  <1>10. /\ gpr \in [Gpr -> Word] /\ gpr["keep"] = Own(h) /\ gpr["x4"] = Own(h)
         /\ <<h, "body">> \in Word
    BY Words, GprFacts DEF Tag
  <1>11. /\ lr \in [Modes -> Word] /\ lr[m] = Own(h)
         /\ \A j \in Modes : j # m => lr[j] = p.lr[j]
    BY <1>5, Words DEF Cpu
  <1> HIDE DEF d, lr, gpr
  <1>12. /\ d \in Cpu /\ d.mode = m /\ d.pc = <<h, "body">> /\ d.ns = c.ns /\ d.gpr = gpr
         /\ d.lr = lr /\ d.sp = p.sp /\ d.stk = p.stk
    BY <1>5, <1>9, <1>10, <1>11 DEF Cpu
  <1>13. /\ \A j \in Modes : j # m => d.lr[j] = c.lr[j]
         /\ \A j \in Modes : j # m => d.sp[j] = c.sp[j]
         /\ \A u \in Stack : u # s => d.stk[u] = c.stk[u]
         /\ d.sp[m].n = n + k + 5
    BY <1>5, <1>11, <1>12, <1>a
  <1> QED BY <1>3, <1>5, <1>8, <1>10, <1>11, <1>12, <1>13 DEF Framed, s

\* d is c with its handler returned from: the callee-saved registers of a are back,
\* and n words are left on the stack.
Unwound(d, c, n, a) ==
    /\ d \in Cpu /\ d.mode = c.mode /\ d.ns = c.ns /\ d.stk = c.stk
    /\ d.gpr["keep"] = Own(a) /\ d.gpr["x4"] = Own(a)
    /\ d.sp[c.mode].of = c.sp[c.mode].of /\ d.sp[c.mode].n = n
    /\ \A j \in Modes : j # c.mode => d.sp[j] = c.sp[j]
    /\ \A j \in Modes : j # c.mode => d.lr[j] = c.lr[j]

\* The end of a C handler; x0 is its result.
LEMMA ReturnFacts ==
    ASSUME Arch = "arm", NEW c \in Cpu, NEW n \in Nat, NEW k \in Nat, NEW a, NEW m,
           NEW place, NEW h, c.sp[c.mode].n = n + k + 5,
           Frame(c.stk[c.sp[c.mode].of], n, k, a, m, place, h)
    PROVE  /\ Unwound(ReturnC(c), c, n + k + 2, a)
           /\ ReturnC(c).gpr["x0"] = Result(c.pc[1])
           /\ Top(c, 1) = Own(h)
  <1> DEFINE p == Pop(c, 3)
             s == c.stk[c.sp[c.mode].of]
             x == Top(c, 3)
             y == Top(c, 2)
             r == [g \in Gpr |-> CASE g = "keep" -> x
                                   [] g = "x4"   -> y
                                   [] g = "x0"   -> Result(c.pc[1])
                                   [] OTHER      -> Junk]
             d == [p EXCEPT !.gpr = r, !.lr[c.mode] = Junk]
             lr == [p.lr EXCEPT ![c.mode] = Junk]
  <1>1. ReturnC(c) = d
    BY DEF ReturnC
  <1>2. Pops(p, c, n + k + 2)
    <2>1. c.sp[c.mode].n = n + k + 2 + 3 /\ n + k + 2 \in Nat
      OBVIOUS
    <2> QED BY <2>1, PopFacts
  <1>3. s \in Seq(Word) /\ c.pc[1] \in Activity /\ c.mode \in Modes
    BY DEF Cpu, Pointer, Word
  <1>4. x = s[n + (k + 3)] /\ y = s[n + (k + 4)] /\ Top(c, 1) = s[n + k + 5]
    <2>1. /\ n + k + 5 + 1 - 3 = n + (k + 3) /\ n + k + 5 + 1 - 2 = n + (k + 4)
          /\ n + k + 5 + 1 - 1 = n + k + 5
      OBVIOUS
    <2> QED BY <2>1 DEF Top
  <1>5. x = Own(a) /\ y = Own(a) /\ Top(c, 1) = Own(h)
    <2>1. k + 3 \in 3..(k + 4) /\ k + 4 \in 3..(k + 4)
      OBVIOUS
    <2>2. s[n + (k + 3)] = Own(a) /\ s[n + (k + 4)] = Own(a) /\ s[n + k + 5] = Own(h)
      BY <2>1 DEF Frame
    <2> QED BY <1>4, <2>2
  <1>6. x \in Word /\ y \in Word
    <2>1. Len(s) >= n + k + 5
      BY DEF Frame
    <2>2. n + (k + 3) \in 1..Len(s) /\ n + (k + 4) \in 1..Len(s)
      <3> DEFINE l == Len(s)
      <3>1. l \in Nat /\ l >= n + k + 5
        BY <1>3, <2>1
      <3> HIDE DEF l
      <3>2. n + (k + 3) \in 1..l /\ n + (k + 4) \in 1..l
        BY <3>1
      <3> QED BY <3>2 DEF l
    <2> HIDE DEF x, y, s
    <2> QED BY <1>3, <1>4, <2>2
  <1> HIDE DEF x, y
  <1>7. /\ r \in [Gpr -> Word] /\ r["keep"] = x /\ r["x4"] = y
        /\ r["x0"] = Result(c.pc[1])
    BY <1>3, <1>6, Words, GprFacts
  <1> HIDE DEF r, p
  <1>8. p \in Cpu /\ p.lr = c.lr
    BY <1>2 DEF Pops
  <1>9. d = [p EXCEPT !.gpr = r, !.lr = lr]
    BY <1>8 DEF Cpu
  <1>10. lr \in [Modes -> Word] /\ \A j \in Modes : j # c.mode => lr[j] = c.lr[j]
    BY <1>3, <1>8, Words DEF Cpu
  <1> HIDE DEF d, lr
  <1>11. /\ d \in Cpu /\ d.mode = p.mode /\ d.ns = p.ns /\ d.stk = p.stk /\ d.sp = p.sp
         /\ d.gpr = r /\ d.lr = lr
    BY <1>7, <1>8, <1>9, <1>10 DEF Cpu
  <1>12. Unwound(d, c, n + k + 2, a) /\ d.gpr["x0"] = Result(c.pc[1])
    BY <1>2, <1>5, <1>7, <1>10, <1>11 DEF Unwound, Pops
  <1> QED BY <1>1, <1>5, <1>12

\* d is e with the return state loaded from the top of the stack: it goes on at addr
\* in mode m, with n words left.
Resumes(d, e, n, addr, m) ==
    /\ d \in Cpu /\ d.mode = m /\ d.pc = addr /\ d.ns = e.ns /\ d.stk = e.stk
    /\ d.gpr = e.gpr /\ d.lr = e.lr
    /\ d.sp[e.mode].of = e.sp[e.mode].of /\ d.sp[e.mode].n = n
    /\ \A j \in Modes : j # e.mode => d.sp[j] = e.sp[j]

\* rfefd in a vector.
LEMMA RfeFacts ==
    ASSUME NEW e \in Cpu, NEW n \in Nat, NEW addr \in Word, NEW m \in Modes,
           e.sp[e.mode].n = n + 2,
           e.stk[e.sp[e.mode].of][n + 1] = Psr(m),
           e.stk[e.sp[e.mode].of][n + 2] = addr
    PROVE  Resumes(Rfe(e), e, n, addr, m)
  <1> DEFINE p == Pop(e, 2)
             d == [p EXCEPT !.pc = addr, !.mode = m]
  <1>1. Pops(p, e, n)
    BY PopFacts
  <1>2. Top(e, 1) = addr /\ Top(e, 2) = Psr(m)
    <2>1. n + 2 + 1 - 1 = n + 2 /\ n + 2 + 1 - 2 = n + 1
      OBVIOUS
    <2> QED BY <2>1 DEF Top
  <1>3. Psr(m)[1][2] = m
    BY Words
  <1>4. Rfe(e) = d
    BY <1>2, <1>3 DEF Rfe
  <1> HIDE DEF p
  <1>5. p \in Cpu
    BY <1>1 DEF Pops
  <1>6. /\ d \in Cpu /\ d.mode = m /\ d.pc = addr /\ d.ns = p.ns /\ d.stk = p.stk
        /\ d.gpr = p.gpr /\ d.lr = p.lr /\ d.sp = p.sp
    BY <1>5 DEF Cpu
  <1> HIDE DEF d
  <1> QED BY <1>1, <1>4, <1>6 DEF Resumes, Pops

\* d is c after the exit of its handler to a, at addr in mode m, with n words left.
Back(d, c, n, a, addr, m) ==
    /\ d \in Cpu /\ d.mode = m /\ d.pc = addr /\ d.ns = c.ns /\ d.stk = c.stk
    /\ d.gpr["keep"] = Own(a) /\ d.gpr["x4"] = Own(a)
    /\ d.sp[c.mode].of = c.sp[c.mode].of /\ d.sp[c.mode].n = n
    /\ \A j \in Modes : j # c.mode => d.sp[j] = c.sp[j]
    /\ \A j \in Modes : j # c.mode => d.lr[j] = c.lr[j]

\* The end of a vector, once the scratch registers have been dealt with.
LEMMA ReturnsTo ==
    ASSUME NEW c \in Cpu, NEW e, NEW n \in Nat, NEW k, NEW a, NEW m \in Modes,
           NEW place, NEW h, <<a, place>> \in Word, Unwound(e, c, n + 2, a),
           Frame(c.stk[c.sp[c.mode].of], n, k, a, m, place, h)
    PROVE  Back(Rfe(e), c, n, a, <<a, place>>, m) /\ Rfe(e).gpr = e.gpr
  <1>1. /\ e \in Cpu /\ e.mode = c.mode /\ e.stk = c.stk /\ e.sp[e.mode].n = n + 2
        /\ e.sp[e.mode].of = c.sp[c.mode].of
    BY DEF Unwound
  <1>2. /\ e.stk[e.sp[e.mode].of][n + 1] = Psr(m)
        /\ e.stk[e.sp[e.mode].of][n + 2] = <<a, place>>
    BY <1>1 DEF Frame
  <1>3. Resumes(Rfe(e), e, n, <<a, place>>, m)
    BY <1>1, <1>2, RfeFacts
  <1> QED BY <1>1, <1>3 DEF Resumes, Unwound, Back

\* d is c with k more words popped.
LEMMA UnwindMore ==
    ASSUME NEW c, NEW r, NEW n \in Nat, NEW k \in Nat, NEW a, Unwound(r, c, n + k, a)
    PROVE  Unwound(Pop(r, k), c, n, a) /\ Pop(r, k).gpr = r.gpr
  <1>1. r \in Cpu /\ r.mode = c.mode /\ r.sp[r.mode].n = n + k
    BY DEF Unwound
  <1>2. Pops(Pop(r, k), r, n)
    BY <1>1, PopFacts
  <1> QED BY <1>1, <1>2 DEF Pops, Unwound

\* d is p with registers loaded, the callee-saved ones apart.
LEMMA Reloaded ==
    ASSUME NEW p, NEW c, NEW n, NEW a, Unwound(p, c, n, a), NEW gpr \in [Gpr -> Word],
           gpr["keep"] = p.gpr["keep"], gpr["x4"] = p.gpr["x4"]
    PROVE  /\ Unwound([p EXCEPT !.gpr = gpr], c, n, a)
           /\ [p EXCEPT !.gpr = gpr].gpr = gpr
  <1> DEFINE d == [p EXCEPT !.gpr = gpr]
  <1>1. p \in Cpu
    BY DEF Unwound
  <1>2. /\ d \in Cpu /\ d.mode = p.mode /\ d.ns = p.ns /\ d.stk = p.stk /\ d.sp = p.sp
        /\ d.lr = p.lr /\ d.gpr = gpr
    BY <1>1 DEF Cpu
  <1> HIDE DEF d
  <1> QED BY <1>2 DEF Unwound, d

\* The words the vectors of SVC and UND mode reload.
LEMMA ScratchWords ==
    ASSUME NEW c \in Cpu, NEW r, NEW n \in Nat, NEW k \in Nat, NEW a \in Activity, NEW m,
           NEW place, NEW h, Unwound(r, c, n + k + 2, a), NEW i \in 1..k,
           Frame(c.stk[c.sp[c.mode].of], n, k, a, m, place, h)
    PROVE  Top(r, i) = Own(a) /\ Top(r, i) \in Word
  <1>1. /\ r.mode = c.mode /\ r.stk = c.stk /\ r.sp[r.mode].of = c.sp[c.mode].of
        /\ r.sp[r.mode].n = n + k + 2
    BY DEF Unwound
  <1>2. n + k + 2 + 1 - i = n + (k + 3 - i) /\ k + 3 - i \in 3..(k + 4)
    OBVIOUS
  <1>3. Top(r, i) = c.stk[c.sp[c.mode].of][n + (k + 3 - i)]
    BY <1>1, <1>2 DEF Top
  <1>4. c.stk[c.sp[c.mode].of][n + (k + 3 - i)] = Own(a)
    BY <1>2 DEF Frame
  <1> QED BY <1>3, <1>4, Words

\* The exit of el1_svc_vect keeps the result in r0.
LEMMA SvcExit ==
    ASSUME Arch = "arm", NEW c \in Cpu, NEW a \in Activity, NEW m \in Modes, NEW place,
           NEW h, <<a, place>> \in Word, c.sp[c.mode].n = 8,
           Frame(c.stk[c.sp[c.mode].of], 1, 2, a, m, place, h)
    PROVE  LET r == ReturnC(c)
               d == Rfe([Pop(r, 2) EXCEPT !.gpr["x1"] = Top(r, 1), !.gpr["x2"] = Top(r, 2)])
           IN  Back(d, c, 1, a, <<a, place>>, m) /\ d.gpr["x0"] = Result(c.pc[1])
  <1> DEFINE r == ReturnC(c)
             p == Pop(r, 2)
             x1 == Top(r, 1)
             x2 == Top(r, 2)
             gpr == [[p.gpr EXCEPT !["x1"] = x1] EXCEPT !["x2"] = x2]
             e == [p EXCEPT !.gpr = gpr]
  <1>1. Unwound(r, c, 1 + 2 + 2, a) /\ r.gpr["x0"] = Result(c.pc[1])
    <2>1. c.sp[c.mode].n = 1 + 2 + 5
      OBVIOUS
    <2> QED BY <2>1, ReturnFacts
  <1> HIDE DEF r
  <1>2. Unwound(p, c, 1 + 2, a) /\ p.gpr = r.gpr
    <2>1. 1 + 2 + 2 = 3 + 2 /\ 1 + 2 = 3
      OBVIOUS
    <2>2. Unwound(r, c, 3 + 2, a)
      BY <1>1, <2>1
    <2> QED BY <2>1, <2>2, UnwindMore
  <1>3. x1 \in Word /\ x2 \in Word
    <2>1. 1 \in 1..2 /\ 2 \in 1..2
      OBVIOUS
    <2> QED BY <1>1, <2>1, ScratchWords
  <1> HIDE DEF p, x1, x2
  <1>4. p \in Cpu
    BY <1>2 DEF Unwound
  <1>5. e = [p EXCEPT !.gpr["x1"] = x1, !.gpr["x2"] = x2]
    BY <1>4 DEF Cpu
  <1>6. /\ gpr \in [Gpr -> Word] /\ gpr["keep"] = p.gpr["keep"] /\ gpr["x4"] = p.gpr["x4"]
        /\ gpr["x0"] = p.gpr["x0"]
    BY <1>3, <1>4, GprFacts DEF Cpu
  <1> HIDE DEF gpr
  <1>7. Unwound(e, c, 1 + 2, a) /\ e.gpr = gpr
    BY <1>2, <1>6, Reloaded
  <1> HIDE DEF e
  <1>8. Back(Rfe(e), c, 1, a, <<a, place>>, m) /\ Rfe(e).gpr = e.gpr
    BY <1>7, ReturnsTo
  <1>9. Rfe(e).gpr["x0"] = Result(c.pc[1])
    BY <1>1, <1>2, <1>6, <1>7, <1>8
  <1> QED BY <1>5, <1>8, <1>9 DEF r, p, x1, x2

\* The exit of el1_undef_vect restores r0 to r3.
LEMMA UndExit ==
    ASSUME Arch = "arm", NEW c \in Cpu, NEW a \in Activity, NEW m \in Modes, NEW place,
           NEW h, <<a, place>> \in Word, c.sp[c.mode].n = 8,
           Frame(c.stk[c.sp[c.mode].of], 0, 3, a, m, place, h)
    PROVE  LET r == ReturnC(c)
               d == Rfe([Pop(r, 3) EXCEPT !.gpr["x0"] = Top(r, 1), !.gpr["x1"] = Top(r, 2),
                                          !.gpr["x2"] = Top(r, 3)])
           IN  /\ Back(d, c, 0, a, <<a, place>>, m)
               /\ \A g \in {"x0", "x1", "x2"} : d.gpr[g] = Own(a)
  <1> DEFINE r == ReturnC(c)
             p == Pop(r, 3)
             x0 == Top(r, 1)
             x1 == Top(r, 2)
             x2 == Top(r, 3)
             gpr == [[[p.gpr EXCEPT !["x0"] = x0] EXCEPT !["x1"] = x1] EXCEPT !["x2"] = x2]
             e == [p EXCEPT !.gpr = gpr]
  <1>1. Unwound(r, c, 0 + 3 + 2, a)
    <2>1. c.sp[c.mode].n = 0 + 3 + 5
      OBVIOUS
    <2> QED BY <2>1, ReturnFacts
  <1> HIDE DEF r
  <1>2. Unwound(p, c, 0 + 2, a)
    <2>1. 0 + 3 + 2 = 2 + 3 /\ 0 + 2 = 2
      OBVIOUS
    <2>2. Unwound(r, c, 2 + 3, a)
      BY <1>1, <2>1
    <2> QED BY <2>1, <2>2, UnwindMore
  <1>3. /\ x0 \in Word /\ x1 \in Word /\ x2 \in Word
        /\ x0 = Own(a) /\ x1 = Own(a) /\ x2 = Own(a)
    <2>1. 1 \in 1..3 /\ 2 \in 1..3 /\ 3 \in 1..3
      OBVIOUS
    <2>2. \A i \in 1..3 : Top(r, i) = Own(a) /\ Top(r, i) \in Word
      <3> SUFFICES ASSUME NEW i \in 1..3 PROVE Top(r, i) = Own(a) /\ Top(r, i) \in Word
        OBVIOUS
      <3> QED BY <1>1, ScratchWords
    <2> QED BY <2>1, <2>2
  <1> HIDE DEF p, x0, x1, x2
  <1>4. p \in Cpu
    BY <1>2 DEF Unwound
  <1>5. e = [p EXCEPT !.gpr["x0"] = x0, !.gpr["x1"] = x1, !.gpr["x2"] = x2]
    BY <1>4 DEF Cpu
  <1>6. /\ gpr \in [Gpr -> Word] /\ gpr["keep"] = p.gpr["keep"] /\ gpr["x4"] = p.gpr["x4"]
        /\ gpr["x0"] = Own(a) /\ gpr["x1"] = Own(a) /\ gpr["x2"] = Own(a)
    BY <1>3, <1>4, GprFacts DEF Cpu
  <1> HIDE DEF gpr
  <1>7. Unwound(e, c, 0 + 2, a) /\ e.gpr = gpr
    BY <1>2, <1>6, Reloaded
  <1> HIDE DEF e
  <1>8. Back(Rfe(e), c, 0, a, <<a, place>>, m) /\ Rfe(e).gpr = e.gpr
    BY <1>7, ReturnsTo
  <1>9. \A g \in {"x0", "x1", "x2"} : Rfe(e).gpr[g] = Own(a)
    BY <1>6, <1>7, <1>8
  <1> QED BY <1>5, <1>8, <1>9 DEF r, p, x0, x1, x2

\* The exit of el3_smc_vect has no scratch registers to restore.
LEMMA SmcExit ==
    ASSUME Arch = "arm", NEW c \in Cpu, NEW n \in Nat, NEW a, NEW m \in Modes, NEW place,
           NEW h, <<a, place>> \in Word, c.sp[c.mode].n = n + 5,
           Frame(c.stk[c.sp[c.mode].of], n, 0, a, m, place, h)
    PROVE  LET d == Rfe(ReturnC(c))
           IN  Back(d, c, n, a, <<a, place>>, m) /\ d.gpr["x0"] = Result(c.pc[1])
  <1> DEFINE r == ReturnC(c)
  <1>1. Unwound(r, c, n + 2, a) /\ r.gpr["x0"] = Result(c.pc[1])
    <2>1. c.sp[c.mode].n = n + 0 + 5 /\ n + 0 + 2 = n + 2
      OBVIOUS
    <2>2. Unwound(r, c, n + 0 + 2, a) /\ r.gpr["x0"] = Result(c.pc[1])
      BY <2>1, ReturnFacts
    <2> QED BY <2>1, <2>2
  <1> HIDE DEF r
  <1>2. Back(Rfe(r), c, n, a, <<a, place>>, m) /\ Rfe(r).gpr = r.gpr
    BY <1>1, ReturnsTo
  <1> QED BY <1>1, <1>2 DEF r

----------------------------------------------------------------------------
\* The activity a is at work in world w, in its own mode and with its own registers.
Works(c, w, a, place) ==
    /\ c.pc = <<a, place>> /\ place # "entry" /\ c.ns = w /\ c.mode = ModeOf(a)
    /\ c.gpr["keep"] = Own(a) /\ c.gpr["x4"] = Own(a) /\ c.lr[c.mode] = Own(a)
    /\ place = "ret" => c.gpr["x0"] = Result(IF a[2] = "main" THEN <<a[1], "svc">>
                                             ELSE <<MON, "smc">>)
    /\ place = "next" => \A g \in {"x0", "x1", "x2"} : c.gpr[g] = Own(a)
    /\ a[2] \in {"und", "smc"} => place = "body"

\* The monitor's stack is n words deep.
Deep(c, n) == c.sp["MON"].n = n /\ Len(c.stk[<<MON, "MON">>]) >= n

\* The stacks while a is at work in world w, above n words of the monitor's.
Stands(c, w, a, n) ==
    \/ /\ a = <<w, "main">> /\ InMain(w, c.sp, c.lr, c.stk) /\ NoTrap(w, c.sp) /\ Deep(c, n)
    \/ /\ a = <<w, "svc">> /\ InSvc(w, c.sp, c.lr, c.stk) /\ NoTrap(w, c.sp) /\ Deep(c, n)
    \/ /\ a = <<w, "und">> /\ Deep(c, n)
       /\ \/ InMain(w, c.sp, c.lr, c.stk) /\ InTrap(w, c.sp, c.stk, <<w, "main">>, "USR")
          \/ InSvc(w, c.sp, c.lr, c.stk) /\ InTrap(w, c.sp, c.stk, <<w, "svc">>, "SVC")
    \/ /\ a = <<MON, "smc">> /\ InSvc(w, c.sp, c.lr, c.stk) /\ NoTrap(w, c.sp)
       /\ c.sp["MON"].n = n + 5
       /\ Frame(c.stk[<<MON, "MON">>], n, 0, <<w, "svc">>, "SVC", "ret", a)

\* What the invariant says of the running activity.
LEMMA Situation ==
    ASSUME Arch = "arm", FrameInv, Place # "entry"
    PROVE  /\ Works(cpu, cpu.ns, Running, Place) /\ Stands(cpu, cpu.ns, Running, Depth)
           /\ cpu \in Cpu /\ cpu.ns \in World /\ cpu.sp["MON"].of = <<MON, "MON">>
           /\ Depth \in Nat
  <1>1. /\ Active /\ cpu \in Cpu /\ cpu.ns \in World /\ Depth \in Nat
        /\ cpu.sp["MON"].of = <<MON, "MON">>
    BY DEF FrameInv, Cpu, Depth
  <1>2. cpu.pc = <<Running, Place>>
    BY <1>1 DEF Cpu, Word, Activity, Running, Place
  <1>3. Stands(cpu, cpu.ns, Running, Depth)
    BY <1>1 DEF Active, Stands, Deep, OutsideMonitor, MonStack
  <1>4. Running[2] \in {"und", "smc"} => Place = "body"
    BY <1>1 DEF Active
  <1>5. Works(cpu, cpu.ns, Running, Place)
    BY <1>1, <1>2, <1>4, GprFacts
       DEF Active, Works, KeptOf, ResultDelivered, TrapRestoresSaved
  <1> QED BY <1>1, <1>3, <1>5

\* And back.
LEMMA IsActive ==
    ASSUME Arch = "arm", NEW w, NEW a, NEW place, NEW n, n = Depth',
           Works(cpu', w, a, place), Stands(cpu', w, a, n)
    PROVE  Active' /\ Place' # "entry"
  <1>1. Running' = a /\ Place' = place /\ cpu'.ns = w
    BY DEF Works, Running, Place
  <1>2. KeptOf(Running)' /\ ResultDelivered' /\ TrapRestoresSaved'
    BY <1>1, GprFacts DEF Works, KeptOf, ResultDelivered, TrapRestoresSaved
  <1>3. cpu'.mode = ModeOf(Running') /\ Place' # "entry"
    BY <1>1 DEF Works
  <1>4. a[2] \in {"und", "smc"} => Place' = "body"
    BY <1>1 DEF Works
  <1>5. Deep(cpu', n) => OutsideMonitor'
    BY DEF Deep, OutsideMonitor, MonStack
  <1> QED BY <1>1, <1>2, <1>3, <1>4, <1>5 DEF Active, Stands, MonStack

\* A world that waits does not notice what happens on the stacks of the others.
LEMMA ParkedKept ==
    ASSUME NEW w \in World, NEW b, NEW stk, NEW k, Parked(b, w, stk),
           \A s \in Stack : s[1] = w => k[s] = stk[s]
    PROVE  Parked(b, w, k)
  <1>1. <<w, "USR">> \in Stack /\ <<w, "SVC">> \in Stack
    BY DEF Stack
  <1>2. k[<<w, "USR">>] = stk[<<w, "USR">>] /\ k[<<w, "SVC">>] = stk[<<w, "SVC">>]
    BY <1>1
  <1> QED BY <1>2 DEF Parked, Suspended, InSvc

\* The rest of the invariant after a step that stays in the world.
LEMMA SameWorld ==
    ASSUME Arch = "arm", FrameInv, cpu' \in Cpu, cpu'.ns = cpu.ns, buf' = buf,
           switches' = switches,
           \A s \in Stack : s[1] = 1 - cpu.ns => cpu'.stk[s] = cpu.stk[s],
           cpu'.sp["MON"].of = <<MON, "MON">>, NEW a, NEW place,
           Works(cpu', cpu.ns, a, place), Stands(cpu', cpu.ns, a, Depth)
    PROVE  FrameInv'
  <1> DEFINE w == 1 - cpu.ns
  <1>1. w \in World /\ Parked(buf[w], w, cpu.stk)
    BY DEF FrameInv, Cpu
  <1>2. Parked(buf[w], w, cpu'.stk)
    BY <1>1, ParkedKept
  <1>3. Parked(buf[1 - cpu.ns], 1 - cpu.ns, cpu.stk)'
    BY <1>2
  <1>4. Depth' = Depth
    BY DEF Depth
  <1>5. Active' /\ Place' # "entry"
    BY <1>4, IsActive
  <1> QED BY <1>3, <1>5 DEF FrameInv

\* el1_svc_vect.
LEMMA SvcKeeps ==
    ASSUME Arch = "arm", FrameInv, Svc
    PROVE  FrameInv'
  <1> DEFINE w == cpu.ns
             main == <<w, "main">>
             svc == <<w, "svc">>
             addr == <<main, "ret">>
             c == Srs(Take(Live(cpu), "SVC", addr))
             words == <<c.gpr["x2"], c.gpr["x1"]>>
             s1 == <<w, "SVC">>
  <1>1. /\ Place # "entry" /\ Running[2] = "main" /\ buf' = buf /\ switches' = switches
    BY DEF Svc, At
  <1>2. /\ Works(cpu, w, Running, Place) /\ Stands(cpu, w, Running, Depth) /\ cpu \in Cpu
        /\ w \in World /\ cpu.sp["MON"].of = <<MON, "MON">>
    BY <1>1, Situation
  <1>3. /\ Running = main /\ InMain(w, cpu.sp, cpu.lr, cpu.stk) /\ NoTrap(w, cpu.sp)
        /\ Deep(cpu, Depth)
    <2> HIDE DEF w
    <2> QED BY <1>1, <1>2 DEF Stands
  <1>4. /\ cpu.mode = "USR" /\ cpu.pc[1] = main
        /\ cpu.gpr["keep"] = Own(main) /\ cpu.gpr["x4"] = Own(main)
    BY <1>2, <1>3 DEF Works, ModeOf, Running
  <1>5. cpu' = CallC(Push(c, words), svc)
    BY <1>3 DEF Svc
  <1>6. /\ main \in Activity /\ svc \in Activity /\ addr \in Word /\ s1 \in Stack
        /\ "SVC" \in {"SVC", "UND", "MON"} /\ "SVC" \in Modes
    BY <1>2 DEF Activity, Name, Tag, Word, Stack, Modes
  <1>7. /\ cpu.sp["SVC"].of = s1 /\ cpu.sp["SVC"].n = 1 /\ Len(cpu.stk[s1]) >= 1
        /\ cpu.stk[s1] \in Seq(Word) /\ 1 <= Len(cpu.stk[cpu.sp["SVC"].of])
    BY <1>2, <1>3, <1>6 DEF InMain, Cpu
  <1>8. Stacked(c, cpu, "SVC", 1, 0, main, addr)
    <2> HIDE DEF addr, main
    <2> QED BY <1>2, <1>4, <1>6, <1>7, SrsFacts
  <1> HIDE DEF c
  <1>9. words \in Seq(Word) /\ Len(words) = 2 /\ \A i \in 1..2 : words[i] = Own(main)
    <2>1. c.gpr["x1"] = Own(main) /\ c.gpr["x2"] = Own(main)
      BY <1>8 DEF Stacked
    <2>2. Own(main) \in Word
      BY <1>6, Words
    <2> QED BY <2>1, <2>2
  <1> HIDE DEF words
  <1>10. Framed(cpu', cpu, "SVC", 1, 2, main, "ret", svc)
    <2>1. Stacked(Push(c, words), cpu, "SVC", 1, 2, main, <<main, "ret">>)
      <3> HIDE DEF main
      <3> QED BY <1>6, <1>8, <1>9, ScratchSaved
    <2> HIDE DEF main, svc
    <2> QED BY <1>5, <1>6, <2>1, CallFacts
  <1>11. /\ cpu' \in Cpu /\ cpu'.mode = "SVC" /\ cpu'.pc = <<svc, "body">> /\ cpu'.ns = w
         /\ cpu'.gpr["keep"] = Own(svc) /\ cpu'.gpr["x4"] = Own(svc)
         /\ cpu'.lr["SVC"] = Own(svc) /\ cpu'.lr["USR"] = cpu.lr["USR"]
         /\ cpu'.sp["USR"] = cpu.sp["USR"] /\ cpu'.sp["UND"] = cpu.sp["UND"]
         /\ cpu'.sp["MON"] = cpu.sp["MON"]
         /\ cpu'.sp["SVC"].of = s1 /\ cpu'.sp["SVC"].n = 8
         /\ \A u \in Stack : u # s1 => cpu'.stk[u] = cpu.stk[u]
         /\ Frame(cpu'.stk[s1], 1, 2, main, "USR", "ret", svc)
    <2>1. 1 + 2 + 5 = 8
      OBVIOUS
    <2> HIDE DEF main, svc, s1
    <2> QED BY <1>4, <1>7, <1>10, <2>1 DEF Framed, Modes
  <1>12. /\ cpu'.stk[<<w, "USR">>] = cpu.stk[<<w, "USR">>]
         /\ cpu'.stk[<<MON, "MON">>] = cpu.stk[<<MON, "MON">>]
         /\ \A s \in Stack : s[1] = 1 - w => cpu'.stk[s] = cpu.stk[s]
    BY <1>2, <1>11 DEF Stack
  <1>13. cpu'.sp["SVC"] = [of |-> s1, n |-> 8]
    <2>1. cpu'.sp["SVC"] \in Pointer
      BY <1>6, <1>11 DEF Cpu
    <2> QED BY <1>11, <2>1 DEF Pointer
  <1>14. InSvc(w, cpu'.sp, cpu'.lr, cpu'.stk) /\ NoTrap(w, cpu'.sp) /\ Deep(cpu', Depth)
    BY <1>3, <1>11, <1>12, <1>13 DEF InSvc, InMain, NoTrap, Deep
  <1>15. Works(cpu', w, svc, "body") /\ Stands(cpu', w, svc, Depth)
    <2>1. cpu'.mode = ModeOf(svc) /\ svc[2] = "svc"
      BY <1>2, <1>11 DEF ModeOf
    <2> QED BY <1>11, <1>14, <2>1 DEF Works, Stands
  <1> QED BY <1>1, <1>2, <1>11, <1>12, <1>15, SameWorld

\* el1_undef_vect, entered from EL0 or from an SVC handler.
LEMMA UndKeeps ==
    ASSUME Arch = "arm", FrameInv, El1Exception
    PROVE  FrameInv'
  <1> DEFINE w == cpu.ns
             a == Running
             m == cpu.mode
             und == <<w, "und">>
             addr == <<a, "next">>
             c == Srs(Take(Live(cpu), "UND", addr))
             words == <<c.gpr["x2"], c.gpr["x1"], c.gpr["x0"]>>
             su == <<w, "UND">>
  <1>1. /\ Place # "entry" /\ a[2] \in {"main", "svc"} /\ buf' = buf
        /\ switches' = switches
    BY DEF El1Exception, Traps
  <1>2. /\ Works(cpu, w, a, Place) /\ Stands(cpu, w, a, Depth) /\ cpu \in Cpu
        /\ w \in World /\ cpu.sp["MON"].of = <<MON, "MON">>
    BY <1>1, Situation
  <1>3. /\ \/ a = <<w, "main">> /\ InMain(w, cpu.sp, cpu.lr, cpu.stk)
           \/ a = <<w, "svc">> /\ InSvc(w, cpu.sp, cpu.lr, cpu.stk)
        /\ NoTrap(w, cpu.sp) /\ Deep(cpu, Depth)
    <2> HIDE DEF w
    <2> QED BY <1>1, <1>2 DEF Stands
  <1>4. /\ m = ModeOf(a) /\ cpu.pc[1] = a
        /\ cpu.gpr["keep"] = Own(a) /\ cpu.gpr["x4"] = Own(a) /\ a[1] = w
    BY <1>2, <1>3 DEF Works, Running
  <1>5. cpu' = CallC(Push(c, words), und)
    BY <1>4 DEF El1Exception
  <1>6. /\ a \in Activity /\ und \in Activity /\ addr \in Word /\ su \in Stack
        /\ "UND" \in {"SVC", "UND", "MON"} /\ "UND" \in Modes
    BY <1>2, <1>3 DEF Activity, Name, Tag, Word, Stack, Modes
  <1>7. /\ cpu.sp["UND"].of = su /\ cpu.sp["UND"].n = 0
        /\ cpu.stk[su] \in Seq(Word) /\ 0 <= Len(cpu.stk[cpu.sp["UND"].of])
    BY <1>2, <1>3, <1>6 DEF NoTrap, Cpu
  <1> HIDE DEF a
  <1>8. Stacked(c, cpu, "UND", 0, 0, a, addr)
    <2>1. 0 \in Nat /\ cpu.gpr["keep"] = Own(cpu.pc[1]) /\ cpu.gpr["x4"] = Own(cpu.pc[1])
      BY <1>4
    <2> HIDE DEF addr, su
    <2>2. Stacked(c, cpu, "UND", 0, 0, cpu.pc[1], addr)
      BY <1>2, <1>6, <1>7, <2>1, SrsFacts
    <2> QED BY <1>4, <2>2
  <1> HIDE DEF c
  <1>9. words \in Seq(Word) /\ Len(words) = 3 /\ \A i \in 1..3 : words[i] = Own(a)
    <2>1. c.gpr["x0"] = Own(a) /\ c.gpr["x1"] = Own(a) /\ c.gpr["x2"] = Own(a)
      BY <1>8 DEF Stacked
    <2>2. Own(a) \in Word
      BY <1>6, Words
    <2> QED BY <2>1, <2>2
  <1> HIDE DEF words
  <1>10. Framed(cpu', cpu, "UND", 0, 3, a, "next", und)
    <2>1. Stacked(Push(c, words), cpu, "UND", 0, 3, a, <<a, "next">>)
      BY <1>6, <1>8, <1>9, ScratchSaved
    <2> HIDE DEF und
    <2> QED BY <1>5, <1>6, <2>1, CallFacts
  <1>11. /\ cpu' \in Cpu /\ cpu'.mode = "UND" /\ cpu'.pc = <<und, "body">> /\ cpu'.ns = w
         /\ cpu'.gpr["keep"] = Own(und) /\ cpu'.gpr["x4"] = Own(und)
         /\ cpu'.lr["UND"] = Own(und) /\ cpu'.lr["USR"] = cpu.lr["USR"]
         /\ cpu'.lr["SVC"] = cpu.lr["SVC"] /\ cpu'.sp["SVC"] = cpu.sp["SVC"]
         /\ cpu'.sp["USR"] = cpu.sp["USR"] /\ cpu'.sp["MON"] = cpu.sp["MON"]
         /\ cpu'.sp["UND"].of = su /\ cpu'.sp["UND"].n = 8
         /\ \A u \in Stack : u # su => cpu'.stk[u] = cpu.stk[u]
         /\ Frame(cpu'.stk[su], 0, 3, a, m, "next", und)
    <2>1. 0 + 3 + 5 = 8
      OBVIOUS
    <2> HIDE DEF und, su
    <2> QED BY <1>4, <1>7, <1>10, <2>1 DEF Framed, Modes
  <1>12. /\ cpu'.stk[<<w, "USR">>] = cpu.stk[<<w, "USR">>]
         /\ cpu'.stk[<<w, "SVC">>] = cpu.stk[<<w, "SVC">>]
         /\ cpu'.stk[<<MON, "MON">>] = cpu.stk[<<MON, "MON">>]
         /\ \A s \in Stack : s[1] = 1 - w => cpu'.stk[s] = cpu.stk[s]
    BY <1>2, <1>11 DEF Stack
  <1>13. cpu'.sp["UND"] = [of |-> su, n |-> 8]
    <2>1. cpu'.sp["UND"] \in Pointer
      BY <1>6, <1>11 DEF Cpu
    <2> QED BY <1>11, <2>1 DEF Pointer
  <1>14. InTrap(w, cpu'.sp, cpu'.stk, a, m) /\ Deep(cpu', Depth)
    BY <1>3, <1>11, <1>12, <1>13 DEF InTrap, Deep
  <1>15. /\ a = <<w, "main">> => InMain(w, cpu'.sp, cpu'.lr, cpu'.stk) /\ m = "USR"
         /\ a = <<w, "svc">> => InSvc(w, cpu'.sp, cpu'.lr, cpu'.stk) /\ m = "SVC"
    <2>1. CASE a = <<w, "main">>
      <3>1. m = "USR" /\ InMain(w, cpu.sp, cpu.lr, cpu.stk)
        BY <1>2, <1>3, <1>4, <2>1 DEF ModeOf
      <3>2. InMain(w, cpu'.sp, cpu'.lr, cpu'.stk)
        BY <1>11, <1>12, <3>1 DEF InMain
      <3> QED BY <2>1, <3>1, <3>2
    <2>2. CASE a = <<w, "svc">>
      <3>1. m = "SVC" /\ InSvc(w, cpu.sp, cpu.lr, cpu.stk)
        BY <1>2, <1>3, <1>4, <2>2 DEF ModeOf
      <3>2. InSvc(w, cpu'.sp, cpu'.lr, cpu'.stk)
        BY <1>11, <1>12, <3>1 DEF InSvc
      <3> QED BY <2>2, <3>1, <3>2
    <2> QED BY <2>1, <2>2
  <1>16. Works(cpu', w, und, "body") /\ Stands(cpu', w, und, Depth)
    <2>1. cpu'.mode = ModeOf(und) /\ und[2] = "und"
      BY <1>2, <1>11 DEF ModeOf
    <2>2. Stands(cpu', w, und, Depth)
      BY <1>3, <1>14, <1>15 DEF Stands
    <2> QED BY <1>11, <2>1, <2>2 DEF Works
  <1> QED BY <1>1, <1>2, <1>11, <1>12, <1>16, SameWorld

\* el3_smc_vect, entered from an SVC handler.
LEMMA SmcKeeps ==
    ASSUME Arch = "arm", FrameInv, Smc
    PROVE  FrameInv'
  <1> DEFINE w == cpu.ns
             svc == <<w, "svc">>
             smc == <<MON, "smc">>
             addr == <<svc, "ret">>
             n == Depth
             c == Srs(Take(Live(cpu), "MON", addr))
             s3 == <<MON, "MON">>
  <1>1. /\ Place # "entry" /\ Running[2] = "svc" /\ buf' = buf /\ switches' = switches
    BY DEF Smc, At
  <1>2. /\ Works(cpu, w, Running, Place) /\ Stands(cpu, w, Running, n) /\ cpu \in Cpu
        /\ w \in World /\ cpu.sp["MON"].of = s3 /\ n \in Nat
    BY <1>1, Situation
  <1>3. /\ Running = svc /\ InSvc(w, cpu.sp, cpu.lr, cpu.stk) /\ NoTrap(w, cpu.sp)
        /\ Deep(cpu, n)
    <2> HIDE DEF w, n
    <2> QED BY <1>1, <1>2 DEF Stands
  <1>4. /\ cpu.mode = "SVC" /\ cpu.pc[1] = svc
        /\ cpu.gpr["keep"] = Own(svc) /\ cpu.gpr["x4"] = Own(svc)
    BY <1>2, <1>3 DEF Works, ModeOf, Running
  <1>5. cpu' = CallC(c, smc)
    BY <1>3 DEF Smc
  <1>6. /\ svc \in Activity /\ smc \in Activity /\ addr \in Word /\ s3 \in Stack
        /\ "MON" \in {"SVC", "UND", "MON"} /\ "MON" \in Modes
    BY <1>2 DEF Activity, Name, Tag, Word, Stack, Modes
  <1>7. cpu.sp["MON"].n = n /\ cpu.stk[s3] \in Seq(Word) /\ n <= Len(cpu.stk[s3])
    BY <1>2, <1>3, <1>6 DEF Deep, Cpu
  <1> HIDE DEF n
  <1>8. Stacked(c, cpu, "MON", n, 0, svc, addr)
    <2> HIDE DEF addr, svc, s3
    <2>1. cpu.gpr["keep"] = Own(cpu.pc[1]) /\ cpu.gpr["x4"] = Own(cpu.pc[1])
      BY <1>4
    <2>2. Stacked(c, cpu, "MON", n, 0, cpu.pc[1], addr)
      BY <1>2, <1>6, <1>7, <2>1, SrsFacts
    <2> QED BY <1>4, <2>2
  <1> HIDE DEF c
  <1>9. Framed(cpu', cpu, "MON", n, 0, svc, "ret", smc)
    <2>1. Stacked(c, cpu, "MON", n, 0, svc, <<svc, "ret">>)
      BY <1>8
    <2> HIDE DEF svc, smc
    <2> QED BY <1>2, <1>5, <1>6, <2>1, CallFacts
  <1>10. /\ cpu' \in Cpu /\ cpu'.mode = "MON" /\ cpu'.pc = <<smc, "body">> /\ cpu'.ns = w
         /\ cpu'.gpr["keep"] = Own(smc) /\ cpu'.gpr["x4"] = Own(smc)
         /\ cpu'.lr["MON"] = Own(smc) /\ cpu'.lr["USR"] = cpu.lr["USR"]
         /\ cpu'.lr["SVC"] = cpu.lr["SVC"] /\ cpu'.sp["SVC"] = cpu.sp["SVC"]
         /\ cpu'.sp["USR"] = cpu.sp["USR"] /\ cpu'.sp["UND"] = cpu.sp["UND"]
         /\ cpu'.sp["MON"].of = s3 /\ cpu'.sp["MON"].n = n + 5
         /\ \A u \in Stack : u # s3 => cpu'.stk[u] = cpu.stk[u]
         /\ Frame(cpu'.stk[s3], n, 0, svc, "SVC", "ret", smc)
    <2>1. n + 0 + 5 = n + 5
      BY <1>2
    <2> HIDE DEF svc, smc, s3
    <2> QED BY <1>2, <1>4, <1>9, <2>1 DEF Framed, Modes
  <1>11. /\ cpu'.stk[<<w, "USR">>] = cpu.stk[<<w, "USR">>]
         /\ cpu'.stk[<<w, "SVC">>] = cpu.stk[<<w, "SVC">>]
         /\ \A s \in Stack : s[1] = 1 - w => cpu'.stk[s] = cpu.stk[s]
    BY <1>2, <1>10 DEF Stack
  <1>12. InSvc(w, cpu'.sp, cpu'.lr, cpu'.stk) /\ NoTrap(w, cpu'.sp)
    BY <1>3, <1>10, <1>11 DEF InSvc, NoTrap
  <1>13. Works(cpu', w, smc, "body") /\ Stands(cpu', w, smc, n)
    <2>1. cpu'.mode = ModeOf(smc) /\ smc[2] = "smc"
      BY <1>10 DEF ModeOf
    <2> QED BY <1>10, <1>12, <2>1 DEF Works, Stands
  <1> QED BY <1>1, <1>2, <1>10, <1>11, <1>13, SameWorld DEF n

\* The exit of el1_svc_vect.
LEMMA SvcReturnKeeps ==
    ASSUME Arch = "arm", FrameInv, SvcReturn
    PROVE  FrameInv'
  <1> DEFINE w == cpu.ns
             main == <<w, "main">>
             svc == <<w, "svc">>
             s1 == <<w, "SVC">>
             r == ReturnC(cpu)
             d == Rfe([Pop(r, 2) EXCEPT !.gpr["x1"] = Top(r, 1), !.gpr["x2"] = Top(r, 2)])
  <1>1. /\ Place # "entry" /\ Running[2] = "svc" /\ buf' = buf /\ switches' = switches
        /\ cpu' = d
    BY DEF SvcReturn, At
  <1>2. /\ Works(cpu, w, Running, Place) /\ Stands(cpu, w, Running, Depth) /\ cpu \in Cpu
        /\ w \in World /\ cpu.sp["MON"].of = <<MON, "MON">>
    BY <1>1, Situation
  <1>3. /\ Running = svc /\ InSvc(w, cpu.sp, cpu.lr, cpu.stk) /\ NoTrap(w, cpu.sp)
        /\ Deep(cpu, Depth)
    <2> HIDE DEF w
    <2> QED BY <1>1, <1>2 DEF Stands
  <1>4. /\ cpu.mode = "SVC" /\ cpu.pc[1] = svc
    BY <1>2, <1>3 DEF Works, ModeOf, Running
  <1>5. /\ main \in Activity /\ <<main, "ret">> \in Word /\ "USR" \in Modes
        /\ s1 \in Stack /\ "SVC" \in Modes
    BY <1>2 DEF Activity, Name, Tag, Word, Modes, Stack
  <1>6. /\ cpu.sp["SVC"].of = s1 /\ cpu.sp["SVC"].n = 8
        /\ Frame(cpu.stk[s1], 1, 2, main, "USR", "ret", svc)
    BY <1>3 DEF InSvc
  <1>7. Back(d, cpu, 1, main, <<main, "ret">>, "USR") /\ d.gpr["x0"] = Result(cpu.pc[1])
    <2>1. /\ cpu.sp[cpu.mode].n = 8
          /\ Frame(cpu.stk[cpu.sp[cpu.mode].of], 1, 2, main, "USR", "ret", svc)
      BY <1>4, <1>6
    <2> HIDE DEF main, svc
    <2> QED BY <1>2, <1>5, <2>1, SvcExit
  <1> HIDE DEF d
  <1>8. /\ cpu' \in Cpu /\ cpu'.mode = "USR" /\ cpu'.pc = <<main, "ret">> /\ cpu'.ns = w
        /\ cpu'.stk = cpu.stk /\ cpu'.gpr["keep"] = Own(main) /\ cpu'.gpr["x4"] = Own(main)
        /\ cpu'.gpr["x0"] = Result(svc) /\ cpu'.sp["SVC"].of = s1 /\ cpu'.sp["SVC"].n = 1
        /\ cpu'.sp["USR"] = cpu.sp["USR"] /\ cpu'.sp["UND"] = cpu.sp["UND"]
        /\ cpu'.sp["MON"] = cpu.sp["MON"] /\ cpu'.lr["USR"] = cpu.lr["USR"]
    BY <1>1, <1>4, <1>6, <1>7 DEF Back, Modes
  <1>9. cpu'.sp["SVC"] = [of |-> s1, n |-> 1]
    <2>1. cpu'.sp["SVC"] \in Pointer
      BY <1>5, <1>8 DEF Cpu
    <2> QED BY <1>8, <2>1 DEF Pointer
  <1>10. Len(cpu.stk[s1]) >= 1
    <2>1. cpu.stk[s1] \in Seq(Word) /\ Len(cpu.stk[s1]) >= 1 + 2 + 5
      BY <1>2, <1>5, <1>6 DEF Cpu, Frame
    <2> QED BY <2>1
  <1>11. InMain(w, cpu'.sp, cpu'.lr, cpu'.stk) /\ NoTrap(w, cpu'.sp) /\ Deep(cpu', Depth)
    BY <1>3, <1>8, <1>9, <1>10 DEF InSvc, InMain, NoTrap, Deep
  <1>12. Works(cpu', w, main, "ret") /\ Stands(cpu', w, main, Depth)
    <2>1. /\ cpu'.mode = ModeOf(main) /\ main[1] = w /\ main[2] = "main"
          /\ cpu'.lr["USR"] = Own(main)
      BY <1>2, <1>8, <1>11 DEF ModeOf, InMain
    <2> QED BY <1>8, <1>11, <2>1 DEF Works, Stands
  <1> QED BY <1>1, <1>2, <1>8, <1>12, SameWorld

\* The exit of el1_undef_vect, to EL0 or to the SVC handler.
LEMMA UndReturnKeeps ==
    ASSUME Arch = "arm", FrameInv, El1ExceptionReturn
    PROVE  FrameInv'
  <1> DEFINE w == cpu.ns
             main == <<w, "main">>
             svc == <<w, "svc">>
             und == <<w, "und">>
             su == <<w, "UND">>
             r == ReturnC(cpu)
             d == Rfe([Pop(r, 3) EXCEPT !.gpr["x0"] = Top(r, 1), !.gpr["x1"] = Top(r, 2),
                                        !.gpr["x2"] = Top(r, 3)])
  <1>1. /\ Place # "entry" /\ Running[2] = "und" /\ buf' = buf /\ switches' = switches
        /\ cpu' = d
    BY DEF El1ExceptionReturn, At
  <1>2. /\ Works(cpu, w, Running, Place) /\ Stands(cpu, w, Running, Depth) /\ cpu \in Cpu
        /\ w \in World /\ cpu.sp["MON"].of = <<MON, "MON">>
    BY <1>1, Situation
  <1>3. PICK a, m : /\ \/ /\ a = main /\ m = "USR" /\ InMain(w, cpu.sp, cpu.lr, cpu.stk)
                       \/ /\ a = svc /\ m = "SVC" /\ InSvc(w, cpu.sp, cpu.lr, cpu.stk)
                    /\ InTrap(w, cpu.sp, cpu.stk, a, m)
                    /\ Running = und /\ Deep(cpu, Depth)
    <2> HIDE DEF w
    <2> QED BY <1>1, <1>2 DEF Stands
  <1>4. /\ cpu.mode = "UND" /\ cpu.pc[1] = und
    BY <1>2, <1>3 DEF Works, ModeOf, Running
  <1>5. /\ a \in Activity /\ <<a, "next">> \in Word /\ m \in Modes
        /\ su \in Stack /\ "UND" \in Modes
    BY <1>2, <1>3 DEF Activity, Name, Tag, Word, Modes, Stack
  <1>6. /\ cpu.sp["UND"].of = su /\ cpu.sp["UND"].n = 8
        /\ Frame(cpu.stk[su], 0, 3, a, m, "next", und)
    BY <1>3 DEF InTrap
  <1>7. /\ Back(d, cpu, 0, a, <<a, "next">>, m)
        /\ \A g \in {"x0", "x1", "x2"} : d.gpr[g] = Own(a)
    <2>1. /\ cpu.sp[cpu.mode].n = 8
          /\ Frame(cpu.stk[cpu.sp[cpu.mode].of], 0, 3, a, m, "next", und)
      BY <1>4, <1>6
    <2> HIDE DEF und
    <2> QED BY <1>2, <1>5, <2>1, UndExit
  <1> HIDE DEF d
  <1>8. /\ cpu' \in Cpu /\ cpu'.mode = m /\ cpu'.pc = <<a, "next">> /\ cpu'.ns = w
        /\ cpu'.stk = cpu.stk /\ cpu'.gpr["keep"] = Own(a) /\ cpu'.gpr["x4"] = Own(a)
        /\ \A g \in {"x0", "x1", "x2"} : cpu'.gpr[g] = Own(a)
        /\ cpu'.sp["UND"].of = su /\ cpu'.sp["UND"].n = 0
        /\ cpu'.sp["USR"] = cpu.sp["USR"] /\ cpu'.sp["SVC"] = cpu.sp["SVC"]
        /\ cpu'.sp["MON"] = cpu.sp["MON"] /\ cpu'.lr["USR"] = cpu.lr["USR"]
        /\ cpu'.lr["SVC"] = cpu.lr["SVC"]
    BY <1>1, <1>4, <1>6, <1>7 DEF Back, Modes
  <1>9. cpu'.sp["UND"] = [of |-> su, n |-> 0]
    <2>1. cpu'.sp["UND"] \in Pointer
      BY <1>5, <1>8 DEF Cpu
    <2> QED BY <1>8, <2>1 DEF Pointer
  <1>10. NoTrap(w, cpu'.sp) /\ Deep(cpu', Depth)
    BY <1>3, <1>8, <1>9 DEF NoTrap, Deep
  <1>11. Works(cpu', w, a, "next") /\ Stands(cpu', w, a, Depth)
    <2>1. CASE a = main /\ m = "USR" /\ InMain(w, cpu.sp, cpu.lr, cpu.stk)
      <3>1. InMain(w, cpu'.sp, cpu'.lr, cpu'.stk)
        BY <1>8, <2>1 DEF InMain
      <3>2. m = ModeOf(a) /\ a[2] = "main" /\ cpu'.lr["USR"] = Own(a)
        BY <1>2, <2>1, <3>1 DEF ModeOf, InMain
      <3>3. Works(cpu', w, a, "next")
        BY <1>8, <2>1, <3>2 DEF Works
      <3> QED BY <1>10, <2>1, <3>1, <3>3 DEF Stands
    <2>2. CASE a = svc /\ m = "SVC" /\ InSvc(w, cpu.sp, cpu.lr, cpu.stk)
      <3>1. InSvc(w, cpu'.sp, cpu'.lr, cpu'.stk)
        BY <1>8, <2>2 DEF InSvc
      <3>2. m = ModeOf(a) /\ a[2] = "svc" /\ cpu'.lr["SVC"] = Own(a)
        BY <1>2, <2>2, <3>1 DEF ModeOf, InSvc
      <3>3. Works(cpu', w, a, "next")
        BY <1>8, <2>2, <3>2 DEF Works
      <3> QED BY <1>10, <2>2, <3>1, <3>3 DEF Stands
    <2> QED BY <1>3, <2>1, <2>2
  <1> QED BY <1>1, <1>2, <1>8, <1>11, SameWorld

\* The exit of el3_smc_vect, in the same world.
LEMMA SmcReturnKeeps ==
    ASSUME Arch = "arm", FrameInv, SmcReturn
    PROVE  FrameInv'
  <1> DEFINE w == cpu.ns
             svc == <<w, "svc">>
             smc == <<MON, "smc">>
             s3 == <<MON, "MON">>
             n == Depth
             d == Rfe(ReturnC(cpu))
  <1>1. /\ Place # "entry" /\ Running[2] = "smc" /\ buf' = buf /\ switches' = switches
        /\ cpu' = d
    BY DEF SmcReturn, At
  <1>2. /\ Works(cpu, w, Running, Place) /\ Stands(cpu, w, Running, n) /\ cpu \in Cpu
        /\ w \in World /\ cpu.sp["MON"].of = s3 /\ n \in Nat
    BY <1>1, Situation
  <1> HIDE DEF n
  <1>3. /\ Running = smc /\ InSvc(w, cpu.sp, cpu.lr, cpu.stk) /\ NoTrap(w, cpu.sp)
        /\ cpu.sp["MON"].n = n + 5
        /\ Frame(cpu.stk[s3], n, 0, svc, "SVC", "ret", smc)
    <2> HIDE DEF w
    <2> QED BY <1>1, <1>2 DEF Stands
  <1>4. /\ cpu.mode = "MON" /\ cpu.pc[1] = smc
    BY <1>2, <1>3 DEF Works, ModeOf, Running
  <1>5. /\ svc \in Activity /\ <<svc, "ret">> \in Word /\ "SVC" \in Modes
        /\ s3 \in Stack /\ "MON" \in Modes
    BY <1>2 DEF Activity, Name, Tag, Word, Modes, Stack
  <1>6. Back(d, cpu, n, svc, <<svc, "ret">>, "SVC") /\ d.gpr["x0"] = Result(cpu.pc[1])
    <2>1. /\ cpu.sp[cpu.mode].n = n + 5
          /\ Frame(cpu.stk[cpu.sp[cpu.mode].of], n, 0, svc, "SVC", "ret", smc)
      BY <1>2, <1>3, <1>4
    <2> HIDE DEF svc, smc
    <2> QED BY <1>2, <1>5, <2>1, SmcExit
  <1> HIDE DEF d
  <1>7. /\ cpu' \in Cpu /\ cpu'.mode = "SVC" /\ cpu'.pc = <<svc, "ret">> /\ cpu'.ns = w
        /\ cpu'.stk = cpu.stk /\ cpu'.gpr["keep"] = Own(svc) /\ cpu'.gpr["x4"] = Own(svc)
        /\ cpu'.gpr["x0"] = Result(smc) /\ cpu'.sp["MON"].of = s3 /\ cpu'.sp["MON"].n = n
        /\ cpu'.sp["USR"] = cpu.sp["USR"] /\ cpu'.sp["UND"] = cpu.sp["UND"]
        /\ cpu'.sp["SVC"] = cpu.sp["SVC"] /\ cpu'.lr["USR"] = cpu.lr["USR"]
        /\ cpu'.lr["SVC"] = cpu.lr["SVC"]
    BY <1>1, <1>2, <1>4, <1>6 DEF Back, Modes
  <1>8. Deep(cpu', n)
    <2>1. cpu.stk[s3] \in Seq(Word) /\ Len(cpu.stk[s3]) >= n + 0 + 5
      BY <1>2, <1>3, <1>5 DEF Cpu, Frame
    <2>2. Len(cpu.stk[s3]) >= n
      BY <1>2, <2>1
    <2> QED BY <1>7, <2>2 DEF Deep
  <1>9. InSvc(w, cpu'.sp, cpu'.lr, cpu'.stk) /\ NoTrap(w, cpu'.sp)
    BY <1>3, <1>7 DEF InSvc, NoTrap
  <1>10. Works(cpu', w, svc, "ret") /\ Stands(cpu', w, svc, n)
    <2>1. /\ cpu'.mode = ModeOf(svc) /\ svc[2] = "svc" /\ cpu'.lr["SVC"] = Own(svc)
      BY <1>2, <1>7, <1>9 DEF ModeOf, InSvc
    <2> QED BY <1>7, <1>8, <1>9, <2>1 DEF Works, Stands
  <1> QED BY <1>1, <1>2, <1>7, <1>10, SameWorld DEF n

\* el1_init and el1_start leave EL0's main to run, on stacks of its own.
LEMMA BootKeeps ==
    ASSUME Arch = "arm", FrameInv, El1Boot
    PROVE  FrameInv'
  <1> DEFINE w == cpu.ns
             main == <<w, "main">>
             s0 == <<w, "USR">>
             s1 == <<w, "SVC">>
             s3 == <<MON, "MON">>
             n == Depth
             p(m) == [of |-> <<w, m>>, n |-> IF m = "UND" THEN 0 ELSE 1]
             t0 == <<Own(main)>>
             t1 == <<Own(<<w, "boot">>)>>
             sp == [m \in Modes |-> IF m = "MON" THEN cpu.sp[m] ELSE p(m)]
             stk == [[cpu.stk EXCEPT ![s1] = t1] EXCEPT ![s0] = t0]
             lr == [cpu.lr EXCEPT !["USR"] = Own(main)]
             gpr == [g \in Gpr |-> Own(main)]
  <1>1. Starting /\ w \in World /\ cpu \in Cpu /\ cpu.sp["MON"].of = s3
    BY DEF FrameInv, El1Boot, Cpu
  <1>2. Running[1] = w /\ buf' = buf /\ switches' = switches
    BY <1>1 DEF Starting, El1Boot
  <1>3. cpu' = [cpu EXCEPT !.sp = sp, !.stk = stk, !.gpr = gpr, !.lr = lr,
                           !.mode = "USR", !.pc = <<main, "body">>]
    <2>1. DOMAIN cpu.sp = Modes
      BY <1>1 DEF Cpu
    <2>2. cpu' = [cpu EXCEPT !.sp = sp, !.stk[s1] = t1, !.stk[s0] = t0, !.gpr = gpr,
                             !.lr["USR"] = Own(main), !.mode = "USR",
                             !.pc = <<main, "body">>]
      BY <1>2, <2>1 DEF El1Boot
    <2> HIDE DEF sp, gpr, t0, t1, s0, s1, main
    <2> QED BY <1>1, <2>2 DEF Cpu
  <1>4. /\ main \in Activity /\ <<w, "boot">> \in Activity /\ <<main, "body">> \in Word
        /\ Own(main) \in Word /\ Own(<<w, "boot">>) \in Word
        /\ s0 \in Stack /\ s1 \in Stack /\ s3 \in Stack /\ <<w, "UND">> \in Stack
        /\ s0 # s1 /\ s3 # s0 /\ s3 # s1
    <2>1. main \in Activity /\ <<w, "boot">> \in Activity
      BY <1>1 DEF Activity, Name
    <2>2. /\ s0 \in Stack /\ s1 \in Stack /\ s3 \in Stack /\ <<w, "UND">> \in Stack
          /\ s0 # s1 /\ s3 # s0 /\ s3 # s1
      BY <1>1 DEF Stack
    <2>3. "body" \in Tag
      BY DEF Tag
    <2> HIDE DEF main, s0, s1, s3
    <2> QED BY <2>1, <2>2, <2>3, Words
  <1>5. /\ p("USR") \in Pointer /\ p("SVC") \in Pointer /\ p("UND") \in Pointer
        /\ p("USR") = [of |-> s0, n |-> 1] /\ p("SVC") = [of |-> s1, n |-> 1]
        /\ p("UND") = [of |-> <<w, "UND">>, n |-> 0]
        /\ t0 \in Seq(Word) /\ t1 \in Seq(Word)
        /\ Len(t0) = 1 /\ t0[1] = Own(main) /\ Len(t1) = 1
    BY <1>4 DEF Pointer
  <1> HIDE DEF p, t0, t1
  <1>6. /\ sp \in [Modes -> Pointer] /\ sp["USR"] = p("USR") /\ sp["SVC"] = p("SVC")
        /\ sp["UND"] = p("UND") /\ sp["MON"] = cpu.sp["MON"]
    BY <1>1, <1>5 DEF Cpu, Modes
  <1>7. /\ stk \in [Stack -> Seq(Word)] /\ stk[s0] = t0 /\ stk[s1] = t1
        /\ \A s \in Stack : s # s0 /\ s # s1 => stk[s] = cpu.stk[s]
    <2> HIDE DEF s0, s1
    <2> QED BY <1>1, <1>4, <1>5 DEF Cpu
  <1>8. lr \in [Modes -> Word] /\ lr["USR"] = Own(main)
    <2> HIDE DEF main
    <2> QED BY <1>1, <1>4 DEF Cpu, Modes
  <1>9. gpr \in [Gpr -> Word] /\ gpr["keep"] = Own(main) /\ gpr["x4"] = Own(main)
    BY <1>4, GprFacts
  <1> HIDE DEF sp, stk, lr, gpr
  <1>10. /\ cpu' \in Cpu /\ cpu'.sp = sp /\ cpu'.stk = stk /\ cpu'.gpr = gpr /\ cpu'.ns = w
         /\ cpu'.mode = "USR" /\ cpu'.pc = <<main, "body">> /\ cpu'.lr = lr
    BY <1>1, <1>3, <1>4, <1>6, <1>7, <1>8, <1>9 DEF Cpu, Modes
  <1>11. InMain(w, cpu'.sp, cpu'.lr, cpu'.stk) /\ NoTrap(w, cpu'.sp)
    <2>1. /\ cpu'.sp["USR"] = [of |-> s0, n |-> 1] /\ cpu'.sp["SVC"] = [of |-> s1, n |-> 1]
          /\ cpu'.sp["UND"] = [of |-> <<w, "UND">>, n |-> 0]
      BY <1>5, <1>6, <1>10
    <2>2. cpu'.stk[s0] = t0 /\ cpu'.stk[s1] = t1 /\ cpu'.lr["USR"] = Own(main)
      BY <1>7, <1>8, <1>10
    <2>3. /\ Len(cpu'.stk[s0]) >= 1 /\ Len(cpu'.stk[s1]) >= 1
          /\ cpu'.stk[s0][1] = Own(main)
      <3>1. Len(t0) >= 1 /\ Len(t1) >= 1 /\ t0[1] = Own(main)
        <4> HIDE DEF main
        <4> QED BY <1>5
      <3> HIDE DEF main
      <3> QED BY <2>2, <3>1
    <2> QED BY <2>1, <2>2, <2>3 DEF InMain, NoTrap
  <1>12. Deep(cpu', n)
    <2>1. cpu.sp["MON"].n = n /\ Len(cpu.stk[s3]) >= n
      BY <1>1 DEF Starting, OutsideMonitor, MonStack
    <2>2. cpu'.stk[s3] = cpu.stk[s3]
      BY <1>4, <1>7, <1>10
    <2> QED BY <1>6, <1>10, <2>1, <2>2 DEF Deep
  <1>13. Works(cpu', w, main, "body") /\ Stands(cpu', w, main, n)
    <2>1. cpu'.mode = ModeOf(main) /\ main[2] = "main"
      BY <1>1, <1>10 DEF ModeOf
    <2> HIDE DEF n
    <2> QED BY <1>8, <1>9, <1>10, <1>11, <1>12, <2>1 DEF Works, Stands
  <1>14. \A s \in Stack : s[1] = 1 - w => cpu'.stk[s] = cpu.stk[s]
    BY <1>1, <1>7, <1>10
  <1> QED BY <1>1, <1>2, <1>6, <1>10, <1>13, <1>14, SameWorld

----------------------------------------------------------------------------
\* r is c with the saved state b in the banks and r4 to r12, and its return state on
\* the monitor's stack, above n words.
Restores(r, c, n, b) ==
    /\ r \in Cpu /\ r.mode = "MON" /\ r.ns = c.ns
    /\ r.sp["MON"].of = <<MON, "MON">> /\ r.sp["MON"].n = n + 2
    /\ \A j \in {"USR", "SVC", "UND"} : r.sp[j] = b.sp[j] /\ r.lr[j] = b.lr[j]
    /\ r.gpr["x4"] = b.gpr["x4"] /\ r.gpr["keep"] = b.gpr["keep"]
    /\ \A s \in Stack : s # <<MON, "MON">> => r.stk[s] = c.stk[s]
    /\ Len(r.stk[<<MON, "MON">>]) = n + 2
    /\ \A i \in 1..n : r.stk[<<MON, "MON">>][i] = c.stk[<<MON, "MON">>][i]
    /\ r.stk[<<MON, "MON">>][n + 1] = b.spsr3 /\ r.stk[<<MON, "MON">>][n + 2] = b.elr3

\* monitor_switch loads what the buffer of the other world holds.
LEMMA RestoreFacts ==
    ASSUME Arch = "arm", NEW c \in Cpu, NEW n \in Nat, NEW b \in Buffer, c.mode = "MON",
           c.sp["MON"].of = <<MON, "MON">>, c.sp["MON"].n = n,
           n <= Len(c.stk[<<MON, "MON">>])
    PROVE  Restores(monitor_restore_state(c, b), c, n, b)
  <1> DEFINE s3 == <<MON, "MON">>
             sp == [m \in Modes |-> IF m = "MON" THEN c.sp[m] ELSE b.sp[m]]
             lr == [m \in Modes |-> IF m = "MON" THEN Junk ELSE b.lr[m]]
             spsr == [m \in {"SVC", "UND", "MON"} |->
                        IF m = "MON" THEN c.spsr[m] ELSE b.spsr[m]]
             gpr == [g \in Gpr |-> IF g \in DOMAIN b.gpr THEN b.gpr[g] ELSE Junk]
             e == [c EXCEPT !.sp = sp, !.lr = lr, !.spsr = spsr, !.gpr = gpr]
             words == <<b.spsr3, b.elr3>>
             r == Push(e, words)
  <1>1. /\ DOMAIN c.sp = Modes /\ DOMAIN c.lr = Modes /\ DOMAIN c.spsr = {"SVC", "UND", "MON"}
        /\ DOMAIN b.gpr = {"x4", "keep", "tmp"}
    BY DEF Cpu, Buffer
  <1>2. monitor_restore_state(c, b) = r
    BY <1>1 DEF monitor_restore_state
  <1>3. /\ sp \in [Modes -> Pointer] /\ sp["MON"] = c.sp["MON"]
        /\ \A j \in {"USR", "SVC", "UND"} : sp[j] = b.sp[j]
    BY DEF Cpu, Buffer, Modes
  <1>4. lr \in [Modes -> Word] /\ \A j \in {"USR", "SVC", "UND"} : lr[j] = b.lr[j]
    BY Words DEF Buffer, Modes
  <1>5. spsr \in [{"SVC", "UND", "MON"} -> Word]
    BY DEF Cpu, Buffer
  <1>6. /\ gpr \in [Gpr -> Word] /\ gpr["x4"] = b.gpr["x4"] /\ gpr["keep"] = b.gpr["keep"]
    BY <1>1, Words, GprFacts DEF Buffer
  <1>7. words \in Seq(Word) /\ Len(words) = 2 /\ words[1] = b.spsr3 /\ words[2] = b.elr3
    BY DEF Buffer
  <1> HIDE DEF sp, lr, spsr, gpr, words
  <1>8. /\ e \in Cpu /\ e.mode = "MON" /\ e.ns = c.ns /\ e.stk = c.stk /\ e.sp = sp
        /\ e.lr = lr /\ e.gpr = gpr
    BY <1>3, <1>4, <1>5, <1>6 DEF Cpu
  <1> HIDE DEF e
  <1>9. Pushes(r, e, n, words, 2)
    <2>1. e.sp[e.mode].n = n /\ n <= Len(e.stk[e.sp[e.mode].of])
      BY <1>3, <1>8
    <2> QED BY <1>7, <1>8, <2>1, PushFacts
  <1> HIDE DEF r
  <1>10. /\ r \in Cpu /\ r.mode = "MON" /\ r.ns = c.ns /\ r.lr = lr /\ r.gpr = gpr
         /\ r.sp["MON"].of = s3 /\ r.sp["MON"].n = n + 2
         /\ \A j \in {"USR", "SVC", "UND"} : r.sp[j] = sp[j]
         /\ \A s \in Stack : s # s3 => r.stk[s] = c.stk[s]
         /\ Len(r.stk[s3]) = n + 2
         /\ \A i \in 1..n : r.stk[s3][i] = c.stk[s3][i]
    <2> HIDE DEF s3
    <2>1. e.sp["MON"].of = s3
      BY <1>3, <1>8 DEF s3
    <2> QED BY <1>8, <1>9, <2>1 DEF Pushes, Modes
  <1>11. r.stk[s3][n + 1] = b.spsr3 /\ r.stk[s3][n + 2] = b.elr3
    <2>1. \A i \in 1..2 : r.stk[s3][n + i] = words[i]
      BY <1>3, <1>8, <1>9 DEF Pushes
    <2>2. 1 \in 1..2 /\ 2 \in 1..2
      OBVIOUS
    <2>3. r.stk[s3][n + 1] = words[1] /\ r.stk[s3][n + 2] = words[2]
      BY <2>1, <2>2, Zenon
    <2> QED BY <1>7, <2>3
  <1>12. Restores(r, c, n, b)
    BY <1>3, <1>4, <1>6, <1>10, <1>11 DEF Restores
  <1> QED BY <1>2, <1>12

\* The processor in the other world v, as the switch from the SMC handler leaves it:
\* the return state that was above n words of the monitor's stack is still there.
Switched(d, c, n, v, b) ==
    /\ d \in Cpu /\ d.mode = "SVC" /\ d.pc = b.elr3 /\ d.ns = v
    /\ d.sp["MON"].of = <<MON, "MON">> /\ d.sp["MON"].n = n + 2
    /\ \A j \in {"USR", "SVC", "UND"} : d.sp[j] = b.sp[j] /\ d.lr[j] = b.lr[j]
    /\ d.gpr["x0"] = Result(<<MON, "smc">>)
    /\ d.gpr["x4"] = b.gpr["x4"] /\ d.gpr["keep"] = b.gpr["keep"]
    /\ Len(d.stk[<<MON, "MON">>]) >= n + 2
    /\ \A s \in Stack : s # <<MON, "MON">> => d.stk[s] = c.stk[s]

\* r0 and r1 travel through the monitor's stack.
LEMMA ResultSaved ==
    ASSUME Arch = "arm", NEW c \in Cpu, NEW n \in Nat, c.mode = "MON",
           c.sp["MON"].of = <<MON, "MON">>, c.sp["MON"].n = n + 2,
           Len(c.stk[<<MON, "MON">>]) >= n + 2, c.gpr["x0"] = Result(<<MON, "smc">>)
    PROVE  LET d == Push(Pop(c, 2), <<c.gpr["x1"], c.gpr["x0"]>>)
           IN  /\ d \in Cpu /\ d.mode = "MON" /\ d.ns = c.ns /\ d.lr = c.lr
               /\ d.spsr = c.spsr /\ d.gpr = c.gpr
               /\ d.sp["MON"].of = <<MON, "MON">> /\ d.sp["MON"].n = n + 2
               /\ \A j \in {"USR", "SVC", "UND"} : d.sp[j] = c.sp[j]
               /\ \A s \in Stack : s # <<MON, "MON">> => d.stk[s] = c.stk[s]
               /\ Len(d.stk[<<MON, "MON">>]) = n + 2
               /\ d.stk[<<MON, "MON">>][n + 1] \in Word
               /\ d.stk[<<MON, "MON">>][n + 2] = Result(<<MON, "smc">>)
  <1> DEFINE s3 == <<MON, "MON">>
             p == Pop(c, 2)
             words == <<c.gpr["x1"], c.gpr["x0"]>>
             d == Push(p, words)
  <1>1. /\ words \in Seq(Word) /\ Len(words) = 2 /\ words[1] \in Word
        /\ words[2] = Result(<<MON, "smc">>)
    BY GprFacts DEF Cpu
  <1>2. Pops(p, c, n)
    BY PopFacts
  <1> HIDE DEF words, p
  <1>3. /\ p \in Cpu /\ p.mode = "MON" /\ p.ns = c.ns /\ p.lr = c.lr /\ p.spsr = c.spsr
        /\ p.gpr = c.gpr /\ p.stk = c.stk /\ p.sp["MON"].of = s3 /\ p.sp["MON"].n = n
        /\ \A j \in {"USR", "SVC", "UND"} : p.sp[j] = c.sp[j]
    BY <1>2 DEF Pops, Modes
  <1>4. Pushes(d, p, n, words, 2)
    <2>1. p.stk[s3] \in Seq(Word)
      BY <1>3 DEF Cpu, Stack
    <2>2. p.sp[p.mode].n = n /\ n <= Len(p.stk[p.sp[p.mode].of])
      BY <1>3, <2>1
    <2> QED BY <1>1, <1>3, <2>2, PushFacts
  <1> HIDE DEF d
  <1>5. /\ d \in Cpu /\ d.mode = "MON" /\ d.ns = c.ns /\ d.lr = c.lr /\ d.spsr = c.spsr
        /\ d.gpr = c.gpr /\ d.sp["MON"].of = s3 /\ d.sp["MON"].n = n + 2
        /\ \A j \in {"USR", "SVC", "UND"} : d.sp[j] = c.sp[j]
        /\ \A s \in Stack : s # s3 => d.stk[s] = c.stk[s]
        /\ Len(d.stk[s3]) = n + 2
    <2> HIDE DEF s3
    <2> QED BY <1>3, <1>4 DEF Pushes, Modes
  <1>6. d.stk[s3][n + 1] = words[1] /\ d.stk[s3][n + 2] = words[2]
    <2>1. \A i \in 1..2 : d.stk[s3][n + i] = words[i]
      BY <1>3, <1>4 DEF Pushes
    <2>2. 1 \in 1..2 /\ 2 \in 1..2
      OBVIOUS
    <2> QED BY <2>1, <2>2, Zenon
  <1> QED BY <1>1, <1>5, <1>6 DEF d, p, words

\* All else comes from the buffer; the return state is pushed again and stays there.
LEMMA SwitchFacts ==
    ASSUME Arch = "arm", NEW d \in Cpu, NEW n \in Nat, NEW v \in World, NEW b \in Buffer,
           d.mode = "MON", d.sp["MON"].of = <<MON, "MON">>, d.sp["MON"].n = n + 2,
           Len(d.stk[<<MON, "MON">>]) = n + 2, d.stk[<<MON, "MON">>][n + 1] \in Word,
           d.stk[<<MON, "MON">>][n + 2] = Result(<<MON, "smc">>), b.spsr3 = Psr("SVC")
    PROVE  LET r == monitor_restore_state(d, b)
               p == Pop(r, 2)
               e == Push(Pop(p, 2), <<Top(r, 2), Top(r, 1)>>)
           IN  Switched([e EXCEPT !.ns = v, !.gpr["x0"] = Top(p, 1), !.gpr["x1"] = Top(p, 2),
                                  !.pc = Top(e, 1), !.mode = Top(e, 2)[1][2]], d, n, v, b)
  <1> DEFINE s3 == <<MON, "MON">>
             k == n + 2
             r == monitor_restore_state(d, b)
             p == Pop(r, 2)
             q == Pop(p, 2)
             words == <<Top(r, 2), Top(r, 1)>>
             e == Push(q, words)
             x0 == Top(p, 1)
             x1 == Top(p, 2)
             pc == Top(e, 1)
             mode == Top(e, 2)[1][2]
             f == [e EXCEPT !.ns = v, !.gpr["x0"] = x0, !.gpr["x1"] = x1,
                            !.pc = pc, !.mode = mode]
  <1>1. k \in Nat /\ k + 2 \in Nat /\ k = n + 2 /\ k <= Len(d.stk[s3])
    OBVIOUS
  <1>2. Restores(r, d, k, b)
    <2> HIDE DEF k
    <2> QED BY <1>1, RestoreFacts
  <1> HIDE DEF r, k
  <1>3. /\ r \in Cpu /\ r.mode = "MON" /\ r.sp["MON"].of = s3 /\ r.sp["MON"].n = k + 2
        /\ r.stk[s3][k + 1] = b.spsr3 /\ r.stk[s3][k + 2] = b.elr3
    BY <1>2 DEF Restores
  <1>4. /\ r.stk[s3][n + 1] \in Word /\ r.stk[s3][n + 2] = Result(<<MON, "smc">>)
        /\ Len(r.stk[s3]) = k + 2
    <2>1. n + 1 \in 1..k /\ n + 2 \in 1..k
      BY <1>1
    <2>2. \A i \in 1..k : r.stk[s3][i] = d.stk[s3][i]
      BY <1>2 DEF Restores
    <2>3. r.stk[s3][n + 1] = d.stk[s3][n + 1] /\ r.stk[s3][n + 2] = d.stk[s3][n + 2]
      BY <2>1, <2>2
    <2> QED BY <1>2, <2>3 DEF Restores
  <1>5. Top(r, 1) = b.elr3 /\ Top(r, 2) = b.spsr3
    <2>1. k + 2 + 1 - 1 = k + 2 /\ k + 2 + 1 - 2 = k + 1
      BY <1>1
    <2> QED BY <1>3, <2>1 DEF Top
  <1>6. words \in Seq(Word) /\ Len(words) = 2 /\ words[1] = b.spsr3 /\ words[2] = b.elr3
    BY <1>5 DEF Buffer
  <1>7. Pops(p, r, k)
    BY <1>1, <1>3, PopFacts
  <1> HIDE DEF p, words
  <1>8. /\ p \in Cpu /\ p.mode = "MON" /\ p.gpr = r.gpr /\ p.lr = r.lr /\ p.stk = r.stk
        /\ p.sp["MON"].of = s3 /\ p.sp["MON"].n = n + 2
        /\ \A j \in {"USR", "SVC", "UND"} : p.sp[j] = r.sp[j]
    BY <1>1, <1>3, <1>7 DEF Pops, Modes
  <1>9. x0 = Result(<<MON, "smc">>) /\ x0 \in Word /\ x1 \in Word
    <2>1. n + 2 + 1 - 1 = n + 2 /\ n + 2 + 1 - 2 = n + 1
      OBVIOUS
    <2>2. Top(p, 1) = r.stk[s3][n + 2] /\ Top(p, 2) = r.stk[s3][n + 1]
      BY <1>8, <2>1 DEF Top
    <2>3. Result(<<MON, "smc">>) \in Word
      BY Words DEF Activity, Name
    <2> QED BY <1>4, <2>2, <2>3
  <1>10. Pops(q, p, n)
    BY <1>8, PopFacts
  <1> HIDE DEF q
  <1>11. /\ q \in Cpu /\ q.mode = "MON" /\ q.gpr = r.gpr /\ q.lr = r.lr /\ q.stk = r.stk
         /\ q.sp["MON"].of = s3 /\ q.sp["MON"].n = n
         /\ \A j \in {"USR", "SVC", "UND"} : q.sp[j] = r.sp[j]
    BY <1>8, <1>10 DEF Pops, Modes
  <1>12. Pushes(e, q, n, words, 2)
    <2>1. Len(r.stk[s3]) = n + 2 + 2
      BY <1>1, <1>4
    <2>2. n <= Len(r.stk[s3])
      BY <2>1
    <2>3. q.sp[q.mode].n = n /\ n <= Len(q.stk[q.sp[q.mode].of])
      BY <1>11, <2>2
    <2> QED BY <1>6, <1>11, <2>3, PushFacts
  <1> HIDE DEF e, x0, x1
  <1>13. /\ e \in Cpu /\ e.mode = "MON" /\ e.gpr = r.gpr /\ e.lr = r.lr
         /\ e.sp["MON"].of = s3 /\ e.sp["MON"].n = n + 2
         /\ \A j \in {"USR", "SVC", "UND"} : e.sp[j] = r.sp[j]
         /\ \A s \in Stack : s # s3 => e.stk[s] = r.stk[s]
         /\ Len(e.stk[s3]) = n + 2
    <2> HIDE DEF s3
    <2> QED BY <1>11, <1>12 DEF Pushes, Modes
  <1>14. e.stk[s3][n + 1] = b.spsr3 /\ e.stk[s3][n + 2] = b.elr3
    <2>1. \A i \in 1..2 : e.stk[s3][n + i] = words[i]
      BY <1>11, <1>12 DEF Pushes
    <2>2. 1 \in 1..2 /\ 2 \in 1..2
      OBVIOUS
    <2>3. e.stk[s3][n + 1] = words[1] /\ e.stk[s3][n + 2] = words[2]
      BY <2>1, <2>2, Zenon
    <2> QED BY <1>6, <2>3
  <1>15. pc = b.elr3 /\ mode = "SVC"
    <2>1. n + 2 + 1 - 1 = n + 2 /\ n + 2 + 1 - 2 = n + 1
      OBVIOUS
    <2>2. Top(e, 1) = b.elr3 /\ Top(e, 2) = Psr("SVC")
      BY <1>13, <1>14, <2>1 DEF Top
    <2>3. Psr("SVC")[1][2] = "SVC"
      BY DEF Psr
    <2> QED BY <2>2, <2>3
  <1> HIDE DEF pc, mode
  <1> DEFINE gpr == [[e.gpr EXCEPT !["x0"] = x0] EXCEPT !["x1"] = x1]
  <1>16. f = [e EXCEPT !.ns = v, !.gpr = gpr, !.pc = pc, !.mode = mode]
    BY <1>13 DEF Cpu
  <1>17. /\ gpr \in [Gpr -> Word] /\ gpr["x0"] = x0 /\ gpr["x4"] = r.gpr["x4"]
         /\ gpr["keep"] = r.gpr["keep"]
    BY <1>9, <1>13, GprFacts DEF Cpu
  <1>18. pc \in Word /\ mode \in Modes
    BY <1>15 DEF Buffer, Modes
  <1> HIDE DEF gpr, f
  <1>19. /\ f \in Cpu /\ f.mode = mode /\ f.pc = pc /\ f.ns = v /\ f.gpr = gpr
         /\ f.lr = e.lr /\ f.sp = e.sp /\ f.stk = e.stk
    BY <1>13, <1>16, <1>17, <1>18 DEF Cpu
  <1>20. Switched(f, d, n, v, b)
    <2>1. /\ \A j \in {"USR", "SVC", "UND"} : r.sp[j] = b.sp[j] /\ r.lr[j] = b.lr[j]
          /\ r.gpr["x4"] = b.gpr["x4"] /\ r.gpr["keep"] = b.gpr["keep"]
          /\ \A s \in Stack : s # s3 => r.stk[s] = d.stk[s]
      BY <1>2 DEF Restores
    <2>2. \A j \in {"USR", "SVC", "UND"} : f.sp[j] = b.sp[j] /\ f.lr[j] = b.lr[j]
      BY <1>13, <1>19, <2>1
    <2>3. \A s \in Stack : s # s3 => f.stk[s] = d.stk[s]
      <3> HIDE DEF s3
      <3> QED BY <1>13, <1>19, <2>1
    <2>4. Len(f.stk[s3]) >= n + 2
      <3> HIDE DEF s3
      <3>1. Len(f.stk[s3]) = n + 2
        BY <1>13, <1>19
      <3> QED BY <3>1
    <2>5. /\ f.gpr["x0"] = Result(<<MON, "smc">>) /\ f.gpr["x4"] = b.gpr["x4"]
          /\ f.gpr["keep"] = b.gpr["keep"]
      BY <1>9, <1>17, <1>19, <2>1
    <2> QED BY <1>13, <1>15, <1>19, <2>2, <2>3, <2>4, <2>5 DEF Switched
  <1> QED BY <1>20 DEF f, pc, mode, x0, x1, e, q, words, p, r

\* monitor_switch parks the world that made the SMC and resumes the other one, in its
\* own SMC or at its start.
LEMMA SwitchKeeps ==
    ASSUME Arch = "arm", FrameInv, SmcSwitch
    PROVE  FrameInv'
  <1> DEFINE w == cpu.ns
             v == 1 - w
             b == buf[v]
             svc == <<w, "svc">>
             smc == <<MON, "smc">>
             s3 == <<MON, "MON">>
             n == Depth
             c == ReturnC(cpu)
             d == Push(Pop(c, 2), <<c.gpr["x1"], c.gpr["x0"]>>)
             r == monitor_restore_state(d, b)
             p == Pop(r, 2)
             e == Push(Pop(p, 2), <<Top(r, 2), Top(r, 1)>>)
             f == [e EXCEPT !.ns = v, !.gpr["x0"] = Top(p, 1), !.gpr["x1"] = Top(p, 2),
                            !.pc = Top(e, 1), !.mode = Top(e, 2)[1][2]]
             save == monitor_save_state(d, Top(c, 2), Top(c, 1))
  <1>1. /\ Place # "entry" /\ Running[2] = "smc" /\ switches' = switches + 1
    BY DEF SmcSwitch, At
  <1>2. /\ Works(cpu, w, Running, Place) /\ Stands(cpu, w, Running, n) /\ cpu \in Cpu
        /\ w \in World /\ cpu.sp["MON"].of = s3 /\ n \in Nat
    BY <1>1, Situation
  <1>3. v \in World /\ v # w /\ 1 - v = w
    BY <1>2
  <1>4. /\ b \in Buffer /\ buf \in [World -> Buffer] /\ Parked(b, v, cpu.stk)
        /\ switches \in Nat
    BY <1>3 DEF FrameInv
  <1>5. Depth' = n + 2
    BY <1>1, <1>4 DEF Depth
  <1> HIDE DEF n
  <1>6. /\ Running = smc /\ InSvc(w, cpu.sp, cpu.lr, cpu.stk) /\ NoTrap(w, cpu.sp)
        /\ cpu.sp["MON"].n = n + 5
        /\ Frame(cpu.stk[s3], n, 0, svc, "SVC", "ret", smc)
    <2> HIDE DEF w
    <2> QED BY <1>1, <1>2 DEF Stands
  <1>7. /\ cpu.mode = "MON" /\ cpu.pc[1] = smc
    BY <1>2, <1>6 DEF Works, ModeOf, Running
  <1>8. Unwound(c, cpu, n + 2, svc) /\ c.gpr["x0"] = Result(smc)
    <2>1. /\ cpu.sp[cpu.mode].n = n + 0 + 5 /\ n + 0 + 2 = n + 2
          /\ Frame(cpu.stk[cpu.sp[cpu.mode].of], n, 0, svc, "SVC", "ret", smc)
      BY <1>2, <1>6, <1>7
    <2> HIDE DEF svc, smc
    <2>2. Unwound(c, cpu, n + 0 + 2, svc) /\ c.gpr["x0"] = Result(cpu.pc[1])
      BY <1>2, <2>1, ReturnFacts
    <2> QED BY <1>7, <2>1, <2>2
  <1> HIDE DEF c
  <1>9. /\ c \in Cpu /\ c.mode = "MON" /\ c.ns = w /\ c.stk = cpu.stk
        /\ c.gpr["keep"] = Own(svc) /\ c.gpr["x4"] = Own(svc)
        /\ c.sp["MON"].of = s3 /\ c.sp["MON"].n = n + 2
        /\ \A j \in {"USR", "SVC", "UND"} : c.sp[j] = cpu.sp[j] /\ c.lr[j] = cpu.lr[j]
    BY <1>2, <1>7, <1>8 DEF Unwound, Modes
  <1>10. Top(c, 1) = <<svc, "ret">> /\ Top(c, 2) = Psr("SVC") /\ Len(c.stk[s3]) >= n + 2
    <2>1. n + 2 + 1 - 1 = n + 2 /\ n + 2 + 1 - 2 = n + 1
      BY <1>2
    <2>2. /\ cpu.stk[s3][n + 1] = Psr("SVC") /\ cpu.stk[s3][n + 2] = <<svc, "ret">>
          /\ Len(cpu.stk[s3]) >= n + 0 + 5
      BY <1>6 DEF Frame
    <2>3. Top(c, 1) = <<svc, "ret">> /\ Top(c, 2) = Psr("SVC")
      BY <1>9, <2>1, <2>2 DEF Top
    <2>4. cpu.stk[s3] \in Seq(Word)
      BY <1>2 DEF Cpu, Stack
    <2>5. Len(cpu.stk[s3]) >= n + 2
      BY <1>2, <2>2, <2>4
    <2> QED BY <1>9, <2>3, <2>5
  <1>11. /\ d \in Cpu /\ d.mode = "MON" /\ d.ns = w /\ d.lr = c.lr /\ d.spsr = c.spsr
         /\ d.gpr = c.gpr /\ d.sp["MON"].of = s3 /\ d.sp["MON"].n = n + 2
         /\ \A j \in {"USR", "SVC", "UND"} : d.sp[j] = c.sp[j]
         /\ \A s \in Stack : s # s3 => d.stk[s] = c.stk[s]
         /\ Len(d.stk[s3]) = n + 2 /\ d.stk[s3][n + 1] \in Word
         /\ d.stk[s3][n + 2] = Result(smc)
    BY <1>2, <1>8, <1>9, <1>10, ResultSaved
  <1>12. cpu' = f /\ buf' = [buf EXCEPT ![w] = save]
    BY <1>11 DEF SmcSwitch, c
  <1>13. b.spsr3 = Psr("SVC")
    <2> HIDE DEF b, v
    <2> QED BY <1>4 DEF Parked, Fresh, Suspended
  <1> HIDE DEF d, b
  <1>14. Switched(f, d, n, v, b)
    <2> HIDE DEF v
    <2> QED BY <1>2, <1>3, <1>4, <1>11, <1>13, SwitchFacts
  <1> HIDE DEF f, v
  <1>15. /\ cpu' \in Cpu /\ cpu'.mode = "SVC" /\ cpu'.pc = b.elr3 /\ cpu'.ns = v
         /\ cpu'.sp["MON"].of = s3 /\ cpu'.sp["MON"].n = n + 2
         /\ \A j \in {"USR", "SVC", "UND"} : cpu'.sp[j] = b.sp[j] /\ cpu'.lr[j] = b.lr[j]
         /\ cpu'.gpr["x0"] = Result(smc) /\ cpu'.gpr["x4"] = b.gpr["x4"]
         /\ cpu'.gpr["keep"] = b.gpr["keep"] /\ Len(cpu'.stk[s3]) >= n + 2
         /\ \A s \in Stack : s # s3 => cpu'.stk[s] = d.stk[s]
    BY <1>12, <1>14 DEF Switched
  <1>16. \A s \in Stack : s[1] # MON => cpu'.stk[s] = cpu.stk[s]
    BY <1>9, <1>11, <1>15
  <1>17. save \in Buffer /\ Suspended(save, w, cpu.stk)
    <2> DEFINE sp == [m \in {"USR", "SVC", "UND"} |-> d.sp[m]]
               lr == [m \in {"USR", "SVC", "UND"} |-> d.lr[m]]
               spsr == [m \in {"SVC", "UND"} |-> d.spsr[m]]
               gpr == [g \in {"x4", "keep", "tmp"} |-> d.gpr[g]]
               spsr3 == Top(c, 2)
               elr3 == Top(c, 1)
    <2>1. /\ sp \in [{"USR", "SVC", "UND"} -> Pointer]
          /\ \A j \in {"USR", "SVC", "UND"} : sp[j] = cpu.sp[j]
      BY <1>9, <1>11 DEF Cpu, Modes
    <2>2. /\ lr \in [{"USR", "SVC", "UND"} -> Word]
          /\ \A j \in {"USR", "SVC", "UND"} : lr[j] = cpu.lr[j]
      BY <1>9, <1>11 DEF Cpu, Modes
    <2>3. spsr \in [{"SVC", "UND"} -> Word]
      BY <1>11 DEF Cpu
    <2>4. /\ gpr \in [{"x4", "keep", "tmp"} -> Word] /\ gpr["keep"] = Own(svc)
          /\ gpr["x4"] = Own(svc)
      BY <1>9, <1>11, GprFacts DEF Cpu
    <2>5. spsr3 \in Word /\ elr3 \in Word /\ spsr3 = Psr("SVC") /\ elr3 = <<svc, "ret">>
      <3>1. <<svc, "ret">> \in Word
        BY <1>2 DEF Word, Activity, Name, Tag
      <3>2. Psr("SVC") \in Word
        BY Words DEF Modes
      <3> QED BY <1>10, <3>1, <3>2
    <2>6. save = [sp |-> sp, lr |-> lr, spsr |-> spsr, spsr3 |-> spsr3, elr3 |-> elr3,
                  gpr |-> gpr]
      BY DEF monitor_save_state
    <2> HIDE DEF save, sp, lr, spsr, gpr, spsr3, elr3
    <2>7. /\ save \in Buffer /\ save.sp = sp /\ save.lr = lr /\ save.gpr = gpr
          /\ save.spsr3 = spsr3 /\ save.elr3 = elr3
      BY <2>1, <2>2, <2>3, <2>4, <2>5, <2>6 DEF Buffer
    <2>8. InSvc(w, save.sp, save.lr, cpu.stk) /\ NoTrap(w, save.sp)
      BY <1>6, <2>1, <2>2, <2>7 DEF InSvc, NoTrap
    <2> QED BY <2>4, <2>5, <2>7, <2>8 DEF Suspended
  <1> HIDE DEF save
  <1>18. buf' \in [World -> Buffer] /\ buf'[w] = save /\ switches' \in Nat
    BY <1>1, <1>2, <1>4, <1>12, <1>17
  <1>19. Parked(buf[1 - cpu.ns], 1 - cpu.ns, cpu.stk)'
    <2>1. Parked(save, w, cpu'.stk)
      <3>1. /\ Parked(save, w, cpu.stk)
            /\ \A s \in Stack : s[1] = w => cpu'.stk[s] = cpu.stk[s]
        BY <1>2, <1>16, <1>17 DEF Parked
      <3> HIDE DEF w
      <3> QED BY <1>2, <3>1, ParkedKept
    <2> QED BY <1>3, <1>15, <1>18, <2>1
  <1>20. CASE Fresh(b, v)
    <2>1. Running' = <<v, "boot">> /\ Place' = "entry"
      BY <1>15, <1>20 DEF Fresh, Running, Place
    <2>2. Starting'
      BY <1>5, <1>15, <1>20, <2>1 DEF Fresh, Starting, OutsideMonitor, MonStack
    <2> QED BY <1>15, <1>18, <1>19, <2>1, <2>2 DEF FrameInv
  <1>21. CASE Suspended(b, v, cpu.stk)
    <2> DEFINE a == <<v, "svc">>
    <2>1. /\ cpu'.stk[<<v, "SVC">>] = cpu.stk[<<v, "SVC">>]
          /\ cpu'.stk[<<v, "USR">>] = cpu.stk[<<v, "USR">>]
      BY <1>3, <1>16 DEF Stack
    <2>2. /\ cpu'.pc = <<a, "ret">> /\ cpu'.gpr["keep"] = Own(a) /\ cpu'.gpr["x4"] = Own(a)
      BY <1>15, <1>21 DEF Suspended
    <2>3. InSvc(v, cpu'.sp, cpu'.lr, cpu'.stk) /\ NoTrap(v, cpu'.sp)
      BY <1>15, <1>21, <2>1 DEF Suspended, InSvc, NoTrap
    <2>4. /\ cpu'.mode = ModeOf(a) /\ a[2] = "svc" /\ cpu'.lr["SVC"] = Own(a)
      BY <1>3, <1>15, <2>3 DEF ModeOf, InSvc
    <2>5. Works(cpu', v, a, "ret") /\ Stands(cpu', v, a, n + 2)
      BY <1>15, <2>2, <2>3, <2>4 DEF Works, Stands, Deep
    <2>6. Active' /\ Place' # "entry"
      BY <1>5, <2>5, IsActive
    <2> QED BY <1>15, <1>18, <1>19, <2>6 DEF FrameInv
  <1> QED BY <1>4, <1>20, <1>21 DEF Parked

----------------------------------------------------------------------------
\* EL3 starts the secure kernel; the nonsecure one waits in its buffer.
LEMMA Start ==
    ASSUME Arch = "arm", Init
    PROVE  FrameInv
  <1> DEFINE b == el3_monitor_init(SECURE)
             s3 == <<MON, "MON">>
             entry == <<<<SECURE, "boot">>, "entry">>
             c == monitor_restore_state(Reset, b)
             words == <<Psr("SVC"), entry>>
             e == Push(c, words)
  <1>1. s3 \in Stack /\ [of |-> s3, n |-> 0] \in Pointer /\ [of |-> s3, n |-> 1] \in Pointer
    BY DEF Pointer, Stack
  <1>2. /\ \A w \in World : <<<<w, "boot">>, "entry">> \in Word
        /\ entry \in Word /\ Psr("SVC") \in Word /\ "SVC" \in Modes
    BY Words DEF Word, Activity, Name, Tag, Modes
  <1>3. \A w \in World : el3_monitor_init(w) \in Buffer /\ Fresh(el3_monitor_init(w), w)
    <2> SUFFICES ASSUME NEW w \in World
                 PROVE  el3_monitor_init(w) \in Buffer /\ Fresh(el3_monitor_init(w), w)
      OBVIOUS
    <2> DEFINE sp == [m \in {"USR", "SVC", "UND"} |-> [of |-> s3, n |-> 0]]
               lr == [m \in {"USR", "SVC", "UND"} |-> Junk]
               spsr == [m \in {"SVC", "UND"} |-> Junk]
               gpr == [x4 |-> Syscntl, keep |-> Junk, tmp |-> Junk]
    <2>1. sp \in [{"USR", "SVC", "UND"} -> Pointer]
      BY <1>1
    <2>2. lr \in [{"USR", "SVC", "UND"} -> Word] /\ spsr \in [{"SVC", "UND"} -> Word]
      BY Words
    <2>3. gpr \in [{"x4", "keep", "tmp"} -> Word] /\ gpr["x4"] = Syscntl
      BY Words
    <2>4. el3_monitor_init(w) = [sp |-> sp, lr |-> lr, spsr |-> spsr, spsr3 |-> Psr("SVC"),
                                 elr3 |-> <<<<w, "boot">>, "entry">>, gpr |-> gpr]
      BY DEF el3_monitor_init
    <2> HIDE DEF sp, lr, spsr, gpr
    <2> QED BY <1>2, <2>1, <2>2, <2>3, <2>4 DEF Buffer, Fresh
  <1>4. /\ Reset \in Cpu /\ Reset.mode = "MON" /\ Reset.ns = SECURE
        /\ Reset.sp["MON"].of = s3 /\ Reset.sp["MON"].n = 1 /\ 1 <= Len(Reset.stk[s3])
    <2> DEFINE g == [x \in Gpr |-> Junk]
               lr == [m \in Modes |-> Junk]
               spsr == [m \in {"SVC", "UND", "MON"} |-> Junk]
               sp == [m \in Modes |-> [of |-> s3, n |-> IF m = "MON" THEN 1 ELSE 0]]
               stk == [s \in Stack |->
                         IF s[1] = MON THEN <<Own(<<MON, "start">>)>> ELSE <<>>]
               pc == <<<<MON, "start">>, "body">>
    <2>1. /\ g \in [Gpr -> Word] /\ lr \in [Modes -> Word]
          /\ spsr \in [{"SVC", "UND", "MON"} -> Word]
      BY Words
    <2>2. sp \in [Modes -> Pointer] /\ sp["MON"] = [of |-> s3, n |-> 1]
      BY <1>1 DEF Pointer, Modes
    <2>3. stk \in [Stack -> Seq(Word)] /\ 1 <= Len(stk[s3])
      <3>1. Own(<<MON, "start">>) \in Word
        BY Words DEF Activity, Name
      <3>2. <<Own(<<MON, "start">>)>> \in Seq(Word) /\ <<>> \in Seq(Word)
        BY <3>1
      <3>3. stk[s3] = <<Own(<<MON, "start">>)>>
        BY <1>1
      <3> QED BY <3>2, <3>3
    <2>4. pc \in Word
      BY DEF Word, Activity, Name, Tag
    <2>5. Reset = [mode |-> "MON", pc |-> pc, ns |-> SECURE, gpr |-> g, lr |-> lr,
                   spsr |-> spsr, sp |-> sp, stk |-> stk]
      BY DEF Reset, Stack, Modes
    <2> HIDE DEF g, lr, sp, spsr, stk, pc
    <2> QED BY <2>1, <2>2, <2>3, <2>4, <2>5 DEF Cpu, Modes
  <1>5. Restores(c, Reset, 1, b)
    <2>1. b \in Buffer
      BY <1>3
    <2> HIDE DEF b
    <2> QED BY <1>4, <2>1, RestoreFacts
  <1>6. b.gpr["x4"] = Syscntl
    BY <1>3 DEF Fresh
  <1> HIDE DEF c, b
  <1>7. /\ c \in Cpu /\ c.mode = "MON" /\ c.ns = SECURE /\ c.sp["MON"].of = s3
        /\ c.sp["MON"].n = 3 /\ c.gpr["x4"] = Syscntl /\ Len(c.stk[s3]) = 3
    BY <1>4, <1>5, <1>6 DEF Restores
  <1>8. words \in Seq(Word) /\ Len(words) = 2 /\ words[1] = Psr("SVC") /\ words[2] = entry
    BY <1>2
  <1> HIDE DEF words
  <1>9. Pushes(e, c, 3, words, 2)
    <2>1. c.sp[c.mode].n = 3 /\ 3 <= Len(c.stk[c.sp[c.mode].of])
      BY <1>7
    <2> QED BY <1>7, <1>8, <2>1, PushFacts
  <1> HIDE DEF e
  <1>10. /\ e \in Cpu /\ e.mode = "MON" /\ e.ns = SECURE /\ e.gpr = c.gpr
         /\ e.sp["MON"].of = s3 /\ e.sp["MON"].n = 3 + 2 /\ Len(e.stk[s3]) = 5
    BY <1>7, <1>9 DEF Pushes
  <1>11. e.stk[s3][3 + 1] = Psr("SVC") /\ e.stk[s3][3 + 2] = entry
    <2>1. \A i \in 1..2 : e.stk[s3][3 + i] = words[i]
      BY <1>7, <1>9 DEF Pushes
    <2>2. e.stk[s3][3 + 1] = words[1] /\ e.stk[s3][3 + 2] = words[2]
      BY <2>1
    <2> QED BY <1>8, <2>2
  <1>12. Resumes(Rfe(e), e, 3, entry, "SVC")
    <2>1. /\ e.sp[e.mode].n = 3 + 2 /\ e.stk[e.sp[e.mode].of][3 + 1] = Psr("SVC")
          /\ e.stk[e.sp[e.mode].of][3 + 2] = entry
      BY <1>10, <1>11
    <2> HIDE DEF entry
    <2> QED BY <1>2, <1>10, <2>1, RfeFacts
  <1>13. cpu = Rfe(e) /\ buf = [w \in World |-> el3_monitor_init(w)] /\ switches = 0
    BY DEF Init, e, c, b, words
  <1>14. /\ cpu \in Cpu /\ cpu.mode = "SVC" /\ cpu.pc = entry /\ cpu.ns = SECURE
         /\ cpu.sp["MON"].of = s3 /\ cpu.sp["MON"].n = 3 /\ Len(cpu.stk[s3]) = 5
         /\ cpu.gpr["x4"] = Syscntl
    BY <1>7, <1>10, <1>12, <1>13 DEF Resumes
  <1>15. Running = <<SECURE, "boot">> /\ Place = "entry"
    BY <1>14 DEF Running, Place
  <1>16. Starting
    <2>1. Depth = 3
      BY <1>13 DEF Depth
    <2> QED BY <1>14, <1>15, <2>1 DEF Starting, OutsideMonitor, MonStack
  <1>17. /\ buf \in [World -> Buffer] /\ switches \in Nat
         /\ Parked(buf[1 - cpu.ns], 1 - cpu.ns, cpu.stk)
    BY <1>3, <1>13, <1>14 DEF Parked
  <1> QED BY <1>14, <1>15, <1>16, <1>17 DEF FrameInv

\* A stuttering step preserves the invariant.
LEMMA Unchanged ==
    ASSUME FrameInv, UNCHANGED vecvars
    PROVE  FrameInv'
  BY DEF FrameInv, vecvars, Place, Running, Starting, Active, Depth, OutsideMonitor,
         MonStack, KeptOf, ResultDelivered, TrapRestoresSaved

\* The invariant is inductive: every frame and every state buffer of the ARM vectors
\* holds what its owner is resumed with, whatever MaxSwitches.
THEOREM ArmFramesKept ==
    ASSUME Arch = "arm"
    PROVE  Spec => []FrameInv
  <1>1. Init => FrameInv
    BY Start
  <1>2. FrameInv /\ [Next]_vecvars => FrameInv'
    BY BootKeeps, SvcKeeps, SvcReturnKeeps, UndKeeps, UndReturnKeeps, SmcKeeps,
       SmcReturnKeeps, SwitchKeeps, Unchanged DEF Next
  <1> QED BY <1>1, <1>2, PTL DEF Spec

\* On ARM, whatever is resumed, by whatever chain of returns, nested exceptions and
\* world switches, has its own mode, callee-saved registers, banked link register and
\* stack frame.
THEOREM ArmContextIsOwn ==
    ASSUME Arch = "arm"
    PROVE  Spec => []OwnContext
  <1>1. FrameInv => OwnContext
    <2> SUFFICES ASSUME FrameInv, Place # "entry"
                 PROVE  /\ cpu.mode = ModeOf(Running) /\ Running[1] \in {MON, cpu.ns}
                        /\ KeptOf(Running)
                        /\ cpu.sp[cpu.mode].n > 0 /\ Top(cpu, 1) = Own(Running)
      BY DEF OwnContext
    <2> DEFINE w == cpu.ns
               n == Depth
    <2>1. /\ Works(cpu, w, Running, Place) /\ Stands(cpu, w, Running, n) /\ cpu \in Cpu
          /\ w \in World /\ cpu.sp["MON"].of = <<MON, "MON">> /\ n \in Nat
      BY Situation
    <2>2. KeptOf(Running)
      BY <2>1, GprFacts DEF Works, KeptOf
    <2> HIDE DEF n
    <2>3. CASE Running = <<w, "main">>
      <3>1. cpu.mode = "USR" /\ InMain(w, cpu.sp, cpu.lr, cpu.stk)
        <4> HIDE DEF w
        <4> QED BY <2>1, <2>3 DEF Works, Stands, ModeOf
      <3>2. cpu.sp["USR"] = [of |-> <<w, "USR">>, n |-> 1]
            /\ cpu.stk[<<w, "USR">>][1] = Own(Running)
        BY <2>3, <3>1 DEF InMain
      <3> QED BY <2>1, <2>2, <2>3, <3>1, <3>2 DEF Works, Top
    <2>4. CASE Running = <<w, "svc">>
      <3>1. cpu.mode = "SVC" /\ InSvc(w, cpu.sp, cpu.lr, cpu.stk)
        BY <2>1, <2>4 DEF Works, Stands, ModeOf
      <3>2. /\ cpu.sp["SVC"] = [of |-> <<w, "SVC">>, n |-> 8]
            /\ Frame(cpu.stk[<<w, "SVC">>], 1, 2, <<w, "main">>, "USR", "ret", Running)
        BY <2>4, <3>1 DEF InSvc
      <3>3. cpu.stk[<<w, "SVC">>][1 + 2 + 5] = Own(Running)
        BY <3>2 DEF Frame
      <3> QED BY <2>1, <2>2, <2>4, <3>1, <3>2, <3>3 DEF Works, Top
    <2>5. CASE Running = <<w, "und">>
      <3>1. /\ cpu.mode = "UND"
            /\ \E a, m : InTrap(w, cpu.sp, cpu.stk, a, m)
        BY <2>1, <2>5 DEF Works, Stands, ModeOf
      <3>2. PICK a, m : InTrap(w, cpu.sp, cpu.stk, a, m)
        BY <3>1
      <3>3. /\ cpu.sp["UND"] = [of |-> <<w, "UND">>, n |-> 8]
            /\ Frame(cpu.stk[<<w, "UND">>], 0, 3, a, m, "next", Running)
        BY <2>5, <3>2 DEF InTrap
      <3>4. cpu.stk[<<w, "UND">>][0 + 3 + 5] = Own(Running)
        BY <3>3 DEF Frame
      <3> QED BY <2>1, <2>2, <2>5, <3>1, <3>3, <3>4 DEF Works, Top
    <2>6. CASE Running = <<MON, "smc">>
      <3>1. /\ cpu.mode = "MON" /\ cpu.sp["MON"].n = n + 5
            /\ Frame(cpu.stk[<<MON, "MON">>], n, 0, <<w, "svc">>, "SVC", "ret", Running)
        BY <2>1, <2>6 DEF Works, Stands, ModeOf
      <3>2. cpu.stk[<<MON, "MON">>][n + 0 + 5] = Own(Running)
        BY <3>1 DEF Frame
      <3>3. n + 5 > 0 /\ n + 5 + 1 - 1 = n + 0 + 5
        BY <2>1
      <3>4. Top(cpu, 1) = Own(Running)
        BY <2>1, <3>1, <3>2, <3>3 DEF Top
      <3> QED BY <2>1, <2>2, <2>6, <3>1, <3>3, <3>4 DEF Works
    <2> QED BY <2>1, <2>3, <2>4, <2>5, <2>6 DEF Stands
  <1> QED BY <1>1, ArmFramesKept, PTL

\* On ARM an SVC returns the result of el1_handle_svc(), an SMC that of
\* el3_handle_smc(), across world switches too.
THEOREM ArmResultIsDelivered ==
    ASSUME Arch = "arm"
    PROVE  Spec => []ResultDelivered
  <1>1. FrameInv => ResultDelivered
    BY DEF FrameInv, Active, ResultDelivered
  <1> QED BY <1>1, ArmFramesKept, PTL

\* On ARM both kernels start in SVC mode with the control block's address in r4, the
\* nonsecure one after any run of the secure world.
THEOREM ArmKernelsGetSyscntl ==
    ASSUME Arch = "arm"
    PROVE  Spec => []BootHandover
  <1>1. FrameInv => BootHandover
    BY DEF FrameInv, Cpu, Starting, BootHandover, ModeOf
  <1> QED BY <1>1, ArmFramesKept, PTL

\* On ARM the monitor's stack is two words deeper after every world switch, and no
\* vector moves it otherwise.
THEOREM ArmMonitorStackGrows ==
    ASSUME Arch = "arm"
    PROVE  Spec => []MonitorStack
  <1>1. FrameInv => MonitorStack
    <2> SUFFICES ASSUME FrameInv, Running[1] # MON
                 PROVE  cpu.sp["MON"].n = Depth
      BY DEF MonitorStack, ModeOf, Depth
    <2>1. CASE Place = "entry"
      BY <2>1 DEF FrameInv, Starting, OutsideMonitor
    <2>2. CASE Place # "entry"
      BY <2>2, Situation DEF Stands, Deep
    <2> QED BY <2>1, <2>2
  <1> QED BY <1>1, ArmFramesKept, PTL

\* On ARM an undefined instruction that is handled gives the interrupted code back
\* r0 to r3, at EL0 and in an SVC handler.
THEOREM ArmTrapRestoresSaved ==
    ASSUME Arch = "arm"
    PROVE  Spec => []TrapRestoresSaved
  <1>1. FrameInv => TrapRestoresSaved
    BY DEF FrameInv, Active, TrapRestoresSaved
  <1> QED BY <1>1, ArmFramesKept, PTL

\* On ARM USR mode runs with the stacks of SVC and UND mode where el1_start() left
\* them: no vector and no world switch leaks a word of them, unlike the monitor's.
THEOREM ArmKernelStacksAreKept ==
    ASSUME Arch = "arm"
    PROVE  Spec => []KernelStacks
  <1>1. FrameInv => KernelStacks
    <2> SUFFICES ASSUME FrameInv, Running[2] = "main"
                 PROVE  /\ cpu.sp["SVC"] = [of |-> <<Running[1], "SVC">>, n |-> 1]
                        /\ cpu.sp["UND"] = [of |-> <<Running[1], "UND">>, n |-> 0]
      BY DEF KernelStacks, KernelBase
    <2>1. Place # "entry"
      BY DEF FrameInv, Starting
    <2>2. Active
      BY <2>1 DEF FrameInv
    <2>3. /\ Running[1] = cpu.ns
          /\ InMain(cpu.ns, cpu.sp, cpu.lr, cpu.stk) /\ NoTrap(cpu.ns, cpu.sp)
      BY <2>2 DEF Active
    <2> QED BY <2>3 DEF InMain, NoTrap
  <1> QED BY <1>1, ArmFramesKept, PTL
=============================================================================
