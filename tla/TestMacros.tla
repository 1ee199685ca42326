----------------------------- MODULE TestMacros -----------------------------
(***************************************************************************)
(* The language the test functions are written in: the macros of           *)
(* tztest/tztest_internal.h and the SVC_/SMC_ register macros.  A test     *)
(* function is a straight line of such calls, so it is modelled as a       *)
(* sequence of steps that TestInterpreter executes.                        *)
(***************************************************************************)
EXTENDS Interop

\* Exception classes (common/exception.h) and the instructions that raise them.
ExcpClass == {"none", "UNKNOWN", "WFI_WFE", "SIMD", "SYSINSN"}
Insn      == {"none", "smc", "wfe", "wfi", "fp", "mon_reg", "mrs_cpacr",
              "mrs_sctlr"}

\* A step.  add/del are the bits a SET_REG ORs in and masks out of the value
\* its GET_REG saved; to/ec are what a verdict expects.
ScriptStep ==
    [op   : {"msg", "log", "reset", "run", "get", "set", "noop", "verdict",
             "cpsr", "monitor"},
     key  : RegKey, lvl : {1, 3}, add : SUBSET RegBits, del : SUBSET RegBits,
     insn : Insn, to : Level, ec : ExcpClass]

Blank == [op |-> "msg", key |-> "SCR", lvl |-> 3, add |-> {}, del |-> {},
          insn |-> "none", to |-> 0, ec |-> "none"]

TEST_MSG == Blank
TEST_ENABLE_EXCP_LOG == [Blank EXCEPT !.op = "log"]
TEST_EXCP_RESET == [Blank EXCEPT !.op = "reset"]

GET_REG(key, lvl) == [Blank EXCEPT !.op = "get", !.key = key, !.lvl = lvl]
SET_REG(key, lvl, add, del) ==
    [Blank EXCEPT !.op = "set", !.key = key, !.lvl = lvl,
                  !.add = add, !.del = del]

Execute(insn) == [Blank EXCEPT !.op = "run", !.insn = insn]
SMC_NOOP      == [Blank EXCEPT !.op = "noop"]

\* TEST_CONDITION over the exception log: taken at `to` with class `ec`,
\* or, for ec = "none", not taken.
ExcpVerdict(ec, to) == [Blank EXCEPT !.op = "verdict", !.ec = ec, !.to = to]

\* TEST_FUNCTION(WRITE_CPSR(cpsr | bit), ...) followed by the restoring write:
\* the write must stick (add = {bit}) or must not (del = {bit}).
CpsrWriteSticks(bit)  == [Blank EXCEPT !.op = "cpsr", !.add = {bit}]
CpsrWriteBlocked(bit) == [Blank EXCEPT !.op = "cpsr", !.del = {bit}]

\* TEST_CONDITION over the CPSR that monitor mode was entered with.
MonitorCpsr == [Blank EXCEPT !.op = "monitor"]

TEST_EXCEPTION(fn, ec, to) ==
    <<TEST_ENABLE_EXCP_LOG, fn, ExcpVerdict(ec, to), TEST_EXCP_RESET>>
TEST_NO_EXCEPTION(fn) ==
    <<TEST_ENABLE_EXCP_LOG, fn, ExcpVerdict("none", 0), TEST_EXCP_RESET>>
TEST_EL1_EXCEPTION(fn, ec) == TEST_EXCEPTION(fn, ec, 1)
TEST_EL3_EXCEPTION(fn, ec) == TEST_EXCEPTION(fn, ec, 3)

\* A TEST_MSG and the check it announces.
Check(check) == <<TEST_MSG>> \o check
=============================================================================
