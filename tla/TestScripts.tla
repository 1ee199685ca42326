---------------------------- MODULE TestScripts ----------------------------
(***************************************************************************)
(* The test functions under tztest/ and the test table of tztest/tztest.c, *)
(* for both architectures.  Each function is the sequence of macro calls   *)
(* its body makes, in order, in the language of TestMacros.                *)
(***************************************************************************)
EXTENDS TestMacros, SequencesExt

Fpen == {"FPEN0", "FPEN1"}              \* CPACR_FPEN(3)

----------------------------------------------------------------------------
\* tztest/el0/tztest_el0.c

el0_check_smc ==
    <<TEST_MSG>> \o Check(TEST_EL1_EXCEPTION(Execute("smc"), "UNKNOWN"))

\* n accesses to registers only the monitor owns, each of which must trap.
el0_check_register_access(n) ==
    <<TEST_MSG>> \o
    FlattenSeq([i \in 1 .. n |->
        Check(TEST_EL1_EXCEPTION(Execute("mon_reg"), "UNKNOWN"))])

\* Faulty variant of el0_check_cpacr_trap: CPTR_EL3 is not restored.
el0_check_cpacr_trap_NoRestore ==
    <<TEST_MSG, GET_REG("CPTR_EL3", 3), SET_REG("CPTR_EL3", 3, {"TCPAC"}, {})>>
    \o Check(TEST_EL3_EXCEPTION(GET_REG("CPACR", 1), "SYSINSN"))
    \o Check(TEST_EL3_EXCEPTION(SET_REG("CPACR", 1, {}, {}), "SYSINSN"))

\* SVC_*_REG from EL0 and SMC_*_REG / direct accesses from EL1 differ only in
\* the route TestInterpreter takes for a step, so EL1 runs the same script.
el0_check_cpacr_trap ==
    <<TEST_MSG, GET_REG("CPTR_EL3", 3), SET_REG("CPTR_EL3", 3, {"TCPAC"}, {})>>
    \o Check(TEST_EL3_EXCEPTION(GET_REG("CPACR", 1), "SYSINSN"))
    \o Check(TEST_EL3_EXCEPTION(SET_REG("CPACR", 1, {}, {}), "SYSINSN"))
    \o <<SET_REG("CPTR_EL3", 3, {}, {})>>

\* Faulty variant of FpCheck: the verdict is printed while FP is disabled.
FpCheck_JudgesFirst(disable, enable, to) ==
    <<TEST_MSG>> \o disable
    \o <<TEST_ENABLE_EXCP_LOG, Execute("fp"), ExcpVerdict("SIMD", to)>>
    \o enable \o <<TEST_EXCP_RESET>>

\* Faulty variant of FpCheck: the log is armed after the instruction.
FpCheck_ArmsLate(disable, enable, to) ==
    <<TEST_MSG>> \o disable
    \o <<Execute("fp"), TEST_ENABLE_EXCP_LOG>> \o enable
    \o <<ExcpVerdict("SIMD", to), TEST_EXCP_RESET>>

\* An open-coded floating-point check: disable, run with the log armed,
\* re-enable so that the verdict can print, judge, reset.
FpCheck(disable, enable, to) ==
    <<TEST_MSG>> \o disable
    \o <<TEST_ENABLE_EXCP_LOG, Execute("fp")>> \o enable
    \o <<ExcpVerdict("SIMD", to), TEST_EXCP_RESET>>

CpacrBack == <<SET_REG("CPACR", 1, {}, {})>>
CptrBack  == <<SET_REG("CPTR_EL3", 3, {}, {})>>
CpacrOff(bits) == <<SET_REG("CPACR", 1, {}, bits)>>
CptrTrap  == <<SET_REG("CPTR_EL3", 3, {"TFP"}, {})>>

FpEnabled ==
    <<TEST_MSG, GET_REG("CPTR_EL3", 3), GET_REG("CPACR", 1), TEST_MSG,
      SET_REG("CPACR", 1, Fpen, {}), SET_REG("CPTR_EL3", 3, {}, {"TFP"})>>
    \o TEST_NO_EXCEPTION(Execute("fp"))

FpMonitorTraps ==
    FpCheck(CpacrOff(Fpen) \o CptrTrap, CpacrBack \o CptrBack, 1)
    \o FpCheck(CptrTrap, CptrBack, 3) \o CpacrBack \o CptrBack

el0_check_fp_trap ==
    FpEnabled
    \o FpCheck(CpacrOff(Fpen), CpacrBack, 1)
    \o FpCheck(CpacrOff({"FPEN1"}), CpacrBack, 1)
    \o FpCheck(CpacrOff({"FPEN0"}), CpacrBack, 1)
    \o FpMonitorTraps

WfxEl0(insn, nT, T) ==
    <<SET_REG("SCTLR", 1, {}, {nT})>>
    \o Check(TEST_EL1_EXCEPTION(Execute(insn), "WFI_WFE"))
    \o <<SET_REG("SCR", 3, {T}, {})>>
    \o Check(TEST_EL1_EXCEPTION(Execute(insn), "WFI_WFE"))
    \o <<SET_REG("SCTLR", 1, {nT}, {})>>
    \o Check(TEST_EL3_EXCEPTION(Execute(insn), "WFI_WFE"))

el0_check_wfx_trap ==
    <<TEST_MSG, GET_REG("SCR", 3), GET_REG("SCTLR", 1)>>
    \o WfxEl0("wfe", "nTWE", "TWE")
    \o <<SET_REG("SCR", 3, {}, {})>>
    \o WfxEl0("wfi", "nTWI", "TWI")
    \o <<SET_REG("SCTLR", 1, {}, {}), SET_REG("SCR", 3, {}, {})>>

----------------------------------------------------------------------------
\* tztest/el1/tztest_el1.c, el1/nonsecure, el1/secure and el3

\* Faulty variant of el1_check_smc: SCR is not restored.
el1_check_smc_NoRestore ==
    <<TEST_MSG, GET_REG("SCR", 3), SET_REG("SCR", 3, {"SMD"}, {})>>
    \o Check(TEST_NO_EXCEPTION(SMC_NOOP))

el1_check_smc ==
    <<TEST_MSG, GET_REG("SCR", 3), SET_REG("SCR", 3, {"SMD"}, {})>>
    \o Check(TEST_NO_EXCEPTION(SMC_NOOP))
    \o <<SET_REG("SCR", 3, {}, {})>>

el1_check_cpacr_trap == el0_check_cpacr_trap

el1_check_wfx_trap ==
    <<TEST_MSG, GET_REG("SCR", 3), GET_REG("SCTLR", 1),
      SET_REG("SCTLR", 1, {}, {"nTWE"}), SET_REG("SCR", 3, {}, {"TWE"})>>
    \o Check(TEST_NO_EXCEPTION(Execute("wfe")))
    \o <<SET_REG("SCR", 3, {"TWE"}, {})>>
    \o Check(TEST_EL3_EXCEPTION(Execute("wfe"), "WFI_WFE"))
    \o <<SET_REG("SCTLR", 1, {"nTWE"}, {})>>
    \o Check(TEST_EL3_EXCEPTION(Execute("wfe"), "WFI_WFE"))
    \o <<SET_REG("SCR", 3, {"TWI"}, {})>>
    \o Check(TEST_EL3_EXCEPTION(Execute("wfi"), "WFI_WFE"))
    \o <<SET_REG("SCTLR", 1, {"nTWE"}, {})>>
    \o Check(TEST_EL3_EXCEPTION(Execute("wfi"), "WFI_WFE"))
    \o <<SET_REG("SCTLR", 1, {}, {}), SET_REG("SCR", 3, {}, {})>>

el1_check_fp_trap ==
    FpEnabled
    \o FpCheck(CpacrOff(Fpen), CpacrBack, 1)
    \o <<TEST_MSG>> \o CpacrOff({"FPEN1"}) \o TEST_NO_EXCEPTION(Execute("fp"))
    \o FpCheck(CpacrOff({"FPEN0"}), CpacrBack, 1)
    \o FpMonitorTraps

\* An access that must be refused, or must not.
Access(traps, fn) ==
    Check(IF traps THEN TEST_EL1_EXCEPTION(fn, "UNKNOWN")
                   ELSE TEST_NO_EXCEPTION(fn))

\* The accesses of the two el1_check_register_access(): SCR, SDER and CPTR_EL3
\* on AArch64; SCR, SDER, MVBAR and NSACR on ARM.  Only the expectation differs.
RegAccess(arch, traps) ==
    LET key(k)  == Access(traps, GET_REG(k, 1))
                   \o Access(traps, SET_REG(k, 1, {}, {}))
        other   == Access(traps, Execute("mon_reg"))
    IN  <<TEST_MSG>> \o key("SCR") \o other \o other
        \o (IF arch = "aarch64" THEN key("CPTR_EL3")
            ELSE other \o other \o other)

el1_check_register_access(arch, w) ==
    RegAccess(arch, arch = "aarch64" \/ w = NONSECURE)

\* Faulty variant of check_mask_bits: SCR is restored only at the end.
check_mask_bits_NoRestore ==
    <<GET_REG("SCR", 3), TEST_MSG, SET_REG("SCR", 3, {"AW", "FW"}, {}),
      TEST_MSG, CpsrWriteSticks("FW"), TEST_MSG, CpsrWriteSticks("AW"),
      TEST_MSG, CpsrWriteBlocked("FW"), TEST_MSG, CpsrWriteBlocked("AW"),
      SET_REG("SCR", 3, {}, {})>>

check_mask_bits ==
    <<GET_REG("SCR", 3), TEST_MSG, SET_REG("SCR", 3, {"AW", "FW"}, {}),
      TEST_MSG, CpsrWriteSticks("FW"), TEST_MSG, CpsrWriteSticks("AW"),
      SET_REG("SCR", 3, {}, {}),
      TEST_MSG, CpsrWriteBlocked("FW"), TEST_MSG, CpsrWriteBlocked("AW")>>

el3_check_smc ==
    <<TEST_MSG>> \o FlattenSeq([i \in 1 .. 4 |-> <<TEST_MSG, MonitorCpsr>>])

----------------------------------------------------------------------------
\* The test_func[] registrations and the tztest[] table.

TZTEST_SMC        == 1
TZTEST_REG_ACCESS == 2
TZTEST_CPACR_TRAP == 3
TZTEST_WFX_TRAP   == 4
TZTEST_FP_TRAP    == 5
TZTEST_MASK_BITS  == 6

TEST(f, e, s) == [fid |-> f, el |-> e, state |-> s]

BothWorlds(f, e) == <<TEST(f, e, NONSECURE), TEST(f, e, SECURE)>>

tztest(arch) ==
    IF arch = "aarch64"
    THEN FlattenSeq(<<BothWorlds(TZTEST_SMC, 0),
                      BothWorlds(TZTEST_REG_ACCESS, 0),
                      BothWorlds(TZTEST_CPACR_TRAP, 0),
                      BothWorlds(TZTEST_WFX_TRAP, 0),
                      BothWorlds(TZTEST_FP_TRAP, 0),
                      BothWorlds(TZTEST_REG_ACCESS, 1),
                      BothWorlds(TZTEST_CPACR_TRAP, 1),
                      BothWorlds(TZTEST_WFX_TRAP, 1),
                      BothWorlds(TZTEST_FP_TRAP, 1)>>)
    ELSE FlattenSeq(<<BothWorlds(TZTEST_SMC, 0),
                      BothWorlds(TZTEST_REG_ACCESS, 0),
                      BothWorlds(TZTEST_REG_ACCESS, 1),
                      BothWorlds(TZTEST_SMC, 1),
                      <<TEST(TZTEST_MASK_BITS, 1, NONSECURE),
                        TEST(TZTEST_SMC, 3, SECURE)>> >>)

\* test_func[] of the image that owns request r.
test_func(arch, r) ==
    CASE r.el = 0 /\ r.fid = TZTEST_SMC        -> el0_check_smc
      [] r.el = 0 /\ r.fid = TZTEST_REG_ACCESS ->
            el0_check_register_access(IF arch = "aarch64" THEN 6 ELSE 7)
      [] r.el = 0 /\ r.fid = TZTEST_WFX_TRAP   -> el0_check_wfx_trap
      [] r.el = 0 /\ r.fid = TZTEST_FP_TRAP    -> el0_check_fp_trap
      [] r.el = 1 /\ r.fid = TZTEST_SMC        -> el1_check_smc
      [] r.el = 1 /\ r.fid = TZTEST_REG_ACCESS ->
            el1_check_register_access(arch, r.state)
      [] r.el = 1 /\ r.fid = TZTEST_WFX_TRAP   -> el1_check_wfx_trap
      [] r.el = 1 /\ r.fid = TZTEST_FP_TRAP    -> el1_check_fp_trap
      [] r.el = 1 /\ r.fid = TZTEST_MASK_BITS  -> check_mask_bits
      [] r.el = 3 /\ r.fid = TZTEST_SMC        -> el3_check_smc
      [] r.el = 0 /\ r.fid = TZTEST_CPACR_TRAP -> el0_check_cpacr_trap
      [] r.el = 1 /\ r.fid = TZTEST_CPACR_TRAP -> el1_check_cpacr_trap

=============================================================================
