------------------------------ MODULE Interop ------------------------------
(***************************************************************************)
(* The vocabulary every image shares: security states, SMC and SVC         *)
(* opcodes, register keys and the operation descriptors of                 *)
(* common/interop.h, common/smc.h, common/svc.h and common/state.h.        *)
(*                                                                         *)
(* The C descriptors are members of one union.  Here a descriptor is a     *)
(* record whose kind says which member was written last; reading it as     *)
(* another member is the type confusion OpMatchesDescriptor of TzSystem    *)
(* rules out.  Lengths, arguments and return slots carry no control and    *)
(* are left out; the virtual address of a map request is always that of    *)
(* the test control block.                                                 *)
(***************************************************************************)
EXTENDS Naturals, Sequences

SECURE    == 0
NONSECURE == 1
World     == {SECURE, NONSECURE}

Level == {0, 1, 3}          \* EL2 is defined in state.h but no image runs there

SMC_OP_NOOP     == 0
SMC_OP_YIELD    == 1
SMC_OP_EXIT     == 2
SMC_OP_MAP      == 3
SMC_OP_GET_REG  == 4
SMC_OP_SET_REG  == 5
SMC_OP_TEST     == 6
SMC_OP_DISPATCH == 7

SVC_OP_YIELD       == 1
SVC_OP_EXIT        == 2
SVC_OP_MAP         == 3
SVC_OP_GET_REG     == 4
SVC_OP_SET_REG     == 5
SVC_OP_TEST        == 6
SVC_OP_DISPATCH    == 7
SVC_OP_GET_SYSCNTL == 8
SVC_OP_ALLOC       == 9

\* op_reg_key_t: the registers a test asks for, and the codes the GET_REG
\* switch of each architecture recognises.
RegKey == {"CPTR_EL3", "CPACR", "SCR", "SCTLR"}
RegKeyCodes(arch) == IF arch = "aarch64" THEN 1 .. 5 ELSE 3 .. 6

\* The register bits the tests and the monitor tell apart (common/*/cpu.h).
ScrBits   == {"NS", "TWE", "TWI", "SMD", "AW", "FW"}
CptrBits  == {"TFP", "TCPAC"}
CpacrBits == {"FPEN0", "FPEN1"}
SctlrBits == {"nTWE", "nTWI"}
RegBits   == ScrBits \cup CptrBits \cup CpacrBits \cup SctlrBits

\* OP_MAP_*: the address spaces a map request names.  OP_MAP_NSEC_EL0 is 0.
MapTarget  == {"SEC_EL0", "NSEC_EL1", "SEC_EL1", "EL3"}
OP_MAP_ALL == MapTarget

\* Physical pages the test control block's address can end up mapped to:
\* the page allocated for it, page zero (a NULL pa), whatever non-null value
\* an uninitialised pa holds, or nothing.
Page == {"none", "zero", "junk", "tc"}

NoDesc             == [kind |-> "none"]
SyscntlDesc        == [kind |-> "syscntl"]
AllocDesc          == [kind |-> "alloc"]
MapDesc(type, pa)  == [kind |-> "map", type |-> type, pa |-> pa]
DispDesc(req)      == [kind |-> "disp", req |-> req]
RegDesc(key, lvl, data) ==
    [kind |-> "reg", key |-> key, lvl |-> lvl, data |-> data]
TestDesc(orig, val) ==
    [kind |-> "test", orig |-> orig, val |-> val, count |-> 0, fail |-> 0]

MapDescs     == [kind : {"map"}, type : SUBSET MapTarget, pa : Page]
RegDescs     == [kind : {"reg"}, key : RegKey, lvl : {1, 3},
                 data : SUBSET RegBits]
TestDescs    == [kind : {"test"}, orig : Nat, val : Nat, count : Nat,
                 fail : Nat]
DispDescs(R) == [kind : {"disp"}, req : R]

\* Everything a descriptor can hold when the requests range over R.
Descriptor(R) == {NoDesc, SyscntlDesc, AllocDesc} \cup MapDescs \cup RegDescs
                 \cup TestDescs \cup DispDescs(R)

\* One stage of the interop test: check the value seen, halve it, count it.
\* The same four lines appear in el1.c (twice), el3.c and el0_sec.c.
InteropStage(t) ==
    [t EXCEPT !.fail  = IF t.val # t.orig \div (2 ^ t.count) THEN @ + 1 ELSE @,
              !.val   = @ \div 2,
              !.count = @ + 1]
=============================================================================
