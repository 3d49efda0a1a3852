--------------------------------- MODULE Isa ---------------------------------
(***************************************************************************)
(* What one hart's guest program may see: the interpreter of               *)
(* cpu/execution.rs, one instruction at a time, each one fetched through   *)
(* the address map of the moment.  Engine is shown to implement it.        *)
(*                                                                         *)
(* A program counter counts halfwords, an instruction is one or two long.  *)
(* The registers are one value x: an "alu" instruction stands for every    *)
(* instruction that only computes, since both engines use the same         *)
(* expressions.  Whether a data access is allowed is the translation's     *)
(* answer, an input here (module Mmu).                                     *)
(***************************************************************************)
EXTENDS Integers

CONSTANTS
    NumPc,      \* halfwords of the guest's code
    PageLen,    \* halfwords of a page
    Insns,      \* instructions: [op |-> ..., len |-> 1 or 2, to |-> a target]
    Programs,   \* initial contents of the code
    Maps,       \* address maps satp may select: virtual to physical page
    Handler     \* stvec

Pcs == 0 .. NumPc - 1
Pages == 0 .. (NumPc \div PageLen) - 1
Unmapped == -1

\* What the decoder tells apart.  "illegal" stands for the words it refuses,
\* "reserved" for those it lets through and the interpreter refuses.
Opcodes == {"alu", "auipc", "load", "store", "jal", "branch", "fence", "wfi",
            "sfence", "satp", "ecall", "amo", "illegal", "reserved"}
Instructions == [op : Opcodes, len : {1, 2}, to : Nat]

ASSUME IsaAssumption ==
    /\ PageLen \in Nat \ {0}
    /\ NumPc \in Nat /\ NumPc % PageLen = 0
    /\ Handler \in Nat
    /\ Insns \subseteq Instructions
    /\ Programs \subseteq [Pcs -> Instructions]
    /\ Maps \subseteq [Pages -> Pages \cup {Unmapped}]

VARIABLES
    code,       \* the instruction that starts at each halfword of memory
    map,        \* the map satp selects
    pc, x,      \* program counter, registers
    epc, cause  \* sepc, scause

isaVars == <<code, map, pc, x, epc, cause>>

PageOf(p) == p \div PageLen
Mapped(p) == p \in Pcs /\ map[PageOf(p)] # Unmapped
PhysIn(m, p) == (m[PageOf(p)] * PageLen) + (p % PageLen)
Phys(p) == PhysIn(map, p)

\* fetch_and_expand: the second halfword of an instruction that is not aligned
\* is translated on its own and may be in another page.
Fetchable(p) ==
    /\ Mapped(p)
    /\ (code[Phys(p)].len = 2 /\ p % 2 = 1) => Mapped(p + 1)
InsnAt(p) == code[Phys(p)]
NextOf(p) == p + InsnAt(p).len

Trap(c, p) ==
    /\ epc' = p
    /\ cause' = c
    /\ pc' = Handler
    /\ UNCHANGED <<code, map, x>>

Continue(p) ==
    /\ pc' = p
    /\ UNCHANGED <<code, map, epc, cause>>

Flip(v) == 1 - v

\* step_single_inner, the instructions that go on in the same address map.
Plain(op) ==
    \/ op \in {"alu", "amo"} /\ x' = Flip(x) /\ Continue(NextOf(pc))
    \/ op = "auipc" /\ x' = pc % 2 /\ Continue(NextOf(pc))
    \/ op = "load" /\ x' \in {0, 1} /\ Continue(NextOf(pc))
    \/ op = "load" /\ Trap("load", pc)
    \/ op = "store" /\ x' = x /\ Continue(NextOf(pc))
    \/ op = "store" /\ Trap("store", pc)
    \/ op = "jal" /\ x' = x /\ Continue(InsnAt(pc).to)
    \/ /\ op = "branch" /\ x' = x
       /\ Continue(IF x = 0 THEN InsnAt(pc).to ELSE NextOf(pc))
    \/ op \in {"fence", "wfi", "sfence"} /\ x' = x /\ Continue(NextOf(pc))
    \/ op \in {"illegal", "reserved"} /\ Trap("illegal", pc)
    \/ op = "ecall" /\ Trap("ecall", pc)

\* CSRRW of satp.
WriteSatp(op) ==
    /\ op = "satp"
    /\ map' \in Maps
    /\ pc' = NextOf(pc)
    /\ UNCHANGED <<code, x, epc, cause>>

Instruction ==
    IF Fetchable(pc)
    THEN Plain(InsnAt(pc).op) \/ WriteSatp(InsnAt(pc).op)
    ELSE Trap("fetch", pc)

\* An interrupt is taken between two instructions.
Interrupt == Trap("interrupt", pc)

\* The guest's stores into its own code, by this hart or another.
WriteCode ==
    /\ \E p \in Pcs, i \in Insns : code' = [code EXCEPT ![p] = i]
    /\ UNCHANGED <<map, pc, x, epc, cause>>

IsaInit ==
    /\ code \in Programs
    /\ map \in Maps
    /\ pc = 0 /\ x = 0 /\ epc = 0 /\ cause = "none"

IsaNext == Instruction \/ Interrupt \/ WriteCode

IsaSpec == IsaInit /\ [][IsaNext]_isaVars

=============================================================================
