---------------------------------- MODULE Alu ----------------------------------
(***************************************************************************)
(* What one instruction computes, three times: in the interpreter          *)
(* (step_single_inner, which reads funct3 and funct7 when it executes), in *)
(* the superblock engine (transcode reads them once, execute_block_inner   *)
(* runs the micro-op), and as the RISC-V manual defines the results that   *)
(* are easy to get wrong.                                                  *)
(*                                                                         *)
(* Registers have XBits bits instead of 64 and words half of that, so that *)
(* sign extension, shift masks, high products and the corner cases of      *)
(* division keep their shape.  Register 0 reads as zero.                   *)
(***************************************************************************)
EXTENDS Integers, Bitwise

CONSTANTS
    XBits,          \* 64
    Operands        \* register contents and immediates that are tried

ASSUME AluAssumption ==
    /\ XBits \in {8, 16}
    /\ Operands \subseteq 0 .. (2^XBits) - 1

VARIABLES
    ready,          \* operands are in place
    ireg, breg,     \* registers 0 to 2 of the interpreter, of the engine
    iout, bout,     \* effect beyond registers: branch taken, bits stored
    did, ops        \* the instruction executed last, its operands

aluVars == <<ready, ireg, breg, iout, bout, did, ops>>

WBits == XBits \div 2
HBits == XBits \div 4
BBits == XBits \div 8
XLen == 2^XBits
WLen == 2^WBits

U(v) == v % XLen                                        \* as u64
SignedOf(v, len) == LET w == v % len IN IF w >= len \div 2 THEN w - len ELSE w
S(v) == SignedOf(v, XLen)                               \* as i64
SW(v) == SignedOf(v, WLen)                              \* as i32 as i64
UW(v) == v % WLen                                       \* as u32 as u64
SextW(v) == U(SW(v))                                    \* as i32 as i64 as u64
Sext(v, bits) == U(SignedOf(v, 2^bits))
Abs(v) == IF v < 0 THEN -v ELSE v
\* Rust's / and %: towards zero.
Quot(a, b) == IF (a < 0) = (b < 0) THEN Abs(a) \div Abs(b) ELSE -(Abs(a) \div Abs(b))
Rest(a, b) == a - (b * Quot(a, b))
Bool(p) == IF p THEN 1 ELSE 0

Illegal == -1
Is(f3, f7, g3, g7) == f3 = g3 /\ f7 = g7

-----------------------------------------------------------------------------
(* The interpreter.  Illegal stands for the trap.                          *)

InterpretOpImm(f3, f7, a, imm) ==
    LET shamt == imm % XBits IN
    CASE f3 = 0 -> U(a + imm)
      [] f3 = 2 -> Bool(S(a) < S(imm))
      [] f3 = 3 -> Bool(a < imm)
      [] f3 = 4 -> a ^^ imm
      [] f3 = 6 -> a | imm
      [] f3 = 7 -> a & imm
      [] f3 = 1 -> U(a * 2^shamt)
      [] f3 = 5 -> IF f7 = 32 THEN U(S(a) \div 2^shamt) ELSE a \div 2^shamt

\* DIV and REM.
InterpretDiv(a, b) ==
    IF b = 0 THEN U(-1)
    ELSE IF S(a) = -(XLen \div 2) /\ S(b) = -1 THEN a
    ELSE U(Quot(S(a), S(b)))

InterpretRem(a, b) ==
    IF b = 0 THEN a
    ELSE IF S(a) = -(XLen \div 2) /\ S(b) = -1 THEN 0
    ELSE U(Rest(S(a), S(b)))

InterpretOp(f3, f7, a, b) ==
    LET shamt == b % XBits IN
    CASE Is(f3, f7, 0, 0) -> U(a + b)
      [] Is(f3, f7, 0, 32) -> U(a - b)
      [] Is(f3, f7, 0, 1) -> U(S(a) * S(b))
      [] Is(f3, f7, 1, 0) -> U(a * 2^shamt)
      [] Is(f3, f7, 1, 1) -> U((S(a) * S(b)) \div XLen)
      [] Is(f3, f7, 2, 0) -> Bool(S(a) < S(b))
      [] Is(f3, f7, 2, 1) -> U((S(a) * b) \div XLen)
      [] Is(f3, f7, 3, 0) -> Bool(a < b)
      [] Is(f3, f7, 3, 1) -> (a * b) \div XLen
      [] Is(f3, f7, 4, 0) -> a ^^ b
      [] Is(f3, f7, 4, 1) -> InterpretDiv(a, b)
      [] Is(f3, f7, 5, 0) -> a \div 2^shamt
      [] Is(f3, f7, 5, 1) -> IF b = 0 THEN XLen - 1 ELSE a \div b
      [] Is(f3, f7, 5, 32) -> U(S(a) \div 2^shamt)
      [] Is(f3, f7, 6, 0) -> a | b
      [] Is(f3, f7, 6, 1) -> InterpretRem(a, b)
      [] Is(f3, f7, 7, 0) -> a & b
      [] Is(f3, f7, 7, 1) -> IF b = 0 THEN a ELSE a % b
      [] OTHER -> Illegal

InterpretOpImm32(f3, f7, a, imm) ==
    LET shamt == imm % WBits IN
    CASE f3 = 0 -> SextW(a + imm)
      [] f3 = 1 -> SextW(UW(a) * 2^shamt)
      [] f3 = 5 -> IF f7 = 32 THEN U(SW(a) \div 2^shamt) ELSE SextW(UW(a) \div 2^shamt)
      [] OTHER -> Illegal

\* MULW and its kin compute with 64-bit integers and truncate.
InterpretOp32(f3, f7, a, b) ==
    LET shamt == b % WBits
        overflow == SW(a) = -(WLen \div 2) /\ SW(b) = -1
    IN
    CASE Is(f3, f7, 0, 0) -> SextW(a + b)
      [] Is(f3, f7, 0, 32) -> SextW(a - b)
      [] Is(f3, f7, 0, 1) -> SextW(SW(a) * SW(b))
      [] Is(f3, f7, 1, 0) -> SextW(UW(a) * 2^shamt)
      [] Is(f3, f7, 5, 0) -> SextW(UW(a) \div 2^shamt)
      [] Is(f3, f7, 5, 32) -> U(SW(a) \div 2^shamt)
      [] Is(f3, f7, 4, 1) -> IF SW(b) = 0 THEN SextW(-1)
                             ELSE IF overflow THEN SextW(SW(a)) ELSE SextW(Quot(SW(a), SW(b)))
      [] Is(f3, f7, 5, 1) -> SextW(IF UW(b) = 0 THEN XLen - 1 ELSE UW(a) \div UW(b))
      [] Is(f3, f7, 6, 1) -> IF SW(b) = 0 THEN SextW(SW(a))
                             ELSE IF overflow THEN 0 ELSE SextW(Rest(SW(a), SW(b)))
      [] Is(f3, f7, 7, 1) -> SextW(IF UW(b) = 0 THEN UW(a) ELSE UW(a) % UW(b))
      [] OTHER -> Illegal

InterpretBranch(f3, a, b) ==
    CASE f3 = 0 -> Bool(a = b)
      [] f3 = 1 -> Bool(a # b)
      [] f3 = 4 -> Bool(S(a) < S(b))
      [] f3 = 5 -> Bool(S(a) >= S(b))
      [] f3 = 6 -> Bool(a < b)
      [] f3 = 7 -> Bool(a >= b)
      [] OTHER -> Illegal

\* What a load makes of the doubleword at its address, a store of its register.
InterpretLoad(f3, raw) ==
    CASE f3 = 0 -> Sext(raw, BBits)
      [] f3 = 1 -> Sext(raw, HBits)
      [] f3 = 2 -> Sext(raw, WBits)
      [] f3 = 3 -> raw
      [] f3 = 4 -> raw % 2^BBits
      [] f3 = 5 -> raw % 2^HBits
      [] f3 = 6 -> raw % 2^WBits
      [] OTHER -> Illegal

InterpretStore(f3, val) ==
    CASE f3 = 0 -> val % 2^BBits
      [] f3 = 1 -> val % 2^HBits
      [] f3 = 2 -> val % 2^WBits
      [] f3 = 3 -> val
      [] OTHER -> Illegal

-----------------------------------------------------------------------------
(* transcode: one micro-op for each encoding, Fence for the others.        *)

TranscodeOpImm(f3, f7) ==
    IF f3 = 5 THEN (IF f7 = 32 THEN "Srai" ELSE "Srli")
    ELSE <<"Addi", "Slli", "Slti", "Sltiu", "Xori", "", "Ori", "Andi">>[f3 + 1]

TranscodeOp(f3, f7) ==
    CASE f7 = 0 -> <<"Add", "Sll", "Slt", "Sltu", "Xor", "Srl", "Or", "And">>[f3 + 1]
      [] f7 = 1 -> <<"Mul", "Mulh", "Mulhsu", "Mulhu", "Div", "Divu", "Rem", "Remu">>[f3 + 1]
      [] Is(f3, f7, 0, 32) -> "Sub"
      [] Is(f3, f7, 5, 32) -> "Sra"
      [] OTHER -> "Fence"

TranscodeOpImm32(f3, f7) ==
    CASE f3 = 0 -> "Addiw"
      [] f3 = 1 -> "Slliw"
      [] f3 = 5 -> IF f7 = 32 THEN "Sraiw" ELSE "Srliw"
      [] OTHER -> "Fence"

TranscodeOp32(f3, f7) ==
    CASE Is(f3, f7, 0, 0) -> "Addw"
      [] Is(f3, f7, 0, 32) -> "Subw"
      [] Is(f3, f7, 1, 0) -> "Sllw"
      [] Is(f3, f7, 5, 0) -> "Srlw"
      [] Is(f3, f7, 5, 32) -> "Sraw"
      [] f7 = 1 /\ f3 \in {0, 4, 5, 6, 7} ->
            <<"Mulw", "", "", "", "Divw", "Divuw", "Remw", "Remuw">>[f3 + 1]
      [] OTHER -> "Fence"

TranscodeBranch(f3) ==
    <<"Beq", "Bne", "Fence", "Fence", "Blt", "Bge", "Bltu", "Bgeu">>[f3 + 1]

TranscodeLoad(f3) ==
    <<"Lb", "Lh", "Lw", "Ld", "Lbu", "Lhu", "Lwu", "Fence">>[f3 + 1]

TranscodeStore(f3) ==
    IF f3 <= 3 THEN <<"Sb", "Sh", "Sw", "Sd">>[f3 + 1] ELSE "Fence"

-----------------------------------------------------------------------------
(* execute_block_inner.                                                    *)

\* transcode keeps six bits of a shift's immediate.
MicroImm(m, a, imm) ==
    CASE m = "Addi" -> U(a + imm)
      [] m = "Slti" -> Bool(S(a) < S(imm))
      [] m = "Sltiu" -> Bool(a < imm)
      [] m = "Xori" -> a ^^ imm
      [] m = "Ori" -> a | imm
      [] m = "Andi" -> a & imm
      [] m = "Slli" -> U(a * 2^(imm % XBits))
      [] m = "Srli" -> a \div 2^(imm % XBits)
      [] m = "Srai" -> U(S(a) \div 2^(imm % XBits))

MicroReg(m, a, b) ==
    CASE m = "Add" -> U(a + b)
      [] m = "Sub" -> U(a - b)
      [] m = "Xor" -> a ^^ b
      [] m = "Or" -> a | b
      [] m = "And" -> a & b
      [] m = "Sll" -> U(a * 2^(b % XBits))
      [] m = "Srl" -> a \div 2^(b % XBits)
      [] m = "Sra" -> U(S(a) \div 2^(b % XBits))
      [] m = "Slt" -> Bool(S(a) < S(b))
      [] m = "Sltu" -> Bool(a < b)

\* Mutant: the word shifts on the whole register.
MicroWordWide(m, a, b) ==
    CASE m \in {"Addiw", "Addw"} -> SextW(a + b)
      [] m = "Subw" -> SextW(a - b)
      [] m \in {"Slliw", "Sllw"} -> SextW(a * 2^(b % WBits))
      [] m \in {"Srliw", "Srlw"} -> SextW(a \div 2^(b % WBits))
      [] m \in {"Sraiw", "Sraw"} -> U(S(a) \div 2^(b % WBits))

MicroWord(m, a, b) ==
    CASE m \in {"Addiw", "Addw"} -> SextW(a + b)
      [] m = "Subw" -> SextW(a - b)
      [] m \in {"Slliw", "Sllw"} -> SextW(UW(a) * 2^(b % WBits))
      [] m \in {"Srliw", "Srlw"} -> SextW(UW(a) \div 2^(b % WBits))
      [] m \in {"Sraiw", "Sraw"} -> U(SW(a) \div 2^(b % WBits))

MicroMulDiv(m, a, b) ==
    CASE m = "Mul" -> U(S(a) * S(b))
      [] m = "Mulh" -> U((S(a) * S(b)) \div XLen)
      [] m = "Mulhsu" -> U((S(a) * b) \div XLen)
      [] m = "Mulhu" -> (a * b) \div XLen
      [] m = "Div" -> IF b = 0 THEN XLen - 1
                      ELSE IF a = XLen \div 2 /\ b = XLen - 1 THEN a
                      ELSE U(Quot(S(a), S(b)))
      [] m = "Divu" -> IF b = 0 THEN XLen - 1 ELSE a \div b
      [] m = "Rem" -> IF b = 0 THEN a
                      ELSE IF a = XLen \div 2 /\ b = XLen - 1 THEN 0
                      ELSE U(Rest(S(a), S(b)))
      [] m = "Remu" -> IF b = 0 THEN a ELSE a % b

\* On 32-bit integers.
MicroMulDivW(m, a, b) ==
    LET overflow == UW(a) = WLen \div 2 /\ UW(b) = WLen - 1 IN
    CASE m = "Mulw" -> SextW(SW(a) * SW(b))
      [] m = "Divw" -> IF UW(b) = 0 THEN XLen - 1
                       ELSE IF overflow THEN U(-(WLen \div 2)) ELSE U(Quot(SW(a), SW(b)))
      [] m = "Divuw" -> IF UW(b) = 0 THEN SextW(WLen - 1) ELSE SextW(UW(a) \div UW(b))
      [] m = "Remw" -> IF UW(b) = 0 THEN U(SW(a))
                       ELSE IF overflow THEN 0 ELSE U(Rest(SW(a), SW(b)))
      [] m = "Remuw" -> IF UW(b) = 0 THEN SextW(UW(a)) ELSE SextW(UW(a) % UW(b))

MicroBranch(m, a, b) ==
    CASE m = "Beq" -> Bool(a = b)
      [] m = "Bne" -> Bool(a # b)
      [] m = "Blt" -> Bool(S(a) < S(b))
      [] m = "Bge" -> Bool(S(a) >= S(b))
      [] m = "Bltu" -> Bool(a < b)
      [] m = "Bgeu" -> Bool(a >= b)

MicroLoadValue(m, raw) ==
    CASE m = "Lb" -> Sext(raw, BBits)
      [] m = "Lbu" -> raw % 2^BBits
      [] m = "Lh" -> Sext(raw, HBits)
      [] m = "Lhu" -> raw % 2^HBits
      [] m = "Lw" -> Sext(raw, WBits)
      [] m = "Lwu" -> raw % 2^WBits
      [] m = "Ld" -> raw

MicroStoreValue(m, val) ==
    CASE m = "Sb" -> val % 2^BBits
      [] m = "Sh" -> val % 2^HBits
      [] m = "Sw" -> val % 2^WBits
      [] m = "Sd" -> val

-----------------------------------------------------------------------------
(* One instruction of each engine on the same operands.                    *)

Classes == {"OpImm", "Op", "OpImm32", "Op32", "Branch", "Load", "Store"}
Encodings == [class : Classes, f3 : 0 .. 7, f7 : {0, 1, 32}, rd : {0, 1}]

Interpreted(i, a, b) ==
    CASE i.class = "OpImm" -> InterpretOpImm(i.f3, i.f7, a, b)
      [] i.class = "Op" -> InterpretOp(i.f3, i.f7, a, b)
      [] i.class = "OpImm32" -> InterpretOpImm32(i.f3, i.f7, a, b)
      [] i.class = "Op32" -> InterpretOp32(i.f3, i.f7, a, b)
      [] i.class = "Branch" -> InterpretBranch(i.f3, a, b)
      [] i.class = "Load" -> InterpretLoad(i.f3, a)
      [] i.class = "Store" -> InterpretStore(i.f3, b)

Transcoded(i) ==
    CASE i.class = "OpImm" -> TranscodeOpImm(i.f3, i.f7)
      [] i.class = "Op" -> TranscodeOp(i.f3, i.f7)
      [] i.class = "OpImm32" -> TranscodeOpImm32(i.f3, i.f7)
      [] i.class = "Op32" -> TranscodeOp32(i.f3, i.f7)
      [] i.class = "Branch" -> TranscodeBranch(i.f3)
      [] i.class = "Load" -> TranscodeLoad(i.f3)
      [] i.class = "Store" -> TranscodeStore(i.f3)

\* The micro-ops, by the part of execute_block_inner that runs them.
MulDivOps == {"Mul", "Mulh", "Mulhsu", "Mulhu", "Div", "Divu", "Rem", "Remu"}
MulDivWOps == {"Mulw", "Divw", "Divuw", "Remw", "Remuw"}

Executed(i, m, a, b) ==
    CASE i.class = "OpImm" -> MicroImm(m, a, b)
      [] m \in MulDivOps -> MicroMulDiv(m, a, b)
      [] m \in MulDivWOps -> MicroMulDivW(m, a, b)
      [] i.class = "Op" -> MicroReg(m, a, b)
      [] i.class \in {"OpImm32", "Op32"} -> MicroWord(m, a, b)
      [] i.class = "Branch" -> MicroBranch(m, a, b)
      [] i.class = "Load" -> MicroLoadValue(m, a)
      [] i.class = "Store" -> MicroStoreValue(m, b)

\* write_reg: register 0 is never written.
WriteReg(regs, rd, v) == IF rd = 0 THEN regs ELSE [regs EXCEPT ![rd] = v]
Writes(i) == i.class \notin {"Branch", "Store"}

AluInit ==
    /\ ready = FALSE
    /\ ireg = [r \in 0 .. 2 |-> 0] /\ breg = ireg
    /\ iout = 0 /\ bout = 0
    /\ did = [class |-> "none"] /\ ops = <<0, 0>>

NoInsn == [class |-> "none"]

\* The guest puts operands into registers 1 and 2.
SetOperands(a, b) ==
    /\ ~ready /\ did = NoInsn /\ ready' = TRUE
    /\ ireg' = [ireg EXCEPT ![1] = a, ![2] = b]
    /\ breg' = [breg EXCEPT ![1] = a, ![2] = b]
    /\ ops' = <<a, b>>
    /\ UNCHANGED <<iout, bout, did>>

\* The guest clears its registers before the next instruction.
ClearRegisters ==
    /\ ~ready /\ did # NoInsn
    /\ ireg' = [r \in 0 .. 2 |-> 0] /\ breg' = ireg'
    /\ iout' = 0 /\ bout' = 0
    /\ did' = NoInsn /\ ops' = <<0, 0>>
    /\ UNCHANGED ready

\* An encoding that traps in the interpreter writes nothing there, and as a
\* Fence it writes nothing in the engine, which goes on: see EnginesAgree.
ExecuteBoth(i) ==
    /\ ready /\ ready' = FALSE
    /\ LET v == Interpreted(i, ireg[1], ireg[2]) IN
       /\ ireg' = IF v # Illegal /\ Writes(i) THEN WriteReg(ireg, i.rd, v) ELSE ireg
       /\ iout' = IF v = Illegal \/ ~Writes(i) THEN v ELSE 0
    /\ LET m == Transcoded(i)
           v == Executed(i, m, breg[1], breg[2])
       IN IF m = "Fence" THEN breg' = breg /\ bout' = 0
          ELSE /\ breg' = IF Writes(i) THEN WriteReg(breg, i.rd, v) ELSE breg
               /\ bout' = IF Writes(i) THEN 0 ELSE v
    /\ did' = i
    /\ UNCHANGED ops

AluNext ==
    \/ ClearRegisters
    \/ \E a, b \in Operands : SetOperands(a, b)
    \/ \E i \in Encodings : ExecuteBoth(i)

AluSpec == AluInit /\ [][AluNext]_aluVars

-----------------------------------------------------------------------------
\* Whatever the operands, an instruction that does not trap leaves the same
\* registers, takes the same branch and stores the same bits in a block as in
\* the interpreter, x0 included (transcode and execute_block_inner against
\* step_single_inner).
EnginesAgree == iout # Illegal => ireg = breg /\ iout = bout

\* The manual's definitions: quotient and remainder fit together and round
\* towards zero, division by zero and overflow have their fixed results, the
\* high products complete the low one, and a word operation's result is a
\* sign-extended word.
Reg(f3, f7, a, b) == InterpretOp(f3, f7, a, b)
DivisionFits(a, b) ==
    LET q == S(Reg(4, 1, a, b))  r == S(Reg(6, 1, a, b)) IN
    IF b = 0 THEN q = -1 /\ r = S(a)
    ELSE /\ U((q * S(b)) + r) = a
         /\ Abs(r) < Abs(S(b))
         /\ r # 0 => (r < 0) = (S(a) < 0)
UnsignedFits(a, b) ==
    LET q == Reg(5, 1, a, b)  r == Reg(7, 1, a, b) IN
    IF b = 0 THEN q = XLen - 1 /\ r = a ELSE (q * b) + r = a /\ r < b
ProductsFit(a, b) ==
    LET low == Reg(0, 1, a, b) IN
    /\ (S(Reg(1, 1, a, b)) * XLen) + low = S(a) * S(b)
    /\ (S(Reg(2, 1, a, b)) * XLen) + low = S(a) * b
    /\ (Reg(3, 1, a, b) * XLen) + low = a * b
WordsFit(a, b) ==
    /\ \A f3 \in 0 .. 7, f7 \in {0, 1, 32} :
          LET v == InterpretOp32(f3, f7, a, b) IN v # Illegal => v = SextW(v)
    /\ LET q == SW(InterpretOp32(4, 1, a, b))  r == SW(InterpretOp32(6, 1, a, b)) IN
       UW(b) # 0 => UW((q * SW(b)) + r) = UW(a) /\ Abs(r) < Abs(SW(b))
ArithmeticFits ==
    LET a == ops[1]  b == ops[2] IN
    DivisionFits(a, b) /\ UnsignedFits(a, b) /\ ProductsFit(a, b) /\ WordsFit(a, b)

\* Both engines agree, on what the manual defines.
ExecutesAsDefined == EnginesAgree /\ ArithmeticFits

=============================================================================
