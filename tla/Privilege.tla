------------------------------ MODULE Privilege ------------------------------
(***************************************************************************)
(* Privilege modes, trap entry, MRET and SRET, the CSRs behind them, and   *)
(* the batched interrupt check of one hart (cpu/core.rs, cpu/csr.rs,       *)
(* cpu/execution.rs).  Traps that are not delegated go to M-mode; the hart *)
(* starts in S-mode as setup_smode_boot leaves it.                         *)
(*                                                                         *)
(* History framesS and framesM remember what a trap interrupted, for as    *)
(* long as the saved copy in the CSRs has not been overwritten.            *)
(***************************************************************************)
EXTENDS Integers

CONSTANTS
    GuestPcs,       \* program counters of the guest
    Exceptions,     \* synchronous causes the guest can raise
    Medeleg,        \* the ones delegated to S-mode
    Wired,          \* interrupts the guest and the devices use
    SstatusWrites,  \* what the guest writes to sstatus: <<SIE, SPIE, SPP>>
    MstatusWrites,  \* and to mstatus: <<MIE, MPIE, MPP>>
    Poll256,        \* poll_counter wraps at this: 256
    Sstc            \* menvcfg.STCE: STIP is the hardware's

ASSUME PrivilegeAssumption ==
    /\ GuestPcs \subseteq Nat /\ Medeleg \subseteq Exceptions
    /\ SstatusWrites \subseteq BOOLEAN \X BOOLEAN \X {"S", "U"}
    /\ MstatusWrites \subseteq BOOLEAN \X BOOLEAN \X {"M", "S", "U"}
    /\ Poll256 \in Nat \ {0}
    /\ Sstc \in BOOLEAN

VARIABLES
    mode,               \* "M", "S" or "U"
    at,                 \* pc
    sie, spie, spp,     \* mstatus, the supervisor's part
    mie, mpie, mpp,     \* mstatus, the machine's part
    sepc, mepc,
    enabled, pending,   \* CSR mie, CSR mip
    lines,              \* what the devices assert
    polls,              \* poll_counter
    frameS, frameM      \* history

sup == <<sie, spie, spp, sepc, frameS>>
mach == <<mie, mpie, mpp, mepc, frameM>>
irqs == <<enabled, pending, lines>>
privVars == <<mode, at, sup, mach, irqs, polls>>

Modes == {"M", "S", "U"}
SBits == {"SEI", "SSI", "STI"}
MBits == {"MEI", "MSI", "MTI"}
\* mideleg, as setup_smode_boot_with_dtb sets it.
Mideleg == SBits
\* The bits of mip that the poll overwrites.
Hardware == MBits \cup {"SEI"} \cup (IF Sstc THEN {"STI"} ELSE {})
Vector == 0
NoFrame == [mode |-> "none"]

-----------------------------------------------------------------------------
\* Mutant: entry to S-mode loses the interrupt enable.
TrapToSForgets ==
    /\ sepc' = at
    /\ sie' = FALSE
    /\ spp' = IF mode = "S" THEN "S" ELSE "U"
    /\ frameS' = [mode |-> mode, on |-> sie, pc |-> at]
    /\ mode' = "S"
    /\ at' = Vector
    /\ UNCHANGED <<spie, mach>>

\* Entry to S-mode: nothing of the machine's state is touched.
TrapToS ==
    /\ sepc' = at
    /\ spie' = sie
    /\ sie' = FALSE
    /\ spp' = IF mode = "S" THEN "S" ELSE "U"
    /\ frameS' = [mode |-> mode, on |-> sie, pc |-> at]
    /\ mode' = "S"
    /\ at' = Vector
    /\ UNCHANGED mach

TrapToM ==
    /\ mepc' = at
    /\ mpie' = mie
    /\ mie' = FALSE
    /\ mpp' = mode
    /\ frameM' = [mode |-> mode, on |-> mie, pc |-> at]
    /\ mode' = "M"
    /\ at' = Vector
    /\ UNCHANGED sup

\* handle_trap: M-mode never delegates.
HandleTrap(delegated) == IF mode # "M" /\ delegated THEN TrapToS ELSE TrapToM

\* check_pending_interrupt.
MPending == IF mode # "M" \/ mie THEN (pending' \cap enabled) \ Mideleg ELSE {}
SPending ==
    IF mode = "U" \/ (mode = "S" /\ sie) THEN pending' \cap enabled \cap Mideleg ELSE {}
First(set, order) ==
    IF order[1] \in set THEN order[1] ELSE IF order[2] \in set THEN order[2] ELSE order[3]
Interrupting == MPending \cup SPending
Chosen ==
    IF MPending # {} THEN First(MPending, <<"MEI", "MSI", "MTI">>)
    ELSE First(SPending, <<"SEI", "SSI", "STI">>)

-----------------------------------------------------------------------------
PrivInit ==
    /\ mode = "S" /\ at \in GuestPcs
    /\ sie = FALSE /\ spie = FALSE /\ spp = "U"
    /\ mie = FALSE /\ mpie = TRUE /\ mpp = "S"
    /\ sepc = 0 /\ mepc = 0
    /\ enabled = {} /\ pending = {} /\ lines = {}
    /\ polls = 0 /\ frameS = NoFrame /\ frameM = NoFrame

Tick == polls' = (polls + 1) % Poll256

\* Mutant: the poll does not look at machine interrupts.
PollSupervisor ==
    /\ Tick
    /\ polls' = 0
    /\ pending' = (pending \ Hardware) \cup (lines \cap Hardware)
    /\ IF SPending # {} THEN TrapToS ELSE UNCHANGED <<mode, at, sup, mach>>
    /\ UNCHANGED <<enabled, lines>>

\* The poll in step: the devices' bits replace theirs in mip, and an interrupt
\* may be taken instead of an instruction.
PollInterrupts ==
    /\ Tick
    /\ polls' = 0
    /\ pending' = (pending \ Hardware) \cup (lines \cap Hardware)
    /\ IF Interrupting # {} THEN HandleTrap(Chosen \in Mideleg)
       ELSE UNCHANGED <<mode, at, sup, mach>>
    /\ UNCHANGED <<enabled, lines>>

\* An instruction between two polls.
Executes == Tick /\ polls' # 0

Raise(c) ==
    /\ Executes
    /\ HandleTrap(c \in Medeleg)
    /\ UNCHANGED irqs

Goto(p) ==
    /\ Executes
    /\ at' = p
    /\ UNCHANGED <<mode, sup, mach, irqs>>

Mret ==
    /\ Executes
    /\ mode = "M"
    /\ mode' = mpp
    /\ mie' = mpie
    /\ mpie' = TRUE
    /\ mpp' = "U"
    /\ at' = mepc
    /\ frameM' = NoFrame
    /\ UNCHANGED <<mepc, sup, irqs>>

Sret ==
    /\ Executes
    /\ mode = "S"
    /\ mode' = spp
    /\ sie' = spie
    /\ spie' = TRUE
    /\ spp' = "U"
    /\ at' = sepc
    /\ frameS' = NoFrame
    /\ UNCHANGED <<sepc, mach, irqs>>

\* CsrFile::write of sstatus, and of sepc; from S or M.
WriteSstatus(on, prior, back) ==
    /\ Executes
    /\ mode # "U"
    /\ sie' = on /\ spie' = prior /\ spp' = back
    /\ frameS' = IF prior = spie /\ back = spp THEN frameS ELSE NoFrame
    /\ UNCHANGED <<mode, at, sepc, mach, irqs>>

WriteSepc(p) ==
    /\ Executes
    /\ mode # "U"
    /\ sepc' = p /\ frameS' = NoFrame
    /\ UNCHANGED <<mode, at, sie, spie, spp, mach, irqs>>

\* CsrFile::write of mstatus, from M only: both parts.
WriteMstatus(on, prior, back) ==
    /\ Executes
    /\ mode = "M"
    /\ mie' = on /\ mpie' = prior /\ mpp' = back
    /\ frameM' = IF prior = mpie /\ back = mpp THEN frameM ELSE NoFrame
    /\ UNCHANGED <<mode, at, mepc, sup, irqs>>

\* CSR sie shadows the supervisor bits of mie; M-mode writes all of mie.
WriteEnable(b) ==
    /\ Executes
    /\ mode = "M" \/ (mode = "S" /\ b \in SBits)
    /\ enabled' = enabled \cup {b}
    /\ UNCHANGED <<mode, at, sup, mach, pending, lines>>

\* CSR sip: software may write SSIP only.
WriteSip(on) ==
    /\ Executes
    /\ mode # "U"
    /\ pending' = IF on THEN pending \cup {"SSI"} ELSE pending \ {"SSI"}
    /\ UNCHANGED <<mode, at, sup, mach, enabled, lines>>

\* External: a device raises or drops its line.
Line(b) ==
    /\ lines' = IF b \in lines THEN lines \ {b} ELSE lines \cup {b}
    /\ UNCHANGED <<mode, at, sup, mach, enabled, pending, polls>>

Steps ==
    \/ PollInterrupts
    \/ \E c \in Exceptions : Raise(c)
    \/ \E p \in GuestPcs : Goto(p) \/ WriteSepc(p)
    \/ Mret \/ Sret
    \/ \E w \in SstatusWrites : WriteSstatus(w[1], w[2], w[3])
    \/ \E w \in MstatusWrites : WriteMstatus(w[1], w[2], w[3])
    \/ \E b \in Wired : WriteEnable(b)
    \/ \E on \in BOOLEAN : WriteSip(on)

PrivNext == Steps \/ \E b \in Hardware \cap Wired : Line(b)

\* The hart's thread keeps stepping; the devices owe nothing.
PrivSpec == PrivInit /\ [][PrivNext]_privVars /\ WF_privVars(Steps)

-----------------------------------------------------------------------------
\* SRET and MRET restore what the trap interrupted, mode, pc and interrupt
\* enable, whatever traps to the other level and returns came in between, unless
\* the handler rewrote the saved copy (handle_trap against SRET and MRET).
ReturnsToInterrupted ==
    [][/\ (Sret /\ frameS # NoFrame) =>
             mode' = frameS.mode /\ sie' = frameS.on /\ at' = frameS.pc
       /\ (Mret /\ frameM # NoFrame) =>
             mode' = frameM.mode /\ mie' = frameM.on /\ at' = frameM.pc]_privVars

\* A line that is up, enabled and not masked does not stay so for ever without
\* the hart taking an interrupt: the poll comes around (step, poll_counter).
Waiting ==
    \E b \in lines \cap enabled \cap Hardware :
        \/ b \in Mideleg /\ (mode = "U" \/ (mode = "S" /\ sie))
        \/ b \notin Mideleg /\ (mode # "M" \/ mie)
WaitingIsServed == []<>~Waiting

=============================================================================
