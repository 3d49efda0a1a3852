-------------------------------- MODULE Engine --------------------------------
(***************************************************************************)
(* The superblock engine of one hart: step, try_execute_block, the block   *)
(* compiler, the block cache and the micro-op loop (cpu/execution.rs,      *)
(* cpu/core.rs, engine/).  A step of the model is one poll, one cache      *)
(* lookup or compilation, one micro-op, or one interpreted instruction:    *)
(* the guest's memory may change between any two of them.                  *)
(*                                                                         *)
(* The code never drops a block when the mapping or the code changes:      *)
(* invalidate_blocks has no caller.  GuestKeepsCode is what the guest must *)
(* then respect, that code which has run is neither overwritten nor        *)
(* remapped; with FALSE the guest uses FENCE.I and SFENCE.VMA instead.     *)
(***************************************************************************)
EXTENDS Isa, Sequences, FiniteSets

CONSTANTS
    MaxBlockSize,     \* MAX_BLOCK_SIZE, in micro-ops
    MaxChainDepth,    \* MAX_CHAIN_DEPTH
    BlockCacheSize,   \* BLOCK_CACHE_SIZE
    HotCount,         \* executions from which evict_cold spares a block: 10
    PollPeriod,       \* poll_counter is a u8: 256
    GuestKeepsCode,   \* the guest never changes code that has run
    MaxWrites         \* bound on the guest's code writes

ASSUME EngineAssumption ==
    /\ MaxBlockSize \in Nat \ {0} /\ MaxChainDepth \in Nat \ {0}
    /\ BlockCacheSize \in Nat \ {0} /\ HotCount \in Nat
    /\ PollPeriod \in Nat \ {0} /\ GuestKeepsCode \in BOOLEAN
    /\ MaxWrites \in Nat

VARIABLES
    phase,      \* "step", "lookup", "block" or "single"
    poll,       \* poll_counter
    chain,      \* chain_count
    cache,      \* block_cache.blocks, by start_pc
    count,      \* exec_count of each cached block
    cur, idx,   \* the block being executed, its next micro-op
    fresh,      \* history: blocks compiled since the last SFENCE.VMA or satp write
    writes      \* how many code writes there were

engineVars == <<phase, poll, chain, cache, count, cur, idx, fresh, writes>>
vars == <<isaVars, engineVars>>

NoBlock == [base |-> -1, ops |-> <<>>, next |-> -1]
NoChain == -1

-----------------------------------------------------------------------------
(* The compiler.                                                           *)

\* MicroOp::is_terminator.  WFI is missing from the code's list.
Terminators == {"jal", "branch", "ecall", "sfence", "satp", "amo"}

\* transcode: encodings the decoder lets through and transcode does not know
\* become a Fence.
Transcode(op) == IF op = "reserved" THEN "fence" ELSE op

\* Mutant: the micro-op remembers where it ends instead of where it begins.
MicroOpAfter(base, p) ==
    [op |-> Transcode(InsnAt(p).op), off |-> NextOf(p) - base, len |-> InsnAt(p).len,
     to |-> InsnAt(p).to]

\* The run of instructions that BlockCompiler::compile takes from p, as program
\* counters: up to a terminator, the page's end, or what cannot be fetched or
\* decoded.  decode errors only on an unknown opcode.
Run[p \in 0 .. NumPc + 1] ==
    IF ~Fetchable(p) \/ InsnAt(p).op = "illegal" THEN <<>>
    ELSE IF \/ Transcode(InsnAt(p).op) \in Terminators
            \/ NextOf(p) >= (PageOf(p) + 1) * PageLen
    THEN <<p>>
    ELSE <<p>> \o Run[NextOf(p)]

MicroOpAt(base, p) ==
    [op |-> Transcode(InsnAt(p).op), off |-> p - base, len |-> InsnAt(p).len,
     to |-> InsnAt(p).to]

\* next_block_pc: the target of a JAL, the instruction that did not fit, or the
\* first one of the next page; none after another terminator or a fault.
NextBlockPc(run) ==
    LET last == run[Len(run)] IN
    IF InsnAt(last).op = "jal" THEN InsnAt(last).to
    ELSE IF Transcode(InsnAt(last).op) \in Terminators THEN NoChain
    ELSE IF NextOf(last) >= (PageOf(last) + 1) * PageLen THEN NextOf(last)
    ELSE NoChain

Compile(p) ==
    LET full == Run[p]
        run == IF Len(full) > MaxBlockSize THEN SubSeq(full, 1, MaxBlockSize) ELSE full
    IN [base |-> p,
        ops |-> [k \in DOMAIN run |-> MicroOpAt(p, run[k])],
        next |-> IF Len(full) > MaxBlockSize THEN full[MaxBlockSize + 1]
                 ELSE NextBlockPc(run)]

\* byte_len: where the block ends, from its start.
Bytes(b) == LET last == b.ops[Len(b.ops)] IN last.off + last.len

-----------------------------------------------------------------------------
(* The cache.                                                              *)

Cached == {p \in Pcs : cache[p] # NoBlock}

\* evict_cold, what it may leave: a quarter of the blocks goes, cold ones only;
\* if that was not enough, generation 0 minus 1 wraps and every block goes.
Cold == {p \in Cached : count[p] < HotCount}
Quota == Cardinality(Cached) \div 4
EvictCold ==
    IF Cardinality(Cached) < BlockCacheSize THEN {Cached}
    ELSE {IF Cardinality(Cached \ gone) >= BlockCacheSize THEN {} ELSE Cached \ gone :
            gone \in {c \in SUBSET Cold : \/ Cardinality(c) = Quota
                                          \/ Cardinality(c) < Quota /\ c = Cold}}

Insert(b) ==
    \E kept \in EvictCold :
        /\ cache' = [p \in Pcs |-> IF p = b.base THEN b
                                   ELSE IF p \in kept THEN cache[p] ELSE NoBlock]
        /\ count' = [p \in Pcs |-> IF p \in kept \ {b.base} THEN count[p] ELSE 0]
        /\ fresh' = (fresh \cap kept) \cup {b.base}

Touch(p) ==
    /\ count' = [count EXCEPT ![p] = IF @ < HotCount THEN @ + 1 ELSE @]
    /\ UNCHANGED <<cache, fresh>>

-----------------------------------------------------------------------------
(* step.                                                                   *)

EngineInit ==
    /\ IsaInit
    /\ phase = "step" /\ poll = 0 /\ chain = 0
    /\ cache = [p \in Pcs |-> NoBlock] /\ count = [p \in Pcs |-> 0]
    /\ cur = NoBlock /\ idx = 0 /\ fresh = {} /\ writes = 0

\* The interrupt check, when the counter wraps; then try_execute_block.
Poll ==
    /\ phase = "step"
    /\ poll' = (poll + 1) % PollPeriod
    /\ chain' = 0
    /\ \/ /\ poll' = 0
          /\ Interrupt
          /\ UNCHANGED phase
       \/ /\ phase' = "lookup"
          /\ UNCHANGED isaVars
    /\ UNCHANGED <<cache, count, cur, idx, fresh, writes>>

Lookup ==
    /\ phase = "lookup"
    /\ \/ \* get_and_touch hits
          /\ pc \in Cached
          /\ Touch(pc)
          /\ phase' = "block" /\ cur' = cache[pc] /\ idx' = 1
          /\ UNCHANGED isaVars
       \/ \* a chain misses
          /\ pc \notin Cached /\ chain > 0
          /\ phase' = "step"
          /\ UNCHANGED <<isaVars, cache, count, cur, idx, fresh>>
       \/ \* compile and execute
          /\ pc \notin Cached /\ chain = 0
          /\ pc \in Pcs /\ Run[pc] # <<>>
          /\ Insert(Compile(pc))
          /\ phase' = "block" /\ cur' = Compile(pc) /\ idx' = 1
          /\ UNCHANGED isaVars
       \/ \* CompileResult::Trap
          /\ pc \notin Cached /\ chain = 0
          /\ pc \notin Pcs \/ Run[pc] = <<>>
          /\ Trap(IF Fetchable(pc) THEN "illegal" ELSE "fetch", pc)
          /\ phase' = "step"
          /\ UNCHANGED <<cache, count, cur, idx, fresh>>
    /\ UNCHANGED <<poll, chain, writes>>

\* Mutant: the chain is not counted.
ContinueUncounted(p) ==
    /\ pc' = p
    /\ phase' = IF cur.next = p THEN "lookup" ELSE "step"
    /\ UNCHANGED <<idx, chain, epc, cause>>

\* BlockExecResult::Continue: try to chain.
ContinueBlock(p) ==
    /\ pc' = p
    /\ chain' = chain + 1
    /\ phase' = IF chain + 1 < MaxChainDepth /\ cur.next = p THEN "lookup" ELSE "step"
    /\ UNCHANGED <<idx, epc, cause>>

\* The next micro-op of the block; self.pc is not kept up to date.
NextOp ==
    /\ idx' = idx + 1
    /\ UNCHANGED <<pc, chain, phase, epc, cause>>

TrapBlock(c, p) ==
    /\ Trap(c, p)
    /\ phase' = "step"
    /\ UNCHANGED <<idx, chain>>

\* BlockExecResult::Exit: the interpreter executes this instruction.
ExitBlock(p) ==
    /\ pc' = p
    /\ phase' = "single"
    /\ UNCHANGED <<idx, chain, x, epc, cause>>

\* The arithmetic micro-ops.
MicroAlu(m, at) ==
    /\ \/ m.op = "alu" /\ x' = Flip(x)
       \/ m.op = "auipc" /\ x' = at % 2
       \/ m.op = "fence" /\ x' = x
    /\ NextOp

MicroLoad(m, at) ==
    /\ m.op = "load"
    /\ \/ x' \in {0, 1} /\ NextOp
       \/ TrapBlock("load", at)

MicroStore(m, at) ==
    /\ m.op = "store"
    /\ \/ x' = x /\ NextOp
       \/ TrapBlock("store", at)

MicroJump(m, at) ==
    /\ \/ m.op = "jal" /\ ContinueBlock(m.to)
       \/ m.op = "branch" /\ ContinueBlock(IF x = 0 THEN m.to ELSE at + m.len)
    /\ x' = x

MicroExit(m, at) ==
    /\ m.op \in {"ecall", "sfence", "satp", "amo", "wfi"}
    /\ ExitBlock(at)

ExecuteBlock ==
    /\ phase = "block"
    /\ idx <= Len(cur.ops)
    /\ LET m == cur.ops[idx]
           at == cur.base + m.off
       IN \/ MicroAlu(m, at) \/ MicroLoad(m, at) \/ MicroStore(m, at)
          \/ MicroJump(m, at) \/ MicroExit(m, at)
    /\ UNCHANGED <<code, map, poll, cache, count, cur, fresh, writes>>

\* A block without a terminator.
EndBlock ==
    /\ phase = "block"
    /\ idx > Len(cur.ops)
    /\ ContinueBlock(cur.base + Bytes(cur))
    /\ UNCHANGED <<code, map, x, poll, cache, count, cur, fresh, writes>>

\* What a guest that keeps its code may not do to page contents and maps.
KeepsCode(c, m) ==
    GuestKeepsCode =>
        \A p \in Cached : \A k \in DOMAIN cache[p].ops :
            LET q == p + cache[p].ops[k].off IN
            /\ m[PageOf(q)] = map[PageOf(q)]
            /\ PageOf(q + 1) \in Pages => m[PageOf(q + 1)] = map[PageOf(q + 1)]
            /\ c[PhysIn(m, q)] = code[Phys(q)]

\* step_single_inner on the instruction the block stopped at.  SFENCE.VMA and a
\* satp write flush the TLB and the decode cache, not the blocks.
StepSingle ==
    /\ phase = "single"
    /\ Instruction
    /\ KeepsCode(code, map')
    /\ phase' = "step"
    /\ fresh' = IF Fetchable(pc) /\ InsnAt(pc).op \in {"sfence", "satp"} THEN {}
                ELSE fresh
    /\ UNCHANGED <<poll, chain, cache, count, cur, idx, writes>>

\* Another hart, or a device, stores into code.
GuestWritesCode ==
    /\ writes < MaxWrites
    /\ writes' = writes + 1
    /\ WriteCode
    /\ KeepsCode(code', map)
    /\ UNCHANGED <<phase, poll, chain, cache, count, cur, idx, fresh>>

EngineNext ==
    \/ Poll \/ Lookup \/ ExecuteBlock \/ EndBlock \/ StepSingle \/ GuestWritesCode

Hart == Poll \/ Lookup \/ ExecuteBlock \/ EndBlock \/ StepSingle

\* The hart's thread keeps calling step.
EngineSpec == EngineInit /\ [][EngineNext]_vars /\ WF_vars(Hart)

-----------------------------------------------------------------------------
\* The program counter the guest could observe: inside a block self.pc is stale.
ArchPc ==
    IF phase # "block" THEN pc
    ELSE IF idx <= Len(cur.ops) THEN cur.base + cur.ops[idx].off
    ELSE cur.base + Bytes(cur)

Interpreter == INSTANCE Isa WITH pc <- ArchPc

\* Executing compiled blocks is indistinguishable from interpreting one
\* instruction after the other: same values, same faulting pc in sepc, same
\* order, whatever the page crossings, the chaining and the interrupts
\* (execute_block_inner against step_single_inner).
BlocksImplementInterpreter == Interpreter!IsaSpec

\* A hart is never caught in chained blocks: it comes back to step, where
\* interrupts are polled (MAX_CHAIN_DEPTH).
ReturnsToPoll == []<>(phase = "step")

\* A block that runs was compiled after this hart's last SFENCE.VMA or satp
\* write: what the comment on invalidate_blocks says.
BlocksFollowFences == phase = "block" => cur.base \in fresh

=============================================================================
