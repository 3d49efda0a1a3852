-------------------------------- MODULE MCCpu --------------------------------
(***************************************************************************)
(* The parts of a hart for TLC.  `which' says what a behaviour is about;   *)
(* the variables of the other parts keep their initial values:             *)
(*   "blocks"  the superblock engine against the interpreter;              *)
(*   "traps"   privilege modes, traps and the interrupt poll;              *)
(*   "mmu"     address translation on two harts;                           *)
(*   "values"  what one instruction computes.                              *)
(***************************************************************************)
EXTENDS Engine, Privilege, Mmu, Alu

VARIABLE which

-----------------------------------------------------------------------------
(* Programs of eight halfwords in pages of four; the trap handler is at 5. *)
(* Together: loops, branches over a page's end, an instruction across it,  *)
(* every exit to the interpreter, faults in mid-block, code too long for a *)
(* block.                                                                  *)
I(op, len, to) == [op |-> op, len |-> len, to |-> to]
One(op) == I(op, 1, 0)
Two(op) == I(op, 2, 0)
Jump(op, to) == I(op, 2, to)

MCInsns == {One("alu"), Jump("jal", 1), One("illegal"), Two("sfence")}
MCSequences ==
    { <<One("alu"), Two("auipc"), One("alu"), Two("load"),
        One("alu"), One("store"), One("alu"), Jump("jal", 0)>>,
      <<One("store"), Two("load"), One("alu"), Jump("branch", 1),
        One("alu"), One("alu"), Jump("jal", 1), One("alu")>>,
      <<One("alu"), Two("satp"), One("alu"), Two("alu"),
        One("alu"), One("alu"), Two("sfence"), Jump("jal", 1)>>,
      <<Jump("jal", 0), One("alu"), Two("wfi"), One("alu"),
        One("alu"), Jump("branch", 0), One("alu"), Two("ecall")>>,
      <<One("alu"), One("alu"), One("alu"), One("illegal"),
        One("alu"), Two("amo"), Two("fence"), One("alu")>> }
MCPrograms == {[p \in 0 .. 7 |-> s[p + 1]] : s \in MCSequences}

MCMaps == {[v \in 0 .. 1 |-> v], [v \in 0 .. 1 |-> 1 - v],
           [v \in 0 .. 1 |-> IF v = 0 THEN 0 ELSE -1]}

-----------------------------------------------------------------------------
(* Page 0 through a table, page 2 in a superpage; the spaces differ in     *)
(* page 0.  The guest unmaps it, makes it read-only, splits the superpage. *)
Pte(kind, ppn, perm) ==
    [kind |-> kind, ppn |-> ppn, perm |-> perm, a |-> "U" \in perm, d |-> FALSE]
MCTables ==
    { [a \in Asids |-> [p \in Places |->
         CASE p = Root(0) -> Pte("ptr", 0, {})
           [] p = Leaf(0) -> Pte("leaf", 3 + a, {"R", "W"})
           [] p = Root(2) -> Pte("leaf", 2, {"R", "X", "U"})
           [] OTHER -> Pte("none", 0, {})]] }
MCEdits == {<<0, Leaf(0), Pte("none", 0, {})>>, <<0, Leaf(0), Pte("leaf", 6, {"R", "G"})>>,
            <<1, Root(2), Pte("ptr", 0, {})>>}
Request(vpn, acc, access, sum) ==
    [vpn |-> vpn, acc |-> acc, mode |-> access, sum |-> sum, mxr |-> sum]
MCRequests == {Request(0, "store", "S", FALSE), Request(2, "load", "S", TRUE),
               Request(2, "fetch", "U", FALSE)}

\* A handler that prepares its return, and one that drops to the lower level.
MCSstatusWrites == {<<FALSE, TRUE, "S">>, <<TRUE, FALSE, "U">>}
MCMstatusWrites == {<<FALSE, TRUE, "S">>, <<FALSE, FALSE, "U">>}

-----------------------------------------------------------------------------
CpuInit ==
    /\ which \in {"blocks", "traps", "mmu", "values"}
    /\ EngineInit
    /\ which = "blocks" \/ (map[0] = 0 /\ map[1] = 1 /\ code[0] = Jump("jal", 0))
    /\ PrivInit
    /\ MmuInit /\ (which = "mmu" \/ satp[1] = 0)
    /\ AluInit

CpuNext ==
    /\ UNCHANGED which
    /\ \/ which = "blocks" /\ EngineNext /\ UNCHANGED <<privVars, mmuVars, aluVars>>
       \/ which = "traps" /\ PrivNext /\ UNCHANGED <<vars, mmuVars, aluVars>>
       \/ which = "mmu" /\ MmuNext /\ UNCHANGED <<vars, privVars, aluVars>>
       \/ which = "values" /\ AluNext /\ UNCHANGED <<vars, privVars, mmuVars>>

cpuVars == <<which, vars, privVars, mmuVars, aluVars>>

(* The hart's thread keeps stepping: the fairness of Engine and Privilege. *)
CpuSpec ==
    /\ CpuInit /\ [][CpuNext]_cpuVars
    /\ WF_cpuVars(/\ \/ which = "blocks" /\ Hart /\ UNCHANGED privVars
                     \/ which = "traps" /\ Steps /\ UNCHANGED vars
                  /\ UNCHANGED <<which, mmuVars, aluVars>>)
=============================================================================
