--------------------------------- MODULE Mmu ---------------------------------
(***************************************************************************)
(* Address translation of several harts over shared page tables: the walk, *)
(* the direct-mapped TLB of each hart, SFENCE.VMA, satp writes and the SBI *)
(* remote fence (mmu.rs, cpu/execution.rs, sbi/rfence.rs).                 *)
(*                                                                         *)
(* Page tables are plain guest memory: a walk loads an entry per level and *)
(* may store the leaf back with its A and D bits, and any hart may edit an *)
(* entry between those accesses.  Two levels stand for Sv39's three: a     *)
(* root entry is a pointer or a superpage.  History held[h] collects the   *)
(* leaves each place has held since hart h last flushed its TLB.           *)
(***************************************************************************)
EXTENDS Integers, FiniteSets

CONSTANTS
    Harts,          \* cpus
    Asids,          \* address spaces, each with its own table
    Vpns,           \* virtual pages, SuperLen of them under one root entry
    SuperLen,
    TlbSize,        \* TLB_SIZE
    Tables,         \* initial page tables
    Edits,          \* <<asid, place, entry>> the guest may store
    Requests,       \* what the guest asks: [vpn, acc, mode, sum, mxr]
    RemoteReaches,  \* count a remote SFENCE.VMA as a flush of every hart's TLB
    MaxEdits        \* bound on the guest's edits

ASSUME MmuAssumption ==
    /\ Vpns \subseteq Nat /\ SuperLen \in Nat \ {0} /\ TlbSize \in Nat \ {0}
    /\ MaxEdits \in Nat /\ RemoteReaches \in BOOLEAN

VARIABLES
    pt,         \* pt[asid][place], the page tables in memory
    satp,       \* the address space of each hart
    tlb,        \* tlb[h][index]
    walk,       \* the walk a hart is in, or Idle
    out,        \* the answer translate has just given, if any
    held,       \* history, see above
    edits       \* how many edits there were

mmuVars == <<pt, satp, tlb, walk, out, held, edits>>

Root(v) == <<1, v \div SuperLen>>
Leaf(v) == <<0, v>>
Places == {Root(v) : v \in Vpns} \cup {Leaf(v) : v \in Vpns}
Slots == 0 .. TlbSize - 1
Ptes == [kind : {"none", "ptr", "leaf"}, ppn : Nat, perm : SUBSET {"R", "W", "X", "U", "G"},
         a : BOOLEAN, d : BOOLEAN]
ASSUME TablesAssumption ==
    /\ Tables \subseteq [Asids -> [Places -> Ptes]]
    /\ Edits \subseteq Asids \X Places \X Ptes
    /\ \A r \in Requests : r.vpn \in Vpns
NoEntry == [vpn |-> -1]
Idle == [at |-> "idle"]
NoAnswer == [kind |-> "none"]
Refused == [kind |-> "fault"]

-----------------------------------------------------------------------------
\* check_permission_tlb.
Permitted(perm, r) ==
    /\ (r.mode = "S" /\ "U" \in perm) => (r.acc # "fetch" /\ r.sum)
    /\ r.mode = "U" => "U" \in perm
    /\ r.acc = "fetch" => "X" \in perm
    /\ r.acc = "store" => "W" \in perm
    /\ r.acc = "load" => ("R" \in perm \/ (r.mxr /\ "X" \in perm))

\* result_ppn: a superpage fills its low bits from the address.
Target(pte, level, v) ==
    IF level = 1 THEN (pte.ppn - (pte.ppn % SuperLen)) + (v % SuperLen) ELSE pte.ppn
Misaligned(pte, level) == level = 1 /\ pte.ppn % SuperLen # 0

Index(v) == v % TlbSize
\* Tlb::lookup: valid, same page, global or same address space.
Hit(h, v) ==
    LET e == tlb[h][Index(v)] IN
    e # NoEntry /\ e.vpn = v /\ ("G" \in e.perm \/ e.asid = satp[h])

Empty == [s \in Slots |-> NoEntry]
LeafPart(pte) == [kind |-> pte.kind, ppn |-> pte.ppn, perm |-> pte.perm]
Contents(table) == {<<a, p, LeafPart(table[a][p])>> : a \in Asids, p \in Places}

Answer(h, r, ppn) ==
    out' = [kind |-> "ok", hart |-> h, req |-> r, ppn |-> ppn]

\* Every store to a table may be seen by every hart from now on.
Observe(table) == held' = [h \in Harts |-> held[h] \cup Contents(table)]

-----------------------------------------------------------------------------
MmuInit ==
    /\ pt \in Tables
    /\ \E a \in Asids : satp = [h \in Harts |-> a]
    /\ tlb = [h \in Harts |-> Empty]
    /\ walk = [h \in Harts |-> Idle]
    /\ out = NoAnswer
    /\ held = [h \in Harts |-> Contents(pt)]
    /\ edits = 0

\* translate, the TLB's answer; A and D are not touched on a hit.
TranslateHit(h, r) ==
    /\ walk[h] = Idle
    /\ Hit(h, r.vpn)
    /\ LET e == tlb[h][Index(r.vpn)] IN
       IF Permitted(e.perm, r) THEN Answer(h, r, e.ppn) ELSE out' = Refused
    /\ UNCHANGED <<pt, satp, tlb, walk, held, edits>>

\* translate, a miss: the walk loads the root entry.
StartWalk(h, r) ==
    /\ walk[h] = Idle
    /\ ~Hit(h, r.vpn)
    /\ walk' = [walk EXCEPT ![h] = [at |-> "entry", req |-> r, place |-> Root(r.vpn),
                                    pte |-> pt[satp[h]][Root(r.vpn)]]]
    /\ out' = NoAnswer
    /\ UNCHANGED <<pt, satp, tlb, held, edits>>

Fault(h) ==
    /\ out' = Refused
    /\ walk' = [walk EXCEPT ![h] = Idle]
    /\ UNCHANGED <<pt, tlb, held>>

\* A pointer leads to the entry of the next level.
Descend(h) ==
    /\ walk' = [walk EXCEPT ![h].place = Leaf(walk[h].req.vpn),
                            ![h].pte = pt[satp[h]][Leaf(walk[h].req.vpn)]]
    /\ out' = NoAnswer
    /\ UNCHANGED <<pt, tlb, held>>

\* The leaf loaded before is stored with A and D set, whatever is there by now.
Finish(h) ==
    LET w == walk[h]
        d == w.pte.d \/ w.req.acc = "store"
        v == w.req.vpn
        ppn == Target(w.pte, w.place[1], v)
    IN /\ pt' = IF w.pte.a /\ w.pte.d = d THEN pt
                ELSE [pt EXCEPT ![satp[h]][w.place] = [w.pte EXCEPT !.a = TRUE, !.d = d]]
       /\ Observe(pt')
       /\ tlb' = [tlb EXCEPT ![h][Index(v)] =
                    [vpn |-> v, asid |-> satp[h], perm |-> w.pte.perm, ppn |-> ppn]]
       /\ Answer(h, w.req, ppn)
       /\ walk' = [walk EXCEPT ![h] = Idle]

\* One turn of the walk's loop, with the entry it loaded.
WalkLevel(h) ==
    /\ walk[h] # Idle
    /\ LET w == walk[h] IN
       CASE w.pte.kind = "none" -> Fault(h)
         [] w.pte.kind = "ptr" ->
              IF w.place[1] = 0 THEN Fault(h) ELSE Descend(h)
         [] OTHER ->
              IF ~Permitted(w.pte.perm, w.req) \/ Misaligned(w.pte, w.place[1])
              THEN Fault(h) ELSE Finish(h)
    /\ UNCHANGED <<satp, edits>>

\* Mutant: the flush spares supervisor pages.
FlushUserPages(h) ==
    /\ tlb' = [tlb EXCEPT ![h] =
                 [s \in Slots |-> IF @[s] # NoEntry /\ "U" \notin @[s].perm THEN @[s] ELSE NoEntry]]
    /\ held' = [held EXCEPT ![h] = Contents(pt)]
    /\ out' = NoAnswer

\* Tlb::flush.
Flush(h) ==
    /\ tlb' = [tlb EXCEPT ![h] = Empty]
    /\ held' = [held EXCEPT ![h] = Contents(pt)]
    /\ out' = NoAnswer

\* SFENCE.VMA, whatever its operands; the legacy SBI calls do the same.
SfenceVma(h) ==
    /\ walk[h] = Idle
    /\ Flush(h)
    /\ UNCHANGED <<pt, satp, walk, edits>>

SetSatp(h, a) ==
    /\ walk[h] = Idle
    /\ Flush(h)
    /\ satp' = [satp EXCEPT ![h] = a]
    /\ UNCHANGED <<pt, walk, edits>>

\* remote_sfence_vma and remote_sfence_vma_asid: the masks are read and dropped,
\* the caller's own TLB is flushed.
RemoteSfenceVma(h) ==
    /\ walk[h] = Idle
    /\ tlb' = [tlb EXCEPT ![h] = Empty]
    /\ held' = [g \in Harts |-> IF g = h \/ RemoteReaches THEN Contents(pt) ELSE held[g]]
    /\ out' = NoAnswer
    /\ UNCHANGED <<pt, satp, walk, edits>>

\* The guest edits a table, from any hart.
EditPte(a, p, pte) ==
    /\ edits < MaxEdits
    /\ pt[a][p] # pte
    /\ edits' = edits + 1
    /\ pt' = [pt EXCEPT ![a][p] = pte]
    /\ Observe(pt')
    /\ out' = NoAnswer
    /\ UNCHANGED <<satp, tlb, walk>>

MmuNext ==
    \/ \E h \in Harts, r \in Requests : TranslateHit(h, r) \/ StartWalk(h, r)
    \/ \E h \in Harts : WalkLevel(h) \/ SfenceVma(h) \/ RemoteSfenceVma(h)
    \/ \E h \in Harts, a \in Asids : SetSatp(h, a)
    \/ \E e \in Edits : EditPte(e[1], e[2], e[3])

MmuSpec == MmuInit /\ [][MmuNext]_mmuVars

-----------------------------------------------------------------------------
\* The leaves hart h may still use for page v of space a.
MayUse(h, a, v) ==
    {t \in held[h] : t[1] = a /\ t[2] \in {Root(v), Leaf(v)} /\ t[3].kind = "leaf"}

\* Every successful translation is one that the page tables of the hart's own
\* address space allowed, to that page and for that access, at some time since
\* the hart's last flush: no hart uses a mapping removed before its fence, and
\* none of another space (translate, Tlb::lookup, Tlb::flush).
TranslationJustified ==
    out.kind = "ok" =>
        \E t \in MayUse(out.hart, satp[out.hart], out.req.vpn) :
            /\ Permitted(t[3].perm, out.req)
            /\ Target(t[3], t[2][1], out.req.vpn) = out.ppn

=============================================================================
