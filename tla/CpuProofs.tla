------------------------------- MODULE CpuProofs --------------------------------
(***************************************************************************)
(* Theorems about a hart and its memory: traps return to what they         *)
(* interrupted, every translation is justified by the page tables, the     *)
(* accesses of all harts behave as single indivisible ones, the bus        *)
(* decodes addresses by one map, and compiled blocks do what the           *)
(* interpreter would.                                                      *)
(***************************************************************************)
EXTENDS Privilege, Mmu, Memory, Bus, Engine, FiniteSetTheorems, SequenceTheorems,
        WellFoundedInduction, TLAPS

-----------------------------------------------------------------------------
(* SRET and MRET return to what the trap interrupted, for any guest: any   *)
(* program counters, exceptions, delegation, interrupts and writes of the  *)
(* status registers.                                                       *)
(*                                                                         *)
(* The action property needs an invariant: as long as the history has a    *)
(* frame, the CSRs of that level still hold it, whatever the other level   *)
(* does.                                                                   *)

ModesOk == mode \in Modes /\ spp \in {"S", "U"} /\ mpp \in Modes

SavedS == frameS # NoFrame => frameS.mode = spp /\ frameS.on = spie /\ frameS.pc = sepc
SavedM == frameM # NoFrame => frameM.mode = mpp /\ frameM.on = mpie /\ frameM.pc = mepc

PrivInv == ModesOk /\ SavedS /\ SavedM

-----------------------------------------------------------------------------
LEMMA InitSaved == PrivInit => PrivInv
  BY DEF PrivInit, PrivInv, ModesOk, Modes, SavedS, SavedM

\* A trap to S-mode saves all of S, and leaves M's copy alone; and conversely.
LEMMA TrapSaves ==
  ASSUME PrivInv, NEW delegated, HandleTrap(delegated)
  PROVE  PrivInv'
<1>1. CASE mode # "M" /\ TrapToS
  <2>1. ModesOk'
    BY <1>1 DEF TrapToS, PrivInv, ModesOk, Modes, mach
  <2>2. SavedS'
    BY <1>1 DEF TrapToS, PrivInv, ModesOk, Modes, SavedS
  <2>3. SavedM'
    BY <1>1 DEF TrapToS, PrivInv, SavedM, mach
  <2> QED BY <2>1, <2>2, <2>3 DEF PrivInv
<1>2. CASE TrapToM
  <2>1. ModesOk'
    BY <1>2 DEF TrapToM, PrivInv, ModesOk, Modes, sup
  <2>2. SavedM'
    BY <1>2 DEF TrapToM, SavedM
  <2>3. SavedS'
    BY <1>2 DEF TrapToM, PrivInv, SavedS, sup
  <2> QED BY <2>1, <2>2, <2>3 DEF PrivInv
<1> QED BY <1>1, <1>2 DEF HandleTrap

\* Steps that leave both levels' saved state alone.
LEMMA Untouched ==
  ASSUME PrivInv, UNCHANGED <<mode, sup, mach>>
  PROVE  PrivInv'
  BY DEF PrivInv, ModesOk, SavedS, SavedM, sup, mach

LEMMA StepSaved == PrivInv /\ [PrivNext]_privVars => PrivInv'
<1> SUFFICES ASSUME PrivInv, [PrivNext]_privVars PROVE PrivInv'
  OBVIOUS
<1>1. CASE UNCHANGED privVars
  BY <1>1, Untouched DEF privVars
<1>2. CASE PollInterrupts
  <2>1. HandleTrap(Chosen \in Mideleg) \/ UNCHANGED <<mode, at, sup, mach>>
    BY <1>2 DEF PollInterrupts
  <2> QED BY <2>1, TrapSaves, Untouched
<1>3. ASSUME NEW c \in Exceptions, Raise(c) PROVE PrivInv'
  BY <1>3, TrapSaves DEF Raise
<1>4. ASSUME NEW p \in GuestPcs, Goto(p) PROVE PrivInv'
  BY <1>4, Untouched DEF Goto
<1>5. ASSUME NEW p \in GuestPcs, WriteSepc(p) PROVE PrivInv'
  BY <1>5 DEF WriteSepc, PrivInv, ModesOk, SavedS, SavedM, mach
<1>6. CASE Mret
  BY <1>6 DEF Mret, PrivInv, ModesOk, Modes, SavedS, SavedM, sup
<1>7. CASE Sret
  BY <1>7 DEF Sret, PrivInv, ModesOk, Modes, SavedS, SavedM, mach
<1>8. ASSUME NEW w \in SstatusWrites, WriteSstatus(w[1], w[2], w[3]) PROVE PrivInv'
  <2>1. w[3] \in {"S", "U"}
    BY PrivilegeAssumption
  <2>2. ModesOk' /\ SavedM'
    BY <1>8, <2>1 DEF WriteSstatus, PrivInv, ModesOk, SavedM, mach
  <2>3. SavedS'
    BY <1>8 DEF WriteSstatus, PrivInv, SavedS
  <2> QED BY <2>2, <2>3 DEF PrivInv
<1>9. ASSUME NEW w \in MstatusWrites, WriteMstatus(w[1], w[2], w[3]) PROVE PrivInv'
  <2>1. w[3] \in Modes
    BY PrivilegeAssumption DEF Modes
  <2>2. ModesOk' /\ SavedS'
    BY <1>9, <2>1 DEF WriteMstatus, PrivInv, ModesOk, SavedS, sup
  <2>3. SavedM'
    BY <1>9 DEF WriteMstatus, PrivInv, SavedM
  <2> QED BY <2>2, <2>3 DEF PrivInv
<1>10. ASSUME NEW b \in Wired, WriteEnable(b) \/ Line(b) PROVE PrivInv'
  BY <1>10, Untouched DEF WriteEnable, Line
<1>11. ASSUME NEW on \in BOOLEAN, WriteSip(on) PROVE PrivInv'
  BY <1>11, Untouched DEF WriteSip
<1> QED
  BY <1>1, <1>2, <1>3, <1>4, <1>5, <1>6, <1>7, <1>8, <1>9, <1>10, <1>11
     DEF PrivNext, Steps

-----------------------------------------------------------------------------
\* SRET and MRET restore mode, interrupt enable and program counter of the trap
\* they return from (handle_trap against SRET and MRET).
THEOREM ReturnsRestore == PrivSpec => ReturnsToInterrupted
<1>1. PrivInv /\ [PrivNext]_privVars =>
        [/\ (Sret /\ frameS # NoFrame) =>
              mode' = frameS.mode /\ sie' = frameS.on /\ at' = frameS.pc
         /\ (Mret /\ frameM # NoFrame) =>
              mode' = frameM.mode /\ mie' = frameM.on /\ at' = frameM.pc]_privVars
  BY DEF PrivInv, SavedS, SavedM, Sret, Mret
<1> QED BY InitSaved, StepSaved, <1>1, PTL DEF PrivSpec, ReturnsToInterrupted

-----------------------------------------------------------------------------
(* Every translation is justified, for any number of harts and spaces, any *)
(* page tables, any TLB size and any number of edits.                      *)
(*                                                                         *)
(* TranslationJustified is about the answer of the moment.  What must be   *)
(* known besides is where answers come from: a TLB entry and the entry a   *)
(* walk has loaded are leaves that the tables of the hart's own space held *)
(* since its last flush.                                                   *)

Perms == SUBSET {"R", "W", "X", "U", "G"}
Entries == [vpn : Vpns, asid : Asids, perm : Perms, ppn : Int]
Leaves == [kind : {"none", "ptr", "leaf"}, ppn : Nat, perm : Perms]
Walks == [at : {"entry"}, req : Requests, place : Places, pte : Ptes]

MmuTyped ==
    /\ pt \in [Asids -> [Places -> Ptes]]
    /\ satp \in [Harts -> Asids]
    /\ tlb \in [Harts -> [Slots -> {NoEntry} \cup Entries]]
    /\ walk \in [Harts -> {Idle} \cup Walks]
    /\ held \in [Harts -> SUBSET (Asids \X Places \X Leaves)]

\* The tables as they are count as held.
PtHeld == \A h \in Harts : Contents(pt) \subseteq held[h]

\* What a walk has loaded is from the hart's space and was held since its flush.
WalkHeld ==
    \A h \in Harts : walk[h] # Idle =>
        /\ walk[h].place \in {Root(walk[h].req.vpn), Leaf(walk[h].req.vpn)}
        /\ <<satp[h], walk[h].place, LeafPart(walk[h].pte)>> \in held[h]

\* So was what the TLB has kept, global pages included.
Backed(h, e) ==
    /\ e.asid = satp[h]
    /\ \E t \in MayUse(h, satp[h], e.vpn) :
          t[3].perm = e.perm /\ Target(t[3], t[2][1], e.vpn) = e.ppn
TlbHeld == \A h \in Harts, s \in Slots : tlb[h][s] # NoEntry => Backed(h, tlb[h][s])

MmuInv == MmuTyped /\ PtHeld /\ WalkHeld /\ TlbHeld /\ TranslationJustified

-----------------------------------------------------------------------------
LEMMA PlacesOf ==
  ASSUME NEW v \in Vpns
  PROVE  Root(v) \in Places /\ Leaf(v) \in Places /\ Root(v)[1] = 1 /\ Leaf(v)[1] = 0
  BY DEF Places, Root, Leaf

LEMMA IndexIs ==
  ASSUME NEW v \in Vpns
  PROVE  Index(v) \in Slots
  BY MmuAssumption DEF Index, Slots

LEMMA ContentsTyped ==
  ASSUME NEW table \in [Asids -> [Places -> Ptes]]
  PROVE  Contents(table) \subseteq Asids \X Places \X Leaves
<1>1. \A e \in Ptes : LeafPart(e) \in Leaves
  BY DEF LeafPart, Ptes, Leaves, Perms
<1> QED BY <1>1 DEF Contents

\* What the history backs, it backs while it grows and the space stays.
LEMMA BackedKept ==
  ASSUME NEW h \in Harts, held[h] \subseteq held'[h], satp'[h] = satp[h], NEW e, Backed(h, e)
  PROVE  Backed(h, e)'
<1>1. PICK t \in MayUse(h, satp[h], e.vpn) :
        t[3].perm = e.perm /\ Target(t[3], t[2][1], e.vpn) = e.ppn
  BY DEF Backed
<1>2. t \in MayUse(h, satp[h], e.vpn)'
  BY DEF MayUse
<1> QED BY <1>1, <1>2 DEF Backed

\* Steps that only answer.
LEMMA AnswerOnly ==
  ASSUME MmuInv, UNCHANGED <<pt, satp, tlb, walk, held>>
  PROVE  MmuTyped' /\ PtHeld' /\ WalkHeld' /\ TlbHeld'
<1>1. \A h \in Harts : \A e : Backed(h, e) => Backed(h, e)'
  BY BackedKept
<1> QED BY <1>1 DEF MmuInv, MmuTyped, PtHeld, WalkHeld, TlbHeld

LEMMA HitStep ==
  ASSUME MmuInv, NEW h \in Harts, NEW r \in Requests, TranslateHit(h, r)
  PROVE  MmuInv'
<1> DEFINE e == tlb[h][Index(r.vpn)]
<1>1. e # NoEntry /\ e.vpn = r.vpn
  BY DEF TranslateHit, Hit
<1>2. Index(r.vpn) \in Slots
  BY IndexIs, TablesAssumption
<1>3. PICK t \in MayUse(h, satp[h], r.vpn) :
        t[3].perm = e.perm /\ Target(t[3], t[2][1], r.vpn) = e.ppn
  BY <1>1, <1>2 DEF MmuInv, TlbHeld, Backed
<1>4. t \in MayUse(h, satp[h], r.vpn)'
  BY DEF MayUse, TranslateHit
<1>5. CASE Permitted(e.perm, r)
  <2>1. /\ out'.hart = h /\ out'.req = r /\ out'.ppn = e.ppn
        /\ satp'[h] = satp[h]
    BY <1>5 DEF TranslateHit, Answer
  <2>2. TranslationJustified'
    BY <1>3, <1>4, <1>5, <2>1 DEF TranslationJustified
  <2> QED BY <2>2, AnswerOnly DEF MmuInv, TranslateHit
<1>6. CASE ~Permitted(e.perm, r)
  <2>1. TranslationJustified'
    BY <1>6 DEF TranslationJustified, TranslateHit, Refused
  <2> QED BY <2>1, AnswerOnly DEF MmuInv, TranslateHit
<1> QED BY <1>5, <1>6

\* A load from the tables is of something held.
LEMMA LoadHeld ==
  ASSUME MmuInv, NEW h \in Harts, NEW a \in Asids, NEW p \in Places
  PROVE  pt[a][p] \in Ptes /\ <<a, p, LeafPart(pt[a][p])>> \in held[h]
  BY DEF MmuInv, MmuTyped, PtHeld, Contents

\* One hart's walk goes on with an entry it has just loaded; nothing else moves.
LEMMA LoadStep ==
  ASSUME MmuInv, NEW h \in Harts, NEW r \in Requests, NEW p \in {Root(r.vpn), Leaf(r.vpn)},
         walk' = [walk EXCEPT ![h] = [at |-> "entry", req |-> r, place |-> p, pte |-> pt[satp[h]][p]]],
         out' = NoAnswer, UNCHANGED <<pt, satp, tlb, held>>
  PROVE  MmuInv'
<1> DEFINE n == [at |-> "entry", req |-> r, place |-> p, pte |-> pt[satp[h]][p]]
<1>1. p \in Places /\ satp[h] \in Asids
  BY PlacesOf, TablesAssumption DEF MmuInv, MmuTyped
<1>2. n \in Walks /\ <<satp[h], p, LeafPart(pt[satp[h]][p])>> \in held[h]
  BY <1>1, LoadHeld DEF Walks
<1>3. walk'[h] = n /\ \A g \in Harts : g # h => walk'[g] = walk[g]
  BY DEF MmuInv, MmuTyped
<1>4. MmuTyped'
  BY <1>2 DEF MmuInv, MmuTyped
<1>5. WalkHeld'
  BY <1>2, <1>3 DEF MmuInv, WalkHeld
<1>6. PtHeld' /\ TlbHeld'
  <2>1. \A g \in Harts : \A e : Backed(g, e) => Backed(g, e)'
    BY BackedKept
  <2> QED BY <2>1 DEF MmuInv, PtHeld, TlbHeld
<1>7. TranslationJustified'
  BY DEF TranslationJustified, NoAnswer
<1> QED BY <1>4, <1>5, <1>6, <1>7 DEF MmuInv

LEMMA StartWalkStep ==
  ASSUME MmuInv, NEW h \in Harts, NEW r \in Requests, StartWalk(h, r)
  PROVE  MmuInv'
  BY LoadStep DEF StartWalk

LEMMA FaultStep ==
  ASSUME MmuInv, NEW h \in Harts, Fault(h), UNCHANGED <<satp, edits>>
  PROVE  MmuInv'
<1>1. walk'[h] = Idle /\ \A g \in Harts : g # h => walk'[g] = walk[g]
  BY DEF Fault, MmuInv, MmuTyped
<1>2. MmuTyped'
  BY DEF Fault, MmuInv, MmuTyped
<1>3. WalkHeld'
  BY <1>1 DEF Fault, MmuInv, WalkHeld
<1>4. PtHeld' /\ TlbHeld'
  <2>1. \A g \in Harts : \A e : Backed(g, e) => Backed(g, e)'
    BY BackedKept DEF Fault
  <2> QED BY <2>1 DEF Fault, MmuInv, PtHeld, TlbHeld
<1>5. TranslationJustified'
  BY DEF TranslationJustified, Fault, Refused
<1> QED BY <1>2, <1>3, <1>4, <1>5 DEF MmuInv

LEMMA DescendStep ==
  ASSUME MmuInv, NEW h \in Harts, walk[h] # Idle, Descend(h), UNCHANGED <<satp, edits>>
  PROVE  MmuInv'
<1>1. walk[h] \in Walks
  BY DEF MmuInv, MmuTyped
<1>2. PICK r \in Requests, p \in Places, e \in Ptes :
        walk[h] = [at |-> "entry", req |-> r, place |-> p, pte |-> e]
  BY <1>1 DEF Walks
<1> DEFINE n == [at |-> "entry", req |-> r, place |-> Leaf(r.vpn), pte |-> pt[satp[h]][Leaf(r.vpn)]]
<1>3. walk'[h] = n /\ \A g \in Harts : g # h => walk'[g] = walk[g]
  <2>1. PICK m : m = [walk[h] EXCEPT !.place = Leaf(r.vpn)]
    OBVIOUS
  <2>2. walk'[h] = [m EXCEPT !.pte = pt[satp[h]][Leaf(r.vpn)]]
    BY <1>2, <2>1 DEF Descend, MmuInv, MmuTyped
  <2>3. m = [at |-> "entry", req |-> r, place |-> Leaf(r.vpn), pte |-> e]
    BY <1>2, <2>1
  <2>4. \A g \in Harts : g # h => walk'[g] = walk[g]
    BY DEF Descend, MmuInv, MmuTyped
  <2> QED BY <2>2, <2>3, <2>4
<1>4. walk' = [walk EXCEPT ![h] = n]
  BY <1>3 DEF Descend, MmuInv, MmuTyped
<1> QED BY <1>4, LoadStep DEF Descend

LEMMA FinishStep ==
  ASSUME MmuInv, NEW h \in Harts, walk[h] # Idle, walk[h].pte.kind = "leaf",
         Permitted(walk[h].pte.perm, walk[h].req), Finish(h), UNCHANGED <<satp, edits>>
  PROVE  MmuInv'
<1>1. PICK r \in Requests, p \in Places, e \in Ptes :
        walk[h] = [at |-> "entry", req |-> r, place |-> p, pte |-> e]
  BY DEF MmuInv, MmuTyped, Walks
<1>2. PICK a \in Asids : satp[h] = a
  BY DEF MmuInv, MmuTyped
<1>3. PICK v \in Vpns : r.vpn = v
  BY TablesAssumption
<1>4. PICK i \in Slots : Index(v) = i
  BY IndexIs
<1>5. PICK to \in Int : Target(e, p[1], v) = to
  BY MmuAssumption DEF Target, Ptes
<1> DEFINE n == [vpn |-> v, asid |-> a, perm |-> e.perm, ppn |-> to]
           d == e.d \/ r.acc = "store"
           f == [e EXCEPT !.a = TRUE, !.d = d]
           t == <<a, p, LeafPart(e)>>
<1>6. /\ pt' = IF e.a /\ e.d = d THEN pt ELSE [pt EXCEPT ![a][p] = f]
      /\ held' = [g \in Harts |-> held[g] \cup Contents(pt')]
      /\ tlb' = [tlb EXCEPT ![h][i] = n]
      /\ out' = [kind |-> "ok", hart |-> h, req |-> r, ppn |-> to]
      /\ walk' = [walk EXCEPT ![h] = Idle]
  <2>1. /\ walk[h].req = r /\ walk[h].place = p /\ walk[h].pte = e
        /\ walk[h].req.vpn = v /\ Target(walk[h].pte, walk[h].place[1], walk[h].req.vpn) = to
    BY <1>1, <1>3, <1>5
  <2> QED BY <1>2, <1>4, <2>1 DEF Finish, Observe, Answer
<1>7. /\ p \in {Root(v), Leaf(v)} /\ t \in held[h]
      /\ e.kind = "leaf" /\ Permitted(e.perm, r)
  BY <1>1, <1>2, <1>3 DEF MmuInv, WalkHeld
<1>8. f \in Ptes
  BY DEF Ptes
<1>9. n \in Entries
  BY DEF Entries, Ptes, Perms
<1> HIDE DEF n, d, f
<1>10. MmuTyped'
  <2>1. pt' \in [Asids -> [Places -> Ptes]]
    BY <1>6, <1>8 DEF MmuInv, MmuTyped
  <2>2. held' \in [Harts -> SUBSET (Asids \X Places \X Leaves)]
    BY <1>6, <2>1, ContentsTyped DEF MmuInv, MmuTyped
  <2> QED BY <1>6, <1>9, <2>1, <2>2 DEF MmuInv, MmuTyped
<1>11. \A g \in Harts : held[g] \subseteq held'[g] /\ Contents(pt') \subseteq held'[g]
  BY <1>6
<1>12. PtHeld'
  BY <1>11 DEF PtHeld, Contents
<1>13. WalkHeld'
  BY <1>6, <1>11 DEF MmuInv, MmuTyped, WalkHeld
<1>14. t \in held'[h] /\ t[3].perm = e.perm /\ t[3].kind = "leaf" /\ t[1] = a /\ t[2] = p
  BY <1>7, <1>11 DEF LeafPart
<1>15. Target(t[3], t[2][1], v) = to
  BY <1>5 DEF Target, LeafPart
<1>16. satp'[h] = a
  BY <1>2
<1> HIDE DEF t
<1>17. t \in MayUse(h, satp[h], v)'
  BY <1>7, <1>14, <1>16 DEF MayUse
<1>18. TlbHeld'
  <2>1. n.asid = a /\ n.vpn = v /\ n.perm = e.perm /\ n.ppn = to
    BY DEF n
  <2>2. Backed(h, n)'
    BY <1>14, <1>15, <1>16, <1>17, <2>1 DEF Backed
  <2>3. \A g \in Harts : \A m : Backed(g, m) => Backed(g, m)'
    BY <1>11, BackedKept
  <2>4. \A g \in Harts, s \in Slots : tlb'[g][s] = IF g = h /\ s = i THEN n ELSE tlb[g][s]
    BY <1>6 DEF MmuInv, MmuTyped
  <2> QED BY <2>2, <2>3, <2>4 DEF MmuInv, TlbHeld
<1>19. TranslationJustified'
  <2>1. out'.hart = h /\ out'.req = r /\ out'.ppn = to
    BY <1>6
  <2>2. \E u \in MayUse(h, satp[h], v)' : Permitted(u[3].perm, r) /\ Target(u[3], u[2][1], v) = to
    BY <1>7, <1>14, <1>15, <1>17
  <2>3. MayUse(out.hart, satp[out.hart], out.req.vpn)' = MayUse(h, satp[h], v)'
    BY <1>3, <2>1 DEF MayUse
  <2> QED BY <1>3, <2>1, <2>2, <2>3 DEF TranslationJustified
<1> QED BY <1>10, <1>12, <1>13, <1>18, <1>19 DEF MmuInv

LEMMA WalkStep ==
  ASSUME MmuInv, NEW h \in Harts, WalkLevel(h)
  PROVE  MmuInv'
<1>1. walk[h] # Idle /\ walk[h].pte.kind \in {"none", "ptr", "leaf"}
  BY DEF WalkLevel, MmuInv, MmuTyped, Walks, Ptes
<1>2. CASE Fault(h)
  BY <1>2, FaultStep DEF WalkLevel
<1>3. CASE Descend(h)
  BY <1>1, <1>3, DescendStep DEF WalkLevel
<1>4. CASE walk[h].pte.kind = "leaf" /\ Permitted(walk[h].pte.perm, walk[h].req) /\ Finish(h)
  BY <1>1, <1>4, FinishStep DEF WalkLevel
<1> QED BY <1>1, <1>2, <1>3, <1>4 DEF WalkLevel

-----------------------------------------------------------------------------
\* A hart without a walk empties its TLB and its history, and may change space.
LEMMA FlushStep ==
  ASSUME MmuInv, NEW h \in Harts, walk[h] = Idle,
         tlb' = [tlb EXCEPT ![h] = Empty],
         held' = [held EXCEPT ![h] = Contents(pt)],
         satp' \in [Harts -> Asids], \A g \in Harts : g # h => satp'[g] = satp[g],
         out' = NoAnswer, UNCHANGED <<pt, walk>>
  PROVE  MmuInv'
<1>1. Empty \in [Slots -> {NoEntry} \cup Entries] /\ \A s \in Slots : Empty[s] = NoEntry
  BY DEF Empty
<1>2. MmuTyped'
  <2>1. Contents(pt) \subseteq Asids \X Places \X Leaves
    BY ContentsTyped DEF MmuInv, MmuTyped
  <2> QED BY <1>1, <2>1 DEF MmuInv, MmuTyped
<1>3. /\ tlb'[h] = Empty /\ \A g \in Harts : g # h => tlb'[g] = tlb[g]
      /\ held'[h] = Contents(pt) /\ \A g \in Harts : g # h => held'[g] = held[g]
  BY DEF MmuInv, MmuTyped
<1>4. PtHeld' /\ WalkHeld'
  BY <1>3 DEF MmuInv, PtHeld, WalkHeld
<1>5. \A g \in Harts : \A e : g # h /\ Backed(g, e) => Backed(g, e)'
  BY <1>3, BackedKept
<1>6. TlbHeld'
  BY <1>1, <1>3, <1>5 DEF MmuInv, TlbHeld
<1>7. TranslationJustified'
  BY DEF TranslationJustified, NoAnswer
<1> QED BY <1>2, <1>4, <1>6, <1>7 DEF MmuInv

LEMMA FlushSteps ==
  ASSUME MmuInv, ~RemoteReaches, NEW h \in Harts,
         SfenceVma(h) \/ RemoteSfenceVma(h) \/ (\E a \in Asids : SetSatp(h, a))
  PROVE  MmuInv'
<1>1. satp \in [Harts -> Asids]
  BY DEF MmuInv, MmuTyped
<1>2. CASE SfenceVma(h)
  BY <1>1, <1>2, FlushStep DEF SfenceVma, Flush
<1>3. CASE RemoteSfenceVma(h)
  <2>1. held' = [held EXCEPT ![h] = Contents(pt)]
    BY <1>3 DEF RemoteSfenceVma, MmuInv, MmuTyped
  <2> QED BY <1>1, <1>3, <2>1, FlushStep DEF RemoteSfenceVma
<1>4. ASSUME NEW a \in Asids, SetSatp(h, a)
      PROVE  MmuInv'
  <2>1. satp' \in [Harts -> Asids] /\ \A g \in Harts : g # h => satp'[g] = satp[g]
    BY <1>1, <1>4 DEF SetSatp
  <2> QED BY <1>4, <2>1, FlushStep DEF SetSatp, Flush
<1> QED BY <1>2, <1>3, <1>4

LEMMA EditStep ==
  ASSUME MmuInv, NEW a \in Asids, NEW p \in Places, NEW e \in Ptes, EditPte(a, p, e)
  PROVE  MmuInv'
<1>1. \A g \in Harts : held[g] \subseteq held'[g] /\ Contents(pt') \subseteq held'[g]
  BY DEF EditPte, Observe
<1>2. MmuTyped'
  <2>1. pt' \in [Asids -> [Places -> Ptes]]
    BY DEF EditPte, MmuInv, MmuTyped
  <2>2. held' \in [Harts -> SUBSET (Asids \X Places \X Leaves)]
    BY <2>1, ContentsTyped DEF EditPte, Observe, MmuInv, MmuTyped
  <2> QED BY <2>1, <2>2 DEF EditPte, MmuInv, MmuTyped
<1>3. PtHeld'
  BY <1>1 DEF PtHeld, Contents
<1>4. WalkHeld'
  BY <1>1 DEF EditPte, MmuInv, WalkHeld
<1>5. \A g \in Harts : \A f : Backed(g, f) => Backed(g, f)'
  BY <1>1, BackedKept DEF EditPte
<1>6. TlbHeld'
  BY <1>5 DEF EditPte, MmuInv, TlbHeld
<1>7. TranslationJustified'
  BY DEF EditPte, TranslationJustified, NoAnswer
<1> QED BY <1>2, <1>3, <1>4, <1>6, <1>7 DEF MmuInv

-----------------------------------------------------------------------------
LEMMA MmuStart == MmuInit => MmuInv
<1> SUFFICES ASSUME MmuInit PROVE MmuInv
  OBVIOUS
<1>1. pt \in [Asids -> [Places -> Ptes]]
  BY TablesAssumption DEF MmuInit
<1>2. MmuTyped
  BY <1>1, ContentsTyped DEF MmuInit, MmuTyped, Empty
<1>3. PtHeld /\ WalkHeld /\ TlbHeld
  BY DEF MmuInit, PtHeld, WalkHeld, TlbHeld, Empty
<1>4. TranslationJustified
  BY DEF MmuInit, TranslationJustified, NoAnswer
<1> QED BY <1>2, <1>3, <1>4 DEF MmuInv

LEMMA MmuKept ==
  ASSUME ~RemoteReaches, MmuInv, [MmuNext]_mmuVars
  PROVE  MmuInv'
<1>1. ASSUME NEW h \in Harts, NEW r \in Requests, TranslateHit(h, r) \/ StartWalk(h, r)
      PROVE  MmuInv'
  BY <1>1, HitStep, StartWalkStep
<1>2. ASSUME NEW h \in Harts, WalkLevel(h) \/ SfenceVma(h) \/ RemoteSfenceVma(h)
      PROVE  MmuInv'
  BY <1>2, WalkStep, FlushSteps
<1>3. ASSUME NEW h \in Harts, NEW a \in Asids, SetSatp(h, a)
      PROVE  MmuInv'
  BY <1>3, FlushSteps
<1>4. ASSUME NEW e \in Edits, EditPte(e[1], e[2], e[3])
      PROVE  MmuInv'
  BY <1>4, EditStep, TablesAssumption
<1>5. CASE UNCHANGED mmuVars
  <2>1. TranslationJustified'
    BY <1>5 DEF mmuVars, MmuInv, TranslationJustified, MayUse
  <2> QED BY <1>5, <2>1, AnswerOnly DEF mmuVars, MmuInv
<1> QED BY <1>1, <1>2, <1>3, <1>4, <1>5 DEF MmuNext

\* No hart uses a mapping its space has not held since the hart's own last
\* flush, nor one of another space, whatever the tables, the TLB and the edits
\* during a walk are (translate, Tlb::lookup, Tlb::flush).  What a remote
\* SFENCE.VMA does to the other harts' TLBs is not counted as a flush of theirs.
THEOREM TranslationsJustified ==
  ASSUME ~RemoteReaches
  PROVE  MmuSpec => []TranslationJustified
<1>1. MmuInv /\ [MmuNext]_mmuVars => MmuInv'
  BY MmuKept
<1>2. MmuInv => TranslationJustified
  BY DEF MmuInv
<1> QED BY <1>1, <1>2, MmuStart, PTL DEF MmuSpec

-----------------------------------------------------------------------------
(* Memory.  Accesses of the native build, and the word accesses of WASM,    *)
(* implement AtomicMemory.                                                  *)

MemTyped ==
    /\ lo \in 0 .. WordLen - 1 /\ hi \in 0 .. WordLen - 1 /\ reg \in 0 .. (WordLen * WordLen) - 1
    /\ platform \in {"native", "wasm"}
    /\ asked \in [MemHarts -> MemRequests \cup {None}]
    /\ DOMAIN stage = MemHarts /\ DOMAIN loaded = MemHarts

\* A request half-way is a loop on a word, or an AMO on the register that has
\* read what is still there.
HalfWay(h) ==
    /\ asked[h] = None => stage[h] = "start"
    /\ asked[h] # None => Offered(asked[h])
    /\ stage[h] \in {"start", "cas", "modify"}
    /\ stage[h] = "cas" => platform = "wasm" /\ ByLoop(asked[h])
    /\ stage[h] = "modify" => /\ platform = "native" /\ asked[h].at = "reg" /\ asked[h].op = "amo"
                              /\ amoLock = {h} /\ loaded[h] = reg
MemInv == split \in BOOLEAN /\ (~split => MemTyped /\ \A h \in MemHarts : HalfWay(h))

-----------------------------------------------------------------------------
LEMMA SameNew == \A r, old : Promise!New(r, old) = Abstract!New(r, old) /\ Promise!Answer(r, old) = Abstract!Answer(r, old)
  BY DEF Promise!New, Abstract!New, Promise!NewWord, Abstract!NewWord, Promise!Fn, Abstract!Fn, Promise!PutByte, Abstract!PutByte,
         Promise!Low, Abstract!Low, Promise!High, Abstract!High, Promise!Signed, Abstract!Signed, Promise!DoubleLen, Abstract!DoubleLen,
         Promise!ByteLen, Abstract!ByteLen, Promise!Answer, Abstract!Answer, Promise!SignExtend, Abstract!SignExtend

LEMMA DoStep ==
  ASSUME ~split, ~split', NEW h \in MemHarts, asked[h] # None, NEW old, NEW new,
         old = (IF asked[h].at = "dram" THEN Held ELSE reg),
         new = (IF Abstract!Stores(asked[h], h) THEN Abstract!New(asked[h], old) ELSE old),
         Held' = (IF asked[h].at = "dram" THEN new ELSE Held),
         reg' = (IF asked[h].at = "dram" THEN reg ELSE new),
         CompleteAccess(h, IF asked[h].op = "sc" THEN (IF Abstract!Stores(asked[h], h) THEN 0 ELSE 1)
                           ELSE Abstract!Answer(asked[h], old))
  PROVE  Promise!Do(h)
  BY SameNew DEF CompleteAccess, Abstract!Reserve, Abstract!Stores, Promise!Do, Promise!Stores, Promise!Reserve, Seen, None, Abstract!None, Promise!None

-----------------------------------------------------------------------------
(* Words and doublewords.                                                   *)

Words == 0 .. WordLen - 1
Doubles == 0 .. (WordLen * WordLen) - 1

LEMMA Halves ==
  /\ \A v \in Doubles : Low(v) \in Words /\ High(v) \in Words /\ v = Low(v) + (WordLen * High(v))
  /\ \A l, h \in Words : /\ l + (WordLen * h) \in Doubles
                         /\ Low(l + (WordLen * h)) = l /\ High(l + (WordLen * h)) = h
<1>1. CASE WordLen = 4
  BY <1>1 DEF Low, High, Abstract!Low, Abstract!High, Words, Doubles
<1>2. CASE WordLen = 16
  BY <1>2 DEF Low, High, Abstract!Low, Abstract!High, Words, Doubles
<1> QED BY <1>1, <1>2, MemoryAssumption

LEMMA ByteStays ==
  ASSUME NEW w \in Words, NEW byte, NEW v \in Doubles
  PROVE  Abstract!PutByte(w, byte, v) \in Words
<1>1. CASE WordLen = 4
  <2>1. CASE byte = 0
    BY <1>1, <2>1 DEF Abstract!PutByte, Abstract!ByteLen, Words, Doubles
  <2>2. CASE byte # 0
    BY <1>1, <2>2 DEF Abstract!PutByte, Abstract!ByteLen, Words, Doubles
  <2> QED BY <2>1, <2>2
<1>2. CASE WordLen = 16
  <2>1. CASE byte = 0
    BY <1>2, <2>1 DEF Abstract!PutByte, Abstract!ByteLen, Words, Doubles
  <2>2. CASE byte # 0
    BY <1>2, <2>2 DEF Abstract!PutByte, Abstract!ByteLen, Words, Doubles
  <2> QED BY <2>1, <2>2
<1> QED BY <1>1, <1>2, MemoryAssumption

LEMMA FnStays ==
  ASSUME NEW n \in {WordLen, WordLen * WordLen}, NEW fn \in AmoFns \cup {"none"},
         NEW old \in 0 .. n - 1, NEW val \in 0 .. n - 1
  PROVE  Abstract!Fn(fn, old, val, n) \in 0 .. n - 1
<1>1. n \in Nat \ {0} /\ Closed(n)
  BY MemoryAssumption
<1>2. CASE fn \in {"and", "or", "xor"}
  BY <1>1, <1>2 DEF Abstract!Fn, Closed
<1>3. CASE fn = "add"
  BY <1>1, <1>3 DEF Abstract!Fn
<1>4. CASE fn \in {"none", "swap", "min", "max", "minu", "maxu"}
  BY <1>4 DEF Abstract!Fn
<1> QED BY <1>2, <1>3, <1>4 DEF AmoFns

LEMMA RequestParts ==
  ASSUME NEW r \in MemRequests
  PROVE  /\ r # None /\ r.fn \in AmoFns \cup {"none"} /\ r.val \in Doubles
         /\ r.size = "b" => r.op = "store" /\ r.fn = "swap"
         /\ r.fn \in MinMax => r.op = "amo"
         /\ r.op \in {"load", "lr"} => r.fn = "none"
         /\ r.op # "amo" => r.fn \in {"none", "swap"}
         /\ r.size \in {"b", "w", "d"} /\ r.at \in {"dram", "reg"}
<1>1. IsRequest(r)
  BY MemoryAssumption
<1> QED BY <1>1 DEF IsRequest, AmoFns, MinMax, Doubles, None, Abstract!None

LEMMA WordStays ==
  ASSUME NEW r \in MemRequests, r.size # "d", NEW w \in Words
  PROVE  Abstract!NewWord(r, w) \in Words
<1>1. Low(r.val) \in Words
  BY RequestParts, Halves
<1>2. CASE r.size = "b"
  BY <1>2, RequestParts, ByteStays DEF Abstract!NewWord
<1>3. CASE r.size # "b"
  <2>1. Abstract!Fn(r.fn, w, Low(r.val), WordLen) \in 0 .. WordLen - 1
    BY <1>1, RequestParts, FnStays DEF Words
  <2> QED BY <1>3, <2>1 DEF Abstract!NewWord, Low, Words
<1> QED BY <1>2, <1>3

LEMMA NewStays ==
  ASSUME NEW r \in MemRequests, NEW old \in Doubles
  PROVE  Abstract!New(r, old) \in Doubles
<1>1. CASE r.size = "d"
  <2>1. Abstract!Fn(r.fn, old, r.val, WordLen * WordLen) \in Doubles
    BY RequestParts, FnStays DEF Doubles
  <2> QED BY <1>1, <2>1 DEF Abstract!New, Abstract!DoubleLen
<1>2. CASE r.size # "d"
  <2>1. Low(old) \in Words /\ High(old) \in Words
    BY Halves
  <2>2. Abstract!NewWord(r, Low(old)) \in Words
    BY <1>2, <2>1, WordStays
  <2>3. Abstract!NewWord(r, Low(old)) + (WordLen * High(old)) \in Doubles
    BY <2>1, <2>2, Halves
  <2> QED BY <1>2, <2>3 DEF Abstract!New, Low, High
<1> QED BY <1>1, <1>2

\* The loop of WASM computes what the instruction does, on the word it read.
LEMMA LoopComputes ==
  ASSUME ExtendedOperands, NEW r \in MemRequests, ByLoop(r), NEW w \in Words
  PROVE  LoopWord(r, w) = Abstract!NewWord(r, w)
<1>1. CASE ~(r.size = "w" /\ r.fn \in {"min", "max"})
  BY <1>1 DEF LoopWord
<1>2. CASE r.size = "w" /\ r.fn \in {"min", "max"}
  <2> DEFINE v == Low(r.val)
  <2>1. v \in Words /\ r.val = Abstract!SignExtend(v)
    BY <1>2, RequestParts, Halves DEF ExtendedOperands
  <2> HIDE DEF v
  <2>2. LoopWord(r, w) = Low(Abstract!Fn(r.fn, Abstract!SignExtend(w), Abstract!SignExtend(v), WordLen * WordLen))
    BY <1>2, <2>1 DEF LoopWord
  <2>3. Abstract!NewWord(r, w) = Abstract!Fn(r.fn, w, v, WordLen)
    BY <1>2 DEF Abstract!NewWord, v, Low
  <2>4. CASE WordLen = 4
    <3>1. CASE r.fn = "min"
      BY <2>1, <2>2, <2>3, <2>4, <3>1 DEF Abstract!Fn, Abstract!SignExtend, Abstract!DoubleLen, Abstract!Signed, Low, Abstract!Low, Words
    <3>2. CASE r.fn = "max"
      BY <2>1, <2>2, <2>3, <2>4, <3>2 DEF Abstract!Fn, Abstract!SignExtend, Abstract!DoubleLen, Abstract!Signed, Low, Abstract!Low, Words
    <3> QED BY <1>2, <3>1, <3>2
  <2>5. CASE WordLen = 16
    <3>1. CASE r.fn = "min"
      BY <2>1, <2>2, <2>3, <2>5, <3>1 DEF Abstract!Fn, Abstract!SignExtend, Abstract!DoubleLen, Abstract!Signed, Low, Abstract!Low, Words
    <3>2. CASE r.fn = "max"
      BY <2>1, <2>2, <2>3, <2>5, <3>2 DEF Abstract!Fn, Abstract!SignExtend, Abstract!DoubleLen, Abstract!Signed, Low, Abstract!Low, Words
    <3> QED BY <1>2, <3>1, <3>2
  <2> QED BY <2>4, <2>5, MemoryAssumption
<1> QED BY <1>1, <1>2

-----------------------------------------------------------------------------
(* Steps outside the split case.                                            *)

\* What h does is not seen by a request of another hart that is half-way.
Apart(h) ==
    \A g \in MemHarts \ {h} :
        /\ asked'[g] = asked[g] /\ stage'[g] = stage[g] /\ loaded'[g] = loaded[g]
        /\ stage[g] = "modify" => UNCHANGED <<reg, amoLock>>

LEMMA MemKept ==
  ASSUME MemInv, ~split, NEW h \in MemHarts, UNCHANGED <<platform, split>>,
         lo' \in Words, hi' \in Words, reg' \in Doubles,
         asked' \in [MemHarts -> MemRequests \cup {None}],
         DOMAIN stage' = MemHarts, DOMAIN loaded' = MemHarts,
         Apart(h), HalfWay(h)'
  PROVE  MemInv'
<1>1. MemTyped'
  BY DEF MemInv, MemTyped, Words, Doubles
<1>2. ASSUME NEW g \in MemHarts PROVE HalfWay(g)'
  <2>1. CASE g = h
    BY <2>1
  <2>2. CASE g # h
    BY <2>2 DEF MemInv, HalfWay, Apart, Offered
  <2> QED BY <2>1, <2>2
<1> QED BY <1>1, <1>2 DEF MemInv

LEMMA Completes ==
  ASSUME MemInv, ~split, NEW h \in MemHarts, NEW v, CompleteAccess(h, v), UNCHANGED <<platform, split>>,
         lo' \in Words, hi' \in Words, reg' \in Doubles,
         \A g \in MemHarts \ {h} : stage[g] = "modify" => UNCHANGED <<reg, amoLock>>
  PROVE  MemInv'
<1>1. /\ asked' = [asked EXCEPT ![h] = None] /\ stage' = [stage EXCEPT ![h] = "start"]
      /\ loaded' = [loaded EXCEPT ![h] = 0]
  BY DEF CompleteAccess
<1>2. /\ asked' \in [MemHarts -> MemRequests \cup {None}] /\ DOMAIN stage' = MemHarts /\ DOMAIN loaded' = MemHarts
      /\ asked'[h] = None /\ stage'[h] = "start"
  BY <1>1 DEF MemInv, MemTyped
<1>3. Apart(h)
  BY <1>1 DEF MemInv, MemTyped, Apart
<1>4. HalfWay(h)'
  BY <1>2 DEF HalfWay
<1> QED BY <1>2, <1>3, <1>4, MemKept

\* The first access of two, or a retry.
LEMMA Continues ==
  ASSUME MemInv, ~split, NEW h \in MemHarts, asked[h] # None, NEW s, NEW v, Then(h, s, v),
         UNCHANGED <<platform, split, lo, hi, reg>>,
         \A g \in MemHarts \ {h} : stage[g] = "modify" => UNCHANGED amoLock,
         s \in {"start", "cas", "modify"},
         s = "cas" => platform = "wasm" /\ ByLoop(asked[h]),
         s = "modify" => /\ platform = "native" /\ asked[h].at = "reg" /\ asked[h].op = "amo"
                         /\ amoLock' = {h} /\ v = reg
  PROVE  MemInv' /\ UNCHANGED <<Held, reg, resv, asked, done>>
<1>1. UNCHANGED <<asked, resv, done>> /\ stage' = [stage EXCEPT ![h] = s] /\ loaded' = [loaded EXCEPT ![h] = v]
  BY DEF Then
<1>2. /\ asked' \in [MemHarts -> MemRequests \cup {None}] /\ DOMAIN stage' = MemHarts /\ DOMAIN loaded' = MemHarts
      /\ stage'[h] = s /\ loaded'[h] = v
  BY <1>1 DEF MemInv, MemTyped
<1>3. Apart(h)
  BY <1>1 DEF MemInv, MemTyped, Apart
<1>4. HalfWay(h)'
  BY <1>1, <1>2 DEF HalfWay, MemInv, Offered
<1>5. lo' \in Words /\ hi' \in Words /\ reg' \in Doubles
  BY DEF MemInv, MemTyped, Words, Doubles
<1>6. MemInv'
  BY <1>2, <1>3, <1>4, <1>5, MemKept
<1> QED BY <1>1, <1>6 DEF Held

\* What a hart that is not split knows about its request.
LEMMA Known ==
  ASSUME MemInv, ~split, NEW h \in MemHarts, asked[h] # None
  PROVE  /\ asked[h] \in MemRequests /\ HalfWay(h)
         /\ lo \in Words /\ hi \in Words /\ reg \in Doubles /\ Held \in Doubles /\ Low(Held) = lo /\ High(Held) = hi
         /\ platform = "wasm" => asked[h].size # "d" /\ ~(asked[h].at = "reg" /\ asked[h].op = "amo")
<1>1. asked[h] \in MemRequests /\ lo \in Words /\ hi \in Words /\ reg \in Doubles /\ HalfWay(h)
  BY DEF MemInv, MemTyped, Words, Doubles
<1>2. Held \in Doubles /\ Low(Held) = lo /\ High(Held) = hi
  BY <1>1, Halves DEF Held
<1>3. platform = "wasm" => asked[h].size # "d" /\ ~(asked[h].at = "reg" /\ asked[h].op = "amo")
  BY <1>1 DEF HalfWay, Offered, SplitRequest
<1> QED BY <1>1, <1>2, <1>3

LEMMA FailStep ==
  ASSUME MemInv, ~split, NEW h \in MemHarts, StoreConditionalFails(h), UNCHANGED <<platform, split, requests>>
  PROVE  MemInv' /\ Promise!Do(h)
<1>1. /\ asked[h] # None /\ asked[h].op = "sc" /\ ~Abstract!Stores(asked[h], h) /\ CompleteAccess(h, 1)
      /\ UNCHANGED <<lo, hi, reg, amoLock>>
  BY DEF StoreConditionalFails, At, Abstract!Stores
<1>2. Held' = Held
  BY <1>1 DEF Held
<1>3. MemInv'
  BY <1>1, Completes, Known
<1>4. Promise!Do(h)
  <2> DEFINE old == IF asked[h].at = "dram" THEN Held ELSE reg
  <2>1. /\ Held' = (IF asked[h].at = "dram" THEN old ELSE Held)
        /\ reg' = (IF asked[h].at = "dram" THEN reg ELSE old)
    BY <1>1, <1>2
  <2>2. old = (IF Abstract!Stores(asked[h], h) THEN Abstract!New(asked[h], old) ELSE old)
    BY <1>1
  <2>3. CompleteAccess(h, IF asked[h].op = "sc" THEN (IF Abstract!Stores(asked[h], h) THEN 0 ELSE 1)
                          ELSE Abstract!Answer(asked[h], old))
    BY <1>1
  <2>4. old = (IF asked[h].at = "dram" THEN Held ELSE reg)
    OBVIOUS
  <2> HIDE DEF old
  <2> QED BY <1>1, <2>1, <2>2, <2>3, <2>4, DoStep
<1> QED BY <1>3, <1>4

\* An access that stores what the instruction says, and answers with it.
LEMMA DoneAtOnce ==
  ASSUME ~split, ~split', NEW h \in MemHarts, asked[h] # None, NEW old,
         old = (IF asked[h].at = "dram" THEN Held ELSE reg),
         Proceeds(h), CompleteAccess(h, Result(h, old)),
         Held' = (IF asked[h].at = "dram" THEN Abstract!New(asked[h], old) ELSE Held),
         reg' = (IF asked[h].at = "dram" THEN reg ELSE Abstract!New(asked[h], old))
  PROVE  Promise!Do(h)
<1> DEFINE new == Abstract!New(asked[h], old)
<1>1. new = (IF Abstract!Stores(asked[h], h) THEN Abstract!New(asked[h], old) ELSE old)
  BY DEF Proceeds
<1>2. CompleteAccess(h, IF asked[h].op = "sc" THEN (IF Abstract!Stores(asked[h], h) THEN 0 ELSE 1)
                        ELSE Abstract!Answer(asked[h], old))
  BY DEF Result, Proceeds
<1>3. Held' = (IF asked[h].at = "dram" THEN new ELSE Held) /\ reg' = (IF asked[h].at = "dram" THEN reg ELSE new)
  OBVIOUS
<1> HIDE DEF new
<1> QED BY <1>1, <1>2, <1>3, DoStep

LEMMA DirectStep ==
  ASSUME MemInv, ~split, NEW h \in MemHarts, Direct(h), UNCHANGED <<platform, split, requests>>
  PROVE  MemInv' /\ Promise!Do(h)
<1> DEFINE new == Abstract!New(asked[h], Held)
<1>1. /\ asked[h] # None /\ Proceeds(h) /\ asked[h].at = "dram" /\ lo' = Low(new) /\ hi' = High(new)
      /\ CompleteAccess(h, Result(h, Held)) /\ UNCHANGED <<reg, amoLock>>
  BY DEF Direct, At
<1>2. new \in Doubles
  BY <1>1, Known, NewStays
<1> HIDE DEF new
<1>3. lo' \in Words /\ hi' \in Words /\ new = lo' + (WordLen * hi')
  BY <1>1, <1>2, Halves
<1>4. Held' = new
  BY <1>3 DEF Held
<1>5. MemInv'
  BY <1>1, <1>3, Known, Completes
<1>6. Promise!Do(h)
  <2>1. Held' = Abstract!New(asked[h], Held)
    BY <1>4 DEF new
  <2>2. Held = (IF asked[h].at = "dram" THEN Held ELSE reg)
    BY <1>1
  <2> QED BY <1>1, <2>1, <2>2, DoneAtOnce
<1> QED BY <1>5, <1>6

LEMMA ExchangeStep ==
  ASSUME ExtendedOperands, MemInv, ~split, NEW h \in MemHarts, CompareExchangeWord(h),
         UNCHANGED <<platform, split, requests>>
  PROVE  MemInv' /\ (Promise!Do(h) \/ UNCHANGED <<Held, reg, resv, asked, done>>)
<1> DEFINE r == asked[h]
<1>1. /\ r # None /\ ByLoop(r) /\ platform = "wasm" /\ UNCHANGED <<hi, reg, amoLock>>
  BY DEF CompareExchangeWord, At
<1>2. CASE lo = loaded[h]
  <2>1. lo' = LoopWord(r, lo) /\ CompleteAccess(h, Result(h, lo))
    BY <1>2 DEF CompareExchangeWord
  <2>2. /\ r \in MemRequests /\ lo \in Words /\ hi \in Words /\ Low(Held) = lo /\ High(Held) = hi
        /\ r.size # "d" /\ r.at = "dram"
    BY <1>1, Known DEF ByLoop
  <2>3. lo' = Abstract!NewWord(r, lo) /\ lo' \in Words
    BY <1>1, <2>1, <2>2, LoopComputes, WordStays
  <2>4. Abstract!New(r, Held) = Abstract!NewWord(r, lo) + (WordLen * hi)
    BY <2>2 DEF Abstract!New, Low, High
  <2>5. Held' = Abstract!New(r, Held)
    BY <1>1, <2>3, <2>4 DEF Held
  <2>6. Result(h, lo) = Result(h, Held)
    <3>1. Low(lo) = lo
      BY <2>2, MemoryAssumption DEF Low, Abstract!Low, Words
    <3> QED BY <2>2, <3>1 DEF Result, Abstract!Answer, Low
  <2>7. Proceeds(h)
    BY <1>1, <2>2, RequestParts DEF Proceeds, Abstract!Stores, ByLoop, MinMax
  <2>8. MemInv'
    BY <1>1, <2>1, <2>2, <2>3, Known, Completes
  <2>9. Promise!Do(h)
    <3>1. Held = (IF asked[h].at = "dram" THEN Held ELSE reg)
      BY <2>2
    <3>2. CompleteAccess(h, Result(h, Held))
      BY <2>1, <2>6
    <3> QED BY <1>1, <2>2, <2>5, <2>7, <3>1, <3>2, DoneAtOnce
  <2> QED BY <2>8, <2>9
<1>3. CASE lo # loaded[h]
  <2>1. lo' = lo /\ Then(h, "start", 0)
    BY <1>3 DEF CompareExchangeWord
  <2> QED BY <1>1, <2>1, Continues
<1> QED BY <1>2, <1>3

\* A plain access to the register is a load; an AMO finds what it read.
LEMMA RegisterStep ==
  ASSUME RegistersByAmo, MemInv, ~split, NEW h \in MemHarts, AccessRegister(h) \/ ModifyRegister(h),
         UNCHANGED <<platform, split, requests>>
  PROVE  MemInv' /\ Promise!Do(h)
<1> DEFINE r == asked[h]
<1>1. r # None /\ r \in MemRequests /\ lo \in Words /\ hi \in Words /\ reg \in Doubles /\ HalfWay(h)
  BY Known DEF AccessRegister, ModifyRegister, At
<1>2. /\ r.at = "reg" /\ reg' = Abstract!New(r, reg) /\ CompleteAccess(h, Result(h, reg))
      /\ UNCHANGED <<lo, hi>> /\ Proceeds(h)
  <2>1. CASE AccessRegister(h)
    BY <2>1 DEF AccessRegister
  <2>2. CASE ModifyRegister(h)
    <3>1. stage[h] = "modify"
      BY <2>2 DEF ModifyRegister, At
    <3>2. loaded[h] = reg /\ r.at = "reg" /\ r.op = "amo"
      BY <1>1, <3>1 DEF HalfWay
    <3> QED BY <2>2, <3>2 DEF ModifyRegister, Proceeds, Abstract!Stores
  <2> QED BY <2>1, <2>2
<1>3. \A g \in MemHarts \ {h} : stage[g] = "modify" => UNCHANGED <<reg, amoLock>>
  <2>1. CASE AccessRegister(h)
    <3>1. r.fn = "none" /\ r.size # "b"
      BY <1>1, <1>2, <2>1, RequestParts DEF AccessRegister, RegistersByAmo
    <3>2. Abstract!New(r, reg) = IF r.size = "d" THEN reg ELSE Low(reg) + (WordLen * High(reg))
      BY <3>1 DEF Abstract!New, Abstract!NewWord, Abstract!Fn, Low, High
    <3>3. reg' = reg
      BY <1>1, <1>2, <3>2, Halves
    <3> QED BY <2>1, <3>3 DEF AccessRegister
  <2>2. CASE ModifyRegister(h)
    <3>1. stage[h] = "modify" /\ amoLock = {h}
      BY <1>1, <2>2 DEF ModifyRegister, At, HalfWay
    <3>2. \A g \in MemHarts : stage[g] = "modify" => amoLock = {g}
      BY DEF MemInv, HalfWay
    <3> QED BY <3>1, <3>2
  <2> QED BY <2>1, <2>2
<1>4. reg' \in Doubles
  BY <1>1, <1>2, NewStays
<1>5. MemInv'
  BY <1>1, <1>2, <1>3, <1>4, Completes
<1>6. Promise!Do(h)
  <2>1. Held' = Held /\ reg = (IF r.at = "dram" THEN Held ELSE reg)
    BY <1>2 DEF Held
  <2> QED BY <1>1, <1>2, <2>1, DoneAtOnce
<1> QED BY <1>5, <1>6

LEMMA FirstHalves ==
  ASSUME MemInv, ~split, NEW h \in MemHarts, LoadWord(h) \/ ReadRegister(h),
         UNCHANGED <<platform, split, requests>>
  PROVE  MemInv' /\ UNCHANGED <<Held, reg, resv, asked, done>>
<1>1. CASE LoadWord(h)
  <2>1. /\ asked[h] # None /\ platform = "wasm" /\ ByLoop(asked[h]) /\ Then(h, "cas", lo)
        /\ UNCHANGED <<lo, hi, reg, amoLock>>
    BY <1>1 DEF LoadWord, At
  <2> QED BY <2>1, Continues
<1>2. CASE ReadRegister(h)
  <2>1. /\ asked[h] # None /\ asked[h].at = "reg" /\ asked[h].op = "amo" /\ Then(h, "modify", reg)
        /\ UNCHANGED <<lo, hi, reg>>
        /\ IF platform = "native" THEN amoLock = {} /\ amoLock' = {h} ELSE amoLock' = amoLock
    BY <1>2 DEF ReadRegister, At
  <2>2. platform = "native" /\ amoLock = {} /\ amoLock' = {h}
    BY <2>1, Known DEF MemInv, MemTyped
  <2>3. \A g \in MemHarts : stage[g] # "modify"
    BY <2>2 DEF MemInv, HalfWay
  <2> QED BY <2>1, <2>2, <2>3, Continues
<1> QED BY <1>1, <1>2

\* The steps of doublewords on WASM belong to the split case.
LEMMA NotSplit ==
  ASSUME MemInv, ~split, NEW h \in MemHarts,
         \/ LoadLow(h) \/ LoadHigh(h) \/ SwapLow(h) \/ SwapHigh(h)
         \/ ExchangeLow(h) \/ StoreHigh(h) \/ ExchangeHigh(h) \/ RestoreLow(h)
  PROVE  FALSE
<1>1. asked[h] # None
  BY DEF LoadLow, LoadHigh, SwapLow, SwapHigh, ExchangeLow, StoreHigh, ExchangeHigh, RestoreLow, At
<1>2. stage[h] \in {"start", "cas", "modify"} /\ ~Double(h)
  BY <1>1, Known DEF HalfWay, Double
<1> QED BY <1>2 DEF LoadLow, LoadHigh, SwapLow, SwapHigh, ExchangeLow, StoreHigh, ExchangeHigh, RestoreLow, At

LEMMA IssueStep ==
  ASSUME MemInv, ~split, NEW h \in MemHarts, NEW r \in MemRequests, Issue(h, r)
  PROVE  MemInv' /\ Promise!Ask(h, r)
<1>1. /\ asked[h] = None /\ Offered(r) /\ asked' = [asked EXCEPT ![h] = r]
      /\ UNCHANGED <<platform, split, lo, hi, reg, resv, done, amoLock, stage, loaded>>
  BY DEF Issue
<1>2. asked' \in [MemHarts -> MemRequests \cup {None}] /\ asked'[h] = r
  BY <1>1 DEF MemInv, MemTyped
<1>3. stage[h] = "start"
  BY <1>1 DEF MemInv, HalfWay
<1>4. HalfWay(h)'
  BY <1>1, <1>2, <1>3, RequestParts DEF HalfWay, Offered
<1>5. Apart(h)
  BY <1>1 DEF Apart, MemInv, MemTyped
<1>6. MemInv'
  BY <1>1, <1>2, <1>4, <1>5, MemKept DEF MemInv, MemTyped, Words, Doubles
<1>7. Promise!Ask(h, r)
  BY <1>1 DEF Promise!Ask, Seen, Held, None, Abstract!None, Promise!None
<1> QED BY <1>6, <1>7

LEMMA MemStart == MemInit => MemInv /\ Promise!AtomicInit
<1> SUFFICES ASSUME MemInit PROVE MemInv /\ Promise!AtomicInit
  OBVIOUS
<1>1. MemTyped /\ \A h \in MemHarts : HalfWay(h)
  BY MemoryAssumption DEF MemInit, MemTyped, HalfWay
<1>2. Held = 0
  BY MemoryAssumption DEF MemInit, Held
<1> QED BY <1>1, <1>2 DEF MemInit, MemInv, Promise!AtomicInit, Seen, None, Abstract!None, Promise!None

\* Each step outside the split case is a step of AtomicMemory or leaves it alone.
LEMMA MemMoves ==
  ASSUME ExtendedOperands, RegistersByAmo, MemInv, [MemNext]_memVars
  PROVE  MemInv' /\ [Promise!AtomicNext]_Promise!atomicVars
<1>1. CASE UNCHANGED memVars
  <2>1. MemInv'
    BY <1>1 DEF memVars, MemInv, MemTyped, HalfWay, Offered
  <2>2. UNCHANGED Promise!atomicVars
    BY <1>1 DEF memVars, Promise!atomicVars, Seen, Held
  <2> QED BY <2>1, <2>2
<1>2. CASE MemNext /\ split
  <2>1. split' = split
    BY <1>2 DEF MemNext, MemStep, Issue
  <2>2. MemInv' /\ UNCHANGED Promise!atomicVars
    BY <1>2, <2>1 DEF MemInv, Promise!atomicVars, Seen
  <2> QED BY <2>2
<1>3. CASE MemNext /\ ~split
  <2>1. ASSUME UNCHANGED <<split, Held, reg, resv, asked, done>> PROVE UNCHANGED Promise!atomicVars
    BY <2>1 DEF Promise!atomicVars, Seen
  <2>2. ASSUME NEW h \in MemHarts, MemStep(h)
        PROVE  MemInv' /\ (Promise!Do(h) \/ UNCHANGED Promise!atomicVars)
    <3>1. UNCHANGED <<platform, split, requests>>
      BY <2>2 DEF MemStep
    <3>2. CASE StoreConditionalFails(h)
      BY <1>3, <3>1, <3>2, FailStep
    <3>3. CASE Direct(h)
      BY <1>3, <3>1, <3>3, DirectStep
    <3>4. CASE CompareExchangeWord(h)
      BY <1>3, <2>1, <3>1, <3>4, ExchangeStep
    <3>5. CASE AccessRegister(h) \/ ModifyRegister(h)
      BY <1>3, <3>1, <3>5, RegisterStep
    <3>6. CASE LoadWord(h) \/ ReadRegister(h)
      BY <1>3, <2>1, <3>1, <3>6, FirstHalves
    <3> QED BY <1>3, <2>2, <3>2, <3>3, <3>4, <3>5, <3>6, NotSplit DEF MemStep
  <2>3. ASSUME NEW h \in MemHarts, NEW r \in MemRequests, Issue(h, r)
        PROVE  MemInv' /\ Promise!Ask(h, r)
    BY <1>3, <2>3, IssueStep
  <2> QED BY <1>3, <2>2, <2>3 DEF MemNext, Promise!AtomicNext
<1> QED BY <1>1, <1>2, <1>3

\* Loads, stores, LR, SC and AMOs of the native build, and those on bytes and
\* words of the WASM build, are atomic for any number of harts and requests: the
\* compare-exchange loops and the lock around register AMOs included.
THEOREM AccessesAtomic ==
  ASSUME ExtendedOperands, RegistersByAmo
  PROVE  MemSpec => MemoryIsAtomic
<1>1. MemInv /\ [MemNext]_memVars => MemInv' /\ [Promise!AtomicNext]_Promise!atomicVars
  BY MemMoves
<1> QED BY <1>1, MemStart, PTL DEF MemSpec, MemoryIsAtomic, Promise!AtomicSpec

-----------------------------------------------------------------------------
(* Address decoding.  The eight chains agree with DEVICE_REGIONS at every   *)
(* address.                                                                 *)

LEMMA Rows ==
  /\ DOMAIN DeviceRegions = 1 .. 20
  /\ DeviceRegions[1] = [base |-> 1048576, size |-> 4096, dev |-> "TestFinisher"]
  /\ DeviceRegions[2] = [base |-> 1114112, size |-> 4096, dev |-> "SysInfo"]
  /\ DeviceRegions[3] = [base |-> 33554432, size |-> 65536, dev |-> "Clint"]
  /\ DeviceRegions[4] = [base |-> 33751040, size |-> 4096, dev |-> "D1Audio"]
  /\ DeviceRegions[5] = [base |-> 38805504, size |-> 1024, dev |-> "D1Touch"]
  /\ DeviceRegions[6] = [base |-> 67239936, size |-> 4096, dev |-> "D1Mmc0"]
  /\ DeviceRegions[7] = [base |-> 72351744, size |-> 4096, dev |-> "D1Emac"]
  /\ DeviceRegions[8] = [base |-> 84934656, size |-> 65536, dev |-> "D1De"]
  /\ DeviceRegions[9] = [base |-> 88408064, size |-> 4096, dev |-> "D1MipiDsi"]
  /\ DeviceRegions[10] = [base |-> 88412160, size |-> 4096, dev |-> "D1Dphy"]
  /\ DeviceRegions[11] = [base |-> 88477696, size |-> 4096, dev |-> "D1TconLcd"]
  /\ DeviceRegions[12] = [base |-> 201326592, size |-> 67108864, dev |-> "Plic"]
  /\ DeviceRegions[13] = [base |-> 268435456, size |-> 256, dev |-> "Uart"]
  /\ DeviceRegions[14] = [base |-> 268439552, size |-> 4096, dev |-> "Virtio"]
  /\ DeviceRegions[15] = [base |-> 268443648, size |-> 4096, dev |-> "Virtio"]
  /\ DeviceRegions[16] = [base |-> 268447744, size |-> 4096, dev |-> "Virtio"]
  /\ DeviceRegions[17] = [base |-> 268451840, size |-> 4096, dev |-> "Virtio"]
  /\ DeviceRegions[18] = [base |-> 268455936, size |-> 4096, dev |-> "Virtio"]
  /\ DeviceRegions[19] = [base |-> 268460032, size |-> 4096, dev |-> "Virtio"]
  /\ DeviceRegions[20] = [base |-> 269484032, size |-> 8, dev |-> "Rtc"]
  BY DEF DeviceRegions, Region, VIRTIO_BASE, VIRTIO_STRIDE

LEMMA Sorted ==
  /\ DOMAIN DeviceRegions = 1 .. 20
  /\ \A k \in 1 .. 20 : DeviceRegions[k].base \in Nat /\ DeviceRegions[k].size \in Nat \ {0}
  /\ \A j, k \in 1 .. 20 : j < k =>
        DeviceRegions[j].base + DeviceRegions[j].size <= DeviceRegions[k].base
  BY Rows, SMT

LEMMA CountTo ==
  ASSUME NEW n \in Nat
  PROVE  IsFiniteSet(1 .. n) /\ Cardinality(1 .. n) = n
<1>1. 1 \in Int /\ n \in Int
  OBVIOUS
<1>2. IsFiniteSet(1 .. n) /\ Cardinality(1 .. n) = IF 1 > n THEN 0 ELSE n - 1 + 1
  BY <1>1, FS_Interval, Zenon
<1>3. (IF 1 > n THEN 0 ELSE n - 1 + 1) = n
  OBVIOUS
<1> QED BY <1>2, <1>3

\* The entry an address falls into, if any, is the one lookup_device finds.
LEMMA LookupFinds ==
  ASSUME NEW addr \in Nat, NEW k \in 1 .. 20,
         DeviceRegions[k].base <= addr, addr < DeviceRegions[k].base + DeviceRegions[k].size
  PROVE  LookupDevice(addr) = [dev |-> DeviceRegions[k].dev, off |-> addr - DeviceRegions[k].base]
<1>1. {j \in DOMAIN DeviceRegions : DeviceRegions[j].base <= addr} = 1 .. k
  <2>1. ASSUME NEW j \in 1 .. 20 PROVE DeviceRegions[j].base <= addr <=> j <= k
    BY Sorted
  <2> QED BY <2>1, Sorted
<1>2. k \in Nat /\ Cardinality(1 .. k) = k
  BY CountTo
<1>3. k # 0 /\ addr < DeviceRegions[k].base + DeviceRegions[k].size
  OBVIOUS
<1> QED BY <1>1, <1>2, <1>3, Zenon DEF LookupDevice

\* And it finds nothing else.
LEMMA LookupSound ==
  ASSUME NEW addr \in Nat, LookupDevice(addr) # NoDevice
  PROVE  \E k \in 1 .. 20 :
            /\ DeviceRegions[k].base <= addr /\ addr < DeviceRegions[k].base + DeviceRegions[k].size
            /\ LookupDevice(addr) = [dev |-> DeviceRegions[k].dev, off |-> addr - DeviceRegions[k].base]
<1> DEFINE S == {j \in DOMAIN DeviceRegions : DeviceRegions[j].base <= addr}
           last == Cardinality(S)
<1>1. S \subseteq 1 .. 20 /\ IsFiniteSet(1 .. 20) /\ Cardinality(1 .. 20) = 20
  <2>1. 20 \in Nat
    OBVIOUS
  <2>2. IsFiniteSet(1 .. 20) /\ Cardinality(1 .. 20) = 20
    BY <2>1, CountTo, Zenon
  <2> QED BY <2>2, Sorted, Zenon
<1>2. IsFiniteSet(S) /\ last \in 0 .. 20
  <2>1. IsFiniteSet(S) /\ Cardinality(S) <= 20
    BY <1>1, FS_Subset, Zenon
  <2>2. Cardinality(S) \in Nat
    BY <2>1, FS_CardinalityType, Zenon
  <2> HIDE DEF S
  <2> QED BY <2>1, <2>2
<1>3. last # 0 /\ addr < DeviceRegions[last].base + DeviceRegions[last].size
  BY DEF LookupDevice
<1>4. last \in 1 .. 20
  BY <1>2, <1>3
<1>5. LookupDevice(addr) = [dev |-> DeviceRegions[last].dev, off |-> addr - DeviceRegions[last].base]
  BY <1>3 DEF LookupDevice
\* The set is an initial segment, so its last member is its cardinality.
<1>6. DeviceRegions[last].base <= addr
  <2>1. SUFFICES ASSUME ~(DeviceRegions[last].base <= addr) PROVE FALSE
    OBVIOUS
  <2>2. S \subseteq 1 .. last - 1
    <3>1. ASSUME NEW j \in S PROVE j < last
      <4>1. j \in 1 .. 20 /\ DeviceRegions[j].base <= addr
        BY <1>1
      <4> HIDE DEF last, S
      <4>2. j # last
        BY <2>1, <4>1
      <4>3. ~(last < j)
        BY <2>1, <4>1, <1>4, Sorted
      <4> QED BY <4>1, <4>2, <4>3, <1>4
    <3>2. \A j \in S : j \in 1 .. 20 /\ j < last
      BY <3>1, <1>1
    <3> HIDE DEF S, last
    <3> QED BY <3>2, <1>4
  <2>3. IsFiniteSet(1 .. last - 1) /\ Cardinality(1 .. last - 1) = last - 1
    <3>1. last - 1 \in Nat
      BY <1>4
    <3> HIDE DEF last
    <3> QED BY <3>1, CountTo
  <2>4. Cardinality(S) <= Cardinality(1 .. last - 1)
    BY <2>2, <2>3, FS_Subset, Zenon
  <2>5. last <= last - 1
    BY <2>3, <2>4
  <2> HIDE DEF last
  <2> QED BY <2>5, <1>4
<1> QED BY <1>3, <1>4, <1>5, <1>6

-----------------------------------------------------------------------------
\* A chain answers with one of its tests that succeeds, or all of them fail.
LEMMA FirstAnswers ==
  ASSUME NEW arms, NEW addr, NEW n \in Nat, DOMAIN arms = 1 .. n
  PROVE  \/ /\ FirstOf(arms, addr) = NoDevice
            /\ \A k \in 1 .. n : Test(arms[k], addr) = NoDevice
         \/ \E k \in 1 .. n : FirstOf(arms, addr) = Test(arms[k], addr)
                              /\ Test(arms[k], addr) # NoDevice
<1> DEFINE hits == {k \in DOMAIN arms : Test(arms[k], addr) # NoDevice}
<1>1. CASE hits = {}
  BY <1>1 DEF FirstOf
<1>2. CASE hits # {}
  <2>1. hits \subseteq Nat
    OBVIOUS
  <2>2. \E k \in hits : \A j \in hits : ~ (<<j, k>> \in OpToRel(<, Nat))
    <3> HIDE DEF hits
    <3> QED BY <2>1, <1>2, NatLessThanWellFounded, WFMin, Zenon
  <2>3. \E k \in hits : \A j \in hits : k <= j
    <3>1. PICK k \in hits : \A j \in hits : ~ (<<j, k>> \in OpToRel(<, Nat))
      BY <2>2
    <3>2. ASSUME NEW j \in hits PROVE k <= j
      <4> HIDE DEF hits
      <4>1. j \in Nat /\ k \in Nat /\ ~ (<<j, k>> \in OpToRel(<, Nat))
        BY <3>1, <2>1
      <4> QED BY <4>1 DEF OpToRel
    <3> QED BY <3>1, <3>2
  <2> DEFINE first == CHOOSE k \in hits : \A j \in hits : k <= j
  <2>4. first \in hits
    <3> HIDE DEF hits
    <3> QED BY <2>3
  <2>5. FirstOf(arms, addr) = Test(arms[first], addr)
    BY <1>2 DEF FirstOf
  <2> QED BY <2>4, <2>5
<1> QED BY <1>1, <1>2

TableDevs == {DeviceRegions[k].dev : k \in DOMAIN DeviceRegions}

LEMMA Named ==
  TableDevs = { "TestFinisher", "SysInfo", "Clint", "D1Audio", "D1Touch", "D1Mmc0", "D1Emac", "D1De",
                "D1MipiDsi", "D1Dphy", "D1TconLcd", "Plic", "Uart", "Virtio", "Rtc" }
  BY Rows, SMT DEF TableDevs

LEMMA Once ==
  ASSUME NEW j \in 1 .. 20, NEW k \in 1 .. 20,
         DeviceRegions[j].dev = DeviceRegions[k].dev, DeviceRegions[k].dev # "Virtio"
  PROVE  j = k
  BY Rows, SMT

LEMMA VirtioRows ==
  ASSUME NEW k \in 1 .. 20, DeviceRegions[k].dev = "Virtio"
  PROVE  /\ DeviceRegions[k].base >= VIRTIO_BASE
         /\ DeviceRegions[k].base + DeviceRegions[k].size <= VIRTIO_BASE + 6 * VIRTIO_STRIDE
  BY Rows, SMT DEF VIRTIO_BASE, VIRTIO_STRIDE

\* A device with one entry is tested against it.
LEMMA PlainTest ==
  ASSUME NEW addr \in Nat, NEW k \in 1 .. 20, DeviceRegions[k].dev # "Virtio"
  PROVE  Test(DeviceRegions[k].dev, addr) =
            IF addr >= DeviceRegions[k].base /\ addr < DeviceRegions[k].base + DeviceRegions[k].size
            THEN [dev |-> DeviceRegions[k].dev, off |-> addr - DeviceRegions[k].base] ELSE NoDevice
<1>1. RegionOf(DeviceRegions[k].dev) = k
  <2>1. \A j \in DOMAIN DeviceRegions : DeviceRegions[j].dev = DeviceRegions[k].dev <=> j = k
    BY Sorted, Once, Zenon
  <2>2. k \in DOMAIN DeviceRegions
    BY Sorted
  <2> QED BY <2>1, <2>2 DEF RegionOf
<1>2. DeviceRegions[k].dev # "EmptySlot"
  BY Rows, SMT
<1> HIDE DEF NoDevice
<1> QED BY <1>1, <1>2, SMT DEF Test, InRegion

LEMMA VirtioTest ==
  ASSUME NEW addr \in Nat, busConfig.virtio \in 0 .. 8, Test("Virtio", addr) # NoDevice
  PROVE  /\ Test("Virtio", addr).dev = "Virtio"
         /\ \/ LookupDevice(addr) = Test("Virtio", addr)
            \/ LookupDevice(addr) = NoDevice /\ busConfig.virtio > 6
<1> DEFINE q == (addr - VIRTIO_BASE) \div VIRTIO_STRIDE
           r == (addr - VIRTIO_BASE) % VIRTIO_STRIDE
<1>1. /\ addr >= VIRTIO_BASE /\ q < busConfig.virtio
      /\ Test("Virtio", addr) = [dev |-> "Virtio", off |-> r]
  BY DEF Test, VirtioDevice
<1>2. /\ q \in 0 .. 7 /\ r \in 0 .. 4095
      /\ addr = 268439552 + (4096 * q) + r
  BY <1>1, SMT DEF VIRTIO_BASE, VIRTIO_STRIDE
<1> HIDE DEF q, r
<1>3. CASE q <= 5
  <2> DEFINE k == 14 + q
  <2>1. /\ k \in 1 .. 20 /\ DeviceRegions[k].dev = "Virtio"
        /\ DeviceRegions[k].base = 268439552 + (4096 * q)
        /\ DeviceRegions[k].size = 4096
    BY <1>2, <1>3, Rows, SMT
  <2>2. /\ DeviceRegions[k].base <= addr
        /\ addr < DeviceRegions[k].base + DeviceRegions[k].size
        /\ addr - DeviceRegions[k].base = r
    <3> DEFINE b == DeviceRegions[k].base
    <3>1. b \in Int /\ r \in Int /\ DeviceRegions[k].size = 4096 /\ r >= 0 /\ r < 4096
      BY <2>1, <1>2, Sorted
    <3>2. addr = b + r
      <4> HIDE DEF k
      <4> QED BY <2>1, <1>2, SMT
    <3> HIDE DEF b, k
    <3>3. b <= addr /\ addr < b + 4096 /\ addr - b = r
      BY <3>1, <3>2
    <3> QED BY <3>1, <3>3 DEF b
  <2>3. LookupDevice(addr) = [dev |-> "Virtio", off |-> r]
    <3> HIDE DEF k
    <3> QED BY <2>1, <2>2, LookupFinds
  <2> QED BY <2>3, <1>1
<1>4. CASE q > 5
  <2>1. busConfig.virtio > 6
    BY <1>4, <1>2, <1>1, SMT
  <2>2. addr >= 268464128 /\ addr < 268472320
    BY <1>4, <1>2, SMT
  <2>3. \A k \in 1 .. 20 : ~(DeviceRegions[k].base <= addr /\ addr < DeviceRegions[k].base + DeviceRegions[k].size)
    BY <2>2, Rows, SMT
  <2>4. LookupDevice(addr) = NoDevice
    BY <2>3, LookupSound
  <2> QED BY <2>1, <2>4, <1>1
<1> QED BY <1>2, <1>3, <1>4

LEMMA RowShape ==
  ASSUME NEW addr \in Nat
  PROVE  \/ LookupDevice(addr) = NoDevice
         \/ /\ LookupDevice(addr).dev \in TableDevs /\ LookupDevice(addr) # NoDevice
            /\ LookupDevice(addr).off \in Nat
<1>1. SUFFICES ASSUME LookupDevice(addr) # NoDevice
      PROVE  LookupDevice(addr).dev \in TableDevs /\ LookupDevice(addr).off \in Nat
  OBVIOUS
<1>2. PICK k \in 1 .. 20 :
         /\ DeviceRegions[k].base <= addr /\ addr < DeviceRegions[k].base + DeviceRegions[k].size
         /\ LookupDevice(addr) = [dev |-> DeviceRegions[k].dev, off |-> addr - DeviceRegions[k].base]
  BY <1>1, LookupSound
<1>3. DeviceRegions[k].base \in Nat /\ DeviceRegions[k].dev \in TableDevs
  BY Sorted DEF TableDevs
<1> QED BY <1>2, <1>3

\* The test of a device succeeds exactly where the table names it.
LEMMA TestMatches ==
  ASSUME NEW addr \in Nat, NEW d \in TableDevs, d # "Virtio"
  PROVE  Test(d, addr) = IF LookupDevice(addr).dev = d THEN LookupDevice(addr) ELSE NoDevice
<1>1. PICK k \in 1 .. 20 : d = DeviceRegions[k].dev
  BY Sorted DEF TableDevs
<1>2. d # "none"
  BY Named
<1>3. CASE DeviceRegions[k].base <= addr /\ addr < DeviceRegions[k].base + DeviceRegions[k].size
  <2>1. LookupDevice(addr) = [dev |-> d, off |-> addr - DeviceRegions[k].base]
    BY <1>1, <1>3, LookupFinds
  <2>2. Test(d, addr) = [dev |-> d, off |-> addr - DeviceRegions[k].base]
    <3>1. addr >= DeviceRegions[k].base /\ addr < DeviceRegions[k].base + DeviceRegions[k].size
      BY <1>3, Sorted
    <3> QED BY <3>1, <1>1, PlainTest, Zenon
  <2> QED BY <2>1, <2>2
<1>4. CASE ~(DeviceRegions[k].base <= addr /\ addr < DeviceRegions[k].base + DeviceRegions[k].size)
  <2>1. Test(d, addr) = NoDevice
    <3>1. ~(addr >= DeviceRegions[k].base /\ addr < DeviceRegions[k].base + DeviceRegions[k].size)
      BY <1>4, Sorted
    <3> QED BY <3>1, <1>1, PlainTest, Zenon
  <2>2. ASSUME LookupDevice(addr).dev = d PROVE FALSE
    <3>1. LookupDevice(addr) # NoDevice
      BY <2>2, <1>2 DEF NoDevice
    <3>2. PICK j \in 1 .. 20 :
             /\ DeviceRegions[j].base <= addr /\ addr < DeviceRegions[j].base + DeviceRegions[j].size
             /\ LookupDevice(addr) = [dev |-> DeviceRegions[j].dev, off |-> addr - DeviceRegions[j].base]
      BY <3>1, LookupSound
    <3>3. DeviceRegions[j].dev = d
      BY <3>2, <2>2
    <3>4. j = k
      BY <3>3, <1>1, Once
    <3> QED BY <3>2, <3>4, <1>4
  <2> QED BY <2>1, <2>2
<1> QED BY <1>3, <1>4

LEMMA SlotTest ==
  ASSUME NEW addr \in Nat
  PROVE  /\ Test("EmptySlot", addr) # NoDevice =>
               Test("EmptySlot", addr).dev = "EmptySlot" /\ LookupDevice(addr).dev \in {"Virtio", "none"}
         /\ LookupDevice(addr).dev = "Virtio" => Test("EmptySlot", addr) # NoDevice
<1>1. LookupDevice(addr) # NoDevice =>
        \E k \in 1 .. 20 :
            /\ DeviceRegions[k].base <= addr /\ addr < DeviceRegions[k].base + DeviceRegions[k].size
            /\ LookupDevice(addr).dev = DeviceRegions[k].dev
  BY LookupSound
<1>2. ASSUME Test("EmptySlot", addr) # NoDevice
      PROVE  Test("EmptySlot", addr).dev = "EmptySlot" /\ LookupDevice(addr).dev \in {"Virtio", "none"}
  <2>1. /\ Test("EmptySlot", addr).dev = "EmptySlot"
        /\ addr >= VIRTIO_BASE /\ addr < VIRTIO_BASE + VIRTIO_STRIDE * 8
    BY <1>2 DEF Test, EmptySlot
  <2>2. ASSUME NEW k \in 1 .. 20,
               DeviceRegions[k].base <= addr, addr < DeviceRegions[k].base + DeviceRegions[k].size
        PROVE  DeviceRegions[k].dev = "Virtio"
    BY <2>1, <2>2, Rows, SMT DEF VIRTIO_BASE, VIRTIO_STRIDE
  <2>3. LookupDevice(addr) = NoDevice => LookupDevice(addr).dev = "none"
    BY DEF NoDevice
  <2> QED BY <1>1, <2>1, <2>2, <2>3
<1>3. ASSUME LookupDevice(addr).dev = "Virtio"
      PROVE  Test("EmptySlot", addr) # NoDevice
  <2>1. LookupDevice(addr) # NoDevice
    BY <1>3 DEF NoDevice
  <2>2. PICK k \in 1 .. 20 :
            /\ DeviceRegions[k].base <= addr /\ addr < DeviceRegions[k].base + DeviceRegions[k].size
            /\ DeviceRegions[k].dev = "Virtio"
    BY <2>1, <1>1, <1>3
  <2>3. addr >= VIRTIO_BASE /\ addr < VIRTIO_BASE + VIRTIO_STRIDE * 8
    BY <2>2, VirtioRows, Sorted, SMT DEF VIRTIO_BASE, VIRTIO_STRIDE
  <2>4. Test("EmptySlot", addr).dev = "EmptySlot"
    BY <2>3 DEF Test, EmptySlot
  <2> QED BY <2>4 DEF NoDevice
<1> QED BY <1>2, <1>3

\* What a chain answers, in terms of the table.
Answers(hit, row, names) ==
    \/ hit = row
    \/ hit.dev = "Virtio" /\ row = NoDevice /\ busConfig.virtio > 6
    \/ hit.dev = "EmptySlot" /\ row.dev \in {"Virtio", "none"}
    \/ hit = NoDevice /\ row.dev \notin names /\ row.dev # "Virtio"
    \/ hit = NoDevice /\ row.dev = "Virtio" /\ "EmptySlot" \notin names

LEMMA ChainAnswers ==
  ASSUME NEW addr \in Nat, busConfig.virtio \in 0 .. 8, NEW n \in Nat, NEW arms, NEW names,
         DOMAIN arms = 1 .. n, \A d \in names : \E k \in 1 .. n : d = arms[k],
         \A k \in 1 .. n : arms[k] \in TableDevs \cup {"EmptySlot"}
  PROVE  Answers(FirstOf(arms, addr), LookupDevice(addr), names)
<1> DEFINE hit == FirstOf(arms, addr)
           row == LookupDevice(addr)
<1>1. CASE hit = NoDevice /\ \A k \in 1 .. n : Test(arms[k], addr) = NoDevice
  <2>1. CASE row.dev = "Virtio"
    <3>1. Test("EmptySlot", addr) # NoDevice
      BY <2>1, SlotTest
    <3> QED BY <3>1, <2>1, <1>1 DEF Answers
  <2>2. CASE row = NoDevice
    BY <2>2, <1>1 DEF Answers
  <2>3. CASE row.dev # "Virtio" /\ row # NoDevice
    <3>1. row.dev \in TableDevs
      BY <2>3, RowShape
    <3>2. Test(row.dev, addr) = row
      BY <2>3, <3>1, TestMatches
    <3>3. \A k \in 1 .. n : arms[k] # row.dev
      BY <3>2, <2>3, <1>1
    <3> QED BY <3>3, <2>3, <1>1 DEF Answers
  <2> QED BY <2>1, <2>2, <2>3
<1>2. ASSUME NEW k \in 1 .. n, hit = Test(arms[k], addr), hit # NoDevice
      PROVE  Answers(hit, row, names)
  <2>1. CASE arms[k] = "Virtio"
    BY <2>1, <1>2, VirtioTest DEF Answers
  <2>2. CASE arms[k] = "EmptySlot"
    BY <2>2, <1>2, SlotTest DEF Answers
  <2>3. CASE arms[k] \in TableDevs /\ arms[k] # "Virtio"
    BY <2>3, <1>2, TestMatches DEF Answers
  <2> QED BY <2>1, <2>2, <2>3
<1> QED BY <1>1, <1>2, FirstAnswers

Lasting == {"TestFinisher", "SysInfo", "Clint", "Plic", "Uart"}
BusTyped ==
    busConfig \in [virtio : 0 .. 8, d1 : BOOLEAN, shared : BOOLEAN]

LEMMA StoreAnswers ==
  ASSUME NEW addr \in Nat, BusTyped
  PROVE  Answers(FirstOf(StoreChain, addr), LookupDevice(addr), Lasting \cup {"Virtio"})
<1>1. /\ DOMAIN StoreChain = 1 .. 6 /\ 6 \in Nat
      /\ \A d \in Lasting \cup {"Virtio"} : \E k \in 1 .. 6 : d = StoreChain[k]
  BY DEF StoreChain, Lasting
<1>2. \A k \in 1 .. 6 : StoreChain[k] \in TableDevs \cup {"EmptySlot"}
  BY Named DEF StoreChain
<1>3. busConfig.virtio \in 0 .. 8
  BY DEF BusTyped
<1> QED BY <1>1, <1>2, <1>3, ChainAnswers

LEMMA LoadAnswers ==
  ASSUME NEW addr \in Nat, BusTyped
  PROVE  Answers(FirstOf(LoadChain, addr), LookupDevice(addr), Lasting \cup {"Virtio", "EmptySlot"})
<1>1. /\ DOMAIN LoadChain = 1 .. 7 /\ 7 \in Nat
      /\ \A d \in Lasting \cup {"Virtio", "EmptySlot"} : \E k \in 1 .. 7 : d = LoadChain[k]
  BY DEF LoadChain, Lasting
<1>2. \A k \in 1 .. 7 : LoadChain[k] \in TableDevs \cup {"EmptySlot"}
  BY Named DEF LoadChain
<1>3. busConfig.virtio \in 0 .. 8
  BY DEF BusTyped
<1> QED BY <1>1, <1>2, <1>3, ChainAnswers

LEMMA WordStoreAnswers ==
  ASSUME NEW addr \in Nat, BusTyped
  PROVE  Answers(FirstOf(WordStoreChain, addr), LookupDevice(addr),
                 Lasting \cup D1Devices \cup {"Virtio", "EmptySlot"})
<1>1. /\ DOMAIN WordStoreChain = 1 .. 15 /\ 15 \in Nat
      /\ \A d \in Lasting \cup D1Devices \cup {"Virtio", "EmptySlot"} : \E k \in 1 .. 15 : d = WordStoreChain[k]
  BY DEF WordStoreChain, Lasting, D1Devices
<1>2. \A k \in 1 .. 15 : WordStoreChain[k] \in TableDevs \cup {"EmptySlot"}
  BY Named DEF WordStoreChain
<1>3. busConfig.virtio \in 0 .. 8
  BY DEF BusTyped
<1> QED BY <1>1, <1>2, <1>3, ChainAnswers

LEMMA WordLoadAnswers ==
  ASSUME NEW addr \in Nat, BusTyped
  PROVE  Answers(FirstOf(WordLoadChain, addr), LookupDevice(addr), TableDevs \cup {"EmptySlot"})
<1>1. /\ DOMAIN WordLoadChain = 1 .. 16 /\ 16 \in Nat
      /\ \A d \in TableDevs \cup {"EmptySlot"} : \E k \in 1 .. 16 : d = WordLoadChain[k]
  BY Named DEF WordLoadChain
<1>2. \A k \in 1 .. 16 : WordLoadChain[k] \in TableDevs \cup {"EmptySlot"}
  BY Named DEF WordLoadChain
<1>3. busConfig.virtio \in 0 .. 8
  BY DEF BusTyped
<1> QED BY <1>1, <1>2, <1>3, ChainAnswers

\* RouteMatchesMap of one answer.
Matches(kind, width, hit, row) ==
    /\ hit.dev \in TableDevs =>
          \/ hit.dev = row.dev /\ hit.off \in {row.off, row.off - (row.off % 4)}
          \/ hit.dev = "Virtio" /\ row = NoDevice /\ busConfig.virtio > 6
    /\ kind = "read" /\ width = 4 /\ row # NoDevice => hit.dev \in {row.dev, "Absent", "EmptySlot"}
    /\ row.dev \in AlwaysThere => hit.dev \in {row.dev, "SharedUart"}
    /\ row = NoDevice => hit.dev \in {"none", "Dram", "EmptySlot", "Virtio", "Ignored"}

\* What the widths make of an answer: they take the aligned word of a VirtIO
\* register or ignore it, go elsewhere for a UART byte, or miss a D1 controller.
Kept(ans, hit) ==
    \/ ans = hit
    \/ hit.dev = "Virtio" /\ ans.dev = hit.dev /\ ans.off = hit.off - (hit.off % 4)
    \/ hit.dev = "Virtio" /\ ans.dev = "Ignored"
    \/ hit.dev = "Uart" /\ ans.dev = "SharedUart"
    \/ hit.dev \in D1Devices /\ ans.dev = "Absent"

LEMMA HitFields ==
  ASSUME NEW arms, NEW addr \in Nat
  PROVE  DOMAIN FirstOf(arms, addr) = {"dev", "off"}
<1>1. \A d : DOMAIN Test(d, addr) = {"dev", "off"}
  BY DEF Test, InRegion, VirtioDevice, EmptySlot, NoDevice
<1> QED BY <1>1 DEF FirstOf, NoDevice

LEMMA AnswerMatches ==
  ASSUME NEW row, NEW hit, NEW names, NEW kind, NEW width, NEW ans,
         row = NoDevice \/ (row.dev \in TableDevs /\ row # NoDevice),
         Answers(hit, row, names), Lasting \subseteq names,
         Kept(ans, hit),
         kind = "read" /\ width = 4 =>
            /\ TableDevs \cup {"EmptySlot"} \subseteq names
            /\ ans = hit \/ ans.dev = "Absent"
  PROVE  Matches(kind, width, ans, row)
<1>1. NoDevice.dev = "none"
  BY DEF NoDevice
<1>2. AlwaysThere = Lasting \cup {"SharedUart"}
  BY DEF AlwaysThere, Lasting
<1>3. {"none", "SharedUart", "Absent", "Ignored", "EmptySlot"} \cap TableDevs = {}
  BY Named
<1>4. Lasting \cap D1Devices = {} /\ "Virtio" \notin Lasting
  BY DEF Lasting, D1Devices
<1>5. row # NoDevice => row.dev # "none"
  BY <1>3
<1>6. hit = row \/ (hit.dev = "Virtio" /\ row = NoDevice /\ busConfig.virtio > 6)
        \/ hit.dev = "EmptySlot" \/ hit.dev = "none"
  BY <1>1 DEF Answers
<1>7. hit.dev \in TableDevs =>
        hit = row \/ (hit.dev = "Virtio" /\ row = NoDevice /\ busConfig.virtio > 6)
  BY <1>6, <1>3
<1>8. "Virtio" \in TableDevs /\ "Uart" \in TableDevs /\ D1Devices \subseteq TableDevs
  BY Named DEF D1Devices
<1>9. ans.dev \in TableDevs =>
          \/ ans.dev = row.dev /\ ans.off \in {row.off, row.off - (row.off % 4)}
          \/ ans.dev = "Virtio" /\ row = NoDevice /\ busConfig.virtio > 6
  BY <1>3, <1>7, <1>8 DEF Kept
<1>10. ASSUME kind = "read", width = 4, row # NoDevice
       PROVE  ans.dev \in {row.dev, "Absent", "EmptySlot"}
  BY <1>10 DEF Answers
<1>11. ASSUME row.dev \in AlwaysThere PROVE ans.dev \in {row.dev, "SharedUart"}
  <2>1. row.dev \in Lasting
    BY <1>11, <1>1, <1>2, <1>3
  <2>2. row # NoDevice /\ row.dev \notin {"Virtio", "none"} /\ row.dev \in names
    BY <2>1, <1>1, <1>3, <1>4 DEF Lasting
  <2>3. hit = row
    BY <2>2 DEF Answers
  <2> QED BY <2>1, <2>2, <2>3, <1>4 DEF Kept
<1>12. ASSUME row = NoDevice PROVE ans.dev \in {"none", "Dram", "EmptySlot", "Virtio", "Ignored"}
  <2>1. hit.dev \in {"none", "EmptySlot", "Virtio"}
    BY <1>12, <1>1 DEF Answers
  <2> QED BY <2>1, <1>1 DEF D1Devices, Kept
<1> QED BY <1>9, <1>10, <1>11, <1>12 DEF Matches

LEMMA SlowKeeps ==
  ASSUME NEW addr \in Nat, NEW dir \in {"read", "write"}, NEW width \in {1, 2, 4, 8}
  PROVE  /\ dir = "read" /\ width # 4 => Kept(Slow(dir, width, addr), FirstOf(LoadChain, addr))
         /\ dir = "read" /\ width = 4 =>
               /\ Kept(Slow(dir, width, addr), FirstOf(WordLoadChain, addr))
               /\ \/ Slow(dir, width, addr) = FirstOf(WordLoadChain, addr)
                  \/ Slow(dir, width, addr).dev = "Absent"
         /\ dir = "write" /\ width \in {1, 2} => Kept(Slow(dir, width, addr), FirstOf(StoreChain, addr))
         /\ dir = "write" /\ width = 4 => Kept(Slow(dir, width, addr), FirstOf(WordStoreChain, addr))
         /\ dir = "write" /\ width = 8 => Kept(Slow(dir, width, addr), FirstOf(LoadChain, addr))
<1>1. ASSUME NEW hit, DOMAIN hit = {"dev", "off"}, NEW d
      PROVE  /\ [hit EXCEPT !.dev = d].dev = d
             /\ [hit EXCEPT !.off = @ - (@ % 4)].dev = hit.dev
             /\ [hit EXCEPT !.off = @ - (@ % 4)].off = hit.off - (hit.off % 4)
  BY <1>1
<1>2. /\ DOMAIN FirstOf(LoadChain, addr) = {"dev", "off"}
      /\ DOMAIN FirstOf(StoreChain, addr) = {"dev", "off"}
      /\ DOMAIN FirstOf(WordLoadChain, addr) = {"dev", "off"}
      /\ DOMAIN FirstOf(WordStoreChain, addr) = {"dev", "off"}
  BY HitFields
<1>3. Kept(Read8Slow(addr), FirstOf(LoadChain, addr))
  BY <1>1, <1>2 DEF Read8Slow, Kept
<1>4. Kept(Read16Slow(addr), FirstOf(LoadChain, addr))
  BY <1>1, <1>2 DEF Read16Slow, Kept
<1>5. /\ Kept(Read32Slow(addr), FirstOf(WordLoadChain, addr))
      /\ Read32Slow(addr) = FirstOf(WordLoadChain, addr) \/ Read32Slow(addr).dev = "Absent"
  BY <1>1, <1>2 DEF Read32Slow, Present, Kept
<1>6. Kept(Read64Slow(addr), FirstOf(LoadChain, addr))
  BY DEF Read64Slow, Kept
<1>7. Kept(Write8Slow(addr), FirstOf(StoreChain, addr))
  BY <1>1, <1>2 DEF Write8Slow, Kept
<1>8. Kept(Write16Slow(addr), FirstOf(StoreChain, addr))
  BY <1>1, <1>2 DEF Write16Slow, Kept
<1>9. Kept(Write32Slow(addr), FirstOf(WordStoreChain, addr))
  BY <1>1, <1>2 DEF Write32Slow, Present, Kept
<1>10. Kept(Write64Slow(addr), FirstOf(LoadChain, addr))
  BY <1>1, <1>2 DEF Write64Slow, Kept
<1> QED BY <1>3, <1>4, <1>5, <1>6, <1>7, <1>8, <1>9, <1>10 DEF Slow

LEMMA SlowMatches ==
  ASSUME NEW addr \in Nat, BusTyped, NEW dir \in {"read", "write"}, NEW width \in {1, 2, 4, 8}
  PROVE  Matches(dir, width, Slow(dir, width, addr), LookupDevice(addr))
<1> DEFINE row == LookupDevice(addr)
           ans == Slow(dir, width, addr)
<1> HIDE DEF row, ans
<1>1. row = NoDevice \/ (row.dev \in TableDevs /\ row # NoDevice)
  BY RowShape DEF row
<1>2. CASE dir = "read" /\ width # 4
  BY <1>2, <1>1, LoadAnswers, SlowKeeps, AnswerMatches DEF row, ans
<1>3. CASE dir = "read" /\ width = 4
  BY <1>3, <1>1, WordLoadAnswers, SlowKeeps, AnswerMatches, Named DEF row, ans, Lasting
<1>4. CASE dir = "write" /\ width \in {1, 2}
  BY <1>4, <1>1, StoreAnswers, SlowKeeps, AnswerMatches DEF row, ans
<1>5. CASE dir = "write" /\ width = 4
  BY <1>5, <1>1, WordStoreAnswers, SlowKeeps, AnswerMatches DEF row, ans
<1>6. CASE dir = "write" /\ width = 8
  BY <1>6, <1>1, LoadAnswers, SlowKeeps, AnswerMatches DEF row, ans
<1> QED BY <1>2, <1>3, <1>4, <1>5, <1>6

BusInv == BusTyped /\ RouteMatchesMap

LEMMA DramMatches ==
  ASSUME NEW addr \in Nat, addr >= BusDramBase, NEW dir, NEW width
  PROVE  Matches(dir, width, DramAnswer(width, addr), LookupDevice(addr))
<1>1. \A k \in 1 .. 20 : ~(DeviceRegions[k].base <= addr /\ addr < DeviceRegions[k].base + DeviceRegions[k].size)
  BY BusAssumption, Rows, SMT
<1>2. LookupDevice(addr) = NoDevice
  BY <1>1, LookupSound
<1>3. DramAnswer(width, addr).dev \in {"Dram", "none"} /\ NoDevice.dev = "none"
  BY DEF DramAnswer, NoDevice
<1>4. {"Dram", "none"} \cap TableDevs = {}
  BY Named
<1> QED BY <1>2, <1>3, <1>4 DEF Matches, AlwaysThere

LEMMA AccessStep ==
  ASSUME BusInv, NEW dir \in {"read", "write"}, NEW width \in {1, 2, 4, 8}, NEW addr \in Nat,
         BusAccess(dir, width, addr)
  PROVE  BusInv'
<1>1. BusTyped'
  BY DEF BusInv, BusTyped, BusAccess
<1>2. CASE addr % width # 0
  BY <1>1, <1>2 DEF BusAccess, BusInv, RouteMatchesMap
<1>3. CASE addr % width = 0
  <2> DEFINE by == IF addr >= BusDramBase /\ addr - BusDramBase < BusDramSize
                   THEN DramAnswer(width, addr) ELSE Slow(dir, width, addr)
  <2>1. Matches(dir, width, by, LookupDevice(addr))
    BY SlowMatches, DramMatches DEF BusInv
  <2>2. busReply' = [kind |-> dir, width |-> width, addr |-> addr, by |-> by] /\ busConfig' = busConfig
    BY <1>3 DEF BusAccess
  <2> HIDE DEF by
  <2>3. RouteMatchesMap'
    BY <2>1, <2>2 DEF RouteMatchesMap, Matches, TableDevs
  <2> QED BY <1>1, <2>3 DEF BusInv
<1> QED BY <1>2, <1>3

\* The chains of all widths and DEVICE_REGIONS describe one map, at every address
\* and for any number of VirtIO devices.
THEOREM MapAgreed == BusSpec => []RouteMatchesMap
<1>0. VirtioCounts \subseteq 0 .. 8
  BY BusAssumption, SMT
<1>1. BusInit => BusInv
  <2>1. SUFFICES ASSUME BusInit PROVE BusTyped /\ RouteMatchesMap
    BY DEF BusInv
  <2>2. BusTyped
    BY <2>1, <1>0 DEF BusInit, BusTyped
  <2>3. busReply.kind = "none"
    BY <2>1 DEF BusInit, NoReply
  <2> QED BY <2>2, <2>3 DEF RouteMatchesMap
<1>2. BusInv /\ [BusNext]_busVars => BusInv'
  <2>1. SUFFICES ASSUME BusInv, [BusNext]_busVars PROVE BusInv'
    OBVIOUS
  <2>2. BusAddresses \subseteq Nat
    <3>1. \A b \in Int, d \in Int : b + d >= 0 => b + d \in Nat
      OBVIOUS
    <3>2. /\ {DeviceRegions[k].base : k \in DOMAIN DeviceRegions} \subseteq Int
          /\ {DeviceRegions[k].base + DeviceRegions[k].size : k \in DOMAIN DeviceRegions} \subseteq Int
      BY Sorted
    <3>3. {VIRTIO_BASE + j * VIRTIO_STRIDE : j \in 6 .. 8} \subseteq Int
      BY SMT DEF VIRTIO_BASE, VIRTIO_STRIDE
    <3>4. {BusDramBase, BusDramBase + BusDramSize} \subseteq Int /\ Strides \subseteq Int
      BY BusAssumption, SMT
    <3> DEFINE B == {DeviceRegions[k].base : k \in DOMAIN DeviceRegions}
                     \cup {DeviceRegions[k].base + DeviceRegions[k].size : k \in DOMAIN DeviceRegions}
                     \cup {VIRTIO_BASE + j * VIRTIO_STRIDE : j \in 6 .. 8}
                     \cup {BusDramBase, BusDramBase + BusDramSize}
    <3>5. B \subseteq Int
      BY <3>2, <3>3, <3>4, Zenon
    <3>6. BusAddresses = {a \in {b + d : b \in B, d \in Strides} : a >= 0}
      BY DEF BusAddresses
    <3> HIDE DEF B
    <3>7. ASSUME NEW a \in BusAddresses PROVE a \in Nat
      <4>1. PICK b \in B, d \in Strides : a = b + d /\ a >= 0
        <5>1. a \in {b + d : b \in B, d \in Strides} /\ a >= 0
          BY <3>6
        <5> QED BY <5>1
      <4>2. b \in Int /\ d \in Int
        BY <3>4, <3>5
      <4> QED BY <4>1, <4>2, <3>1
    <3> QED BY <3>7
  <2>3. CASE UNCHANGED busVars
    BY <2>1, <2>3 DEF BusInv, BusTyped, RouteMatchesMap, busVars, LookupDevice
  <2>4. CASE BusDone
    BY <2>1, <2>4 DEF BusInv, BusTyped, RouteMatchesMap, BusDone, NoReply
  <2>5. ASSUME NEW dir \in {"read", "write"}, NEW width \in {1, 2, 4, 8}, NEW addr \in BusAddresses,
               BusAccess(dir, width, addr)
        PROVE  BusInv'
    BY <2>1, <2>2, <2>5, AccessStep
  <2> QED BY <2>1, <2>3, <2>4, <2>5 DEF BusNext
<1>3. BusInv => RouteMatchesMap
  BY DEF BusInv
<1> QED BY <1>1, <1>2, <1>3, PTL DEF BusSpec

-----------------------------------------------------------------------------
(* The superblock engine executes what the interpreter would.              *)

LEMMA AllNaturals ==
  ASSUME NEW S, 0 \in S, \A n \in Nat : n \in S => n + 1 \in S
  PROVE  Nat \subseteq S
<1> DEFINE T == Nat \ S
<1>1. SUFFICES ASSUME T # {} PROVE FALSE
  OBVIOUS
<1>2. T \subseteq Nat
  OBVIOUS
<1>3. PICK n \in T : \A m \in T : ~(<<m, n>> \in OpToRel(<, Nat))
  <2> HIDE DEF T
  <2> QED BY <1>1, <1>2, NatLessThanWellFounded, WFMin, Zenon
<1>4. n # 0 /\ n \in Nat
  OBVIOUS
<1>5. n - 1 \in Nat /\ (n - 1) + 1 = n /\ n - 1 < n
  BY <1>4
<1>6. n - 1 \notin S
  BY <1>4, <1>5
<1>7. <<n - 1, n>> \in OpToRel(<, Nat)
  BY <1>4, <1>5 DEF OpToRel
<1> QED BY <1>3, <1>5, <1>6, <1>7

\* No halfword can hold an encoding that only the interpreter refuses.
NoReserved ==
    /\ \A i \in Insns : i.op # "reserved"
    /\ \A c \in Programs : \A p \in Pcs : c[p].op # "reserved"

CodeTyped ==
    /\ code \in [Pcs -> Instructions]
    /\ map \in [Pages -> Pages \cup {Unmapped}]

\* A halfword of the code is in one of its pages, and so is its image.
LEMMA PageBounds ==
  ASSUME NEW p \in Pcs
  PROVE  PageOf(p) \in Pages
<1> DEFINE n == NumPc \div PageLen
           q == p \div PageLen
<1>1. PageLen \in Nat /\ PageLen > 0 /\ NumPc \in Nat /\ p \in Nat /\ p < NumPc
  BY IsaAssumption DEF Pcs
<1>2. n \in Nat /\ NumPc = PageLen * n
  BY <1>1, IsaAssumption
<1>3. q \in Nat /\ p >= PageLen * q
  BY <1>1
<1> HIDE DEF n, q
<1>4. q < n
  <2>1. SUFFICES ASSUME q >= n PROVE FALSE
    BY <1>2, <1>3
  <2>2. PageLen * q >= PageLen * n
    BY <2>1, <1>1, <1>2, <1>3
  <2> QED BY <2>2, <1>1, <1>2, <1>3
<1> QED BY <1>2, <1>3, <1>4 DEF PageOf, Pages, n, q

LEMMA PhysBounds ==
  ASSUME NEW m \in [Pages -> Pages \cup {Unmapped}], NEW p \in Pcs, m[PageOf(p)] # Unmapped
  PROVE  PhysIn(m, p) \in Pcs
<1> DEFINE n == NumPc \div PageLen
           q == m[PageOf(p)]
           r == p % PageLen
<1>1. PageLen \in Nat /\ PageLen > 0 /\ NumPc \in Nat /\ p \in Nat /\ p < NumPc
  BY IsaAssumption DEF Pcs
<1>2. n \in Nat /\ NumPc = PageLen * n
  BY <1>1, IsaAssumption
<1>3. q \in Nat /\ q + 1 <= n
  BY <1>2, PageBounds DEF Pages
<1>4. r \in Nat /\ r < PageLen
  BY <1>1
<1> HIDE DEF n, q, r
<1>5. q * PageLen \in Nat /\ (q + 1) * PageLen = q * PageLen + PageLen
  BY <1>1, <1>3
<1>6. (q + 1) * PageLen <= PageLen * n
  BY <1>1, <1>2, <1>3
<1>7. (q * PageLen) + r \in 0 .. NumPc - 1
  BY <1>1, <1>2, <1>4, <1>5, <1>6
<1> QED BY <1>7 DEF PhysIn, Pcs, q, r

LEMMA Fetched ==
  ASSUME CodeTyped, NEW p, Fetchable(p)
  PROVE  /\ p \in Pcs /\ InsnAt(p) \in Instructions
         /\ NextOf(p) \in p + 1 .. NumPc + 1
<1>1. p \in Pcs /\ Phys(p) \in Pcs
  BY PhysBounds DEF Fetchable, Mapped, CodeTyped, Phys
<1>2. InsnAt(p) \in Instructions
  BY <1>1 DEF CodeTyped, InsnAt
<1>3. InsnAt(p).len \in {1, 2}
  BY <1>2 DEF Instructions
<1> QED BY <1>1, <1>2, <1>3, IsaAssumption DEF NextOf, Pcs
\* The recursion of Run ends: a function satisfies its equation.
Domain == 0 .. NumPc + 1
Stops(p) == ~Fetchable(p) \/ InsnAt(p).op = "illegal"
Closes(p) ==
    \/ Transcode(InsnAt(p).op) \in Terminators
    \/ NextOf(p) >= (PageOf(p) + 1) * PageLen
RunTurn(f, p) ==
    IF Stops(p) THEN <<>> ELSE IF Closes(p) THEN <<p>> ELSE <<p>> \o f[NextOf(p)]
RunFrom(f, n) == \A p \in Domain : p + n > NumPc + 1 => f[p] = RunTurn(f, p)
IsRun(f) == f = [p \in Domain |-> RunTurn(f, p)]

LEMMA TurnLooksAhead ==
  ASSUME CodeTyped, NEW f, NEW g, NEW p, \A q \in Domain : q > p => f[q] = g[q]
  PROVE  RunTurn(f, p) = RunTurn(g, p)
<1>1. CASE Stops(p)
  BY <1>1 DEF RunTurn
<1>2. CASE ~Stops(p)
  <2>1. Fetchable(p)
    BY <1>2 DEF Stops
  <2>2. p \in Nat /\ NextOf(p) \in Domain /\ NextOf(p) > p
    BY <2>1, Fetched DEF Domain, Pcs
  <2>3. f[NextOf(p)] = g[NextOf(p)]
    BY <2>2
  <2> QED BY <2>3 DEF RunTurn
<1> QED BY <1>1, <1>2

LEMMA RunEnds ==
  ASSUME CodeTyped
  PROVE  \E f : IsRun(f)
<1> DEFINE S == {n \in Nat : \E f : f = [p \in Domain |-> f[p]] /\ RunFrom(f, n)}
<1>0. NumPc \in Nat
  BY IsaAssumption
<1>1. 0 \in S
  <2> DEFINE f == [p \in Domain |-> <<>>]
  <2>1. f = [p \in Domain |-> f[p]]
    OBVIOUS
  <2>2. RunFrom(f, 0)
    BY <1>0 DEF RunFrom, Domain
  <2> HIDE DEF f
  <2> QED BY <2>1, <2>2
<1>2. ASSUME NEW n \in Nat, n \in S PROVE n + 1 \in S
  <2>1. PICK f : f = [p \in Domain |-> f[p]] /\ RunFrom(f, n)
    BY <1>2
  <2> DEFINE m == (NumPc + 1) - n
             g == [p \in Domain |-> IF p = m THEN RunTurn(f, p) ELSE f[p]]
  <2>2. ASSUME NEW p \in Domain, p + (n + 1) > NumPc + 1
        PROVE  g[p] = RunTurn(g, p)
    <3>1. p \in Int /\ m \in Int /\ p >= m
      BY <1>0, <2>2 DEF Domain
    <3>2. \A q \in Domain : q > p => f[q] = g[q]
      BY <3>1 DEF Domain
    <3>3. RunTurn(f, p) = RunTurn(g, p)
      <4> HIDE DEF g
      <4> QED BY <3>2, TurnLooksAhead
    <3>4. p # m => f[p] = RunTurn(f, p)
      <4>1. SUFFICES ASSUME p # m PROVE f[p] = RunTurn(f, p)
        OBVIOUS
      <4>2. p + n > NumPc + 1
        BY <1>0, <3>1, <4>1
      <4> HIDE DEF m
      <4> QED BY <2>1, <4>2 DEF RunFrom
    <3>5. g[p] = IF p = m THEN RunTurn(f, p) ELSE f[p]
      BY <2>2
    <3> HIDE DEF g, m
    <3> QED BY <3>3, <3>4, <3>5
  <2>3. g = [p \in Domain |-> g[p]]
    OBVIOUS
  <2> HIDE DEF g
  <2>4. RunFrom(g, n + 1)
    BY <2>2 DEF RunFrom
  <2> QED BY <2>3, <2>4
<1> HIDE DEF S
<1>3. NumPc + 2 \in S
  BY <1>0, <1>1, <1>2, AllNaturals
<1>4. PICK f : f = [p \in Domain |-> f[p]] /\ RunFrom(f, NumPc + 2)
  BY <1>3 DEF S
<1>5. \A p \in Domain : f[p] = RunTurn(f, p)
  <2>1. \A p \in Domain : p + (NumPc + 2) > NumPc + 1
    BY <1>0 DEF Domain
  <2> QED BY <1>4, <2>1 DEF RunFrom
<1>6. f = [p \in Domain |-> RunTurn(f, p)]
  BY <1>4, <1>5
<1> QED BY <1>6 DEF IsRun

LEMMA RunIs ==
  ASSUME CodeTyped
  PROVE  IsRun(Run)
<1>1. Run = CHOOSE f : IsRun(f)
  BY DEF Run, IsRun, RunTurn, Stops, Closes, Domain
<1> QED BY <1>1, RunEnds

\* What a run is made of: one decodable instruction after the other, and none
\* after a terminator.
IsPath(s, p) ==
    /\ s \in Seq(Pcs)
    /\ s # <<>> => s[1] = p
    /\ \A k \in 1 .. Len(s) : Fetchable(s[k]) /\ InsnAt(s[k]).op # "illegal"
    /\ \A k \in 1 .. Len(s) - 1 :
          /\ Transcode(InsnAt(s[k]).op) \notin Terminators
          /\ s[k + 1] = NextOf(s[k])

LEMMA PathLonger ==
  ASSUME CodeTyped, NEW p, ~Stops(p), ~Closes(p), NEW s, IsPath(s, NextOf(p))
  PROVE  IsPath(<<p>> \o s, p)
<1> DEFINE t == <<p>> \o s
<1>1. p \in Pcs /\ Fetchable(p) /\ InsnAt(p).op # "illegal"
  BY Fetched DEF Stops
<1>2. s \in Seq(Pcs) /\ Len(s) \in Nat /\ <<p>> \in Seq(Pcs)
  BY <1>1 DEF IsPath
<1>3. /\ t \in Seq(Pcs) /\ Len(t) = Len(s) + 1 /\ t[1] = p
      /\ \A k \in 1 .. Len(s) : t[k + 1] = s[k]
  BY <1>1, <1>2
<1> HIDE DEF t
<1>4. \A k \in 1 .. Len(t) : k = 1 \/ (k - 1 \in 1 .. Len(s) /\ t[k] = s[k - 1])
  BY <1>2, <1>3
<1>5. \A k \in 1 .. Len(t) : Fetchable(t[k]) /\ InsnAt(t[k]).op # "illegal"
  BY <1>1, <1>3, <1>4 DEF IsPath
<1>6. ASSUME NEW k \in 1 .. Len(t) - 1
      PROVE  Transcode(InsnAt(t[k]).op) \notin Terminators /\ t[k + 1] = NextOf(t[k])
  <2>1. CASE k = 1
    <3>1. s # <<>> /\ t[2] = s[1]
      BY <1>2, <1>3, <2>1
    <3>2. t[2] = NextOf(p)
      BY <3>1 DEF IsPath
    <3> QED BY <3>2, <2>1, <1>3 DEF Closes
  <2>2. CASE k # 1
    <3>1. k - 1 \in 1 .. Len(s) - 1 /\ t[k] = s[k - 1] /\ t[k + 1] = s[k] /\ (k - 1) + 1 = k
      BY <1>2, <1>3, <2>2
    <3> QED BY <3>1 DEF IsPath
  <2> QED BY <2>1, <2>2
<1>7. IsPath(t, p)
  BY <1>3, <1>5, <1>6 DEF IsPath
<1> QED BY <1>7 DEF t

LEMMA RunIsPath ==
  ASSUME CodeTyped, NEW p \in Pcs
  PROVE  IsPath(Run[p], p) /\ (Run[p] = <<>> <=> Stops(p))
<1>0. NumPc \in Nat
  BY IsaAssumption
<1>1. \A q \in Domain : Run[q] = RunTurn(Run, q)
  BY RunIs DEF IsRun
<1> DEFINE S == {n \in Nat : \A q \in Domain : q + n > NumPc + 1 => IsPath(Run[q], q)}
<1>2. 0 \in S
  BY <1>0 DEF Domain
<1>3. ASSUME NEW n \in Nat, n \in S PROVE n + 1 \in S
  <2>1. SUFFICES ASSUME NEW q \in Domain, q + (n + 1) > NumPc + 1 PROVE IsPath(Run[q], q)
    OBVIOUS
  <2>2. CASE Stops(q)
    <3>1. Run[q] = <<>>
      BY <1>1, <2>2 DEF RunTurn
    <3>2. <<>> \in Seq(Pcs) /\ Len(<<>>) = 0
      OBVIOUS
    <3>3. IsPath(<<>>, q)
      BY <3>2 DEF IsPath
    <3> QED BY <3>1, <3>3
  <2>3. CASE ~Stops(q)
    <3>1. q \in Pcs /\ Fetchable(q) /\ InsnAt(q).op # "illegal" /\ NextOf(q) \in q + 1 .. NumPc + 1
      BY <2>3, Fetched DEF Stops
    <3>2. CASE Closes(q)
      <4>1. Run[q] = <<q>>
        BY <1>1, <2>3, <3>2 DEF RunTurn
      <4> QED BY <4>1, <3>1 DEF IsPath
    <3>3. CASE ~Closes(q)
      <4>1. Run[q] = <<q>> \o Run[NextOf(q)]
        BY <1>1, <2>3, <3>3 DEF RunTurn
      <4>2. NextOf(q) \in Domain /\ NextOf(q) + n > NumPc + 1
        BY <1>0, <2>1, <3>1 DEF Domain, Pcs
      <4>3. IsPath(Run[NextOf(q)], NextOf(q))
        BY <1>3, <4>2
      <4> QED BY <4>1, <4>3, <2>3, <3>3, PathLonger
    <3> QED BY <3>2, <3>3
  <2> QED BY <2>2, <2>3
<1> HIDE DEF S
<1>4. NumPc + 2 \in S
  BY <1>0, <1>2, <1>3, AllNaturals
<1>5. p \in Domain /\ p + (NumPc + 2) > NumPc + 1
  BY <1>0 DEF Domain, Pcs
<1>6. IsPath(Run[p], p)
  BY <1>4, <1>5 DEF S
<1>7. Run[p] = <<>> <=> Stops(p)
  <2>1. CASE Stops(p)
    BY <2>1, <1>1, <1>5 DEF RunTurn
  <2>2. CASE ~Stops(p) /\ Closes(p)
    <3>1. Run[p] = <<p>>
      BY <2>2, <1>1, <1>5 DEF RunTurn
    <3>2. <<p>> # <<>>
      OBVIOUS
    <3> QED BY <2>2, <3>1, <3>2
  <2>3. CASE ~Stops(p) /\ ~Closes(p)
    <3>1. NextOf(p) \in Domain /\ NextOf(p) + (NumPc + 2) > NumPc + 1
      BY <1>0, <2>3, Fetched DEF Domain, Pcs, Stops
    <3>2. Run[NextOf(p)] \in Seq(Pcs)
      BY <1>4, <3>1 DEF S, IsPath
    <3>3. Run[p] = <<p>> \o Run[NextOf(p)]
      BY <2>3, <1>1, <1>5 DEF RunTurn
    <3>4. <<p>> \o Run[NextOf(p)] # <<>>
      <4> DEFINE s == Run[NextOf(p)]
      <4>1. s \in Seq(Pcs) /\ <<p>> \in Seq(Pcs)
        BY <3>2
      <4> HIDE DEF s
      <4>2. Len(<<p>> \o s) = 1 + Len(s) /\ Len(s) \in Nat
        BY <4>1
      <4>3. <<p>> \o s # <<>>
        BY <4>2
      <4> QED BY <4>3 DEF s
    <3> QED BY <2>3, <3>3, <3>4
  <2> QED BY <2>1, <2>2, <2>3
<1> QED BY <1>6, <1>7

-----------------------------------------------------------------------------
\* A block as the hart that executes it relies on it: its micro-ops are what
\* its addresses hold, one behind the other.
MicroOps == [op : Opcodes, off : Int, len : {1, 2}, to : Nat]
Holds(m, p) ==
    LET q == p + m.off IN
    Fetchable(q) /\ InsnAt(q).op # "illegal" /\ m = MicroOpAt(p, q)
GoodBlock(b, p) ==
    /\ b.base = p
    /\ b.ops \in Seq(MicroOps) /\ Len(b.ops) >= 1 /\ b.ops[1].off = 0
    /\ \A k \in 1 .. Len(b.ops) : Holds(b.ops[k], p)
    /\ \A k \in 1 .. Len(b.ops) - 1 : b.ops[k + 1].off = b.ops[k].off + b.ops[k].len

LEMMA MicroOpHolds ==
  ASSUME CodeTyped, NEW p \in Pcs, NEW q, Fetchable(q), InsnAt(q).op # "illegal"
  PROVE  /\ MicroOpAt(p, q) \in MicroOps /\ Holds(MicroOpAt(p, q), p)
         /\ MicroOpAt(p, q).off = q - p
         /\ p + MicroOpAt(p, q).off = q
         /\ MicroOpAt(p, q).off + MicroOpAt(p, q).len = NextOf(q) - p
<1> DEFINE m == MicroOpAt(p, q)
<1>1. p \in Int /\ q \in Int /\ InsnAt(q) \in Instructions
  BY Fetched, IsaAssumption DEF Pcs
<1>2. /\ InsnAt(q).op \in Opcodes /\ InsnAt(q).len \in {1, 2} /\ InsnAt(q).to \in Nat
      /\ Transcode(InsnAt(q).op) \in Opcodes
  BY <1>1 DEF Instructions, Opcodes, Transcode
<1>3. /\ m \in MicroOps /\ m.off = q - p /\ m.len = InsnAt(q).len
  BY <1>1, <1>2 DEF MicroOpAt, MicroOps
<1>4. p + (q - p) = q /\ (q - p) + InsnAt(q).len = (q + InsnAt(q).len) - p
  BY <1>1, <1>2
<1>5. p + m.off = q /\ m.off + m.len = NextOf(q) - p
  BY <1>3, <1>4 DEF NextOf
<1> HIDE DEF m
<1>6. Holds(m, p)
  BY <1>5 DEF Holds, m
<1> QED BY <1>3, <1>5, <1>6 DEF m

LEMMA PathPrefix ==
  ASSUME NEW p, NEW s, IsPath(s, p), NEW n \in Nat \ {0}, Len(s) > n
  PROVE  IsPath(SubSeq(s, 1, n), p) /\ Len(SubSeq(s, 1, n)) = n
<1> DEFINE t == SubSeq(s, 1, n)
<1>1. s \in Seq(Pcs) /\ Len(s) \in Nat /\ n \in 1 .. Len(s)
  BY DEF IsPath
<1>2. t \in Seq(Pcs) /\ Len(t) = n /\ \A k \in 1 .. n : t[k] = s[k]
  BY <1>1
<1> HIDE DEF t
<1>3. s # <<>> /\ t[1] = s[1]
  BY <1>1, <1>2
<1>4. \A k \in 1 .. n : k \in 1 .. Len(s)
  BY <1>1
<1>5. \A k \in 1 .. n - 1 : k \in 1 .. Len(s) - 1 /\ k \in 1 .. n /\ k + 1 \in 1 .. n
  BY <1>1
<1>6. \A k \in 1 .. n - 1 : Transcode(InsnAt(t[k]).op) \notin Terminators /\ t[k + 1] = NextOf(t[k])
  BY <1>2, <1>5 DEF IsPath
<1>7. \A k \in 1 .. n : Fetchable(t[k]) /\ InsnAt(t[k]).op # "illegal"
  BY <1>2, <1>4 DEF IsPath
<1>8. t[1] = p
  BY <1>3 DEF IsPath
<1>9. IsPath(t, p)
  BY <1>2, <1>6, <1>7, <1>8 DEF IsPath
<1> QED BY <1>2, <1>9 DEF t

LEMMA PathCompiles ==
  ASSUME CodeTyped, NEW p \in Pcs, NEW s, IsPath(s, p), Len(s) >= 1,
         NEW b, b.base = p, b.ops = [k \in DOMAIN s |-> MicroOpAt(p, s[k])]
  PROVE  GoodBlock(b, p)
<1>1. s \in Seq(Pcs) /\ Len(s) \in Nat /\ DOMAIN s = 1 .. Len(s)
  BY DEF IsPath
<1>2. \A k \in 1 .. Len(s) :
         /\ b.ops[k] = MicroOpAt(p, s[k])
         /\ MicroOpAt(p, s[k]) \in MicroOps /\ Holds(MicroOpAt(p, s[k]), p)
         /\ b.ops[k].off = s[k] - p
         /\ b.ops[k].off + b.ops[k].len = NextOf(s[k]) - p
  BY <1>1, MicroOpHolds DEF IsPath
<1>3. b.ops \in Seq(MicroOps) /\ Len(b.ops) = Len(s)
  BY <1>1, <1>2
<1>4. b.ops[1].off = 0
  <2>1. s # <<>> /\ 1 \in 1 .. Len(s)
    BY <1>1
  <2>2. s[1] = p /\ p \in Int
    BY <2>1 DEF IsPath, Pcs
  <2>3. b.ops[1].off = s[1] - p
    BY <1>2, <2>1, Zenon
  <2>4. b.ops[1].off = p - p
    BY <2>2, <2>3, Zenon
  <2> QED BY <2>2, <2>4
<1>5. ASSUME NEW k \in 1 .. Len(s) - 1
      PROVE  b.ops[k + 1].off = b.ops[k].off + b.ops[k].len
  <2>1. k \in 1 .. Len(s) /\ k + 1 \in 1 .. Len(s)
    BY <1>1
  <2>2. s[k + 1] = NextOf(s[k])
    BY DEF IsPath
  <2>3. b.ops[k + 1].off = s[k + 1] - p
    BY <1>2, <2>1, Zenon
  <2>4. b.ops[k].off + b.ops[k].len = NextOf(s[k]) - p
    BY <1>2, <2>1, Zenon
  <2> QED BY <2>2, <2>3, <2>4, Zenon
<1>6. \A k \in 1 .. Len(b.ops) : Holds(b.ops[k], p)
  BY <1>2, <1>3
<1>7. \A k \in 1 .. Len(b.ops) - 1 : b.ops[k + 1].off = b.ops[k].off + b.ops[k].len
  BY <1>3, <1>5
<1> QED BY <1>3, <1>4, <1>6, <1>7 DEF GoodBlock

LEMMA CompileGood ==
  ASSUME CodeTyped, NEW p \in Pcs, Run[p] # <<>>
  PROVE  GoodBlock(Compile(p), p)
<1> DEFINE s == IF Len(Run[p]) > MaxBlockSize THEN SubSeq(Run[p], 1, MaxBlockSize) ELSE Run[p]
<1>1. IsPath(Run[p], p) /\ Run[p] \in Seq(Pcs) /\ Len(Run[p]) >= 1
  BY RunIsPath DEF IsPath
<1>2. MaxBlockSize \in Nat \ {0}
  BY EngineAssumption
<1>3. IsPath(s, p) /\ Len(s) >= 1
  BY <1>1, <1>2, PathPrefix
<1>4. Compile(p).base = p /\ Compile(p).ops = [k \in DOMAIN s |-> MicroOpAt(p, s[k])]
  BY DEF Compile
<1> HIDE DEF s
<1> QED BY <1>3, <1>4, PathCompiles

-----------------------------------------------------------------------------
\* The guest keeps its code: a block stays as good as it was.

LEMMA BlockKept ==
  ASSUME CodeTyped, NEW p \in Pcs, NEW b, GoodBlock(b, p),
         \A k \in DOMAIN b.ops :
            LET q == p + b.ops[k].off IN
            /\ map'[PageOf(q)] = map[PageOf(q)]
            /\ PageOf(q + 1) \in Pages => map'[PageOf(q + 1)] = map[PageOf(q + 1)]
            /\ code'[PhysIn(map', q)] = code[Phys(q)]
  PROVE  GoodBlock(b, p)'
<1>1. DOMAIN b.ops = 1 .. Len(b.ops)
  BY DEF GoodBlock
<1>2. ASSUME NEW k \in 1 .. Len(b.ops)
      PROVE  Holds(b.ops[k], p)'
  <2> DEFINE m == b.ops[k]
             q == p + m.off
  <2>1. Fetchable(q) /\ InsnAt(q).op # "illegal" /\ m = MicroOpAt(p, q)
    BY DEF GoodBlock, Holds
  <2>2. /\ map'[PageOf(q)] = map[PageOf(q)]
        /\ PageOf(q + 1) \in Pages => map'[PageOf(q + 1)] = map[PageOf(q + 1)]
        /\ code'[PhysIn(map', q)] = code[Phys(q)]
    BY <1>1
  <2> HIDE DEF m, q
  <2>3. InsnAt(q)' = InsnAt(q)
    BY <2>2 DEF InsnAt, Phys
  <2>4. Mapped(q)'
    BY <2>1, <2>2 DEF Fetchable, Mapped
  <2>5. Mapped(q + 1) => Mapped(q + 1)'
    BY <2>2, PageBounds DEF Mapped
  <2>6. Fetchable(q)'
    BY <2>1, <2>3, <2>4, <2>5 DEF Fetchable, InsnAt
  <2>7. MicroOpAt(p, q)' = MicroOpAt(p, q)
    BY <2>3 DEF MicroOpAt
  <2>8. (Fetchable(q) /\ InsnAt(q).op # "illegal" /\ m = MicroOpAt(p, q))'
    BY <2>1, <2>3, <2>6, <2>7
  <2> QED BY <2>8 DEF Holds, m, q
<1> QED BY <1>2 DEF GoodBlock

CodeKnown == \A p \in Pcs : code[p].op # "reserved"
BlockInv ==
    /\ CodeTyped
    /\ CodeKnown
    /\ \A p \in Cached : GoodBlock(cache[p], p)
    /\ phase = "block" => cur.base \in Cached /\ cur = cache[cur.base] /\ idx \in Nat \ {0}

LEMMA BlockStart == NoReserved /\ EngineInit => BlockInv
<1> SUFFICES ASSUME NoReserved, EngineInit PROVE BlockInv
  OBVIOUS
<1>1. code \in Programs /\ map \in Maps /\ phase = "step"
  BY DEF EngineInit, IsaInit
<1>2. CodeTyped /\ CodeKnown
  BY <1>1, IsaAssumption DEF CodeTyped, CodeKnown, NoReserved
<1>3. Cached = {}
  BY DEF EngineInit, Cached
<1> QED BY <1>1, <1>2, <1>3 DEF BlockInv

\* The cache and what may be executed, when neither changes.
LEMMA CacheQuiet ==
  ASSUME BlockInv, UNCHANGED <<code, map, cache>>
  PROVE  CodeTyped' /\ CodeKnown' /\ Cached' = Cached /\ \A p \in Cached : GoodBlock(cache[p], p)'
<1>1. CodeTyped' /\ CodeKnown' /\ Cached' = Cached
  BY DEF BlockInv, CodeTyped, CodeKnown, Cached
<1>2. ASSUME NEW p \in Cached PROVE GoodBlock(cache[p], p)'
  <2>1. GoodBlock(cache[p], p)
    BY DEF BlockInv
  <2> QED BY <2>1 DEF GoodBlock, Holds, Fetchable, Mapped, InsnAt, Phys, PhysIn, MicroOpAt, NextOf
<1> QED BY <1>1, <1>2

LEMMA CacheKept ==
  ASSUME BlockInv, GuestKeepsCode, KeepsCode(code', map'), CodeTyped', CodeKnown',
         UNCHANGED cache
  PROVE  Cached' = Cached /\ \A p \in Cached : GoodBlock(cache[p], p)'
<1>1. Cached' = Cached
  BY DEF Cached
<1>2. ASSUME NEW p \in Cached PROVE GoodBlock(cache[p], p)'
  <2>1. PICK b : b = cache[p]
    OBVIOUS
  <2>2. GoodBlock(b, p) /\ CodeTyped /\ p \in Pcs
    BY <2>1 DEF BlockInv, Cached
  <2>3. \A k \in DOMAIN b.ops :
            LET q == p + b.ops[k].off IN
            /\ map'[PageOf(q)] = map[PageOf(q)]
            /\ PageOf(q + 1) \in Pages => map'[PageOf(q + 1)] = map[PageOf(q + 1)]
            /\ code'[PhysIn(map', q)] = code[Phys(q)]
    BY <2>1 DEF KeepsCode
  <2>4. GoodBlock(b, p)'
    BY <2>2, <2>3, BlockKept
  <2>5. b = cache'[p]
    BY <2>1
  <2> QED BY <2>4, <2>5
<1> QED BY <1>1, <1>2

-----------------------------------------------------------------------------
\* Every step keeps the invariant.

LEMMA ArithmeticOnly ==
  ASSUME NEW m, NEW here, MicroAlu(m, here) \/ MicroLoad(m, here) \/ MicroStore(m, here)
                        \/ MicroJump(m, here) \/ MicroExit(m, here)
  PROVE  \/ phase' # "block" /\ phase' \in {"step", "lookup", "single"}
         \/ phase' = phase /\ idx' = idx + 1
  BY DEF MicroAlu, MicroLoad, MicroStore, MicroJump, MicroExit, NextOp, TrapBlock,
         ContinueBlock, ExitBlock

LEMMA LookupKeeps == BlockInv /\ Lookup => BlockInv'
<1> SUFFICES ASSUME BlockInv, Lookup PROVE BlockInv'
  OBVIOUS
<1>1. CASE pc \in Cached /\ Touch(pc) /\ phase' = "block" /\ cur' = cache[pc] /\ idx' = 1
           /\ UNCHANGED isaVars
  <2>1. UNCHANGED <<code, map, cache>>
    BY <1>1 DEF Touch, isaVars
  <2>2. cur'.base = pc
    BY <1>1 DEF BlockInv, GoodBlock
  <2> QED BY <1>1, <2>1, <2>2, CacheQuiet DEF BlockInv
<1>2. CASE /\ pc \notin Cached /\ pc \in Pcs /\ Run[pc] # <<>>
           /\ Insert(Compile(pc))
           /\ phase' = "block" /\ cur' = Compile(pc) /\ idx' = 1
           /\ UNCHANGED isaVars
  <2> DEFINE b == Compile(pc)
  <2>1. GoodBlock(b, pc) /\ CodeTyped /\ CodeKnown
    BY <1>2, CompileGood DEF BlockInv
  <2>2. b.base = pc /\ b # NoBlock
    <3>1. b.base = pc /\ pc # -1
      BY <1>2, <2>1, IsaAssumption DEF GoodBlock, Pcs
    <3> QED BY <3>1 DEF NoBlock
  <2> HIDE DEF b
  <2>3. PICK kept \in EvictCold :
           cache' = [p \in Pcs |-> IF p = b.base THEN b
                                   ELSE IF p \in kept THEN cache[p] ELSE NoBlock]
    BY <1>2 DEF Insert, b
  <2>4. kept \subseteq Cached
    BY DEF EvictCold, Cold
  <2>5. code' = code /\ map' = map
    BY <1>2 DEF isaVars
  <2>6. CodeTyped' /\ CodeKnown'
    BY <2>1, <2>5 DEF CodeTyped, CodeKnown
  <2>7. ASSUME NEW p \in Cached' PROVE GoodBlock(cache[p], p)'
    <3>1. p \in Pcs /\ ((p = pc /\ cache'[p] = b) \/ (p \in Cached /\ cache'[p] = cache[p]))
      BY <1>2, <2>2, <2>3, <2>4 DEF Cached
    <3>2. GoodBlock(cache'[p], p)
      BY <3>1, <2>1 DEF BlockInv
    <3> QED BY <3>2, <2>5
           DEF GoodBlock, Holds, Fetchable, Mapped, InsnAt, Phys, PhysIn, MicroOpAt, NextOf
  <2>8. cache'[pc] = b /\ pc \in Cached'
    BY <1>2, <2>2, <2>3 DEF Cached
  <2>9. cur' = b /\ idx' = 1
    BY <1>2 DEF b
  <2> QED BY <2>2, <2>6, <2>7, <2>8, <2>9 DEF BlockInv
<1>3. CASE phase' = "step" /\ UNCHANGED <<code, map, cache>>
  BY <1>3, CacheQuiet DEF BlockInv
<1> QED BY <1>1, <1>2, <1>3 DEF Lookup, Trap, isaVars

LEMMA WritesTyped ==
  ASSUME CodeTyped, CodeKnown, NoReserved, WriteCode
  PROVE  CodeTyped' /\ CodeKnown'
<1>1. PICK p \in Pcs, i \in Insns : code' = [code EXCEPT ![p] = i] /\ map' = map
  BY DEF WriteCode
<1>2. i \in Instructions /\ i.op # "reserved"
  BY IsaAssumption DEF NoReserved
<1> QED BY <1>1, <1>2 DEF CodeTyped, CodeKnown

LEMMA BlockStep ==
  ASSUME GuestKeepsCode, NoReserved, BlockInv, [EngineNext]_vars
  PROVE  BlockInv'
<1>1. CASE UNCHANGED <<code, map, cache>> /\ phase' # "block"
  BY <1>1, CacheQuiet DEF BlockInv
<1>2. CASE Poll
  BY <1>1, <1>2 DEF Poll, Interrupt, Trap, isaVars
<1>3. CASE Lookup
  BY <1>3, LookupKeeps
<1>4. CASE ExecuteBlock
  <2> DEFINE m == cur.ops[idx]
             here == cur.base + m.off
  <2>1. /\ \/ MicroAlu(m, here) \/ MicroLoad(m, here) \/ MicroStore(m, here)
           \/ MicroJump(m, here) \/ MicroExit(m, here)
        /\ phase = "block" /\ UNCHANGED <<code, map, poll, cache, count, cur, fresh, writes>>
    BY <1>4 DEF ExecuteBlock
  <2> HIDE DEF m, here
  <2>2. \/ phase' # "block" /\ phase' \in {"step", "lookup", "single"}
        \/ phase' = phase /\ idx' = idx + 1
    BY <2>1, ArithmeticOnly
  <2>3. cur.base \in Cached /\ cur = cache[cur.base] /\ idx + 1 \in Nat \ {0}
    BY <2>1 DEF BlockInv
  <2>4. CodeTyped' /\ CodeKnown' /\ Cached' = Cached /\ \A p \in Cached : GoodBlock(cache[p], p)'
    BY <2>1, CacheQuiet
  <2> QED BY <2>1, <2>2, <2>3, <2>4 DEF BlockInv
<1>5. CASE EndBlock
  <2>1. UNCHANGED <<code, map, cache>> /\ phase' # "block"
    BY <1>5 DEF EndBlock, ContinueBlock
  <2> QED BY <2>1, <1>1
<1>6. CASE StepSingle
  <2>1. CodeTyped' /\ CodeKnown'
    <3>1. code' = code /\ (map' = map \/ map' \in Maps)
      BY <1>6 DEF StepSingle, Instruction, Plain, WriteSatp, Trap, Continue
    <3> QED BY <3>1, IsaAssumption DEF BlockInv, CodeTyped, CodeKnown
  <2>2. KeepsCode(code', map') /\ phase' = "step" /\ cache' = cache
    <3>1. code' = code
      BY <1>6 DEF StepSingle, Instruction, Plain, WriteSatp, Trap, Continue
    <3> QED BY <1>6, <3>1 DEF StepSingle
  <2> QED BY <2>1, <2>2, CacheKept DEF BlockInv
<1>7. CASE GuestWritesCode
  <2>1. WriteCode /\ map' = map /\ KeepsCode(code', map) /\ UNCHANGED <<phase, cache, cur, idx>>
    BY <1>7 DEF GuestWritesCode, WriteCode
  <2>2. CodeTyped' /\ CodeKnown'
    BY <2>1, WritesTyped DEF BlockInv
  <2>3. KeepsCode(code', map')
    BY <2>1
  <2>4. Cached' = Cached /\ \A p \in Cached : GoodBlock(cache[p], p)'
    BY <2>1, <2>2, <2>3, CacheKept
  <2> QED BY <2>1, <2>2, <2>4 DEF BlockInv
<1>8. CASE UNCHANGED vars
  <2>1. UNCHANGED <<code, map, cache, phase, cur, idx>>
    BY <1>8 DEF vars, isaVars, engineVars
  <2> QED BY <2>1, CacheQuiet DEF BlockInv
<1> QED BY <1>2, <1>3, <1>4, <1>5, <1>6, <1>7, <1>8 DEF EngineNext

-----------------------------------------------------------------------------
\* Every step is an interpreter's step, or none that the guest can see.

LEMMA SameFetch ==
  \A p : /\ Interpreter!Fetchable(p) <=> Fetchable(p)
         /\ Interpreter!InsnAt(p) = InsnAt(p)
         /\ Interpreter!NextOf(p) = NextOf(p)
  BY DEF Interpreter!Fetchable, Interpreter!InsnAt, Interpreter!NextOf, Interpreter!Mapped,
         Interpreter!Phys, Interpreter!PhysIn, Interpreter!PageOf, Interpreter!Pcs,
         Interpreter!Unmapped, Fetchable, InsnAt, NextOf, Mapped, Phys, PhysIn, PageOf,
         Pcs, Unmapped

\* The interpreter's step at the pc that ArchPc names.
Interprets(here) ==
    IF Fetchable(here)
    THEN LET op == InsnAt(here).op IN
         \/ /\ \/ op \in {"alu", "amo"} /\ x' = Flip(x) /\ ArchPc' = NextOf(here)
               \/ op = "auipc" /\ x' = here % 2 /\ ArchPc' = NextOf(here)
               \/ op = "load" /\ x' \in {0, 1} /\ ArchPc' = NextOf(here)
               \/ op = "store" /\ x' = x /\ ArchPc' = NextOf(here)
               \/ op = "jal" /\ x' = x /\ ArchPc' = InsnAt(here).to
               \/ /\ op = "branch" /\ x' = x
                  /\ ArchPc' = IF x = 0 THEN InsnAt(here).to ELSE NextOf(here)
               \/ op \in {"fence", "wfi", "sfence"} /\ x' = x /\ ArchPc' = NextOf(here)
            /\ UNCHANGED <<code, map, epc, cause>>
         \/ /\ \/ op = "load" /\ cause' = "load"
               \/ op = "store" /\ cause' = "store"
               \/ op \in {"illegal", "reserved"} /\ cause' = "illegal"
               \/ op = "ecall" /\ cause' = "ecall"
            /\ epc' = here /\ ArchPc' = Handler
            /\ UNCHANGED <<code, map, x>>
         \/ /\ op = "satp" /\ map' \in Maps /\ ArchPc' = NextOf(here)
            /\ UNCHANGED <<code, x, epc, cause>>
    ELSE cause' = "fetch" /\ epc' = here /\ ArchPc' = Handler /\ UNCHANGED <<code, map, x>>

LEMMA InterpretsIs ==
  ASSUME NEW here, ArchPc = here, Interprets(here)
  PROVE  Interpreter!Instruction
<1> DEFINE op == InsnAt(here).op
<1>1. /\ Interpreter!Fetchable(ArchPc) <=> Fetchable(here)
      /\ Interpreter!InsnAt(ArchPc) = InsnAt(here)
      /\ Interpreter!NextOf(ArchPc) = NextOf(here)
  BY SameFetch
<1> HIDE DEF op
<1>2. CASE ~Fetchable(here)
  BY <1>1, <1>2 DEF Interprets, Interpreter!Instruction, Interpreter!Trap
<1>3. CASE Fetchable(here)
  <2> SUFFICES Interpreter!Plain(op) \/ Interpreter!WriteSatp(op)
    BY <1>1, <1>3 DEF Interpreter!Instruction, op
  <2>1. CASE /\ \/ op \in {"alu", "amo"} /\ x' = Flip(x) /\ ArchPc' = NextOf(here)
                \/ op = "auipc" /\ x' = here % 2 /\ ArchPc' = NextOf(here)
                \/ op = "load" /\ x' \in {0, 1} /\ ArchPc' = NextOf(here)
                \/ op = "store" /\ x' = x /\ ArchPc' = NextOf(here)
                \/ op = "jal" /\ x' = x /\ ArchPc' = InsnAt(here).to
                \/ /\ op = "branch" /\ x' = x
                   /\ ArchPc' = IF x = 0 THEN InsnAt(here).to ELSE NextOf(here)
                \/ op \in {"fence", "wfi", "sfence"} /\ x' = x /\ ArchPc' = NextOf(here)
             /\ UNCHANGED <<code, map, epc, cause>>
    BY <1>1, <2>1 DEF Interpreter!Plain, Interpreter!Continue, Interpreter!Flip, Flip
  <2>2. CASE /\ \/ op = "load" /\ cause' = "load"
                \/ op = "store" /\ cause' = "store"
                \/ op \in {"illegal", "reserved"} /\ cause' = "illegal"
                \/ op = "ecall" /\ cause' = "ecall"
             /\ epc' = here /\ ArchPc' = Handler
             /\ UNCHANGED <<code, map, x>>
    BY <2>2 DEF Interpreter!Plain, Interpreter!Trap
  <2>3. CASE /\ op = "satp" /\ map' \in Maps /\ ArchPc' = NextOf(here)
             /\ UNCHANGED <<code, x, epc, cause>>
    BY <1>1, <2>3 DEF Interpreter!WriteSatp
  <2> QED BY <1>3, <2>1, <2>2, <2>3 DEF Interprets, op
<1> QED BY <1>2, <1>3

\* Where a hart in a block is, and where one micro-op takes it.
LEMMA InBlock ==
  ASSUME BlockInv, phase = "block", idx <= Len(cur.ops),
         NEW m, m = cur.ops[idx], NEW here, here = cur.base + m.off
  PROVE  /\ ArchPc = here /\ Fetchable(here)
         /\ m.op = InsnAt(here).op /\ m.op # "illegal" /\ m.op # "reserved"
         /\ m.len = InsnAt(here).len /\ m.to = InsnAt(here).to
         /\ UNCHANGED <<phase, cur>> /\ idx' = idx + 1 => ArchPc' = NextOf(here)
<1> DEFINE p == cur.base
           n == Len(cur.ops)
<1>1. GoodBlock(cur, p) /\ idx \in Nat \ {0} /\ p \in Pcs
  BY DEF BlockInv, Cached
<1>2. n \in Nat /\ idx \in 1 .. n /\ m \in MicroOps /\ Holds(m, p)
  BY <1>1 DEF GoodBlock
<1>3. Fetchable(here) /\ InsnAt(here).op # "illegal" /\ m = MicroOpAt(p, here)
  BY <1>2 DEF Holds
<1>4. m.op = Transcode(InsnAt(here).op) /\ m.len = InsnAt(here).len /\ m.to = InsnAt(here).to
  BY <1>3 DEF MicroOpAt
<1>5. InsnAt(here).op # "reserved"
  <2>1. Phys(here) \in Pcs
    BY <1>3, PhysBounds DEF Fetchable, Mapped, BlockInv, CodeTyped, Phys
  <2> QED BY <2>1 DEF BlockInv, CodeKnown, InsnAt
<1>6. ArchPc = here
  BY DEF ArchPc
<1>7. ASSUME UNCHANGED <<phase, cur>>, idx' = idx + 1 PROVE ArchPc' = NextOf(here)
  <2>1. here + m.len = NextOf(here) /\ p \in Int /\ m.off \in Int /\ m.len \in Int
    BY <1>1, <1>2, <1>4, IsaAssumption DEF NextOf, MicroOps, Pcs
  <2>2. p + (m.off + m.len) = (p + m.off) + m.len
    BY <2>1
  <2>3. CASE idx + 1 <= n
    <3>1. idx \in 1 .. n - 1
      BY <1>2, <2>3
    <3>2. cur.ops[idx + 1].off = m.off + m.len
      BY <1>1, <3>1 DEF GoodBlock
    <3>3. ArchPc' = p + cur.ops[idx + 1].off
      BY <1>7, <2>3 DEF ArchPc
    <3> QED BY <2>1, <2>2, <3>2, <3>3
  <2>4. CASE ~(idx + 1 <= n)
    <3>1. idx = n
      BY <1>2, <2>4
    <3>2. ArchPc' = p + Bytes(cur)
      BY <1>7, <2>4 DEF ArchPc, Bytes
    <3>3. Bytes(cur) = m.off + m.len
      BY <3>1 DEF Bytes
    <3> QED BY <2>1, <2>2, <3>2, <3>3
  <2> QED BY <2>3, <2>4
<1> QED BY <1>3, <1>4, <1>5, <1>6, <1>7 DEF Transcode

LEMMA MicroOpInterprets ==
  ASSUME BlockInv, ExecuteBlock
  PROVE  Interpreter!Instruction \/ UNCHANGED <<code, map, ArchPc, x, epc, cause>>
<1>1. PICK m : m = cur.ops[idx]
  OBVIOUS
<1>2. PICK here : here = cur.base + m.off
  OBVIOUS
<1>3. /\ \/ MicroAlu(m, here) \/ MicroLoad(m, here) \/ MicroStore(m, here)
         \/ MicroJump(m, here) \/ MicroExit(m, here)
      /\ phase = "block" /\ idx <= Len(cur.ops)
      /\ UNCHANGED <<code, map, cur>>
  BY <1>1, <1>2 DEF ExecuteBlock
<1>4. /\ ArchPc = here /\ Fetchable(here)
      /\ m.op = InsnAt(here).op /\ m.op # "illegal" /\ m.op # "reserved"
      /\ m.len = InsnAt(here).len /\ m.to = InsnAt(here).to
      /\ UNCHANGED <<phase, cur>> /\ idx' = idx + 1 => ArchPc' = NextOf(here)
  BY <1>1, <1>2, <1>3, InBlock
<1>5. NextOp => ArchPc' = NextOf(here) /\ epc' = epc /\ cause' = cause
  BY <1>3, <1>4 DEF NextOp
<1>6. ASSUME NEW c, TrapBlock(c, here)
      PROVE  ArchPc' = Handler /\ epc' = here /\ cause' = c /\ x' = x
  BY <1>6 DEF TrapBlock, Trap, ArchPc
<1>7. ASSUME NEW p, ContinueBlock(p)
      PROVE  ArchPc' = p /\ epc' = epc /\ cause' = cause
  BY <1>7 DEF ContinueBlock, ArchPc
<1>8. CASE MicroAlu(m, here)
  <2>1. Interprets(here)
    BY <1>3, <1>4, <1>5, <1>8 DEF MicroAlu, Interprets
  <2> QED BY <1>4, <2>1, InterpretsIs
<1>9. CASE MicroLoad(m, here)
  <2>1. Interprets(here)
    BY <1>3, <1>4, <1>5, <1>6, <1>9 DEF MicroLoad, Interprets
  <2> QED BY <1>4, <2>1, InterpretsIs
<1>10. CASE MicroStore(m, here)
  <2>1. Interprets(here)
    BY <1>3, <1>4, <1>5, <1>6, <1>10 DEF MicroStore, Interprets
  <2> QED BY <1>4, <2>1, InterpretsIs
<1>11. CASE MicroJump(m, here)
  <2>1. Interprets(here)
    BY <1>3, <1>4, <1>7, <1>11 DEF MicroJump, Interprets, NextOf
  <2> QED BY <1>4, <2>1, InterpretsIs
<1>12. CASE MicroExit(m, here)
  BY <1>3, <1>4, <1>12 DEF MicroExit, ExitBlock, ArchPc
<1> QED BY <1>3, <1>8, <1>9, <1>10, <1>11, <1>12

LEMMA LookupInterprets ==
  ASSUME BlockInv, Lookup
  PROVE  Interpreter!Instruction \/ UNCHANGED <<code, map, ArchPc, x, epc, cause>>
<1>0. ArchPc = pc
  BY DEF Lookup, ArchPc
<1>1. CASE pc \in Cached /\ phase' = "block" /\ cur' = cache[pc] /\ idx' = 1 /\ UNCHANGED isaVars
  <2>1. PICK b : b = cache[pc]
    OBVIOUS
  <2>2. GoodBlock(b, pc) /\ pc \in Int
    BY <1>1, <2>1, IsaAssumption DEF BlockInv, Cached, Pcs
  <2>3. b.base = pc /\ Len(b.ops) >= 1 /\ b.ops[1].off = 0
    BY <2>2 DEF GoodBlock
  <2>4. ArchPc' = pc
    BY <1>1, <2>1, <2>2, <2>3 DEF ArchPc
  <2> QED BY <1>0, <1>1, <2>4 DEF isaVars
<1>2. CASE /\ pc \in Pcs /\ Run[pc] # <<>> /\ UNCHANGED isaVars
           /\ phase' = "block" /\ cur' = Compile(pc) /\ idx' = 1
  <2>1. PICK b : b = Compile(pc)
    OBVIOUS
  <2>2. GoodBlock(b, pc) /\ pc \in Int
    BY <1>2, <2>1, CompileGood, IsaAssumption DEF BlockInv, Pcs
  <2>3. b.base = pc /\ Len(b.ops) >= 1 /\ b.ops[1].off = 0
    BY <2>2 DEF GoodBlock
  <2>4. ArchPc' = pc
    BY <1>2, <2>1, <2>2, <2>3 DEF ArchPc
  <2> QED BY <1>0, <1>2, <2>4 DEF isaVars
<1>3. CASE UNCHANGED isaVars /\ phase' = "step"
  BY <1>0, <1>3 DEF isaVars, ArchPc
<1>4. CASE /\ pc \notin Pcs \/ Run[pc] = <<>>
           /\ Trap(IF Fetchable(pc) THEN "illegal" ELSE "fetch", pc)
           /\ phase' = "step"
  <2>1. Fetchable(pc) => InsnAt(pc).op = "illegal"
    <3>1. Fetchable(pc) => pc \in Pcs
      BY DEF Fetchable, Mapped
    <3>2. Fetchable(pc) => Stops(pc)
      BY <1>4, <3>1, RunIsPath DEF BlockInv
    <3> QED BY <3>2 DEF Stops
  <2>2. ArchPc' = pc'
    BY <1>4 DEF ArchPc
  <2>3. Interprets(pc)
    BY <1>4, <2>1, <2>2 DEF Trap, Interprets
  <2> QED BY <1>0, <2>3, InterpretsIs
<1> QED BY <1>1, <1>2, <1>3, <1>4 DEF Lookup

LEMMA StepInterprets ==
  ASSUME BlockInv, StepSingle
  PROVE  Interpreter!Instruction
<1>1. ArchPc = pc /\ ArchPc' = pc' /\ Instruction
  BY DEF StepSingle, ArchPc
<1>2. Interprets(pc)
  <2>1. CASE ~Fetchable(pc)
    BY <1>1, <2>1 DEF Instruction, Trap, Interprets
  <2>2. CASE Fetchable(pc)
    BY <1>1, <2>2 DEF Instruction, Plain, WriteSatp, Trap, Continue, Interprets
  <2> QED BY <2>1, <2>2
<1> QED BY <1>1, <1>2, InterpretsIs

LEMMA EngineInterprets ==
  ASSUME BlockInv, [EngineNext]_vars
  PROVE  [Interpreter!IsaNext]_(Interpreter!isaVars)
<1>0. SUFFICES Interpreter!IsaNext \/ UNCHANGED <<code, map, ArchPc, x, epc, cause>>
  BY DEF Interpreter!isaVars
<1>1. CASE Poll
  <2>1. ArchPc = pc /\ ArchPc' = pc'
    BY <1>1 DEF Poll, ArchPc
  <2>2. CASE Interrupt
    <3>1. Interpreter!Interrupt
      BY <2>1, <2>2 DEF Interrupt, Trap, Interpreter!Interrupt, Interpreter!Trap
    <3> QED BY <3>1 DEF Interpreter!IsaNext
  <2>3. CASE UNCHANGED isaVars
    BY <2>1, <2>3 DEF isaVars
  <2> QED BY <1>1, <2>2, <2>3 DEF Poll
<1>2. CASE Lookup
  BY <1>2, LookupInterprets DEF Interpreter!IsaNext
<1>3. CASE ExecuteBlock
  BY <1>3, MicroOpInterprets DEF Interpreter!IsaNext
<1>4. CASE EndBlock
  <2>1. ArchPc = cur.base + Bytes(cur) /\ ArchPc' = pc' /\ pc' = cur.base + Bytes(cur)
    <3>1. phase = "block" /\ ~(idx <= Len(cur.ops))
      <4>1. GoodBlock(cur, cur.base) /\ idx \in Nat
        BY <1>4 DEF EndBlock, BlockInv
      <4>2. Len(cur.ops) \in Nat
        BY <4>1 DEF GoodBlock
      <4> QED BY <1>4, <4>1, <4>2 DEF EndBlock
    <3> QED BY <1>4, <3>1 DEF EndBlock, ContinueBlock, ArchPc
  <2> QED BY <1>4, <2>1 DEF EndBlock, ContinueBlock
<1>5. CASE StepSingle
  BY <1>5, StepInterprets DEF Interpreter!IsaNext
<1>6. CASE GuestWritesCode
  <2>1. WriteCode /\ UNCHANGED <<phase, pc, cur, idx>>
    BY <1>6 DEF GuestWritesCode, WriteCode
  <2>2. ArchPc' = ArchPc
    BY <2>1 DEF ArchPc, Bytes
  <2>3. Interpreter!WriteCode
    BY <2>1, <2>2 DEF WriteCode, Interpreter!WriteCode, Interpreter!Pcs, Pcs
  <2> QED BY <2>3 DEF Interpreter!IsaNext
<1>7. CASE UNCHANGED vars
  <2>1. UNCHANGED <<code, map, pc, x, epc, cause, phase, cur, idx>>
    BY <1>7 DEF vars, isaVars, engineVars
  <2>2. ArchPc' = ArchPc
    BY <2>1 DEF ArchPc, Bytes
  <2> QED BY <2>1, <2>2
<1> QED BY <1>1, <1>2, <1>3, <1>4, <1>5, <1>6, <1>7 DEF EngineNext

\* For any code, maps, block and cache sizes, chains and interrupts, the blocks
\* of a hart do what its interpreter would, one instruction after the other, if
\* the guest keeps code that has run and holds no reserved encoding
\* (try_execute_block and execute_block_inner against step_single_inner).
THEOREM BlocksInterpret ==
  ASSUME GuestKeepsCode, NoReserved
  PROVE  EngineSpec => BlocksImplementInterpreter
<1>1. EngineInit => BlockInv
  BY BlockStart
<1>2. BlockInv /\ [EngineNext]_vars => BlockInv'
  BY BlockStep
<1>3. EngineInit => Interpreter!IsaInit
  BY DEF EngineInit, IsaInit, Interpreter!IsaInit, ArchPc
<1>4. BlockInv /\ [EngineNext]_vars => [Interpreter!IsaNext]_(Interpreter!isaVars)
  BY EngineInterprets
<1> QED BY <1>1, <1>2, <1>3, <1>4, PTL
        DEF EngineSpec, BlocksImplementInterpreter, Interpreter!IsaSpec
=============================================================================
