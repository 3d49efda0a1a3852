-------------------------------- MODULE Plic --------------------------------
(***************************************************************************)
(* The platform-level interrupt controller (devices/plic.rs) and the part  *)
(* of SystemBus::check_interrupts_for_hart (bus.rs, native build) that     *)
(* feeds it and reads it.                                                  *)
(*                                                                         *)
(* The authoritative PlicState sits behind a mutex.  Four atomic caches    *)
(* mirror it for readers that take no lock: the poll every hart runs to    *)
(* compute SEIP and MEIP, one load at a time.  A store updates the state   *)
(* and then its cache entry inside one critical section, so a reader sees  *)
(* the moment in between.  A device's line is sampled outside the lock and *)
(* handed to set_source_level afterwards, by every hart.                   *)
(*                                                                         *)
(* Atomic loads and stores are taken in program order.                     *)
(***************************************************************************)
EXTENDS Integers, Sequences

CONSTANTS
    Harts,       \* harts that poll and program the PLIC
    Modes,       \* privilege modes with a context of their own: S, M
    LastSource,  \* highest interrupt source (31 in the code); 0 is reserved
    Irq,         \* source of each polled device, in polling order
    Priorities,  \* values the guest stores to priority registers
    Thresholds,  \* values the guest stores to threshold registers
    EnableSets,  \* values the guest stores to enable registers
    PollEvery,   \* PLIC accesses of a hart between two polls
    Free         \* no hart holds the mutex

Sources == 1 .. LastSource
Contexts == Harts \X Modes
Devices == DOMAIN Irq

ASSUME PlicAssumption ==
    /\ Modes \subseteq {"S", "M"}
    /\ Modes # {}
    /\ LastSource \in Nat
    /\ Irq \in Seq(Sources)
    /\ Len(Irq) > 0
    /\ Priorities \subseteq Nat
    /\ Thresholds \subseteq Nat
    /\ EnableSets \subseteq SUBSET Sources
    /\ PollEvery \in Nat
    /\ Free \notin Harts

VARIABLES
    line,        \* is_interrupting() of each device
    owner,       \* holder of Plic.state's mutex, or Free
    dirty,       \* cache entry the owner has still to store
    priority, pending, enable, threshold, active,    \* PlicState
    cPriority, cPending, cEnable, cThreshold,        \* the atomic caches
    pc,          \* where the hart's thread is
    ops,         \* PLIC accesses since the hart's last poll
    dev,         \* device the poll is at; 0 outside the device loop
    level,       \* line sampled for that device
    modes,       \* contexts the poll has still to check
    cand,        \* pending bits, then candidates, of the check in progress
    bar,         \* threshold loaded by the check in progress
    found,       \* modes the poll found an interrupt for
    xip          \* SEIP/MEIP of the hart's mip, as the last poll left them

state == <<priority, pending, enable, threshold, active>>
caches == <<cPriority, cPending, cEnable, cThreshold>>
check == <<modes, cand, bar, found>>
vars == <<line, owner, dirty, state, caches, pc, ops, dev, level, check, xip>>

Labels == {"run", "sample", "set", "sync", "pending", "enable", "threshold",
           "scan"}
CleanEntry == [kind |-> "none"]
Entries ==
    {CleanEntry, [kind |-> "pending"]}
        \cup [kind : {"priority"}, at : Sources]
        \cup [kind : {"enable", "threshold"}, at : Contexts]

Goto(h, label) == pc' = [pc EXCEPT ![h] = label]
SmallestOf(S) == CHOOSE s \in S : \A t \in S : s <= t

-----------------------------------------------------------------------------
Init ==
    /\ line = [d \in Devices |-> FALSE]
    /\ owner = Free
    /\ dirty = CleanEntry
    /\ priority = [s \in Sources |-> 0] /\ cPriority = priority
    /\ pending = {} /\ cPending = {}
    /\ enable = [c \in Contexts |-> {}] /\ cEnable = enable
    /\ threshold = [c \in Contexts |-> 0] /\ cThreshold = threshold
    /\ active = [c \in Contexts |-> {}]
    /\ pc = [h \in Harts |-> "run"]
    /\ ops = [h \in Harts |-> 0]
    /\ dev = [h \in Harts |-> 0]
    /\ level = [h \in Harts |-> FALSE]
    /\ modes = [h \in Harts |-> {}]
    /\ cand = [h \in Harts |-> {}]
    /\ bar = [h \in Harts |-> 0]
    /\ found = [h \in Harts |-> {}]
    /\ xip = [h \in Harts |-> {}]

\* A device raises or lowers its line, by itself or because it was accessed.
SetLine(d) ==
    /\ line' = [line EXCEPT ![d] = ~@]
    /\ UNCHANGED <<owner, dirty, state, caches, pc, ops, dev, level, check, xip>>

-----------------------------------------------------------------------------
(* The critical sections of a store: state first, then the cache entry.    *)

Lock(h, entry) ==
    /\ owner = Free
    /\ owner' = h
    /\ dirty' = entry
    /\ Goto(h, "sync")

\* A guest access to the register file, between two polls.
Access(h) ==
    /\ pc[h] = "run"
    /\ ops[h] < PollEvery
    /\ ops' = [ops EXCEPT ![h] = @ + 1]
    /\ UNCHANGED <<line, caches, dev, level, check, xip>>

StorePriority(h, s, v) ==
    /\ Access(h)
    /\ Lock(h, [kind |-> "priority", at |-> s])
    /\ priority' = [priority EXCEPT ![s] = v]
    /\ UNCHANGED <<pending, enable, threshold, active>>

StoreEnable(h, c, S) ==
    /\ Access(h)
    /\ Lock(h, [kind |-> "enable", at |-> c])
    /\ enable' = [enable EXCEPT ![c] = S]
    /\ UNCHANGED <<priority, pending, threshold, active>>

StoreThreshold(h, c, v) ==
    /\ Access(h)
    /\ Lock(h, [kind |-> "threshold", at |-> c])
    /\ threshold' = [threshold EXCEPT ![c] = v]
    /\ UNCHANGED <<priority, pending, enable, active>>

\* set_source_level, with the level this hart sampled a moment ago.
SetSourceLevel(h) ==
    LET s == Irq[dev[h]]
    IN  /\ pc[h] = "set"
        /\ Lock(h, [kind |-> "pending"])
        /\ pending' = IF level[h] THEN pending \cup {s} ELSE pending \ {s}
        /\ level' = [level EXCEPT ![h] = FALSE]
        /\ UNCHANGED <<line, priority, enable, threshold, active, caches, ops,
                       dev, check, xip>>

\* Where a store returns to: the guest, or the next step of the poll.
StoreReturns(h) ==
    \/ dev[h] = 0 /\ Goto(h, "run") /\ UNCHANGED <<dev, modes>>
    \/ /\ dev[h] \in 1 .. Len(Irq) - 1
       /\ dev' = [dev EXCEPT ![h] = @ + 1]
       /\ Goto(h, "sample")
       /\ UNCHANGED modes
    \/ /\ dev[h] = Len(Irq)
       /\ dev' = [dev EXCEPT ![h] = 0]
       /\ modes' = [modes EXCEPT ![h] = Modes]
       /\ Goto(h, "pending")

\* Mutant: a priority store does not reach its cache.
SyncCacheForgetsPriority(h) ==
    /\ pc[h] = "sync"
    /\ owner' = Free
    /\ dirty' = CleanEntry
    /\ cPending' = IF dirty.kind = "pending" THEN pending ELSE cPending
    /\ cEnable' = IF dirty.kind = "enable"
                  THEN [cEnable EXCEPT ![dirty.at] = enable[dirty.at]]
                  ELSE cEnable
    /\ cThreshold' = IF dirty.kind = "threshold"
                     THEN [cThreshold EXCEPT ![dirty.at] = threshold[dirty.at]]
                     ELSE cThreshold
    /\ StoreReturns(h)
    /\ UNCHANGED <<line, state, cPriority, ops, level, cand, bar, found, xip>>

\* The owner stores the cache entry it made stale and drops the guard.
SyncCache(h) ==
    /\ pc[h] = "sync"
    /\ owner' = Free
    /\ dirty' = CleanEntry
    /\ cPending' = IF dirty.kind = "pending" THEN pending ELSE cPending
    /\ cPriority' = IF dirty.kind = "priority"
                    THEN [cPriority EXCEPT ![dirty.at] = priority[dirty.at]]
                    ELSE cPriority
    /\ cEnable' = IF dirty.kind = "enable"
                  THEN [cEnable EXCEPT ![dirty.at] = enable[dirty.at]]
                  ELSE cEnable
    /\ cThreshold' = IF dirty.kind = "threshold"
                     THEN [cThreshold EXCEPT ![dirty.at] = threshold[dirty.at]]
                     ELSE cThreshold
    /\ StoreReturns(h)
    /\ UNCHANGED <<line, state, ops, level, cand, bar, found, xip>>

-----------------------------------------------------------------------------
(* Claim and complete, entirely under the mutex.                           *)

Eligible(s, c) ==
    /\ s \in pending
    /\ s \in enable[c]
    /\ priority[s] > threshold[c]
    /\ s \notin active[c]

\* Mutant: a later source of equal priority wins the loop.
ClaimedLast(c) ==
    LET best[s \in 0 .. LastSource] ==
            IF s = 0 THEN [id |-> 0, prio |-> 0]
            ELSE IF Eligible(s, c) /\ priority[s] >= best[s - 1].prio
                 THEN [id |-> s, prio |-> priority[s]]
                 ELSE best[s - 1]
    IN  best[LastSource].id

\* The loop of claim_interrupt_for_internal; 0 when nothing is eligible.
Claimed(c) ==
    LET best[s \in 0 .. LastSource] ==
            IF s = 0 THEN [id |-> 0, prio |-> 0]
            ELSE IF Eligible(s, c) /\ priority[s] > best[s - 1].prio
                 THEN [id |-> s, prio |-> priority[s]]
                 ELSE best[s - 1]
    IN  best[LastSource].id

Claim(h, c) ==
    /\ Access(h)
    /\ owner = Free
    /\ active' = [active EXCEPT ![c] = @ \cup ({Claimed(c)} \ {0})]
    /\ UNCHANGED <<owner, dirty, pc, priority, pending, enable, threshold>>

Complete(h, c, s) ==
    /\ Access(h)
    /\ owner = Free
    /\ active' = [active EXCEPT ![c] = @ \ {s}]
    /\ UNCHANGED <<owner, dirty, pc, priority, pending, enable, threshold>>

-----------------------------------------------------------------------------
(* The poll: copy every device's line, then check this hart's contexts     *)
(* with is_interrupt_pending_for_fast, one atomic load per step.           *)

PollStart(h) ==
    /\ pc[h] = "run"
    /\ ops' = [ops EXCEPT ![h] = 0]
    /\ dev' = [dev EXCEPT ![h] = 1]
    /\ Goto(h, "sample")
    /\ UNCHANGED <<line, owner, dirty, state, caches, level, check, xip>>

\* Mutant: the level is latched, a line that went low is never noticed.
SampleLineLatched(h) ==
    /\ pc[h] = "sample"
    /\ level' = [level EXCEPT ![h] = line[dev[h]] \/ Irq[dev[h]] \in cPending]
    /\ Goto(h, "set")
    /\ UNCHANGED <<line, owner, dirty, state, caches, ops, dev, check, xip>>

SampleLine(h) ==
    /\ pc[h] = "sample"
    /\ level' = [level EXCEPT ![h] = line[dev[h]]]
    /\ Goto(h, "set")
    /\ UNCHANGED <<line, owner, dirty, state, caches, ops, dev, check, xip>>

\* S-mode is checked first.
Mode(h) == IF "S" \in modes[h] THEN "S" ELSE "M"
Ctx(h) == <<h, Mode(h)>>

LoadPending(h) ==
    /\ pc[h] = "pending"
    /\ cand' = [cand EXCEPT ![h] = cPending]
    /\ Goto(h, "enable")
    /\ UNCHANGED <<line, owner, dirty, state, caches, ops, dev, level, modes,
                   bar, found, xip>>

LoadEnable(h) ==
    /\ pc[h] = "enable"
    /\ cand' = [cand EXCEPT ![h] = @ \cap cEnable[Ctx(h)]]
    /\ Goto(h, "threshold")
    /\ UNCHANGED <<line, owner, dirty, state, caches, ops, dev, level, modes,
                   bar, found, xip>>

\* Mutant: the poll ORs its result into mip instead of replacing the bits.
EndCheckSticky(h, hit) ==
    LET f == found[h] \cup (IF hit THEN {Mode(h)} ELSE {})
        rest == modes[h] \ {Mode(h)}
    IN  /\ modes' = [modes EXCEPT ![h] = rest]
        /\ cand' = [cand EXCEPT ![h] = {}]
        /\ bar' = [bar EXCEPT ![h] = 0]
        /\ IF rest = {}
           THEN /\ xip' = [xip EXCEPT ![h] = @ \cup f]
                /\ found' = [found EXCEPT ![h] = {}]
                /\ Goto(h, "run")
           ELSE /\ found' = [found EXCEPT ![h] = f]
                /\ Goto(h, "pending")
                /\ UNCHANGED xip

\* The check of one context ends with answer hit; the last one ends the poll.
EndCheck(h, hit) ==
    LET f == found[h] \cup (IF hit THEN {Mode(h)} ELSE {})
        rest == modes[h] \ {Mode(h)}
    IN  /\ modes' = [modes EXCEPT ![h] = rest]
        /\ cand' = [cand EXCEPT ![h] = {}]
        /\ bar' = [bar EXCEPT ![h] = 0]
        /\ IF rest = {}
           THEN /\ xip' = [xip EXCEPT ![h] = f]
                /\ found' = [found EXCEPT ![h] = {}]
                /\ Goto(h, "run")
           ELSE /\ found' = [found EXCEPT ![h] = f]
                /\ Goto(h, "pending")
                /\ UNCHANGED xip

LoadThreshold(h) ==
    /\ pc[h] = "threshold"
    /\ IF cand[h] = {}
       THEN EndCheck(h, FALSE)
       ELSE /\ bar' = [bar EXCEPT ![h] = cThreshold[Ctx(h)]]
            /\ Goto(h, "scan")
            /\ UNCHANGED <<modes, cand, found, xip>>
    /\ UNCHANGED <<line, owner, dirty, state, caches, ops, dev, level>>

\* Mutant: the scan stops one source early.
ScanSourceStopsEarly(h) ==
    LET s == SmallestOf(cand[h])
        hit == s < LastSource /\ cPriority[s] > bar[h]
    IN  /\ pc[h] = "scan"
        /\ IF hit \/ cand[h] = {s}
           THEN EndCheck(h, hit)
           ELSE /\ cand' = [cand EXCEPT ![h] = @ \ {s}]
                /\ UNCHANGED <<pc, modes, bar, found, xip>>
        /\ UNCHANGED <<line, owner, dirty, state, caches, ops, dev, level>>

ScanSource(h) ==
    LET s == SmallestOf(cand[h])
        hit == cPriority[s] > bar[h]
    IN  /\ pc[h] = "scan"
        /\ IF hit \/ cand[h] = {s}
           THEN EndCheck(h, hit)
           ELSE /\ cand' = [cand EXCEPT ![h] = @ \ {s}]
                /\ UNCHANGED <<pc, modes, bar, found, xip>>
        /\ UNCHANGED <<line, owner, dirty, state, caches, ops, dev, level>>

-----------------------------------------------------------------------------
Guest(h) ==
    \/ \E s \in Sources, v \in Priorities : StorePriority(h, s, v)
    \/ \E c \in Contexts, S \in EnableSets : StoreEnable(h, c, S)
    \/ \E c \in Contexts, v \in Thresholds : StoreThreshold(h, c, v)
    \/ \E c \in Contexts : Claim(h, c)
    \/ \E c \in Contexts, s \in Sources : Complete(h, c, s)

Poll(h) ==
    \/ PollStart(h) \/ SampleLine(h) \/ SetSourceLevel(h) \/ SyncCache(h)
    \/ LoadPending(h) \/ LoadEnable(h) \/ LoadThreshold(h) \/ ScanSource(h)

Next ==
    \/ \E h \in Harts : Guest(h) \/ Poll(h)
    \/ \E d \in Devices : SetLine(d)

\* A hart keeps running and polls after at most PollEvery accesses; the mutex
\* does not shut one hart out for ever.  Devices and the guest owe nothing.
Fairness ==
    \A h \in Harts : WF_vars(Poll(h)) /\ SF_vars(SetSourceLevel(h))

Spec == Init /\ [][Next]_vars
FairSpec == Spec /\ Fairness

-----------------------------------------------------------------------------
\* Registers, caches and the poll's locals hold values of their Rust types.
TypeOK ==
    /\ line \in [Devices -> BOOLEAN]
    /\ owner \in Harts \cup {Free}
    /\ dirty \in Entries
    /\ priority \in [Sources -> Nat] /\ cPriority \in [Sources -> Nat]
    /\ pending \subseteq Sources /\ cPending \subseteq Sources
    /\ enable \in [Contexts -> SUBSET Sources]
    /\ cEnable \in [Contexts -> SUBSET Sources]
    /\ threshold \in [Contexts -> Nat] /\ cThreshold \in [Contexts -> Nat]
    /\ active \in [Contexts -> SUBSET Sources]
    /\ pc \in [Harts -> Labels]
    /\ ops \in [Harts -> 0 .. PollEvery]
    /\ dev \in [Harts -> {0} \cup Devices]
    /\ level \in [Harts -> BOOLEAN]
    /\ modes \in [Harts -> SUBSET Modes]
    /\ cand \in [Harts -> SUBSET Sources]
    /\ bar \in [Harts -> Nat]
    /\ found \in [Harts -> SUBSET Modes]
    /\ xip \in [Harts -> SUBSET Modes]

\* Every cache entry equals the register it mirrors, except the one entry the
\* mutex owner is about to store: whoever finds the mutex free finds the
\* lock-free view and the authoritative state in agreement.
CacheCoherent ==
    /\ owner = Free => dirty = CleanEntry
    /\ dirty.kind # "pending" => cPending = pending
    /\ \A s \in Sources :
          ~(dirty.kind = "priority" /\ dirty.at = s) => cPriority[s] = priority[s]
    /\ \A c \in Contexts :
          /\ ~(dirty.kind = "enable" /\ dirty.at = c) => cEnable[c] = enable[c]
          /\ ~(dirty.kind = "threshold" /\ dirty.at = c)
                => cThreshold[c] = threshold[c]

Beats(s, t) == priority[s] > priority[t] \/ (priority[s] = priority[t] /\ s <= t)
Best(c) ==
    LET E == {s \in Sources : Eligible(s, c)}
    IN  IF E = {} THEN 0 ELSE CHOOSE s \in E : \A t \in E : Beats(s, t)

\* A claim takes the eligible source of highest priority, the lowest number
\* among equals, and nothing when no source is eligible: a source in service
\* in this context is not handed out again before its completion.
ClaimTakesBest ==
    [][\A h \in Harts, c \in Contexts :
          Claim(h, c) => active'[c] = active[c] \cup ({Best(c)} \ {0})]_vars

\* A line that stays as it is settles in the pending bit, although harts hand
\* in samples they took at different times and in any order.  (Every device
\* has a source of its own.)
LinesSettle ==
    \A d \in Devices :
        /\ <>[](line[d]) => <>[](Irq[d] \in pending)
        /\ <>[](~line[d]) => <>[](Irq[d] \notin pending)

Reportable(s, c) ==
    s \in pending /\ s \in enable[c] /\ priority[s] > threshold[c]

\* A source that stays pending, enabled and above the threshold of a hart's
\* context ends up in that hart's mip for good, whichever hart saw its line and
\* whatever is stored to other registers; with nothing pending the bits go.
ExternalDelivered ==
    \A h \in Harts :
        /\ \A m \in Modes, s \in Sources :
              <>[]Reportable(s, <<h, m>>) => <>[](m \in xip[h])
        /\ <>[](pending = {}) => <>[](xip[h] = {})
=============================================================================
