--------------------------- MODULE InterruptProofs ---------------------------
(***************************************************************************)
(* The interrupt controller, for any number of harts, contexts, sources    *)
(* and devices: the lock-free caches agree with the state behind the       *)
(* mutex, the check that reads them misses no source that stays           *)
(* reportable, and a claim takes the best candidate.  The queues of the    *)
(* block, rng, 9P and input devices, for rings of every size and any       *)
(* traffic: what they return is exact and announced.                       *)
(***************************************************************************)
EXTENDS PlicFast, VirtioQueue, SplitRingProofs, WellFoundedInduction, TLAPS

-----------------------------------------------------------------------------
(* The inductive invariant.  CacheCoherent alone says nothing about who is *)
(* inside the critical section: a second store could make another entry    *)
(* stale and forget the first.  The mutex and the domains of the register  *)
(* files complete it.                                                      *)

\* The register files and their caches are indexed alike.
Shape ==
    /\ priority \in [Sources -> Nat] /\ cPriority \in [Sources -> Nat]
    /\ enable \in [Contexts -> SUBSET Sources]
    /\ cEnable \in [Contexts -> SUBSET Sources]
    /\ threshold \in [Contexts -> Nat] /\ cThreshold \in [Contexts -> Nat]
    /\ pc \in [Harts -> Labels]

\* A hart is between its state update and its cache store iff it holds the
\* mutex.
MutexHeld == \A h \in Harts : pc[h] = "sync" <=> owner = h

CacheInv == Shape /\ MutexHeld /\ CacheCoherent

\* A step that touches neither registers, caches nor the mutex.
LEMMA QuietStep ==
    ASSUME CacheInv, UNCHANGED <<owner, dirty, priority, pending, enable,
                                 threshold, caches>>,
           pc' \in [Harts -> Labels],
           \A h \in Harts : pc'[h] = "sync" <=> pc[h] = "sync"
    PROVE  CacheInv'
  BY DEF CacheInv, Shape, MutexHeld, CacheCoherent, caches

\* Taking the mutex and naming the stale entry.
LEMMA LockStep ==
    ASSUME CacheInv, NEW h \in Harts, NEW e, Lock(h, e)
    PROVE  /\ MutexHeld'
           /\ pc' \in [Harts -> Labels]
           /\ owner' # Free
           /\ dirty = CleanEntry
           /\ dirty' = e
<1> USE PlicAssumption DEF CacheInv, Shape, MutexHeld, CacheCoherent, Labels
<1>1. pc' = [pc EXCEPT ![h] = "sync"] /\ owner = Free /\ owner' = h
  BY DEF Lock, Goto
<1>2. \A k \in Harts : pc[k] # "sync"
  BY <1>1
<1>3. MutexHeld'
  BY <1>1, <1>2
<1> QED
  BY <1>1, <1>3 DEF Lock

LEMMA CachesStart == Init => CacheInv
  BY PlicAssumption DEF Init, CacheInv, Shape, MutexHeld, CacheCoherent, CleanEntry, Labels

\* Every action keeps it: a store makes one entry stale and repairs it before
\* it lets go.
LEMMA CachesKept == CacheInv /\ [Next]_vars => CacheInv'
<1> USE PlicAssumption
<1> SUFFICES ASSUME CacheInv, [Next]_vars PROVE CacheInv'
  OBVIOUS
<1>1. ASSUME NEW h \in Harts, Guest(h) PROVE CacheInv'
  <2>1. ASSUME NEW s \in Sources, NEW v \in Priorities, StorePriority(h, s, v)
        PROVE  CacheInv'
    <3>1. /\ MutexHeld' /\ pc' \in [Harts -> Labels] /\ owner' # Free
          /\ dirty = CleanEntry
          /\ dirty' = [kind |-> "priority", at |-> s]
      BY <2>1, LockStep DEF StorePriority
    <3>2. /\ UNCHANGED <<pending, enable, threshold, caches>>
          /\ priority' = [priority EXCEPT ![s] = v]
      BY <2>1 DEF StorePriority, Access
    <3> QED
      BY <3>1, <3>2 DEF CacheInv, Shape, CacheCoherent, CleanEntry, caches
  <2>2. ASSUME NEW c \in Contexts, NEW S \in EnableSets,
               StoreEnable(h, c, S)
        PROVE  CacheInv'
    <3>1. /\ MutexHeld' /\ pc' \in [Harts -> Labels] /\ owner' # Free
          /\ dirty = CleanEntry
          /\ dirty' = [kind |-> "enable", at |-> c]
      BY <2>2, LockStep DEF StoreEnable
    <3>2. /\ UNCHANGED <<pending, priority, threshold, caches>>
          /\ enable' = [enable EXCEPT ![c] = S]
      BY <2>2 DEF StoreEnable, Access
    <3> QED
      BY <3>1, <3>2 DEF CacheInv, Shape, CacheCoherent, CleanEntry, caches
  <2>3. ASSUME NEW c \in Contexts, NEW v \in Thresholds,
               StoreThreshold(h, c, v)
        PROVE  CacheInv'
    <3>1. /\ MutexHeld' /\ pc' \in [Harts -> Labels] /\ owner' # Free
          /\ dirty = CleanEntry
          /\ dirty' = [kind |-> "threshold", at |-> c]
      BY <2>3, LockStep DEF StoreThreshold
    <3>2. /\ UNCHANGED <<pending, priority, enable, caches>>
          /\ threshold' = [threshold EXCEPT ![c] = v]
      BY <2>3 DEF StoreThreshold, Access
    <3> QED
      BY <3>1, <3>2 DEF CacheInv, Shape, CacheCoherent, CleanEntry, caches
  <2>4. ASSUME NEW c \in Contexts, Claim(h, c) PROVE CacheInv'
    BY <2>4, QuietStep DEF Claim, Access, CacheInv, Shape
  <2>5. ASSUME NEW c \in Contexts, NEW s \in Sources, Complete(h, c, s)
        PROVE  CacheInv'
    BY <2>5, QuietStep DEF Complete, Access, CacheInv, Shape
  <2> QED
    BY <1>1, <2>1, <2>2, <2>3, <2>4, <2>5 DEF Guest
<1>2. CASE \E h \in Harts : SetSourceLevel(h)
  <2>1. PICK h \in Harts : SetSourceLevel(h)
    BY <1>2
  <2>2. /\ MutexHeld' /\ pc' \in [Harts -> Labels] /\ owner' # Free
        /\ dirty = CleanEntry
        /\ dirty' = [kind |-> "pending"]
    BY <2>1, LockStep DEF SetSourceLevel
  <2>3. UNCHANGED <<priority, enable, threshold, caches>>
    BY <2>1 DEF SetSourceLevel
  <2> QED
    BY <2>2, <2>3 DEF CacheInv, Shape, CacheCoherent, CleanEntry, caches
<1>3. ASSUME NEW h \in Harts, SyncCache(h) PROVE CacheInv'
  <2>1. PICK l \in Labels \ {"sync"} : pc' = [pc EXCEPT ![h] = l]
    BY <1>3 DEF SyncCache, StoreReturns, Goto, Labels
  <2>2. owner = h /\ owner' = Free /\ dirty' = CleanEntry
    BY <1>3 DEF SyncCache, CacheInv, MutexHeld
  <2>3. UNCHANGED <<priority, pending, enable, threshold>>
    BY <1>3 DEF SyncCache, state
  <2>4. MutexHeld' /\ pc' \in [Harts -> Labels]
    BY <2>1, <2>2 DEF CacheInv, Shape, MutexHeld
  <2>5. cPending' = pending'
    BY <1>3, <2>3 DEF SyncCache, CacheInv, CacheCoherent
  <2>6. \A s \in Sources : cPriority'[s] = priority'[s]
    BY <1>3, <2>3 DEF SyncCache, CacheInv, Shape, CacheCoherent
  <2>7. \A c \in Contexts : cEnable'[c] = enable'[c]
    BY <1>3, <2>3 DEF SyncCache, CacheInv, Shape, CacheCoherent
  <2>8. \A c \in Contexts : cThreshold'[c] = threshold'[c]
    BY <1>3, <2>3 DEF SyncCache, CacheInv, Shape, CacheCoherent
  <2>9. Shape'
    BY <1>3, <2>3, <2>4 DEF SyncCache, CacheInv, Shape
  <2> QED
    BY <2>2, <2>4, <2>5, <2>6, <2>7, <2>8, <2>9 DEF CacheInv, CacheCoherent
<1>4. ASSUME NEW h \in Harts,
             \/ PollStart(h) \/ SampleLine(h) \/ LoadPending(h)
             \/ LoadEnable(h) \/ LoadThreshold(h) \/ ScanSource(h)
      PROVE  CacheInv'
  <2>1. \/ pc' = pc
        \/ /\ pc[h] # "sync"
           /\ \E l \in Labels \ {"sync"} : pc' = [pc EXCEPT ![h] = l]
    <3>1. CASE PollStart(h) \/ SampleLine(h) \/ LoadPending(h) \/ LoadEnable(h)
      BY <3>1 DEF PollStart, SampleLine, LoadPending, LoadEnable, Goto, Labels
    <3>2. CASE LoadThreshold(h)
      BY <3>2 DEF LoadThreshold, EndCheck, Goto, Labels
    <3>3. CASE ScanSource(h)
      BY <3>3 DEF ScanSource, EndCheck, Goto, Labels
    <3> QED
      BY <1>4, <3>1, <3>2, <3>3
  <2>2. pc' \in [Harts -> Labels]
    BY <2>1 DEF CacheInv, Shape
  <2>3. \A k \in Harts : pc'[k] = "sync" <=> pc[k] = "sync"
    BY <2>1 DEF CacheInv, Shape
  <2>4. UNCHANGED <<owner, dirty, priority, pending, enable, threshold, caches>>
    BY <1>4 DEF PollStart, SampleLine, LoadPending, LoadEnable, LoadThreshold,
                ScanSource, state
  <2> QED
    BY <2>2, <2>3, <2>4, QuietStep
<1>5. CASE \E d \in Devices : SetLine(d)
  BY <1>5, QuietStep DEF SetLine, CacheInv, Shape, state
<1>6. CASE UNCHANGED vars
  BY <1>6, QuietStep DEF vars, CacheInv, Shape, state
<1> QED
  BY <1>1, <1>2, <1>3, <1>4, <1>5, <1>6 DEF Next, Poll

\* Whoever finds the mutex free finds every cache entry equal to its register;
\* a store makes one entry stale and repairs it before it lets go.
THEOREM CachesAgree == Spec => []CacheCoherent
<1>1. CacheInv => CacheCoherent
  BY DEF CacheInv
<1> QED
  BY <1>1, CachesStart, CachesKept, PTL DEF Spec

-----------------------------------------------------------------------------
(* The lock-free check.  While a check is under way, the sources that were  *)
(* reportable all the time are candidates, and the threshold it loaded is   *)
(* not above the highest one it could have seen.                            *)

PollTypes ==
    /\ modes \in [Harts -> SUBSET Modes]
    /\ DOMAIN cand = Harts /\ DOMAIN found = Harts /\ DOMAIN xip = Harts
    /\ bar \in [Harts -> Nat] /\ peak \in [Harts -> Nat]
    /\ \A h \in Harts : Checking(h) => modes[h] # {}

\* What the observer knows of the caches.
Watched(h) ==
    Checking(h) =>
        /\ cThreshold[Ctx(h)] <= peak[h]
        /\ \A s \in kept[h] : /\ s \in Sources /\ s \in cPending /\ s \in cEnable[Ctx(h)]
                              /\ cPriority[s] > peak[h]

\* What the check has loaded.
Loaded(h) ==
    /\ pc[h] \in {"enable", "threshold", "scan"} => kept[h] \subseteq cand[h]
    /\ pc[h] = "scan" => bar[h] <= peak[h]

FastInv == CacheInv /\ PollTypes /\ \A h \in Harts : Watched(h) /\ Loaded(h)

LEMMA CtxIn ==
    ASSUME PollTypes, NEW h \in Harts, Checking(h)
    PROVE  Mode(h) \in modes[h] /\ Ctx(h) \in Contexts
<1>1. modes[h] \subseteq {"S", "M"} /\ modes[h] # {} /\ modes[h] \subseteq Modes
  BY PlicAssumption DEF PollTypes
<1>2. Mode(h) \in modes[h]
  BY <1>1 DEF Mode
<1> QED BY <1>1, <1>2 DEF Ctx, Contexts

\* The check of one context is over: it goes on with the next one, or ends.
LEMMA CheckEnds ==
    ASSUME PollTypes, pc \in [Harts -> Labels], NEW h \in Harts, Checking(h),
           NEW hit \in BOOLEAN, EndCheck(h, hit)
    PROVE  /\ modes' \in [Harts -> SUBSET Modes]
           /\ DOMAIN cand' = Harts /\ DOMAIN found' = Harts /\ DOMAIN xip' = Harts
           /\ bar' \in [Harts -> Nat]
           /\ pc'[h] = "run" \/ (pc'[h] = "pending" /\ modes'[h] # {})
           /\ \A k \in Harts \ {h} : /\ pc'[k] = pc[k] /\ cand'[k] = cand[k]
                                     /\ bar'[k] = bar[k] /\ modes'[k] = modes[k]
<1>1. /\ modes' = [modes EXCEPT ![h] = modes[h] \ {Mode(h)}] /\ cand' = [cand EXCEPT ![h] = {}]
      /\ bar' = [bar EXCEPT ![h] = 0]
      /\ \/ pc' = [pc EXCEPT ![h] = "run"]
         \/ pc' = [pc EXCEPT ![h] = "pending"] /\ modes[h] \ {Mode(h)} # {}
  BY DEF EndCheck, Goto
<1>2. DOMAIN found' = Harts /\ DOMAIN xip' = Harts
  BY DEF EndCheck, PollTypes
<1> QED BY <1>1, <1>2 DEF PollTypes

\* The steps of one hart's check, and everything else, seen from that hart.
Same(h) ==
    pc'[h] = pc[h] /\ cand'[h] = cand[h] /\ bar'[h] = bar[h] /\ modes'[h] = modes[h]
Outside(h) == pc'[h] \in {"run", "sample", "set", "sync", "pending"}
Loads(h) ==
    /\ UNCHANGED caches /\ modes'[h] = modes[h]
    /\ \/ pc[h] = "pending" /\ pc'[h] = "enable" /\ cand'[h] = cPending
       \/ /\ pc[h] = "enable" /\ pc'[h] = "threshold"
          /\ cand'[h] = cand[h] \cap cEnable[Ctx(h)]
       \/ /\ pc[h] = "threshold" /\ pc'[h] = "scan" /\ cand'[h] = cand[h]
          /\ bar'[h] = cThreshold[Ctx(h)]
       \/ /\ pc[h] = "scan" /\ pc'[h] = "scan" /\ bar'[h] = bar[h]
          /\ \E s : ~(cPriority[s] > bar[h]) /\ cand'[h] = cand[h] \ {s}

\* Every step of the system is one of these for every hart.
PollStep ==
    /\ modes' \in [Harts -> SUBSET Modes]
    /\ DOMAIN cand' = Harts /\ DOMAIN found' = Harts /\ DOMAIN xip' = Harts
    /\ bar' \in [Harts -> Nat]
    /\ \A h \in Harts : Checking(h)' => modes'[h] # {}
    /\ \A h \in Harts : Same(h) \/ Outside(h) \/ Loads(h)

LEMMA CheckSteps ==
    ASSUME CacheInv, PollTypes, [Next]_vars
    PROVE  PollStep
<1>1. pc \in [Harts -> Labels]
  BY DEF CacheInv, Shape
<1>2. ASSUME NEW h \in Harts, Guest(h) \/ SetSourceLevel(h) \/ PollStart(h) \/ SampleLine(h)
      PROVE  PollStep
  <2>1. UNCHANGED <<modes, cand, bar, found, xip>>
    BY <1>2 DEF Guest, StorePriority, StoreEnable, StoreThreshold, Claim, Complete, Access,
                SetSourceLevel, PollStart, SampleLine, check
  <2>2. pc' = pc \/ \E l \in {"run", "sample", "set", "sync"} : pc' = [pc EXCEPT ![h] = l]
    BY <1>2 DEF Guest, StorePriority, StoreEnable, StoreThreshold, Claim, Complete, Access,
                SetSourceLevel, PollStart, SampleLine, Lock, Goto
  <2>3. \A k \in Harts : Same(k) \/ (pc'[k] \in {"run", "sample", "set", "sync"})
    BY <1>1, <2>1, <2>2 DEF Same
  <2> QED BY <1>1, <2>1, <2>3 DEF PollStep, PollTypes, Outside, Same, Checking
<1>3. ASSUME NEW h \in Harts, SyncCache(h) PROVE PollStep
  <2>1. /\ UNCHANGED <<cand, bar, found, xip>>
        /\ \/ UNCHANGED modes /\ \E l \in {"run", "sample"} : pc' = [pc EXCEPT ![h] = l]
           \/ modes' = [modes EXCEPT ![h] = Modes] /\ pc' = [pc EXCEPT ![h] = "pending"]
    BY <1>3 DEF SyncCache, StoreReturns, Goto
  <2>2. modes' \in [Harts -> SUBSET Modes]
    BY <2>1 DEF PollTypes
  <2>3. \A k \in Harts : IF k = h THEN pc'[k] \in {"run", "sample"} \/ (pc'[k] = "pending" /\ modes'[k] # {})
                         ELSE Same(k)
    BY <1>1, <2>1, PlicAssumption DEF Same, PollTypes
  <2> QED BY <2>1, <2>2, <2>3 DEF PollStep, PollTypes, Outside, Same, Checking
<1>4. ASSUME NEW h \in Harts, LoadPending(h) \/ LoadEnable(h) PROVE PollStep
  <2>1. UNCHANGED <<modes, bar, caches, found, xip>> /\ DOMAIN cand' = Harts
    BY <1>4 DEF LoadPending, LoadEnable, PollTypes
  <2>2. \A k \in Harts \ {h} : Same(k)
    BY <1>1, <1>4 DEF LoadPending, LoadEnable, Goto, Same, PollTypes
  <2>3. Loads(h)
    BY <1>1, <1>4, <2>1 DEF LoadPending, LoadEnable, Goto, Loads, PollTypes
  <2> QED BY <2>1, <2>2, <2>3 DEF PollStep, PollTypes, Same, Loads, Checking
<1>5. ASSUME NEW h \in Harts, LoadThreshold(h) PROVE PollStep
  <2>1. Checking(h) /\ UNCHANGED caches
    BY <1>5 DEF LoadThreshold, Checking
  <2>2. CASE EndCheck(h, FALSE)
    BY <1>1, <2>1, <2>2, CheckEnds DEF PollStep, PollTypes, Same, Outside, Checking
  <2>3. CASE /\ bar' = [bar EXCEPT ![h] = cThreshold[Ctx(h)]] /\ Goto(h, "scan")
             /\ UNCHANGED <<modes, cand, found, xip>>
    <3>1. cThreshold[Ctx(h)] \in Nat
      BY <2>1, CtxIn DEF CacheInv, Shape
    <3>2. bar' \in [Harts -> Nat] /\ UNCHANGED modes /\ DOMAIN cand' = Harts
      BY <2>3, <3>1 DEF PollTypes
    <3>3. \A k \in Harts \ {h} : Same(k)
      BY <1>1, <2>3 DEF Goto, Same, PollTypes
    <3>4. Loads(h)
      BY <1>1, <1>5, <2>1, <2>3 DEF LoadThreshold, Goto, Loads, PollTypes
    <3> QED BY <2>1, <2>3, <3>2, <3>3, <3>4 DEF PollStep, PollTypes, Same, Loads, Checking
  <2> QED BY <1>5, <2>2, <2>3 DEF LoadThreshold
<1>6. ASSUME NEW h \in Harts, ScanSource(h) PROVE PollStep
  <2>1. Checking(h) /\ UNCHANGED caches /\ pc[h] = "scan"
    BY <1>6 DEF ScanSource, Checking
  <2>2. \/ \E hit \in BOOLEAN : EndCheck(h, hit)
        \/ /\ UNCHANGED <<pc, modes, bar, found, xip>>
           /\ \E s : ~(cPriority[s] > bar[h]) /\ cand' = [cand EXCEPT ![h] = @ \ {s}]
    <3> DEFINE t == SmallestOf(cand[h])
               hit == cPriority[t] > bar[h]
    <3>1. CASE hit \/ cand[h] = {t}
      <4>1. EndCheck(h, hit) /\ hit \in BOOLEAN
        BY <1>6, <3>1 DEF ScanSource
      <4> HIDE DEF hit
      <4> QED BY <4>1
    <3>2. CASE ~(hit \/ cand[h] = {t})
      BY <1>6, <3>2 DEF ScanSource
    <3> QED BY <3>1, <3>2
  <2>3. CASE \E hit \in BOOLEAN : EndCheck(h, hit)
    BY <1>1, <2>1, <2>3, CheckEnds DEF PollStep, PollTypes, Same, Outside, Checking
  <2>4. CASE /\ UNCHANGED <<pc, modes, bar, found, xip>>
             /\ \E s : ~(cPriority[s] > bar[h]) /\ cand' = [cand EXCEPT ![h] = @ \ {s}]
    <3>1. DOMAIN cand' = Harts /\ \A k \in Harts \ {h} : Same(k)
      BY <1>1, <2>4 DEF Same, PollTypes
    <3>2. Loads(h)
      BY <2>1, <2>4 DEF Loads, PollTypes
    <3> QED BY <2>1, <2>4, <3>1, <3>2 DEF PollStep, PollTypes, Same, Loads, Checking
  <2> QED BY <2>2, <2>3, <2>4
<1>7. CASE (\E d \in Devices : SetLine(d)) \/ UNCHANGED vars
  BY <1>1, <1>7 DEF SetLine, vars, check, PollStep, PollTypes, Same, Checking
<1> QED BY <1>2, <1>3, <1>4, <1>5, <1>6, <1>7 DEF Next, Poll

\* What the observer notes in a step.
LEMMA Observed ==
    ASSUME FastInv, FNext, PollStep, CacheInv', NEW h \in Harts
    PROVE  /\ peak'[h] \in Nat /\ Watched(h)'
           /\ Checking(h)' /\ pc'[h] # "pending" => peak[h] <= peak'[h] /\ kept'[h] \subseteq kept[h]
<1>1. peak'[h] = ObservePeak(h) /\ kept'[h] = ObserveKept(h) /\ peak[h] \in Nat
  BY DEF FNext, FastInv, PollTypes
<1>2. CASE Checking(h)'
  <2>1. Ctx(h)' \in Contexts
    <3>1. modes'[h] \subseteq {"S", "M"} /\ modes'[h] # {} /\ modes'[h] \subseteq Modes
      BY <1>2, PlicAssumption DEF PollStep
    <3> QED BY <3>1 DEF Ctx, Mode, Contexts
  <2> DEFINE now == cThreshold'[Ctx(h)']
  <2>2. now \in Nat
    BY <2>1 DEF CacheInv, Shape
  <2>3. peak'[h] = IF pc'[h] = "pending" \/ now > peak[h] THEN now ELSE peak[h]
    BY <1>1, <1>2 DEF ObservePeak
  <2>4. peak'[h] \in Nat /\ now <= peak'[h] /\ (pc'[h] # "pending" => peak[h] <= peak'[h])
    BY <1>1, <2>2, <2>3
  <2>5. \A s \in kept'[h] : /\ s \in Sources /\ s \in Visible(Ctx(h))' /\ cPriority'[s] > peak'[h]
                            /\ pc'[h] = "pending" \/ s \in kept[h]
    BY <1>1 DEF ObserveKept
  <2> QED BY <2>4, <2>5 DEF Watched, Visible
<1>3. CASE ~Checking(h)'
  BY <1>1, <1>3 DEF ObservePeak, Watched
<1> QED BY <1>2, <1>3

LEMMA FastKept == FastInv /\ [FNext]_fvars => FastInv'
<1> SUFFICES ASSUME FastInv, [FNext]_fvars PROVE FastInv'
  OBVIOUS
<1>1. CASE UNCHANGED fvars
  <2>1. CacheInv'
    BY <1>1, CachesKept DEF FastInv, fvars
  <2> QED BY <1>1, <2>1 DEF FastInv, fvars, vars, check, caches, PollTypes, Watched, Loaded, Checking, Ctx, Mode
<1>2. CASE FNext
  <2>1. CacheInv' /\ PollStep
    BY <1>2, CachesKept, CheckSteps DEF FNext, FastInv
  <2>2. \A h \in Harts :
           /\ peak'[h] \in Nat /\ Watched(h)'
           /\ Checking(h)' /\ pc'[h] # "pending" => peak[h] <= peak'[h] /\ kept'[h] \subseteq kept[h]
    BY <1>2, <2>1, Observed
  <2>3. PollTypes'
    <3>1. peak' \in [Harts -> Nat]
      BY <1>2, <2>2 DEF FNext
    <3> QED BY <2>1, <3>1 DEF PollStep, PollTypes
  <2>4. ASSUME NEW h \in Harts PROVE Loaded(h)'
    <3>1. peak[h] \in Nat /\ peak'[h] \in Nat /\ bar[h] \in Nat /\ bar'[h] \in Nat
      BY <2>1, <2>2 DEF FastInv, PollTypes, PollStep
    <3>2. CASE Same(h)
      <4>1. pc'[h] \in {"enable", "threshold", "scan"} =>
               kept'[h] \subseteq cand'[h] /\ peak[h] <= peak'[h]
        BY <2>2, <3>2 DEF Same, FastInv, Loaded, Checking
      <4>2. pc'[h] = "scan" => bar'[h] <= peak[h]
        BY <3>2 DEF Same, FastInv, Loaded
      <4> QED BY <3>1, <4>1, <4>2 DEF Loaded
    <3>3. CASE Outside(h)
      BY <3>3 DEF Outside, Loaded
    <3>4. CASE Loads(h)
      <4>1. /\ Checking(h) /\ Checking(h)' /\ pc'[h] \in {"enable", "threshold", "scan"}
            /\ Ctx(h)' = Ctx(h) /\ UNCHANGED <<cPending, cEnable, cThreshold, cPriority>>
        BY <3>4 DEF Loads, Checking, Ctx, Mode, caches
      <4>2. /\ peak[h] <= peak'[h] /\ kept'[h] \subseteq kept[h]
            /\ cThreshold[Ctx(h)] <= peak'[h]
            /\ \A s \in kept'[h] : s \in cPending /\ s \in cEnable[Ctx(h)]
        BY <2>2, <4>1 DEF Watched
      <4>3. CASE pc[h] = "pending" \/ pc[h] = "enable"
        BY <3>4, <4>2, <4>3 DEF Loads, FastInv, Loaded
      <4>4. CASE pc[h] = "threshold"
        BY <3>4, <4>2, <4>4 DEF Loads, FastInv, Loaded
      <4>5. CASE pc[h] = "scan"
        <5>1. PICK s : ~(cPriority[s] > bar[h]) /\ cand'[h] = cand[h] \ {s}
          BY <3>4, <4>5 DEF Loads
        <5>2. bar[h] <= peak[h] /\ kept[h] \subseteq cand[h] /\ pc'[h] = "scan" /\ bar'[h] = bar[h]
          BY <3>4, <4>5 DEF Loads, FastInv, Loaded
        <5>3. s \notin kept[h]
          <6> SUFFICES ASSUME s \in kept[h] PROVE FALSE
            OBVIOUS
          <6>1. cPriority[s] > peak[h] /\ cPriority[s] \in Nat
            BY <4>1 DEF FastInv, Watched, CacheInv, Shape
          <6> QED BY <3>1, <5>1, <5>2, <6>1
        <5>4. bar'[h] <= peak'[h]
          BY <3>1, <4>2, <5>2
        <5> QED BY <4>2, <5>1, <5>2, <5>3, <5>4 DEF Loaded
      <4> QED BY <3>4, <4>3, <4>4, <4>5 DEF Loads
    <3> QED BY <2>1, <3>2, <3>3, <3>4 DEF PollStep
  <2> QED BY <2>1, <2>2, <2>3, <2>4 DEF FastInv
<1> QED BY <1>1, <1>2

\* The steps that end a check with no: the candidates are gone, or the last one
\* is not above the threshold that was loaded.
LEMMA NoEnds ==
    ASSUME FastInv, Next, NEW h \in Harts, AnswersNo(h)
    PROVE  kept[h] = {}
<1>1. /\ pc[h] \in {"pending", "enable", "threshold", "scan"} /\ modes'[h] # modes[h]
      /\ pc \in [Harts -> Labels] /\ modes \in [Harts -> SUBSET Modes]
  BY DEF AnswersNo, Checking, FastInv, PollTypes, CacheInv, Shape
<1>2. \E k \in Harts : SyncCache(k) \/ LoadThreshold(k) \/ ScanSource(k)
  BY <1>1 DEF Next, Guest, Poll, StorePriority, StoreEnable, StoreThreshold, Claim, Complete, Access,
              SetSourceLevel, PollStart, SampleLine, LoadPending, LoadEnable, SetLine, check
<1>3. PICK k \in Harts : SyncCache(k) \/ LoadThreshold(k) \/ ScanSource(k)
  BY <1>2
<1>4. k = h /\ ~SyncCache(k)
  BY <1>1, <1>3 DEF SyncCache, StoreReturns, LoadThreshold, ScanSource, EndCheck
<1>5. ASSUME NEW hit \in BOOLEAN, EndCheck(h, hit) PROVE ~hit
  <2>1. /\ modes'[h] = modes[h] \ {Mode(h)}
        /\ IF modes[h] \ {Mode(h)} = {}
           THEN xip' = [xip EXCEPT ![h] = found[h] \cup (IF hit THEN {Mode(h)} ELSE {})]
           ELSE found' = [found EXCEPT ![h] = found[h] \cup (IF hit THEN {Mode(h)} ELSE {})]
    BY <1>1, <1>5 DEF EndCheck
  <2> QED BY <2>1 DEF AnswersNo, FastInv, PollTypes
<1>6. CASE LoadThreshold(h)
  <2>1. cand[h] = {} /\ pc[h] = "threshold"
    BY <1>1, <1>6 DEF LoadThreshold
  <2> QED BY <2>1 DEF FastInv, Loaded
<1>7. CASE ScanSource(h)
  <2> DEFINE s == SmallestOf(cand[h])
             hit == cPriority[s] > bar[h]
  <2>1. pc[h] = "scan" /\ (hit \/ cand[h] = {s}) /\ EndCheck(h, hit)
    BY <1>1, <1>7 DEF ScanSource
  <2>2. hit \in BOOLEAN
    OBVIOUS
  <2>3. ~hit
    BY <1>5, <2>1, <2>2
  <2>4. kept[h] \subseteq {s} /\ bar[h] <= peak[h] /\ bar[h] \in Nat /\ peak[h] \in Nat
    BY <2>1, <2>3 DEF FastInv, Loaded, PollTypes
  <2>5. s \in kept[h] => cPriority[s] > peak[h] /\ cPriority[s] \in Nat
    BY <1>1 DEF FastInv, Watched, Checking, CacheInv, Shape
  <2> QED BY <2>3, <2>4, <2>5
<1> QED BY <1>3, <1>4, <1>6, <1>7

\* A source that stays pending, enabled and above every threshold of the context
\* is reported by is_interrupt_pending_for_fast, for any number of harts and
\* sources and whatever they store while the check goes from cache to cache.
THEOREM NoSourceMissed == FSpec => NoMissedSource
<1>1. FInit => FastInv
  <2> SUFFICES ASSUME FInit PROVE FastInv
    OBVIOUS
  <2>1. CacheInv
    BY CachesStart DEF FInit
  <2>2. \A h \in Harts : pc[h] = "run"
    BY DEF FInit, Init
  <2>3. PollTypes
    BY <2>2 DEF FInit, Init, PollTypes, Checking
  <2> QED BY <2>1, <2>2, <2>3 DEF FastInv, Watched, Loaded, Checking
<1>2. FastInv /\ [FNext]_fvars => [\A h \in Harts : AnswersNo(h) => kept[h] = {}]_fvars
  BY NoEnds DEF FNext
<1> QED
  BY <1>1, <1>2, FastKept, PTL DEF FSpec, NoMissedSource

-----------------------------------------------------------------------------
(* The request queues: chains the device is past, given back or not.        *)

\* As Returned and Done, of any chains and indices.
Gives(name, chains, i) == chains[i] # "unfit" \/ name \in {"rng", "p9"}
Back(name, chains, n) == {i \in 1 .. n : Gives(name, chains, i)}

\* The avail ring holds the chains in the order of posting, the used ring the
\* last of those given back; x was carried out last.
Requests(name, s, u, l, a, avail, cells, chains, x) ==
    /\ Holds(avail, l, a, Ids, Len(chains))
    /\ \E f : /\ Lists(f, Back(name, chains, Len(chains) - Distance(l, a)))
              /\ Holds(cells, s, u, f, Len(f))
    /\ x <= (Len(chains) - Distance(l, a)) + 1
    /\ \A i \in x + 1 .. Len(chains) - Distance(l, a) : ~Gives(name, chains, i)

\* The device finds the next chain in order.
LEMMA NextChain ==
  ASSUME NEW l \in Indices, NEW a \in Indices, NEW avail, NEW K, NEW chains \in Seq(K),
         Holds(avail, l, a, Ids, Len(chains)), NEW n, n = Len(chains) - Distance(l, a)
  PROVE  /\ n \in Nat /\ Len(chains) \in Nat /\ Distance(l, a) \in Nat /\ n <= Len(chains)
         /\ l # a => /\ avail[Slot(l)] = n + 1
                     /\ Len(chains) - Distance(Succ(l), a) = n + 1
                     /\ Holds(avail, Succ(l), a, Ids, Len(chains))
<1> DEFINE m == Len(chains)
<1>1. m \in Nat /\ Distance(l, a) \in Nat /\ Distance(l, a) <= m
  BY DistanceIs DEF Indices, Holds
<1>2. n \in Nat /\ n <= m
  BY <1>1
<1>3. ASSUME l # a
      PROVE  /\ avail[Slot(l)] = n + 1 /\ m - Distance(Succ(l), a) = n + 1
             /\ Holds(avail, Succ(l), a, Ids, m)
  <2> HIDE DEF m
  <2>1. Holds(avail, l, a, Ids, m) /\ n = m - Distance(l, a)
    BY DEF m
  <2>2. Holds(avail, Succ(l), a, Ids, m) /\ avail[Slot(l)] = Ids[(m - Distance(l, a)) + 1]
    BY <1>1, <1>3, <2>1, ValueTaken
  <2>3. Distance(Succ(l), a) = Distance(l, a) - 1
    BY <1>3, StepBehind
  <2>4. (m - Distance(l, a)) + 1 = n + 1 /\ n + 1 \in Nat
    BY <1>1, <1>2, <2>1
  <2>5. Ids[n + 1] = n + 1
    BY <2>4, IdsAre
  <2> QED BY <1>1, <2>1, <2>2, <2>3, <2>4, <2>5
<1> QED BY <1>1, <1>2, <1>3

LEMMA RequestPosted ==
  ASSUME NEW name, NEW s \in Indices, NEW u \in Indices, NEW l \in Indices, NEW a \in Indices,
         NEW avail, 0 .. QueueNum - 1 \subseteq DOMAIN avail, NEW cells, NEW K, NEW chains \in Seq(K),
         NEW x \in Nat, NEW kind \in K,
         Requests(name, s, u, l, a, avail, cells, chains, x), Distance(l, a) < QueueNum
  PROVE  Requests(name, s, u, l, Succ(a), [avail EXCEPT ![Slot(a)] = Len(chains) + 1], cells,
                  Append(chains, kind), x)
<1> DEFINE m == Len(chains)
           n == m - Distance(l, a)
           c == Append(chains, kind)
<1>1. m \in Nat /\ n \in Nat /\ n <= m /\ Distance(l, a) \in Nat
  BY NextChain DEF Requests
<1>2. c \in Seq(K) /\ Len(c) = m + 1 /\ \A i \in 1 .. m : c[i] = chains[i]
  OBVIOUS
<1>3. Distance(l, Succ(a)) = Distance(l, a) + 1
  BY StepAhead
<1> HIDE DEF m, c
<1>4. Len(c) - Distance(l, Succ(a)) = n
  BY <1>1, <1>2, <1>3
<1>5. Holds([avail EXCEPT ![Slot(a)] = m + 1], l, Succ(a), Ids, m + 1)
  <2>1. Holds(avail, l, a, Ids, m)
    BY DEF Requests, m
  <2>2. Ids[m + 1] = m + 1
    BY <1>1, IdsAre
  <2> QED BY <1>1, <2>1, <2>2, ValueAdded
<1>6. n = Len(chains) - Distance(l, a)
  BY DEF n, m
<1> HIDE DEF n
<1>7. \A i \in 1 .. n : Gives(name, c, i) <=> Gives(name, chains, i)
  BY <1>1, <1>2 DEF Gives
<1>8. Back(name, c, n) = Back(name, chains, n)
  BY <1>7 DEF Back
<1>9. \A i \in x + 1 .. n : i \in 1 .. n
  BY <1>1
<1>10. PICK f : Lists(f, Back(name, chains, n)) /\ Holds(cells, s, u, f, Len(f))
  BY <1>6 DEF Requests
<1>11. x <= n + 1 /\ \A i \in x + 1 .. n : ~Gives(name, c, i)
  BY <1>6, <1>7, <1>9 DEF Requests
<1>12. Requests(name, s, u, l, Succ(a), [avail EXCEPT ![Slot(a)] = m + 1], cells, c, x)
  BY <1>2, <1>4, <1>5, <1>8, <1>10, <1>11 DEF Requests
<1> QED BY <1>12 DEF m, c

LEMMA RequestTaken ==
  ASSUME NEW name, NEW s \in Indices, NEW u \in Indices, NEW l, NEW a, NEW avail, NEW cells,
         NEW chains, NEW x, Requests(name, s, u, l, a, avail, cells, chains, x), s # u
  PROVE  Requests(name, Succ(s), u, l, a, avail, cells, chains, x)
<1>1. PICK f : Lists(f, Back(name, chains, Len(chains) - Distance(l, a))) /\ Holds(cells, s, u, f, Len(f))
  BY DEF Requests
<1>2. Len(f) \in Nat
  BY <1>1 DEF Lists
<1>3. Holds(cells, Succ(s), u, f, Len(f))
  BY <1>1, <1>2, ValueTaken
<1> QED BY <1>1, <1>3 DEF Requests

\* A chain is carried out and given back.
LEMMA RequestReturned ==
  ASSUME NEW name, NEW s \in Indices, NEW u \in Indices, NEW l \in Indices, NEW a \in Indices,
         NEW avail, NEW cells, 0 .. QueueNum - 1 \subseteq DOMAIN cells, NEW K, NEW chains \in Seq(K),
         NEW x, Requests(name, s, u, l, a, avail, cells, chains, x), l # a, Distance(s, u) < QueueNum,
         NEW id, id = avail[Slot(l)], Gives(name, chains, id)
  PROVE  Requests(name, s, Succ(u), Succ(l), a, avail, [cells EXCEPT ![Slot(u)] = id], chains, id)
<1> DEFINE m == Len(chains)
           n == m - Distance(l, a)
<1>1. /\ n \in Nat /\ id = n + 1 /\ m - Distance(Succ(l), a) = n + 1
      /\ Holds(avail, Succ(l), a, Ids, m)
  BY NextChain DEF Requests
<1>2. PICK f : Lists(f, Back(name, chains, n)) /\ Holds(cells, s, u, f, Len(f))
  BY DEF Requests
<1> HIDE DEF n, m
<1>3. Back(name, chains, n) \subseteq 1 .. n /\ Back(name, chains, n + 1) = Back(name, chains, n) \cup {n + 1}
  <2>1. 1 .. n + 1 = (1 .. n) \cup {n + 1}
    BY <1>1
  <2> QED BY <1>1, <2>1 DEF Back
<1> DEFINE g == Append(f, n + 1)
<1>4. f \in Seq(Nat) /\ Len(f) \in Nat /\ n + 1 \in Nat
  BY <1>1, <1>2 DEF Lists
<1>5. Len(g) = Len(f) + 1 /\ (\A i \in 1 .. Len(f) : g[i] = f[i]) /\ g[Len(f) + 1] = id
  BY <1>1, <1>4
<1>6. Lists(g, Back(name, chains, n + 1))
  BY <1>1, <1>2, <1>3, ListGrows
<1> HIDE DEF g
<1>7. Holds([cells EXCEPT ![Slot(u)] = id], s, Succ(u), g, Len(f) + 1)
  BY <1>2, <1>4, <1>5, ValueAdded
<1>8. id <= (n + 1) + 1 /\ id + 1 .. n + 1 = {}
  BY <1>1
<1> QED BY <1>1, <1>5, <1>6, <1>7, <1>8 DEF Requests, m

\* A chain that does not fit is passed over.
LEMMA RequestSkipped ==
  ASSUME NEW name, NEW s, NEW u, NEW l \in Indices, NEW a \in Indices,
         NEW avail, NEW cells, NEW K, NEW chains \in Seq(K), NEW x \in Nat,
         Requests(name, s, u, l, a, avail, cells, chains, x), l # a,
         ~Gives(name, chains, avail[Slot(l)])
  PROVE  Requests(name, s, u, Succ(l), a, avail, cells, chains, x)
<1> DEFINE m == Len(chains)
           n == m - Distance(l, a)
<1>1. /\ n \in Nat /\ avail[Slot(l)] = n + 1 /\ m - Distance(Succ(l), a) = n + 1
      /\ Holds(avail, Succ(l), a, Ids, m)
  BY NextChain DEF Requests
<1>2. PICK f : Lists(f, Back(name, chains, n)) /\ Holds(cells, s, u, f, Len(f))
  BY DEF Requests
<1>3. x <= n + 1 /\ \A i \in x + 1 .. n : ~Gives(name, chains, i)
  BY DEF Requests
<1> HIDE DEF n, m
<1>4. Back(name, chains, n + 1) = Back(name, chains, n)
  <2>1. 1 .. n + 1 = (1 .. n) \cup {n + 1}
    BY <1>1
  <2> QED BY <1>1, <2>1 DEF Back
<1>5. x <= (n + 1) + 1 /\ \A i \in x + 1 .. n + 1 : i \in x + 1 .. n \/ i = n + 1
  BY <1>1, <1>3
<1>6. \A i \in x + 1 .. n + 1 : ~Gives(name, chains, i)
  BY <1>1, <1>3, <1>5
<1> QED BY <1>1, <1>2, <1>4, <1>5, <1>6 DEF Requests, m

\* The chain at the front is carried out, and stays there.
LEMMA RequestRepeated ==
  ASSUME NEW name, NEW s, NEW u, NEW l \in Indices, NEW a \in Indices,
         NEW avail, NEW cells, NEW K, NEW chains \in Seq(K), NEW x,
         Requests(name, s, u, l, a, avail, cells, chains, x), l # a
  PROVE  Requests(name, s, u, l, a, avail, cells, chains, avail[Slot(l)])
<1> DEFINE n == Len(chains) - Distance(l, a)
<1>1. n \in Nat /\ avail[Slot(l)] = n + 1
  BY NextChain DEF Requests
<1> HIDE DEF n
<1>2. avail[Slot(l)] <= n + 1 /\ avail[Slot(l)] + 1 .. n = {}
  BY <1>1
<1> QED BY <1>2 DEF Requests, n

-----------------------------------------------------------------------------
(* The events.                                                              *)

LEMMA GroupSet ==
  ASSUME NEW f \in Seq(Nat), NEW g \in Seq(Nat)
  PROVE  ToSet(f \o g) = ToSet(f) \cup ToSet(g)
<1> DEFINE b == f \o g
<1>1. /\ Len(f) \in Nat /\ Len(g) \in Nat /\ DOMAIN f = 1 .. Len(f) /\ DOMAIN g = 1 .. Len(g)
      /\ DOMAIN b = 1 .. Len(f) + Len(g)
      /\ \A k \in 1 .. Len(f) + Len(g) : b[k] = IF k <= Len(f) THEN f[k] ELSE g[k - Len(f)]
  OBVIOUS
<1> HIDE DEF b
<1>2. ASSUME NEW x \in ToSet(b) PROVE x \in ToSet(f) \cup ToSet(g)
  <2>1. PICK k \in 1 .. Len(f) + Len(g) : x = b[k]
    BY <1>1 DEF ToSet
  <2>2. CASE k <= Len(f)
    <3>1. k \in DOMAIN f /\ x = f[k]
      BY <1>1, <2>1, <2>2
    <3> QED BY <3>1 DEF ToSet
  <2>3. CASE k > Len(f)
    <3>1. k - Len(f) \in DOMAIN g /\ x = g[k - Len(f)]
      BY <1>1, <2>1, <2>3
    <3> QED BY <3>1 DEF ToSet
  <2> QED BY <1>1, <2>2, <2>3
<1>3. ASSUME NEW x \in ToSet(f) PROVE x \in ToSet(b)
  <2>1. PICK k \in 1 .. Len(f) : x = f[k]
    BY <1>1 DEF ToSet
  <2>2. k \in DOMAIN b /\ b[k] = x
    BY <1>1, <2>1
  <2> QED BY <2>2 DEF ToSet
<1>4. ASSUME NEW x \in ToSet(g) PROVE x \in ToSet(b)
  <2>1. PICK k \in 1 .. Len(g) : x = g[k]
    BY <1>1 DEF ToSet
  <2>2. k + Len(f) \in DOMAIN b /\ ~(k + Len(f) <= Len(f)) /\ (k + Len(f)) - Len(f) = k
    BY <1>1, <2>1
  <2>3. b[k + Len(f)] = x
    BY <1>1, <2>1, <2>2
  <2> QED BY <2>2, <2>3 DEF ToSet
<1>5. ToSet(b) = ToSet(f) \cup ToSet(g)
  BY <1>2, <1>3, <1>4
<1> QED BY <1>5 DEF b

LEMMA OneMore ==
  ASSUME NEW f \in Seq(Nat), NEW x \in Nat
  PROVE  ToSet(Append(f, x)) = ToSet(f) \cup {x}
<1> DEFINE b == Append(f, x)
<1>1. /\ Len(f) \in Nat /\ DOMAIN f = 1 .. Len(f) /\ DOMAIN b = 1 .. Len(f) + 1
      /\ (\A k \in 1 .. Len(f) : b[k] = f[k]) /\ b[Len(f) + 1] = x
  OBVIOUS
<1> HIDE DEF b
<1>2. 1 .. Len(f) + 1 = (1 .. Len(f)) \cup {Len(f) + 1}
  BY <1>1
<1>3. ToSet(b) = ToSet(f) \cup {x}
  BY <1>1, <1>2 DEF ToSet
<1> QED BY <1>3 DEF b

\* The oldest event is not among the others.
LEMMA OldestOut ==
  ASSUME NEW d, NEW in, NEW n, Streams(d, in, n), in # <<>>
  PROVE  /\ Head(in) \in Nat /\ ToSet(in) = ToSet(Tail(in)) \cup {Head(in)}
         /\ Head(in) \notin ToSet(Tail(in)) /\ Head(in) \notin ToSet(d)
         /\ Head(in) \in 1 .. n \/ Head(in) = 0
<1>1. /\ d \in Seq(Nat) /\ in \in Seq(Nat) /\ n \in Nat /\ Len(in) \in Nat /\ Len(in) > 0
      /\ DOMAIN in = 1 .. Len(in) /\ Head(in) = in[1] /\ DOMAIN d = 1 .. Len(d)
  BY DEF Streams
<1>2. /\ DOMAIN Tail(in) = 1 .. Len(in) - 1
      /\ \A k \in 1 .. Len(in) - 1 : Tail(in)[k] = in[k + 1]
  BY <1>1
<1> DEFINE t == Tail(in)
           h == Head(in)
<1> HIDE DEF t, h
<1>3. h = in[1] /\ DOMAIN t = 1 .. Len(in) - 1 /\ \A k \in 1 .. Len(in) - 1 : t[k] = in[k + 1]
  BY <1>1, <1>2 DEF t, h
<1>4. 1 \in 1 .. Len(in) /\ in[1] \in Nat
  BY <1>1
<1>5. ASSUME NEW x \in ToSet(in) PROVE x \in ToSet(t) \cup {h}
  <2>1. PICK k \in 1 .. Len(in) : x = in[k]
    BY <1>1 DEF ToSet
  <2>2. CASE k = 1
    BY <1>3, <2>1, <2>2
  <2>3. CASE k # 1
    <3>1. k - 1 \in 1 .. Len(in) - 1 /\ (k - 1) + 1 = k
      BY <1>1, <2>1, <2>3
    <3>2. t[k - 1] = x
      BY <1>3, <2>1, <3>1
    <3> QED BY <1>3, <3>1, <3>2 DEF ToSet
  <2> QED BY <2>2, <2>3
<1>6. ASSUME NEW x \in ToSet(t) PROVE x \in ToSet(in) /\ x # h
  <2>1. PICK k \in 1 .. Len(in) - 1 : x = in[k + 1]
    BY <1>3 DEF ToSet
  <2>2. k + 1 \in 1 .. Len(in) /\ 1 < k + 1
    BY <1>1, <2>1
  <2>3. in[1] < in[k + 1] /\ in[k + 1] \in Nat
    BY <1>1, <1>4, <2>2 DEF Streams, Ascending
  <2>4. x # h
    BY <1>3, <1>4, <2>1, <2>3
  <2> QED BY <1>1, <2>1, <2>2, <2>4 DEF ToSet
<1>7. h \in ToSet(in)
  BY <1>1, <1>3, <1>4 DEF ToSet
<1>8. h \notin ToSet(d)
  <2> SUFFICES ASSUME NEW k \in 1 .. Len(d) PROVE d[k] # h
    BY <1>1 DEF ToSet
  <2>1. d[k] < in[1] /\ d[k] \in Nat
    BY <1>1, <1>4 DEF Streams
  <2> QED BY <1>3, <1>4, <2>1
<1>9. ToSet(in) = ToSet(t) \cup {h} /\ h \notin ToSet(t)
  BY <1>5, <1>6, <1>7
<1>10. h \in Nat /\ h <= n
  BY <1>3, <1>4 DEF Streams
<1> QED BY <1>1, <1>8, <1>9, <1>10 DEF t, h

\* What is in the ring does not wait any more.
LEMMA Apart ==
  ASSUME NEW d, NEW in, NEW n, Streams(d, in, n)
  PROVE  ToSet(d) \cap ToSet(in) = {}
<1>1. d \in Seq(Nat) /\ in \in Seq(Nat) /\ DOMAIN d = 1 .. Len(d) /\ DOMAIN in = 1 .. Len(in)
  BY DEF Streams
<1>2. \A i \in 1 .. Len(d), j \in 1 .. Len(in) : d[i] # in[j]
  <2> SUFFICES ASSUME NEW i \in 1 .. Len(d), NEW j \in 1 .. Len(in) PROVE d[i] # in[j]
    OBVIOUS
  <2>1. d[i] < in[j] /\ d[i] \in Nat /\ in[j] \in Nat
    BY <1>1 DEF Streams
  <2> QED BY <2>1
<1> QED BY <1>1, <1>2 DEF ToSet

\* Both sequences together ascend.
LEMMA Joined ==
  ASSUME NEW d, NEW in, NEW n, Streams(d, in, n)
  PROVE  Ascending(d \o in)
<1> DEFINE b == d \o in
           l == Len(d)
           k == Len(in)
<1>1. /\ d \in Seq(Nat) /\ in \in Seq(Nat) /\ l \in Nat /\ k \in Nat
      /\ DOMAIN d = 1 .. l /\ DOMAIN in = 1 .. k
  BY DEF Streams
<1>2. /\ DOMAIN b = 1 .. l + k
      /\ \A i \in 1 .. l + k : b[i] = IF i <= l THEN d[i] ELSE in[i - l]
  BY <1>1
<1>3. \A i \in 1 .. l, j \in 1 .. k : d[i] < in[j]
  BY DEF Streams
<1> HIDE DEF b, l, k
<1>4. ASSUME NEW i \in 1 .. l + k, NEW j \in 1 .. l + k, i < j PROVE b[i] < b[j]
  <2>1. CASE j <= l
    <3>1. i \in DOMAIN d /\ j \in DOMAIN d /\ b[i] = d[i] /\ b[j] = d[j]
      BY <1>1, <1>2, <1>4, <2>1
    <3> QED BY <1>4, <3>1 DEF Streams, Ascending
  <2>2. CASE i <= l /\ ~(j <= l)
    <3>1. i \in 1 .. l /\ j - l \in 1 .. k /\ b[i] = d[i] /\ b[j] = in[j - l]
      BY <1>1, <1>2, <2>2
    <3> QED BY <1>3, <3>1
  <2>3. CASE ~(i <= l) /\ ~(j <= l)
    <3>1. i - l \in DOMAIN in /\ j - l \in DOMAIN in /\ i - l < j - l
      BY <1>1, <1>4, <2>3
    <3>2. b[i] = in[i - l] /\ b[j] = in[j - l]
      BY <1>2, <2>3
    <3> QED BY <3>1, <3>2 DEF Streams, Ascending
  <2> QED BY <1>1, <1>4, <2>1, <2>2, <2>3
<1>5. Ascending(b)
  BY <1>2, <1>4 DEF Ascending
<1> QED BY <1>5 DEF b

-----------------------------------------------------------------------------
(* The inductive invariant.  The properties speak of what the driver finds; *)
(* besides, the four indices are in order around the ring, also with the    *)
(* end of the call in progress, and the avail ring holds the chains that    *)
(* the device is not past.                                                  *)

QueueTypes ==
    /\ ring \in [0 .. QueueSize - 1 -> Nat] /\ used \in [0 .. QueueSize - 1 -> Nat]
    /\ availIdx \in Indices /\ usedIdx \in Indices /\ lastAvail \in Indices
    /\ limit \in Indices /\ seen \in Indices
    /\ irq \in BOOLEAN /\ busy \in BOOLEAN /\ any \in BOOLEAN
    /\ posted \in Seq(Kinds) /\ executed \in Nat

Windows ==
    /\ Window(seen, usedIdx, lastAvail, availIdx)
    /\ busy => Window(seen, lastAvail, limit, availIdx)

\* NoSilentReturn, with what a call in progress is going to announce.
ReturnsAnnounced ==
    /\ ~faulted /\ ~irq /\ ~reaping /\ ~any => seen = usedIdx
    /\ ~busy => ~any

EventInv ==
    /\ Streams(delivered, events, pushed)
    /\ lost \subseteq 1 .. pushed
    /\ ToSet(delivered) \cup ToSet(events) = (1 .. pushed) \ lost
    /\ virtio = "input" => Holds(used, seen, usedIdx, delivered, Len(delivered))

RequestInv ==
    virtio # "input" /\ RingSize = QueueNum =>
        Requests(virtio, seen, usedIdx, lastAvail, availIdx, ring, used, posted, executed)

QueueInv == QueueTypes /\ Windows /\ ReturnsAnnounced /\ EventInv /\ RequestInv

LEMMA Slots == 0 .. QueueNum - 1 \subseteq 0 .. QueueSize - 1 /\ QueueSize \in Nat \ {0}
  BY VirtioQueueAssumption, Bounds

\* The device's own slot is in the ring, and the driver's if the sizes agree.
LEMMA DeviceSlots ==
  ASSUME NEW i \in Indices
  PROVE  /\ DeviceSlot(i) \in 0 .. QueueSize - 1
         /\ virtio = "input" \/ RingSize = QueueNum => DeviceSlot(i) = Slot(i)
<1>1. i \in Nat
  BY DEF Indices
<1>2. RingSize \in Nat \ {0} /\ RingSize <= QueueSize
  BY VirtioQueueAssumption, Bounds DEF RingSize
<1>3. i % RingSize \in 0 .. RingSize - 1
  BY <1>1, <1>2
<1>4. DeviceSlot(i) \in 0 .. QueueSize - 1
  BY <1>2, <1>3, Slots DEF DeviceSlot
<1>5. virtio = "input" => RingSize = QueueNum
  BY DEF RingSize
<1> QED BY <1>4, <1>5 DEF DeviceSlot, Slot

\* Steps that leave the rings and the events alone.
LEMMA RingsStay ==
  ASSUME Windows, EventInv, RequestInv,
         UNCHANGED <<virtio, ring, availIdx, used, usedIdx, lastAvail, events, seen, posted,
                     executed, delivered, lost, pushed>>,
         busy' => busy /\ limit' = limit
  PROVE  Windows' /\ EventInv' /\ RequestInv'
  BY DEF Windows, EventInv, RequestInv, RingSize

LEMMA PushStep ==
  ASSUME QueueInv, NEW n \in Groups, PushEvents(n)
  PROVE  QueueInv'
<1> DEFINE g == [k \in 1 .. n |-> pushed + k]
<1>1. n \in Nat /\ pushed \in Nat /\ events \in Seq(Nat)
  BY VirtioQueueAssumption DEF QueueInv, EventInv, Streams
<1>2. g \in Seq(Nat) /\ Len(g) = n /\ (\A k \in 1 .. n : g[k] = pushed + k) /\ DOMAIN g = 1 .. n
  BY <1>1
<1>3. events' = events \o g /\ pushed' = pushed + n
  BY DEF PushEvents
<1> HIDE DEF g
<1>4. Streams(delivered, events \o g, pushed + n)
  BY <1>2, StreamGrows DEF QueueInv, EventInv
<1>5. ToSet(events \o g) = ToSet(events) \cup ToSet(g)
  BY <1>1, <1>2, GroupSet
<1>6. ToSet(g) = pushed + 1 .. pushed + n
  <2>1. \A x \in ToSet(g) : x \in pushed + 1 .. pushed + n
    BY <1>1, <1>2 DEF ToSet
  <2>2. ASSUME NEW x \in pushed + 1 .. pushed + n PROVE x \in ToSet(g)
    <3>1. x - pushed \in 1 .. n /\ pushed + (x - pushed) = x
      BY <1>1, <2>2
    <3>2. g[x - pushed] = x
      BY <1>2, <3>1
    <3> QED BY <1>2, <3>1, <3>2 DEF ToSet
  <2> QED BY <2>1, <2>2
<1>7. 1 .. pushed + n = (1 .. pushed) \cup (pushed + 1 .. pushed + n)
      /\ (1 .. pushed) \cap (pushed + 1 .. pushed + n) = {}
  BY <1>1
<1>8. lost \subseteq 1 .. pushed + n
      /\ ToSet(delivered) \cup ToSet(events \o g) = (1 .. pushed + n) \ lost
  BY <1>5, <1>6, <1>7 DEF QueueInv, EventInv
<1>9. UNCHANGED <<virtio, ring, availIdx, used, usedIdx, ready, lastAvail, irq, busy, limit, any,
                  seen, reaping, owed, posted, executed, delivered, lost, faulted>>
  BY DEF PushEvents, memory, device, call, driver, history
<1>10. EventInv'
  BY <1>3, <1>4, <1>8, <1>9 DEF QueueInv, EventInv
<1>11. QueueTypes' /\ Windows' /\ ReturnsAnnounced' /\ RequestInv'
  BY <1>9 DEF QueueInv, QueueTypes, Windows, ReturnsAnnounced, RequestInv, RingSize
<1> QED BY <1>10, <1>11 DEF QueueInv

LEMMA PostStep ==
  ASSUME QueueInv, NEW kind \in Kinds, Post(kind)
  PROVE  QueueInv'
<1>1. /\ Distance(seen, availIdx) < QueueNum /\ posted' = Append(posted, kind)
      /\ ring' = [ring EXCEPT ![Slot(availIdx)] = Len(posted) + 1] /\ availIdx' = Succ(availIdx)
      /\ UNCHANGED <<virtio, used, usedIdx, lastAvail, irq, busy, limit, any, events, seen, reaping,
                     executed, delivered, lost, pushed, faulted>>
  BY DEF Post, device, call
<1>2. /\ seen \in Indices /\ availIdx \in Indices /\ usedIdx \in Indices /\ lastAvail \in Indices
      /\ limit \in Indices /\ posted \in Seq(Kinds) /\ executed \in Nat
      /\ ring \in [0 .. QueueSize - 1 -> Nat] /\ DOMAIN ring = 0 .. QueueSize - 1
  BY DEF QueueInv, QueueTypes
<1>3. QueueTypes'
  <2>1. Succ(availIdx) \in Indices
    BY <1>2, SuccIs
  <2>2. Len(posted) + 1 \in Nat /\ Append(posted, kind) \in Seq(Kinds)
    BY <1>2
  <2>3. ring' \in [0 .. QueueSize - 1 -> Nat]
    BY <1>1, <1>2, <2>2
  <2> QED BY <1>1, <2>1, <2>2, <2>3 DEF QueueInv, QueueTypes
<1>4. Windows'
  BY <1>1, <1>2, WindowPosted DEF QueueInv, Windows
<1>5. RequestInv'
  <2> SUFFICES ASSUME virtio # "input", RingSize = QueueNum
               PROVE  Requests(virtio, seen, usedIdx, lastAvail, Succ(availIdx), ring', used,
                               posted', executed)
    BY <1>1 DEF RequestInv, RingSize
  <2>1. Requests(virtio, seen, usedIdx, lastAvail, availIdx, ring, used, posted, executed)
    BY DEF QueueInv, RequestInv
  <2>2. Distance(lastAvail, availIdx) < QueueNum
    <3>1. Distance(seen, lastAvail) <= Distance(seen, availIdx)
      BY DEF QueueInv, Windows, Window
    <3>2. Distance(lastAvail, availIdx) = Distance(seen, availIdx) - Distance(seen, lastAvail)
      BY <1>2, <3>1, Between
    <3>3. Distance(seen, availIdx) \in Nat /\ Distance(seen, lastAvail) \in Nat
      BY <1>2, DistanceIs DEF Indices
    <3> QED BY <1>1, <3>2, <3>3, Bounds
  <2>3. 0 .. QueueNum - 1 \subseteq DOMAIN ring
    BY <1>2, Slots
  <2>4. Requests(virtio, seen, usedIdx, lastAvail, Succ(availIdx),
                 [ring EXCEPT ![Slot(availIdx)] = Len(posted) + 1], used, Append(posted, kind),
                 executed)
    BY <1>2, <2>1, <2>2, <2>3, RequestPosted
  <2> QED BY <1>1, <2>4
<1>6. ReturnsAnnounced' /\ EventInv'
  BY <1>1 DEF QueueInv, ReturnsAnnounced, EventInv
<1> QED BY <1>3, <1>4, <1>5, <1>6 DEF QueueInv

LEMMA ReapStep ==
  ASSUME QueueInv, Reap
  PROVE  QueueInv'
<1>1. /\ reaping /\ seen # usedIdx /\ seen' = Succ(seen)
      /\ UNCHANGED <<virtio, ring, availIdx, used, usedIdx, lastAvail, irq, busy, limit, any, events,
                     reaping, posted, executed, delivered, lost, pushed, faulted>>
  BY DEF Reap, memory, device, call, history
<1>2. /\ seen \in Indices /\ availIdx \in Indices /\ usedIdx \in Indices /\ lastAvail \in Indices
      /\ limit \in Indices /\ Succ(seen) \in Indices
  BY SuccIs DEF QueueInv, QueueTypes
<1>3. QueueTypes' /\ ReturnsAnnounced'
  BY <1>1, <1>2 DEF QueueInv, QueueTypes, ReturnsAnnounced
<1>4. Windows'
  <2>1. Window(Succ(seen), usedIdx, lastAvail, availIdx)
    BY <1>1, <1>2, WindowTaken DEF QueueInv, Windows
  <2>2. busy => Window(Succ(seen), lastAvail, limit, availIdx)
    <3>1. seen # lastAvail
      <4> SUFFICES ASSUME seen = lastAvail PROVE FALSE
        OBVIOUS
      <4>1. Distance(seen, lastAvail) = 0
        BY <1>2, SamePlace
      <4>2. Distance(seen, usedIdx) > 0 /\ Distance(seen, usedIdx) \in Nat
        BY <1>1, <1>2, StepBehind, DistanceIs DEF Indices
      <4> QED BY <4>1, <4>2 DEF QueueInv, Windows, Window
    <3> QED BY <1>2, <3>1, WindowTaken DEF QueueInv, Windows
  <2> QED BY <1>1, <2>1, <2>2 DEF Windows
<1>5. EventInv'
  <2>1. virtio = "input" => Holds(used, Succ(seen), usedIdx, delivered, Len(delivered))
    <3>1. Len(delivered) \in Nat
      BY DEF QueueInv, EventInv, Streams
    <3> QED BY <1>1, <1>2, <3>1, ValueTaken DEF QueueInv, EventInv
  <2> QED BY <1>1, <2>1 DEF QueueInv, EventInv
<1>6. RequestInv'
  <2> SUFFICES ASSUME virtio # "input", RingSize = QueueNum
               PROVE  Requests(virtio, Succ(seen), usedIdx, lastAvail, availIdx, ring, used, posted,
                               executed)
    BY <1>1 DEF RequestInv, RingSize
  <2>1. Requests(virtio, seen, usedIdx, lastAvail, availIdx, ring, used, posted, executed)
    BY DEF QueueInv, RequestInv
  <2> QED BY <1>1, <1>2, <2>1, RequestTaken
<1> QED BY <1>3, <1>4, <1>5, <1>6 DEF QueueInv

\* Empty rings.
LEMMA FreshStart ==
  ASSUME NEW name, NEW u, NEW v
  PROVE  /\ Window(0, 0, 0, 0) /\ Holds(u, 0, 0, <<>>, Len(<<>>)) /\ 0 \in Indices
         /\ Requests(name, 0, 0, 0, 0, v, u, <<>>, 0)
         /\ Empty \in [0 .. QueueSize - 1 -> Nat]
<1>1. 0 \in Indices /\ Distance(0, 0) = 0 /\ Len(<<>>) = 0 /\ 1 .. 0 = {}
  BY Bounds, SamePlace DEF Indices
<1>2. Window(0, 0, 0, 0)
  BY <1>1, Bounds DEF Window
<1>3. \A f : Holds(u, 0, 0, f, 0) /\ Holds(v, 0, 0, f, 0)
  BY <1>1 DEF Holds
<1>4. Lists(<<>>, Back(name, <<>>, 0))
  BY <1>1 DEF Lists, Back, Ascending
<1>5. Len(<<>>) - Distance(0, 0) = 0 /\ 0 + 1 .. 0 = {} /\ 0 <= 0 + 1
  BY <1>1
<1> QED BY <1>1, <1>2, <1>3, <1>4, <1>5 DEF Requests, Empty

LEMMA QueueStart == QueueInit => QueueInv
<1> SUFFICES ASSUME QueueInit PROVE QueueInv
  OBVIOUS
<1>1. /\ Window(0, 0, 0, 0) /\ Holds(used, 0, 0, <<>>, Len(<<>>)) /\ 0 \in Indices
      /\ Requests(virtio, 0, 0, 0, 0, ring, used, <<>>, 0)
      /\ Empty \in [0 .. QueueSize - 1 -> Nat]
  BY FreshStart
<1>2. Streams(<<>>, <<>>, 0) /\ ToSet(<<>>) = {} /\ 1 .. 0 = {}
  BY DEF Streams, Ascending, ToSet
<1>3. QueueTypes
  <2>1. <<>> \in Seq(Kinds) /\ 0 \in Nat
    OBVIOUS
  <2> QED BY <1>1, <2>1 DEF QueueInit, QueueTypes
<1>4. Windows /\ ReturnsAnnounced /\ RequestInv
  BY <1>1 DEF QueueInit, Windows, ReturnsAnnounced, RequestInv
<1>5. EventInv
  BY <1>1, <1>2 DEF QueueInit, EventInv
<1> QED BY <1>3, <1>4, <1>5 DEF QueueInv

LEMMA ResetStep ==
  ASSUME QueueInv, Reset
  PROVE  QueueInv'
<1>1. /\ ring' = Empty /\ used' = Empty /\ availIdx' = 0 /\ usedIdx' = 0 /\ seen' = 0
      /\ lastAvail' = 0 /\ irq' = FALSE /\ posted' = <<>> /\ executed' = 0 /\ delivered' = <<>>
      /\ lost' = lost \cup ToSet(delivered)
      /\ ~busy /\ UNCHANGED <<virtio, busy, limit, any, events, pushed>>
  BY DEF Reset, FreshRings, call
<1>2. /\ Window(0, 0, 0, 0) /\ Holds(used', 0, 0, <<>>, Len(<<>>)) /\ 0 \in Indices
      /\ Requests(virtio, 0, 0, 0, 0, ring', used', <<>>, 0)
      /\ Empty \in [0 .. QueueSize - 1 -> Nat]
  BY FreshStart
<1>3. QueueTypes'
  <2>1. <<>> \in Seq(Kinds) /\ 0 \in Nat
    OBVIOUS
  <2> QED BY <1>1, <1>2, <2>1 DEF QueueInv, QueueTypes
<1>4. Windows' /\ ReturnsAnnounced' /\ RequestInv'
  BY <1>1, <1>2 DEF QueueInv, Windows, ReturnsAnnounced, RequestInv, RingSize
<1>5. EventInv'
  <2>1. Streams(<<>>, events, pushed)
    BY EmptyStream DEF QueueInv, EventInv
  <2>2. ToSet(<<>>) = {}
    BY DEF ToSet
  <2>3. ToSet(delivered) \cap ToSet(events) = {}
    BY Apart DEF QueueInv, EventInv
  <2>4. lost' \subseteq 1 .. pushed /\ ToSet(<<>>) \cup ToSet(events) = (1 .. pushed) \ lost'
    BY <1>1, <2>2, <2>3 DEF QueueInv, EventInv
  <2> QED BY <1>1, <1>2, <2>1, <2>4 DEF EventInv
<1> QED BY <1>3, <1>4, <1>5 DEF QueueInv

\* A call takes everything posted so far for its work.
LEMMA EnterStep ==
  ASSUME QueueInv, ~busy, Enter
  PROVE  QueueInv'
<1>1. /\ busy' = TRUE /\ limit' = availIdx
      /\ UNCHANGED <<virtio, ring, availIdx, used, usedIdx, lastAvail, irq, any, events, seen, reaping,
                     posted, executed, delivered, lost, pushed, faulted>>
  BY DEF Enter, memory, device, history
<1>2. Window(seen, lastAvail, availIdx, availIdx)
  <2>1. Distance(seen, availIdx) \in Nat
    BY DistanceIs DEF QueueInv, QueueTypes, Indices
  <2> QED BY <2>1 DEF QueueInv, Windows, Window
<1>3. QueueTypes' /\ Windows' /\ ReturnsAnnounced' /\ EventInv' /\ RequestInv'
  BY <1>1, <1>2 DEF QueueInv, QueueTypes, Windows, ReturnsAnnounced, EventInv, RequestInv, RingSize
<1> QED BY <1>3 DEF QueueInv

\* What is known of a chain that the device looks at.
LEMMA ChainReady ==
  ASSUME QueueInv, AtChain
  PROVE  /\ lastAvail # availIdx /\ Distance(seen, usedIdx) < QueueNum
         /\ Window(seen, usedIdx, Succ(lastAvail), availIdx)
         /\ Window(seen, Succ(usedIdx), Succ(lastAvail), availIdx)
         /\ Window(seen, Succ(lastAvail), limit, availIdx)
         /\ Succ(lastAvail) \in Indices /\ Succ(usedIdx) \in Indices
         /\ Chain \in Nat /\ busy
         /\ virtio = "input" \/ RingSize = QueueNum =>
               Chain = ring[Slot(lastAvail)] /\ DeviceSlot(usedIdx) = Slot(usedIdx)
<1>1. busy /\ lastAvail # limit
  BY DEF AtChain
<1>2. /\ seen \in Indices /\ availIdx \in Indices /\ usedIdx \in Indices /\ lastAvail \in Indices
      /\ limit \in Indices
  BY DEF QueueInv, QueueTypes
<1>3. lastAvail # availIdx /\ Window(seen, Succ(lastAvail), limit, availIdx)
  BY <1>1, <1>2, WindowInside DEF QueueInv, Windows
<1>4. /\ Window(seen, usedIdx, Succ(lastAvail), availIdx)
      /\ Window(seen, Succ(usedIdx), Succ(lastAvail), availIdx) /\ Distance(seen, usedIdx) < QueueNum
  BY <1>2, <1>3, WindowServed DEF QueueInv, Windows
<1>5. Succ(lastAvail) \in Indices /\ Succ(usedIdx) \in Indices
  BY <1>2, SuccIs
<1>6. Chain \in Nat
  BY <1>2, DeviceSlots DEF QueueInv, QueueTypes, Chain
<1>7. virtio = "input" \/ RingSize = QueueNum =>
         Chain = ring[Slot(lastAvail)] /\ DeviceSlot(usedIdx) = Slot(usedIdx)
  BY <1>2, DeviceSlots DEF Chain
<1> QED BY <1>1, <1>3, <1>4, <1>5, <1>6, <1>7

LEMMA UsedTypes ==
  ASSUME QueueInv, NEW x \in Nat
  PROVE  /\ [used EXCEPT ![DeviceSlot(usedIdx)] = x] \in [0 .. QueueSize - 1 -> Nat]
         /\ 0 .. QueueNum - 1 \subseteq DOMAIN used
<1>1. used \in [0 .. QueueSize - 1 -> Nat] /\ DOMAIN used = 0 .. QueueSize - 1
  BY DEF QueueInv, QueueTypes
<1> QED BY <1>1, Slots

\* block, rng and 9P.
LEMMA ReturnStep ==
  ASSUME QueueInv, AtChain, virtio # "input", Gives(virtio, posted, Chain), ReturnChain
  PROVE  QueueInv'
<1>1. /\ executed' = Chain /\ used' = [used EXCEPT ![DeviceSlot(usedIdx)] = Chain]
      /\ usedIdx' = Succ(usedIdx) /\ lastAvail' = Succ(lastAvail) /\ any' = TRUE
      /\ UNCHANGED <<virtio, ring, availIdx, irq, busy, limit, events, seen, reaping, posted,
                     delivered, lost, pushed, faulted>>
  BY DEF ReturnChain, PutUsed, driver
<1>2. /\ lastAvail # availIdx /\ Distance(seen, usedIdx) < QueueNum /\ busy /\ Chain \in Nat
      /\ Window(seen, Succ(usedIdx), Succ(lastAvail), availIdx)
      /\ Window(seen, Succ(lastAvail), limit, availIdx)
      /\ Succ(lastAvail) \in Indices /\ Succ(usedIdx) \in Indices
      /\ RingSize = QueueNum => Chain = ring[Slot(lastAvail)] /\ DeviceSlot(usedIdx) = Slot(usedIdx)
  BY ChainReady
<1>3. /\ [used EXCEPT ![DeviceSlot(usedIdx)] = Chain] \in [0 .. QueueSize - 1 -> Nat]
      /\ 0 .. QueueNum - 1 \subseteq DOMAIN used
  BY <1>2, UsedTypes
<1>4. QueueTypes'
  BY <1>1, <1>2, <1>3 DEF QueueInv, QueueTypes
<1>5. Windows' /\ ReturnsAnnounced' /\ EventInv'
  BY <1>1, <1>2 DEF QueueInv, Windows, ReturnsAnnounced, EventInv
<1>6. RequestInv'
  <2> SUFFICES ASSUME RingSize = QueueNum
               PROVE  Requests(virtio, seen, Succ(usedIdx), Succ(lastAvail), availIdx, ring,
                               [used EXCEPT ![Slot(usedIdx)] = Chain], posted, Chain)
    BY <1>1, <1>2 DEF RequestInv, RingSize
  <2>1. Requests(virtio, seen, usedIdx, lastAvail, availIdx, ring, used, posted, executed)
    BY DEF QueueInv, RequestInv
  <2>2. /\ seen \in Indices /\ availIdx \in Indices /\ usedIdx \in Indices /\ lastAvail \in Indices
        /\ posted \in Seq(Kinds)
    BY DEF QueueInv, QueueTypes
  <2>3. Chain = ring[Slot(lastAvail)]
    BY <1>2
  <2> QED BY <1>2, <1>3, <2>1, <2>2, <2>3, RequestReturned
<1> QED BY <1>4, <1>5, <1>6 DEF QueueInv

LEMMA DeliverStep ==
  ASSUME QueueInv, Deliver
  PROVE  QueueInv'
<1> DEFINE x == Head(events)
<1>1. /\ AtChain /\ virtio = "input" /\ events # <<>>
      /\ events' = Tail(events) /\ delivered' = Append(delivered, x)
      /\ used' = [used EXCEPT ![DeviceSlot(usedIdx)] = x]
      /\ usedIdx' = Succ(usedIdx) /\ lastAvail' = Succ(lastAvail) /\ any' = TRUE
      /\ UNCHANGED <<virtio, ring, availIdx, irq, busy, limit, seen, reaping, posted, executed, lost,
                     pushed, faulted>>
  BY DEF Deliver, PutUsed, driver, AtChain, HasWork
<1>2. /\ Distance(seen, usedIdx) < QueueNum /\ busy /\ DeviceSlot(usedIdx) = Slot(usedIdx)
      /\ Window(seen, Succ(usedIdx), Succ(lastAvail), availIdx)
      /\ Window(seen, Succ(lastAvail), limit, availIdx)
      /\ Succ(lastAvail) \in Indices /\ Succ(usedIdx) \in Indices
  BY <1>1, ChainReady
<1>3. /\ x \in Nat /\ ToSet(events) = ToSet(Tail(events)) \cup {x} /\ x \notin ToSet(Tail(events))
  BY <1>1, OldestOut DEF QueueInv, EventInv
<1>4. /\ [used EXCEPT ![DeviceSlot(usedIdx)] = x] \in [0 .. QueueSize - 1 -> Nat]
      /\ 0 .. QueueNum - 1 \subseteq DOMAIN used
  BY <1>3, UsedTypes
<1>5. Streams(Append(delivered, x), Tail(events), pushed)
  BY <1>1, StreamDelivered DEF QueueInv, EventInv
<1> HIDE DEF x
<1>6. delivered \in Seq(Nat) /\ Len(delivered) \in Nat
  BY DEF QueueInv, EventInv, Streams
<1>7. ToSet(Append(delivered, x)) \cup ToSet(Tail(events)) = (1 .. pushed) \ lost
  <2>1. ToSet(Append(delivered, x)) = ToSet(delivered) \cup {x}
    BY <1>3, <1>6, OneMore
  <2> QED BY <1>3, <2>1 DEF QueueInv, EventInv
<1>8. Holds([used EXCEPT ![Slot(usedIdx)] = x], seen, Succ(usedIdx), Append(delivered, x),
            Len(Append(delivered, x)))
  <2> DEFINE b == Append(delivered, x)
  <2>1. /\ Len(b) = Len(delivered) + 1 /\ b[Len(delivered) + 1] = x
        /\ \A i \in 1 .. Len(delivered) : b[i] = delivered[i]
    BY <1>3, <1>6
  <2> HIDE DEF b
  <2>2. Holds(used, seen, usedIdx, delivered, Len(delivered)) /\ seen \in Indices /\ usedIdx \in Indices
    BY <1>1 DEF QueueInv, EventInv, QueueTypes
  <2>3. Holds([used EXCEPT ![Slot(usedIdx)] = x], seen, Succ(usedIdx), b, Len(delivered) + 1)
    BY <1>2, <1>4, <1>6, <2>1, <2>2, ValueAdded
  <2> QED BY <2>1, <2>3 DEF b
<1>9. EventInv'
  BY <1>1, <1>2, <1>5, <1>7, <1>8 DEF QueueInv, EventInv
<1>10. QueueTypes'
  BY <1>1, <1>2, <1>4 DEF QueueInv, QueueTypes
<1>11. Windows' /\ ReturnsAnnounced' /\ RequestInv'
  BY <1>1, <1>2 DEF QueueInv, Windows, ReturnsAnnounced, RequestInv
<1> QED BY <1>9, <1>10, <1>11 DEF QueueInv

LEMMA SkipStep ==
  ASSUME QueueInv, SkipHeader \/ SkipBuffer
  PROVE  QueueInv'
<1>1. /\ AtChain /\ posted[Chain] = "unfit" /\ virtio \in {"block", "input"}
      /\ lastAvail' = Succ(lastAvail) /\ (any' = TRUE \/ any' = any)
      /\ UNCHANGED <<virtio, ring, availIdx, used, usedIdx, irq, busy, limit, events, seen, reaping,
                     posted, executed, delivered, lost, pushed, faulted>>
  BY DEF SkipHeader, SkipBuffer, PassOver, memory, driver, history
<1>2. /\ lastAvail # availIdx /\ busy
      /\ Window(seen, usedIdx, Succ(lastAvail), availIdx)
      /\ Window(seen, Succ(lastAvail), limit, availIdx) /\ Succ(lastAvail) \in Indices
      /\ RingSize = QueueNum => Chain = ring[Slot(lastAvail)]
  BY <1>1, ChainReady
<1>3. QueueTypes' /\ Windows' /\ EventInv'
  BY <1>1, <1>2 DEF QueueInv, QueueTypes, Windows, EventInv
<1>4. ReturnsAnnounced'
  BY <1>1, <1>2 DEF QueueInv, ReturnsAnnounced
<1>5. RequestInv'
  <2> SUFFICES ASSUME virtio # "input", RingSize = QueueNum
               PROVE  Requests(virtio, seen, usedIdx, Succ(lastAvail), availIdx, ring, used, posted,
                               executed)
    BY <1>1 DEF RequestInv, RingSize
  <2>1. Requests(virtio, seen, usedIdx, lastAvail, availIdx, ring, used, posted, executed)
    BY DEF QueueInv, RequestInv
  <2>2. lastAvail \in Indices /\ availIdx \in Indices /\ posted \in Seq(Kinds) /\ executed \in Nat
    BY DEF QueueInv, QueueTypes
  <2>3. ~Gives(virtio, posted, ring[Slot(lastAvail)])
    BY <1>1, <1>2 DEF Gives
  <2> QED BY <1>2, <2>1, <2>2, <2>3, RequestSkipped
<1> QED BY <1>3, <1>4, <1>5 DEF QueueInv

\* A MemoryError before or after the request has been carried out.
LEMMA FaultStep ==
  ASSUME QueueInv, Fault \/ LateFault
  PROVE  QueueInv'
<1>1. /\ AtChain /\ busy' = FALSE /\ limit' = 0 /\ any' = FALSE /\ faulted' = TRUE
      /\ UNCHANGED <<virtio, ring, availIdx, used, usedIdx, lastAvail, irq, seen, reaping, posted,
                     delivered, pushed>>
  BY DEF Fault, LateFault, Abort, memory, device, driver
<1>2. 0 \in Indices
  BY Bounds DEF Indices
<1>3. Windows' /\ ReturnsAnnounced'
  BY <1>1 DEF QueueInv, Windows, ReturnsAnnounced
<1>4. CASE UNCHANGED <<events, executed, lost>>
  BY <1>1, <1>2, <1>3, <1>4 DEF QueueInv, QueueTypes, EventInv, RequestInv, RingSize
<1>5. CASE virtio = "input" /\ events' = Tail(events) /\ lost' = lost \cup {Head(events)}
           /\ executed' = executed
  <2>1. events # <<>>
    BY <1>1, <1>5 DEF AtChain, HasWork
  <2>2. Streams(delivered, Tail(events), pushed)
    BY <2>1, StreamDropped DEF QueueInv, EventInv
  <2>3. /\ ToSet(events) = ToSet(Tail(events)) \cup {Head(events)}
        /\ Head(events) \notin ToSet(Tail(events)) /\ Head(events) \notin ToSet(delivered)
    BY <2>1, OldestOut DEF QueueInv, EventInv
  <2>4. lost' \subseteq 1 .. pushed
        /\ ToSet(delivered) \cup ToSet(Tail(events)) = (1 .. pushed) \ lost'
    BY <1>5, <2>3 DEF QueueInv, EventInv
  <2>5. EventInv'
    BY <1>1, <1>5, <2>2, <2>4 DEF QueueInv, EventInv
  <2>6. QueueTypes' /\ RequestInv'
    BY <1>1, <1>2, <1>5 DEF QueueInv, QueueTypes, RequestInv
  <2> QED BY <1>3, <2>5, <2>6 DEF QueueInv
<1>6. CASE virtio # "input" /\ executed' = Chain /\ UNCHANGED <<events, lost>>
  <2>1. /\ lastAvail # availIdx /\ Chain \in Nat
        /\ RingSize = QueueNum => Chain = ring[Slot(lastAvail)]
    BY <1>1, ChainReady
  <2>2. QueueTypes' /\ EventInv'
    BY <1>1, <1>2, <1>6, <2>1 DEF QueueInv, QueueTypes, EventInv
  <2>3. RequestInv'
    <3> SUFFICES ASSUME RingSize = QueueNum
                 PROVE  Requests(virtio, seen, usedIdx, lastAvail, availIdx, ring, used, posted,
                                 ring[Slot(lastAvail)])
      BY <1>1, <1>6, <2>1 DEF RequestInv, RingSize
    <3>1. Requests(virtio, seen, usedIdx, lastAvail, availIdx, ring, used, posted, executed)
      BY <1>6 DEF QueueInv, RequestInv
    <3>2. lastAvail \in Indices /\ availIdx \in Indices /\ posted \in Seq(Kinds)
      BY DEF QueueInv, QueueTypes
    <3> QED BY <2>1, <3>1, <3>2, RequestRepeated
  <2> QED BY <1>3, <2>2, <2>3 DEF QueueInv
<1>7. CASE Fault
  BY <1>4, <1>7 DEF Fault
<1>8. CASE LateFault
  BY <1>5, <1>6, <1>8 DEF LateFault
<1> QED BY <1>7, <1>8

LEMMA QueueKept == QueueInv /\ [QueueNext]_queueVars => QueueInv'
<1> SUFFICES ASSUME QueueInv, [QueueNext]_queueVars PROVE QueueInv'
  OBVIOUS
<1>1. ASSUME NEW n \in Groups, PushEvents(n) PROVE QueueInv'
  BY <1>1, PushStep
<1>2. ASSUME NEW kind \in Kinds, Post(kind) PROVE QueueInv'
  BY <1>2, PostStep
<1>3. CASE Configure \/ Ack \/ ReapDone \/ End
  <2>1. /\ UNCHANGED <<virtio, ring, availIdx, used, usedIdx, lastAvail, events, seen, posted,
                       executed, delivered, lost, pushed, faulted>>
        /\ busy' => busy /\ limit' = limit
    BY <1>3 DEF Configure, Ack, ReapDone, End, memory, device, call, driver, history
  <2>2. Windows' /\ EventInv' /\ RequestInv'
    BY <2>1, RingsStay DEF QueueInv
  <2>3. QueueTypes'
    <3>1. 0 \in Indices
      BY Bounds DEF Indices
    <3>2. CASE Configure \/ Ack \/ ReapDone
      BY <2>1, <3>2 DEF Configure, Ack, ReapDone, device, call, QueueInv, QueueTypes
    <3>3. CASE End
      BY <2>1, <3>1, <3>3 DEF End, QueueInv, QueueTypes
    <3> QED BY <1>3, <3>2, <3>3
  <2>4. ReturnsAnnounced'
    <3>1. CASE Configure
      BY <3>1 DEF Configure, memory, device, call, driver, QueueInv, ReturnsAnnounced
    <3>2. CASE Ack
      BY <3>2 DEF Ack, memory, call, QueueInv, ReturnsAnnounced
    <3>3. CASE ReapDone
      BY <3>3 DEF ReapDone, memory, device, call, QueueInv, ReturnsAnnounced
    <3>4. CASE End
      BY <3>4 DEF End, memory, driver, QueueInv, ReturnsAnnounced
    <3> QED BY <1>3, <3>1, <3>2, <3>3, <3>4
  <2> QED BY <2>2, <2>3, <2>4 DEF QueueInv
<1>4. CASE Reap
  BY <1>4, ReapStep
<1>5. CASE Reset
  BY <1>5, ResetStep
<1>6. CASE UNCHANGED queueVars
  BY <1>6 DEF queueVars, memory, device, call, driver, history, QueueInv, QueueTypes, Windows,
              ReturnsAnnounced, EventInv, RequestInv, RingSize
<1>7. CASE Notify
  <2>1. CASE HasWork /\ Enter
    BY <1>7, <2>1, EnterStep DEF Notify
  <2>2. CASE ~HasWork /\ UNCHANGED <<virtio, memory, device, call, events, seen, reaping, history,
                                     pushed, resets, faulted>>
    BY <2>2 DEF memory, device, call, history, QueueInv, QueueTypes, Windows, ReturnsAnnounced,
                EventInv, RequestInv, RingSize
  <2> QED BY <1>7, <2>1, <2>2 DEF Notify
<1>8. CASE QueuePoll
  BY <1>8, EnterStep DEF QueuePoll
<1>9. CASE BlockRequest \/ RngRequest \/ P9Request
  <2>1. AtChain /\ virtio # "input" /\ ReturnChain
    BY <1>9 DEF BlockRequest, RngRequest, P9Request
  <2>2. Gives(virtio, posted, Chain)
    BY <1>9 DEF BlockRequest, RngRequest, P9Request, Gives
  <2> QED BY <2>1, <2>2, ReturnStep
<1>10. CASE Deliver
  BY <1>10, DeliverStep
<1>11. CASE SkipHeader \/ SkipBuffer
  BY <1>11, SkipStep
<1>12. CASE Fault \/ LateFault
  BY <1>12, FaultStep
<1> QED BY <1>1, <1>2, <1>3, <1>4, <1>5, <1>6, <1>7, <1>8, <1>9, <1>10, <1>11, <1>12
        DEF QueueNext, InCall

LEMMA QueueInvariant == QueueSpec => []QueueInv
  BY QueueStart, QueueKept, PTL DEF QueueSpec

-----------------------------------------------------------------------------
(* The theorems.                                                            *)

\* Between calls, a chain that was returned is announced, for rings of every
\* size and every traffic (process_queue, deliver_events, INTERRUPT_ACK).
THEOREM ReturnsNotSilent == QueueSpec => []NoSilentReturn
<1>1. QueueInv => NoSilentReturn
  BY DEF QueueInv, ReturnsAnnounced, NoSilentReturn
<1> QED BY <1>1, QueueInvariant, PTL

\* Events reach the guest once and in order, for rings of every size and event
\* groups of every length, across resets, wraps and faults (deliver_events).
THEOREM EventsStayExact == QueueSpec => []EventsExact
<1>1. QueueInv => EventsExact
  <2> SUFFICES ASSUME QueueInv, virtio = "input" PROVE EventsExact
    BY DEF EventsExact
  <2>1. /\ Holds(used, seen, usedIdx, delivered, Len(delivered)) /\ Streams(delivered, events, pushed)
        /\ delivered \in Seq(Nat) /\ events \in Seq(Nat) /\ seen \in Indices /\ usedIdx \in Indices
    BY DEF QueueInv, EventInv, QueueTypes, Streams
  <2> DEFINE n == Distance(seen, usedIdx)
  <2>2. n <= Len(delivered) /\ Shown(used, seen, usedIdx) = EndOf(delivered, n)
    BY <2>1, HeldEnd
  <2>3. ToSet(delivered \o events) = (1 .. pushed) \ lost
    BY <2>1, GroupSet DEF QueueInv, EventInv
  <2>4. Ascending(delivered \o events)
    BY <2>1, Joined
  <2> QED BY <2>2, <2>3, <2>4 DEF EventsExact, Unreaped, Shown, EndOf
<1> QED BY <1>1, QueueInvariant, PTL

\* Requests are carried out and returned once and in order, for rings of every
\* size, whatever faults there are (process_queue of block, rng and 9P).
THEOREM RequestsStayExact == QueueSpec => []RequestsExact
<1>1. QueueInv => RequestsExact
  <2> SUFFICES ASSUME QueueInv, virtio # "input", RingSize = QueueNum PROVE RequestsExact
    BY DEF RequestsExact
  <2>1. Requests(virtio, seen, usedIdx, lastAvail, availIdx, ring, used, posted, executed)
    BY DEF QueueInv, RequestInv
  <2>2. /\ seen \in Indices /\ usedIdx \in Indices /\ lastAvail \in Indices /\ availIdx \in Indices
        /\ posted \in Seq(Kinds)
    BY DEF QueueInv, QueueTypes
  <2>3. Done \in Nat
    BY <2>1, <2>2, NextChain DEF Done, Requests
  <2>4. PICK f : Lists(f, Back(virtio, posted, Done)) /\ Holds(used, seen, usedIdx, f, Len(f))
    BY <2>1 DEF Requests, Done
  <2>5. executed <= Done + 1 /\ \A i \in executed + 1 .. Done : ~Gives(virtio, posted, i)
    BY <2>1 DEF Requests, Done
  <2> DEFINE n == Distance(seen, usedIdx)
             m == Len(f)
             g == Unreaped
  <2>6. f \in Seq(Nat) /\ m \in Nat /\ n \in Nat /\ n <= m /\ seen \in Nat /\ DOMAIN f = 1 .. m
    BY <2>2, <2>4, DistanceIs DEF Lists, Holds, Indices
  <2>7. \A i \in 1 .. n : used[Slot(seen + (i - 1))] = f[(m - n) + i]
    BY <2>4 DEF Holds
  <2>8. g = [i \in 1 .. n |-> used[Slot(seen + i - 1)]]
    BY DEF Unreaped
  <2> HIDE DEF n, m, g, Done
  <2>9. \A i \in 1 .. n : seen + (i - 1) = seen + i - 1 /\ (m - n) + i \in 1 .. m
    BY <2>6
  <2>10. \A i \in 1 .. n : f[(m - n) + i] \in Nat
    BY <2>6, <2>9
  <2>11. \A i \in 1 .. n : g[i] = f[(m - n) + i]
    BY <2>7, <2>8, <2>9
  <2>12. g \in Seq(Nat) /\ Len(g) = n
    <3>1. g = [i \in 1 .. n |-> f[(m - n) + i]]
      BY <2>8, <2>11
    <3>2. [i \in 1 .. n |-> f[(m - n) + i]] \in [1 .. n -> Nat]
      BY <2>10
    <3> QED BY <2>6, <3>1, <3>2
  <2>13. EndsWith(f, g) /\ Back(virtio, posted, Done) \subseteq 1 .. Done
    <3>1. Len(g) <= Len(f) /\ \A k \in 1 .. Len(g) : g[k] = f[(Len(f) - Len(g)) + k]
      BY <2>6, <2>11, <2>12 DEF m
    <3> QED BY <2>12, <3>1 DEF Back, EndsWith
  <2>14. /\ Ascending(g)
         /\ \E first \in 1 .. Done + 1 : Values(g) = From(Back(virtio, posted, Done), first)
    BY <2>3, <2>4, <2>13, ListEnd
  <2>15. PICK first \in 1 .. Done + 1 : Values(g) = From(Back(virtio, posted, Done), first)
    BY <2>14
  <2>16. From(Back(virtio, posted, Done), first) = {i \in first .. Done : Returned(i)}
    BY <2>3 DEF From, Back, Gives, Returned
  <2>17. ToSet(g) = {i \in first .. Done : Returned(i)}
    BY <2>15, <2>16 DEF ToSet, Values
  <2>18. \A i \in executed + 1 .. Done : ~Returned(i)
    BY <2>5 DEF Gives, Returned
  <2> QED BY <2>5, <2>14, <2>17, <2>18 DEF RequestsExact, g
<1> QED BY <1>1, QueueInvariant, PTL

-----------------------------------------------------------------------------
(* The loop of a claim.                                                     *)

\* A set of naturals that holds 0, and n + 1 with n, holds all.
LEMMA AllNaturals ==
  ASSUME NEW S, 0 \in S, \A n \in Nat : n \in S => n + 1 \in S
  PROVE  Nat \subseteq S
<1> DEFINE T == Nat \ S
<1>1. SUFFICES ASSUME T # {} PROVE FALSE
  OBVIOUS
<1>2. T \subseteq Nat
  OBVIOUS
<1>3. PICK x \in T : \A y \in T : ~(<<y, x>> \in OpToRel(<, Nat))
  <2> HIDE DEF T
  <2> QED BY <1>1, <1>2, NatLessThanWellFounded, WFMin, Zenon
<1>4. x # 0 /\ x \in Nat
  OBVIOUS
<1>5. x - 1 \in Nat /\ (x - 1) + 1 = x /\ x - 1 < x
  BY <1>4
<1>6. x - 1 \notin S
  BY <1>4, <1>5
<1>7. <<x - 1, x>> \in OpToRel(<, Nat)
  BY <1>4, <1>5 DEF OpToRel
<1> QED BY <1>3, <1>5, <1>6, <1>7

\* The first n turns of the loop.
Turn(s, c, b) ==
    IF Eligible(s, c) /\ priority[s] > b.prio THEN [id |-> s, prio |-> priority[s]] ELSE b
IsLoop(g, n, c) ==
    g = [s \in 0 .. n |-> IF s = 0 THEN [id |-> 0, prio |-> 0] ELSE Turn(s, c, g[s - 1])]

LEMMA LoopEnds ==
  ASSUME NEW n \in Nat, NEW c
  PROVE  \E g : IsLoop(g, n, c)
<1> DEFINE S == {m \in Nat : \E g : IsLoop(g, m, c)}
<1>1. 0 \in S
  <2> DEFINE g == [s \in 0 .. 0 |-> [id |-> 0, prio |-> 0]]
  <2>1. IsLoop(g, 0, c)
    BY DEF IsLoop
  <2> QED BY <2>1
<1>2. ASSUME NEW m \in Nat, m \in S PROVE m + 1 \in S
  <2>1. PICK g : IsLoop(g, m, c)
    BY <1>2
  <2> DEFINE f == [s \in 0 .. m + 1 |-> IF s = m + 1 THEN Turn(m + 1, c, g[m]) ELSE g[s]]
  <2>2. ASSUME NEW s \in 0 .. m + 1
        PROVE  f[s] = IF s = 0 THEN [id |-> 0, prio |-> 0] ELSE Turn(s, c, f[s - 1])
    <3>1. CASE s = m + 1
      <4>1. s # 0 /\ s - 1 = m /\ m \in 0 .. m + 1 /\ m # m + 1
        BY <3>1
      <4>2. f[s] = Turn(m + 1, c, g[m]) /\ f[m] = g[m]
        BY <3>1, <4>1
      <4> QED BY <3>1, <4>1, <4>2
    <3>2. CASE s # m + 1
      <4>1. s \in 0 .. m
        BY <3>2
      <4>2. f[s] = g[s]
        BY <3>2
      <4>3. g[s] = IF s = 0 THEN [id |-> 0, prio |-> 0] ELSE Turn(s, c, g[s - 1])
        BY <4>1, <2>1 DEF IsLoop
      <4>4. s # 0 => f[s - 1] = g[s - 1]
        BY <4>1
      <4> HIDE DEF f
      <4> QED BY <4>2, <4>3, <4>4
    <3> QED BY <3>1, <3>2
  <2>3. IsLoop(f, m + 1, c)
    <3>1. f = [s \in 0 .. m + 1 |-> f[s]]
      OBVIOUS
    <3> HIDE DEF f
    <3> QED BY <3>1, <2>2 DEF IsLoop
  <2>4. m + 1 \in Nat
    OBVIOUS
  <2> HIDE DEF f
  <2> QED BY <2>3, <2>4
<1> HIDE DEF S
<1>3. n \in S
  BY <1>1, <1>2, AllNaturals
<1> QED BY <1>3 DEF S

LEMMA ClaimedIs ==
  ASSUME NEW c
  PROVE  \E g : IsLoop(g, LastSource, c) /\ Claimed(c) = g[LastSource].id
<1> DEFINE best[s \in 0 .. LastSource] ==
            IF s = 0 THEN [id |-> 0, prio |-> 0]
            ELSE IF Eligible(s, c) /\ priority[s] > best[s - 1].prio
                 THEN [id |-> s, prio |-> priority[s]]
                 ELSE best[s - 1]
<1>1. \E g : IsLoop(g, LastSource, c)
  BY LoopEnds, PlicAssumption
<1>2. best = CHOOSE g : IsLoop(g, LastSource, c)
  BY DEF IsLoop, Turn
<1>3. Claimed(c) = best[LastSource].id
  BY DEF Claimed
<1> QED BY <1>1, <1>2, <1>3

\* What the loop has after n turns: the best of the first n sources, if any is eligible.
Candidates(n, c) == {s \in 1 .. n : Eligible(s, c)}
BestOf(b, n, c) ==
    \/ Candidates(n, c) = {} /\ b = [id |-> 0, prio |-> 0]
    \/ /\ b.id \in Candidates(n, c) /\ b.prio = priority[b.id]
       /\ \A t \in Candidates(n, c) : Beats(b.id, t)

LEMMA TurnKeepsBest ==
  ASSUME CacheInv, NEW c \in Contexts, NEW n \in Nat, n + 1 \in Sources, NEW b, BestOf(b, n, c)
  PROVE  BestOf(Turn(n + 1, c, b), n + 1, c)
<1> DEFINE s == n + 1
<1>0. priority \in [Sources -> Nat] /\ threshold[c] \in Nat /\ s \in Nat
  BY DEF CacheInv, Shape
<1>1. \A t \in 1 .. n : t \in Sources /\ t < s /\ priority[t] \in Nat
  BY <1>0, PlicAssumption DEF Sources
<1>2. 1 .. s = (1 .. n) \cup {s} /\ priority[s] \in Nat
  BY <1>0
<1>3. Eligible(s, c) => priority[s] > 0
  BY <1>0, <1>2 DEF Eligible
<1> HIDE DEF s
<1>4. Candidates(s, c) = Candidates(n, c) \cup (IF Eligible(s, c) THEN {s} ELSE {})
  BY <1>2 DEF Candidates
<1> DEFINE r == Turn(s, c, b)
<1>5. IF Eligible(s, c) /\ priority[s] > b.prio THEN r.id = s /\ r.prio = priority[s] ELSE r = b
  BY DEF Turn
<1>9. SUFFICES BestOf(r, s, c)
  BY DEF r, s
<1> HIDE DEF r
<1>6. CASE ~Eligible(s, c)
  <2>1. r = b /\ Candidates(s, c) = Candidates(n, c)
    BY <1>4, <1>5, <1>6
  <2> QED BY <2>1 DEF BestOf
<1>7. CASE Eligible(s, c) /\ Candidates(n, c) = {}
  <2>1. b.prio = 0
    BY <1>7 DEF BestOf
  <2>2. r.id = s /\ r.prio = priority[s]
    BY <2>1, <1>3, <1>5, <1>7
  <2>3. Candidates(s, c) = {s} /\ Beats(s, s)
    BY <1>0, <1>4, <1>7 DEF Beats
  <2>4. r.id \in Candidates(s, c) /\ r.prio = priority[r.id]
    BY <2>2, <2>3
  <2>5. \A t \in Candidates(s, c) : Beats(r.id, t)
    BY <2>2, <2>3
  <2> QED BY <2>4, <2>5 DEF BestOf
<1>8. CASE Eligible(s, c) /\ Candidates(n, c) # {}
  <2>1. /\ b.id \in Candidates(n, c) /\ b.prio = priority[b.id]
        /\ \A t \in Candidates(n, c) : Beats(b.id, t)
    BY <1>8 DEF BestOf
  <2> DEFINE i == b.id
  <2>2. i \in 1 .. n /\ i \in Nat /\ priority[i] \in Nat /\ i < s
    BY <2>1, <1>1 DEF Candidates
  <2>3. \A t \in Candidates(n, c) : t \in 1 .. n /\ t \in Nat
    BY DEF Candidates
  <2>4. Candidates(s, c) = Candidates(n, c) \cup {s}
    BY <1>4, <1>8
  <2>5. b.prio = priority[i] /\ \A t \in Candidates(n, c) : Beats(i, t)
    BY <2>1
  <2> HIDE DEF i
  <2>6. CASE priority[s] > b.prio
    <3>1. r.id = s /\ r.prio = priority[s]
      BY <2>6, <1>5, <1>8
    <3>2. ASSUME NEW t \in Candidates(s, c) PROVE Beats(s, t)
      <4>1. CASE t = s
        BY <4>1, <1>0 DEF Beats
      <4>2. CASE t \in Candidates(n, c)
        <5>1. Beats(i, t) /\ priority[t] \in Nat
          BY <4>2, <2>5, <2>3, <1>1
        <5> QED BY <5>1, <2>2, <2>5, <2>6, <1>2 DEF Beats
      <4> QED BY <4>1, <4>2, <2>4
    <3>3. r.id \in Candidates(s, c) /\ r.prio = priority[r.id]
      BY <3>1, <2>4
    <3>4. \A t \in Candidates(s, c) : Beats(r.id, t)
      BY <3>1, <3>2
    <3> QED BY <3>3, <3>4 DEF BestOf
  <2>7. CASE ~(priority[s] > b.prio)
    <3>1. r = b /\ r.id = i
      BY <2>7, <1>5 DEF i
    <3>2. Beats(i, s)
      BY <2>2, <2>5, <2>7, <1>0, <1>2 DEF Beats
    <3>3. r.id \in Candidates(s, c) /\ r.prio = priority[r.id]
      BY <3>1, <2>1, <2>4
    <3>4. \A t \in Candidates(s, c) : Beats(r.id, t)
      BY <3>1, <3>2, <2>4, <2>5
    <3> QED BY <3>3, <3>4 DEF BestOf
  <2> QED BY <2>6, <2>7
<1> QED BY <1>6, <1>7, <1>8

LEMMA LoopFindsBest ==
  ASSUME CacheInv, NEW c \in Contexts, NEW g, IsLoop(g, LastSource, c)
  PROVE  BestOf(g[LastSource], LastSource, c)
<1> DEFINE S == {m \in Nat : m <= LastSource => BestOf(g[m], m, c)}
<1>0. LastSource \in Nat
  BY PlicAssumption
<1>1. 0 \in S
  <2>1. g[0] = [id |-> 0, prio |-> 0]
    BY <1>0 DEF IsLoop
  <2>2. Candidates(0, c) = {}
    BY DEF Candidates
  <2> QED BY <2>1, <2>2 DEF BestOf
<1>2. ASSUME NEW m \in Nat, m \in S PROVE m + 1 \in S
  <2>1. SUFFICES ASSUME m + 1 <= LastSource PROVE BestOf(g[m + 1], m + 1, c)
    OBVIOUS
  <2>2. BestOf(g[m], m, c) /\ m + 1 \in Sources /\ m + 1 \in 0 .. LastSource /\ m + 1 # 0
    BY <1>0, <1>2, <2>1 DEF Sources
  <2>3. g[m + 1] = Turn(m + 1, c, g[m])
    <3>1. (m + 1) - 1 = m
      OBVIOUS
    <3>2. g[m + 1] = Turn(m + 1, c, g[(m + 1) - 1])
      BY <2>2 DEF IsLoop
    <3> QED BY <3>1, <3>2
  <2> QED BY <2>2, <2>3, TurnKeepsBest
<1> HIDE DEF S
<1>3. LastSource \in S
  BY <1>0, <1>1, <1>2, AllNaturals
<1> QED BY <1>0, <1>3 DEF S

LEMMA ClaimedIsBest ==
  ASSUME CacheInv, NEW c \in Contexts
  PROVE  Claimed(c) = Best(c)
<1>0. LastSource \in Nat /\ priority \in [Sources -> Nat]
  BY PlicAssumption DEF CacheInv, Shape
<1>1. PICK g : IsLoop(g, LastSource, c) /\ Claimed(c) = g[LastSource].id
  BY ClaimedIs
<1> DEFINE b == g[LastSource]
           E == {s \in Sources : Eligible(s, c)}
<1>2. BestOf(b, LastSource, c)
  BY <1>1, LoopFindsBest
<1>3. Candidates(LastSource, c) = E
  BY DEF Candidates, Sources
<1>4. CASE E = {}
  BY <1>1, <1>2, <1>3, <1>4 DEF BestOf, Best
<1>5. CASE E # {}
  <2>1. b.id \in E /\ \A t \in E : Beats(b.id, t)
    BY <1>2, <1>3, <1>5 DEF BestOf
  <2>2. ASSUME NEW x \in E, NEW y \in E, \A t \in E : Beats(x, t), \A t \in E : Beats(y, t)
        PROVE  x = y
    <3>1. Beats(x, y) /\ Beats(y, x)
      BY <2>2
    <3>2. x \in Nat /\ y \in Nat /\ priority[x] \in Nat /\ priority[y] \in Nat
      BY <1>0 DEF Sources
    <3> QED BY <3>1, <3>2 DEF Beats
  <2>3. Best(c) = CHOOSE s \in E : \A t \in E : Beats(s, t)
    BY <1>5 DEF Best
  <2> HIDE DEF E, b
  <2>4. Best(c) = b.id
    BY <2>1, <2>2, <2>3
  <2> QED BY <2>4, <1>1 DEF b
<1> QED BY <1>4, <1>5

\* The service sets are one per context.
PerContext == active = [c \in Contexts |-> active[c]]

LEMMA ServiceSetsStay == PerContext /\ [Next]_vars => PerContext'
<1> SUFFICES ASSUME PerContext, [Next]_vars PROVE PerContext'
  OBVIOUS
<1>1. CASE UNCHANGED active
  BY <1>1 DEF PerContext
<1>2. ASSUME NEW c \in Contexts, NEW S, active' = [active EXCEPT ![c] = S] PROVE PerContext'
  <2>1. ASSUME NEW k \in Contexts PROVE active'[k] = IF k = c THEN S ELSE active[k]
    BY <1>2 DEF PerContext
  <2>2. active' = [k \in Contexts |-> IF k = c THEN S ELSE active[k]]
    BY <1>2 DEF PerContext
  <2> QED BY <2>1, <2>2 DEF PerContext
<1>3. \/ UNCHANGED active
      \/ \E h \in Harts, c \in Contexts : Claim(h, c) \/ \E s \in Sources : Complete(h, c, s)
  <2>1. CASE UNCHANGED vars
    BY <2>1 DEF vars, state
  <2>2. ASSUME NEW h \in Harts, Guest(h) 
        PROVE  \/ UNCHANGED active
               \/ \E k \in Harts, c \in Contexts :
                     Claim(k, c) \/ \E s \in Sources : Complete(k, c, s)
    BY <2>2 DEF Guest, StorePriority, StoreEnable, StoreThreshold
  <2>3. ASSUME NEW h \in Harts, Poll(h) PROVE UNCHANGED active
    BY <2>3 DEF Poll, PollStart, SampleLine, SetSourceLevel, SyncCache, LoadPending, LoadEnable,
                LoadThreshold, ScanSource, state
  <2>4. ASSUME NEW d \in Devices, SetLine(d) PROVE UNCHANGED active
    BY <2>4 DEF SetLine, state
  <2> QED BY <2>1, <2>2, <2>3, <2>4 DEF Next
<1> QED BY <1>1, <1>2, <1>3 DEF Claim, Complete

\* claim_interrupt_for_internal hands out the eligible source of highest priority, the lowest
\* among equals, for any number of sources and whatever priorities the guest has stored.
THEOREM ClaimsTakeBest == Spec => ClaimTakesBest
<1>1. ASSUME CacheInv, PerContext, NEW h \in Harts, NEW c \in Contexts, Claim(h, c)
      PROVE  active'[c] = active[c] \cup ({Best(c)} \ {0})
  <2>1. active' = [active EXCEPT ![c] = active[c] \cup ({Best(c)} \ {0})]
    BY <1>1, ClaimedIsBest DEF Claim
  <2> QED BY <1>1, <2>1 DEF PerContext
<1>2. CacheInv /\ PerContext /\ [Next]_vars =>
        [\A h \in Harts, c \in Contexts :
            Claim(h, c) => active'[c] = active[c] \cup ({Best(c)} \ {0})]_vars
  BY <1>1
<1>3. Init => PerContext
  BY DEF Init, PerContext
<1> QED BY <1>2, <1>3, ServiceSetsStay, CachesStart, CachesKept, PTL DEF Spec, ClaimTakesBest
=============================================================================
