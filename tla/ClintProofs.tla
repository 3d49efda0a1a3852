----------------------------- MODULE ClintProofs -----------------------------
(***************************************************************************)
(* Machine-checked proofs about Clint, for every set of harts and every    *)
(* value of the bounds: type correctness, that no IPI is lost to a hart    *)
(* that goes to sleep, and that a pending STIP is never stale.             *)
(***************************************************************************)
EXTENDS Clint, TLAPS

-----------------------------------------------------------------------------
(* Type correctness.                                                       *)

\* A WFI sleep is a positive natural number of milliseconds.
LEMMA SleepMsType ==
    ASSUME NEW now \in Nat, NEW trigger \in Nat
    PROVE  SleepMs(now, trigger) \in Nat
  BY ClintAssumption DEF SleepMs

\* mtime is a natural number whenever the clock is in range.
LEMMA MtimeType ==
    ASSUME TypeOK
    PROVE  mtime \in Nat
<1>1. elapsed \in Nat /\ TicksPerMs \in Nat
  BY ClintAssumption DEF TypeOK
<1> QED
  BY <1>1 DEF mtime

\* Every variable keeps its type in every step of every hart and of the clock.
THEOREM TypeCorrect == Spec => []TypeOK
<1> USE ClintAssumption
<1>1. Init => TypeOK
  BY DEF Init, TypeOK, Labels, Bits
<1>2. TypeOK /\ [Next]_vars => TypeOK'
  <2> SUFFICES ASSUME TypeOK, [Next]_vars PROVE TypeOK'
    OBVIOUS
  <2> USE DEF TypeOK, Labels, Bits, shared, parking, Goto, Step
  <2>1. ASSUME NEW h \in Harts, Guest(h) PROVE TypeOK'
    <3>1. ASSUME NEW v \in Deadlines, SetTimer(h, v) PROVE TypeOK'
      BY <3>1 DEF SetTimer
    <3>2. ASSUME NEW t \in Harts, NEW v \in MmioStores, StoreMtimecmp(h, t, v)
          PROVE  TypeOK'
      BY <3>2 DEF StoreMtimecmp
    <3>3. CASE ClearIpi(h)
      BY <3>3 DEF ClearIpi
    <3>4. ASSUME NEW t \in Harts, StoreMsipZero(h, t) PROVE TypeOK'
      BY <3>4 DEF StoreMsipZero
    <3>5. ASSUME NEW base \in Harts \cup {-2, -1},
                 NEW mask \in SUBSET (0 .. MaskBits - 1), SendIpi(h, base, mask)
          PROVE  TypeOK'
      <4>1. IpiTargets(base, mask) \subseteq Harts
        BY DEF IpiTargets
      <4> QED
        BY <3>5, <4>1 DEF SendIpi
    <3>6. ASSUME NEW on \in BOOLEAN, SetSie(h, on) PROVE TypeOK'
      BY <3>6 DEF SetSie
    <3>7. ASSUME NEW level \in ExtLevels, PollInterrupts(h, level) PROVE TypeOK'
      <4>1. mip' \in [Harts -> SUBSET Bits]
        BY <3>7 DEF PollInterrupts
      <4>2. sie' \in [Harts -> BOOLEAN]
        BY <3>7 DEF PollInterrupts
      <4> QED
        BY <3>7, <4>1, <4>2 DEF PollInterrupts
    <3>8. CASE Wfi(h)
      BY <3>8 DEF Wfi
    <3> QED
      BY <2>1, <3>1, <3>2, <3>3, <3>4, <3>5, <3>6, <3>7, <3>8 DEF Guest
  <2>2. ASSUME NEW h \in Harts, Host(h) PROVE TypeOK'
    <3>1. CASE BatchStart(h) \/ WfiSample(h)
      BY <3>1, MtimeType DEF BatchStart, WfiSample, SampleTime
    <3>2. CASE SyncMip(h)
      BY <3>2 DEF SyncMip, ClintPending
    <3>3. CASE BatchEnd(h)
      BY <3>3 DEF BatchEnd
    <3>4. CASE IpiStore(h)
      BY <3>4 DEF IpiStore
    <3>5. CASE IpiWake(h)
      BY <3>5 DEF IpiWake
    <3>6. CASE WfiCheck(h)
      BY <3>6 DEF WfiCheck, ClintPending
    <3>7. CASE WfiTimeout(h)
      BY <3>7, MtimeType, SleepMsType DEF WfiTimeout
    <3>8. CASE WaitForInterrupt(h)
      <4>1. CASE flag[h]
        BY <3>8, <4>1 DEF WaitForInterrupt
      <4>2. CASE ~flag[h]
        <5>1. remaining' \in [Harts -> Nat] /\ timeout' \in [Harts -> Nat]
          BY <3>8, <4>2 DEF WaitForInterrupt
        <5>2. /\ flag' \in [Harts -> BOOLEAN]
              /\ notified' \in [Harts -> BOOLEAN]
              /\ pc' \in [Harts -> Labels]
          BY <3>8, <4>2 DEF WaitForInterrupt
        <5> QED
          BY <3>8, <5>1, <5>2 DEF WaitForInterrupt
      <4> QED
        BY <4>1, <4>2
    <3>9. CASE Unpark(h)
      BY <3>9 DEF Unpark, WaitReturns
    <3> QED
      BY <2>2, <3>1, <3>2, <3>3, <3>4, <3>5, <3>6, <3>7, <3>8, <3>9 DEF Host
  <2>3. ASSUME NEW h \in Harts, SpuriousWake(h) PROVE TypeOK'
    BY <2>3 DEF SpuriousWake, WaitReturns
  <2>4. CASE Tick
    BY <2>4 DEF Tick
  <2>5. CASE UNCHANGED vars
    BY <2>5 DEF vars
  <2> QED
    BY <2>1, <2>2, <2>3, <2>4, <2>5 DEF Next
<1> QED
  BY <1>1, <1>2, PTL DEF Spec

-----------------------------------------------------------------------------
(* No IPI is lost.  The invariant is strengthened to the two labels between *)
(* the look at msip and the sleep, where the pending flag stands in for the *)
(* notification.                                                            *)

\* The mark that ends, or will end, the sleep of hart h.
Marked(h) ==
    \/ pc[h] = "parked" /\ notified[h]
    \/ pc[h] # "parked" /\ flag[h]
    \/ WakeInFlight(h)

\* From the moment WFI looked at msip: an msip set since then has left a mark
\* that ends the sleep, or the sender is about to leave one.
IpiInv ==
    \A h \in Harts :
        (/\ pc[h] \in {"timeout", "wait", "parked"}
         /\ msip[h] = 1
         /\ "SSIP" \notin mip[h]) => Marked(h)

\* A step by another hart that is not a sender keeps k's mark.
LEMMA MarkKept ==
    ASSUME NEW k \in Harts, Marked(k),
           pc'[k] = pc[k], notified'[k] = notified[k], flag'[k] = flag[k],
           \A g \in Harts : pc[g] = "wake" => pc'[g] = pc[g] /\ todo'[g] = todo[g]
    PROVE  Marked(k)'
<1>1. CASE WakeInFlight(k)
  <2>1. PICK g \in Harts : pc[g] = "wake" /\ NextTarget(g) = k
    BY <1>1 DEF WakeInFlight
  <2>2. pc'[g] = "wake" /\ NextTarget(g)' = k
    BY <2>1 DEF NextTarget
  <2> QED
    BY <2>2 DEF Marked, WakeInFlight
<1>2. CASE ~WakeInFlight(k)
  BY <1>2 DEF Marked
<1> QED
  BY <1>1, <1>2

\* What a guest instruction of hart h leaves alone.
LEMMA GuestFrame ==
    ASSUME TypeOK, NEW h \in Harts, Guest(h), NEW k \in Harts, pc'[k] # "store",
           pc'[k] # "run", pc'[k] # "wfi"
    PROVE  /\ pc[h] = "run"
           /\ flag' = flag /\ notified' = notified
           /\ \A g \in Harts : g # h => pc'[g] = pc[g] /\ todo'[g] = todo[g]
           /\ k # h
           /\ mip'[k] = mip[k]
           /\ msip'[k] = msip[k] \/ msip'[k] = 0
<1> USE DEF TypeOK, shared, parking, Goto, Step
<1>1. CASE \E v \in Deadlines : SetTimer(h, v)
  BY <1>1 DEF SetTimer
<1>2. CASE \E t \in Harts, v \in MmioStores : StoreMtimecmp(h, t, v)
  BY <1>2 DEF StoreMtimecmp
<1>3. CASE ClearIpi(h)
  BY <1>3 DEF ClearIpi
<1>4. CASE \E t \in Harts : StoreMsipZero(h, t)
  BY <1>4 DEF StoreMsipZero
<1>5. CASE \E base \in Harts \cup {-2, -1}, mask \in SUBSET (0 .. MaskBits - 1) :
              SendIpi(h, base, mask)
  BY <1>5 DEF SendIpi
<1>6. CASE \E on \in BOOLEAN : SetSie(h, on)
  BY <1>6 DEF SetSie
<1>7. CASE \E level \in ExtLevels : PollInterrupts(h, level)
  BY <1>7 DEF PollInterrupts
<1>8. CASE Wfi(h)
  BY <1>8 DEF Wfi
<1> QED
  BY <1>1, <1>2, <1>3, <1>4, <1>5, <1>6, <1>7, <1>8 DEF Guest

\* A hart sleeping in WFI whose msip was set after it looked is notified or
\* about to be woken: for any number of harts sending IPIs at any moment.
THEOREM NoIpiLost == Spec => []NoLostIpi
<1> USE ClintAssumption
<1>1. Init => IpiInv
  BY DEF Init, IpiInv
<1>2. TypeOK /\ IpiInv /\ [Next]_vars => IpiInv'
  <2> SUFFICES ASSUME TypeOK, IpiInv, [Next]_vars, NEW k \in Harts,
                      pc'[k] \in {"timeout", "wait", "parked"},
                      msip'[k] = 1,
                      "SSIP" \notin mip'[k]
               PROVE  Marked(k)'
    BY DEF IpiInv
  <2>0. ASSUME pc[k] \in {"timeout", "wait", "parked"}, msip[k] = 1,
               "SSIP" \notin mip[k]
        PROVE  Marked(k)
    BY <2>0 DEF IpiInv
  <2> USE DEF TypeOK, shared, parking, Goto
  <2>1. ASSUME NEW h \in Harts, Guest(h) PROVE Marked(k)'
    BY <2>0, <2>1, GuestFrame, MarkKept
  <2>2. ASSUME NEW h \in Harts, Host(h) PROVE Marked(k)'
    <3>1. CASE BatchStart(h) \/ WfiSample(h)
      BY <2>0, <3>1, MarkKept DEF BatchStart, WfiSample, SampleTime
    <3>2. CASE SyncMip(h) \/ BatchEnd(h)
      BY <2>0, <3>2, MarkKept DEF SyncMip, BatchEnd
    <3>3. CASE IpiStore(h)
      <4>1. CASE NextTarget(h) = k
        <5>1. pc'[h] = "wake" /\ NextTarget(h)' = k
          BY <3>3, <4>1 DEF IpiStore, NextTarget
        <5> QED
          BY <5>1 DEF Marked, WakeInFlight
      <4>2. CASE NextTarget(h) # k
        BY <2>0, <3>3, <4>2, MarkKept DEF IpiStore
      <4> QED
        BY <4>1, <4>2
    <3>4. CASE IpiWake(h)
      <4>0. k # h /\ pc'[k] = pc[k] /\ msip[k] = 1 /\ mip'[k] = mip[k]
        BY <3>4 DEF IpiWake
      <4>1. CASE NextTarget(h) = k
        <5>1. flag'[k] /\ (pc[k] = "parked" => notified'[k])
          BY <3>4, <4>1 DEF IpiWake
        <5> QED
          BY <4>0, <5>1 DEF Marked
      <4>2. CASE NextTarget(h) # k
        <5>1. Marked(k) /\ flag'[k] = flag[k] /\ notified'[k] = notified[k]
          BY <2>0, <3>4, <4>0, <4>2 DEF IpiWake
        <5>2. CASE WakeInFlight(k)
          <6>1. PICK g \in Harts : pc[g] = "wake" /\ NextTarget(g) = k
            BY <5>2 DEF WakeInFlight
          <6>2. g # h
            BY <4>2, <6>1
          <6>3. pc'[g] = "wake" /\ NextTarget(g)' = k
            BY <3>4, <6>1, <6>2 DEF IpiWake, NextTarget
          <6> QED
            BY <6>3 DEF Marked, WakeInFlight
        <5>3. CASE ~WakeInFlight(k)
          BY <4>0, <5>1, <5>3 DEF Marked
        <5> QED
          BY <5>2, <5>3
      <4> QED
        BY <4>1, <4>2
    <3>5. CASE WfiCheck(h)
      <4>1. CASE k = h
        <5>1. msip[k] = 1
          BY <3>5 DEF WfiCheck
        <5>2. "SSIP" \in ClintPending(k)
          BY <5>1 DEF ClintPending
        <5> QED
          BY <3>5, <4>1, <5>2 DEF WfiCheck
      <4>2. CASE k # h
        BY <2>0, <3>5, <4>2, MarkKept DEF WfiCheck
      <4> QED
        BY <4>1, <4>2
    <3>6. CASE WfiTimeout(h)
      <4>1. CASE k = h
        <5>1. Marked(k) /\ pc[k] = "timeout" /\ pc'[k] = "wait" /\ flag' = flag
          BY <2>0, <3>6, <4>1 DEF WfiTimeout
        <5>2. CASE WakeInFlight(k)
          <6>1. PICK g \in Harts : pc[g] = "wake" /\ NextTarget(g) = k
            BY <5>2 DEF WakeInFlight
          <6>2. pc'[g] = "wake" /\ NextTarget(g)' = k
            BY <3>6, <6>1 DEF WfiTimeout, NextTarget
          <6> QED
            BY <6>2 DEF Marked, WakeInFlight
        <5>3. CASE ~WakeInFlight(k)
          BY <5>1, <5>3 DEF Marked
        <5> QED
          BY <5>2, <5>3
      <4>2. CASE k # h
        BY <2>0, <3>6, <4>2, MarkKept DEF WfiTimeout
      <4> QED
        BY <4>1, <4>2
    <3>7. CASE WaitForInterrupt(h)
      <4>0. pc[h] = "wait" /\ mip' = mip /\ msip' = msip /\ todo' = todo
        BY <3>7 DEF WaitForInterrupt
      <4>1. CASE k = h
        <5>1. ~flag[k] /\ pc' = [pc EXCEPT ![h] = "parked"]
          BY <3>7, <4>1 DEF WaitForInterrupt
        <5>2. WakeInFlight(k)
          BY <2>0, <4>0, <4>1, <5>1 DEF Marked
        <5>3. PICK g \in Harts : pc[g] = "wake" /\ NextTarget(g) = k
          BY <5>2 DEF WakeInFlight
        <5>4. pc'[g] = "wake" /\ NextTarget(g)' = k
          BY <4>0, <5>1, <5>3 DEF NextTarget
        <5> QED
          BY <5>4 DEF Marked, WakeInFlight
      <4>2. CASE k # h
        <5>1. flag'[k] = flag[k] /\ notified'[k] = notified[k]
          BY <3>7, <4>2 DEF WaitForInterrupt
        <5>2. \A g \in Harts : g # h => pc'[g] = pc[g]
          BY <3>7 DEF WaitForInterrupt
        <5> QED
          BY <2>0, <4>0, <4>2, <5>1, <5>2, MarkKept
      <4> QED
        BY <4>1, <4>2
    <3>8. CASE Unpark(h)
      BY <2>0, <3>8, MarkKept DEF Unpark, WaitReturns
    <3> QED
      BY <2>2, <3>1, <3>2, <3>3, <3>4, <3>5, <3>6, <3>7, <3>8 DEF Host
  <2>3. ASSUME NEW h \in Harts, SpuriousWake(h) PROVE Marked(k)'
    BY <2>0, <2>3, MarkKept DEF SpuriousWake, WaitReturns
  <2>4. CASE Tick
    BY <2>0, <2>4, MarkKept DEF Tick
  <2>5. CASE UNCHANGED vars
    BY <2>0, <2>5, MarkKept DEF vars
  <2> QED
    BY <2>1, <2>2, <2>3, <2>4, <2>5 DEF Next
<1>3. IpiInv => NoLostIpi
  BY DEF IpiInv, NoLostIpi, Marked
<1> QED
  BY <1>1, <1>2, <1>3, TypeCorrect, PTL DEF Spec

-----------------------------------------------------------------------------
(* STIP is never stale.  A check in progress holds an mtime it read earlier; *)
(* time only moves forward, so the sample is a lower bound of mtime.         *)

TimerInv ==
    /\ \A h \in Harts : sample[h] <= mtime
    /\ TimerBitJustified

\* The clock never runs backwards.
LEMMA MtimeMonotone ==
    ASSUME TypeOK, Tick
    PROVE  mtime <= mtime' /\ mtime' \in Nat
<1>1. elapsed \in Nat /\ TicksPerMs \in Nat
  BY ClintAssumption DEF TypeOK
<1>0. mtime \in Nat
  BY MtimeType
<1>2. CASE elapsed' = elapsed
  BY <1>0, <1>1, <1>2 DEF mtime
<1>3. CASE elapsed' = elapsed + 1
  <2>1. (elapsed + 1) * TicksPerMs = elapsed * TicksPerMs + TicksPerMs
    BY <1>1
  <2>2. mtime' = mtime + TicksPerMs
    BY <1>3, <2>1 DEF mtime
  <2> QED
    BY <1>0, <1>1, <2>2
<1> QED
  BY <1>2, <1>3 DEF Tick

\* A hart whose STIP is set has a deadline that passed, whatever the other harts
\* and the clock do between the read of mtime and the update of mip.
THEOREM NoStaleTimer == Spec => []TimerBitJustified
<1> USE ClintAssumption
<1>1. Init => TimerInv
  BY DEF Init, TimerInv, TimerBitJustified, mtime
<1>2. TypeOK /\ TimerInv /\ [Next]_vars => TimerInv'
  <2> SUFFICES ASSUME TypeOK, TimerInv, [Next]_vars PROVE TimerInv'
    OBVIOUS
  <2>0. mtime \in Nat
    BY MtimeType
  <2> USE DEF TypeOK, TimerInv, TimerBitJustified, shared, parking, Goto, Step
  <2>1. ASSUME NEW h \in Harts, Guest(h) PROVE TimerInv'
    <3>0. mtime' = mtime /\ sample' = sample
      BY <2>1 DEF Guest, SetTimer, StoreMtimecmp, ClearIpi, StoreMsipZero,
                  SendIpi, SetSie, PollInterrupts, Wfi, mtime
    <3>1. ASSUME NEW v \in Deadlines, SetTimer(h, v) PROVE TimerInv'
      BY <3>0, <3>1 DEF SetTimer
    <3>2. ASSUME NEW t \in Harts, NEW v \in MmioStores, StoreMtimecmp(h, t, v)
          PROVE  TimerInv'
      BY <3>0, <3>2 DEF StoreMtimecmp
    <3>3. CASE ClearIpi(h)
      BY <3>0, <3>3 DEF ClearIpi
    <3>4. ASSUME NEW t \in Harts, StoreMsipZero(h, t) PROVE TimerInv'
      BY <3>0, <3>4 DEF StoreMsipZero
    <3>5. ASSUME NEW base \in Harts \cup {-2, -1},
                 NEW mask \in SUBSET (0 .. MaskBits - 1), SendIpi(h, base, mask)
          PROVE  TimerInv'
      BY <3>0, <3>5 DEF SendIpi
    <3>6. ASSUME NEW on \in BOOLEAN, SetSie(h, on) PROVE TimerInv'
      BY <3>0, <3>6 DEF SetSie
    <3>7. ASSUME NEW level \in ExtLevels, PollInterrupts(h, level)
          PROVE  TimerInv'
      <4>1. \A k \in Harts : "STIP" \in mip'[k] => "STIP" \in mip[k]
        BY <3>7 DEF PollInterrupts
      <4>2. mtimecmp' = mtimecmp
        BY <3>7 DEF PollInterrupts
      <4> QED
        BY <3>0, <4>1, <4>2
    <3>8. CASE Wfi(h)
      BY <3>0, <3>8 DEF Wfi
    <3> QED
      BY <2>1, <3>1, <3>2, <3>3, <3>4, <3>5, <3>6, <3>7, <3>8 DEF Guest
  <2>2. ASSUME NEW h \in Harts, Host(h) PROVE TimerInv'
    <3>0. mtime' = mtime /\ mtimecmp' = mtimecmp
      BY <2>2 DEF Host, BatchStart, SampleTime, SyncMip, BatchEnd, IpiStore,
                  IpiWake, WfiSample, WfiCheck, WfiTimeout, WaitForInterrupt,
                  Unpark, WaitReturns, mtime
    <3>1. CASE BatchStart(h) \/ WfiSample(h)
      BY <2>0, <3>0, <3>1 DEF BatchStart, WfiSample, SampleTime
    <3>2. CASE SyncMip(h) \/ WfiCheck(h)
      <4>1. /\ mip' = [mip EXCEPT ![h] = @ \cup ClintPending(h)]
            /\ sample' = [sample EXCEPT ![h] = 0]
        BY <3>2 DEF SyncMip, WfiCheck
      <4>2. "STIP" \in ClintPending(h) => sample[h] >= mtimecmp[h]
        BY DEF ClintPending
      <4>3. "STIP" \in ClintPending(h) => mtime >= mtimecmp[h]
        BY <2>0, <4>2
      <4> QED
        BY <2>0, <3>0, <4>1, <4>3
    <3>3. CASE \/ BatchEnd(h) \/ IpiStore(h) \/ IpiWake(h) \/ WfiTimeout(h)
               \/ WaitForInterrupt(h) \/ Unpark(h)
      <4>1. mip' = mip /\ sample' = sample
        BY <3>3 DEF BatchEnd, IpiStore, IpiWake, WfiTimeout, WaitForInterrupt,
                    Unpark, WaitReturns
      <4> QED
        BY <3>0, <4>1
    <3> QED
      BY <2>2, <3>1, <3>2, <3>3 DEF Host
  <2>3. ASSUME NEW h \in Harts, SpuriousWake(h) PROVE TimerInv'
    BY <2>3 DEF SpuriousWake, WaitReturns, mtime
  <2>4. CASE Tick
    <3>1. mtime <= mtime' /\ mtime' \in Nat
      BY <2>4, MtimeMonotone
    <3>2. sample' = sample /\ mip' = mip /\ mtimecmp' = mtimecmp
      BY <2>4 DEF Tick
    <3> QED
      BY <2>0, <3>1, <3>2
  <2>5. CASE UNCHANGED vars
    BY <2>5 DEF vars, mtime
  <2> QED
    BY <2>1, <2>2, <2>3, <2>4, <2>5 DEF Next
<1>3. TimerInv => TimerBitJustified
  BY DEF TimerInv
<1> QED
  BY <1>1, <1>2, <1>3, TypeCorrect, PTL DEF Spec

=============================================================================
