-------------------------------- MODULE Clint --------------------------------
(***************************************************************************)
(* The core-local interruptor of riscv-vm (devices/clint.rs) together with *)
(* the part of a hart thread that talks to it: the CLINT -> MIP sync at    *)
(* the start of an instruction batch, the WFI path of execute_batch and    *)
(* execute_batch_worker (vm/native.rs), and the SBI timer and IPI calls    *)
(* (sbi/timer.rs, sbi/ipi.rs, sbi/legacy.rs).                              *)
(*                                                                         *)
(* Every hart is a host thread.  The msip and mtimecmp words are atomics   *)
(* that any thread may store to; a parked hart sleeps on the condition     *)
(* variable of its HartWakeup, whose mutex guards one "wakeup pending"     *)
(* flag.  Guest code is abstracted to the choice of its next CLINT-related *)
(* operation.  A local that is dead after a step is reset to 0.            *)
(***************************************************************************)
EXTENDS Integers, FiniteSets

CONSTANTS
    Harts,       \* hart ids, all below MAX_HARTS
    BatchSize,   \* iterations of one execute_batch call (256 in the code)
    TicksPerMs,  \* TICKS_PER_MS: mtime ticks per wall-clock millisecond
    MaxSleepMs,  \* cap on one WFI sleep (100 in the code)
    MaxElapsed,  \* bound on the modelled wall clock, in milliseconds
    Never,       \* u64::MAX, the reset value of mtimecmp
    Deadlines,   \* values the guest passes to SBI set_timer
    MmioStores,  \* values the guest stores to mtimecmp by MMIO
    MaskBits,    \* harts one SBI IPI call can name (64 in the code)
    ExtLevels    \* levels the PLIC may show to a poll, a subset of BOOLEAN

ASSUME ClintAssumption ==
    /\ Harts \subseteq Nat
    /\ BatchSize \in Nat \ {0}
    /\ TicksPerMs \in Nat \ {0}
    /\ MaxSleepMs \in Nat \ {0}
    /\ MaxElapsed \in Nat
    /\ Never \in Nat
    /\ Never > MaxElapsed * TicksPerMs
    /\ Deadlines \subseteq Nat
    /\ MmioStores \subseteq Nat
    /\ MaskBits \in Nat
    /\ ExtLevels \subseteq BOOLEAN

VARIABLES
    elapsed,    \* now_millis() - start_time_ms
    msip,       \* Clint.msip, bit 0 of each word
    mtimecmp,   \* Clint.mtimecmp
    flag,       \* HartWakeup.lock: a wakeup is pending
    notified,   \* the parked hart was picked by notify_one
    remaining,  \* milliseconds left of the current condvar wait
    mip,        \* the S-level bits of CSR mip, per hart
    sie,        \* S interrupts are globally enabled on this hart
    pc,         \* where the hart's thread is
    left,       \* iterations left in the current batch
    sample,     \* mtime read by the check in progress
    timeout,    \* timeout_ms of the WFI in progress
    todo        \* harts the IPI call in progress has not stored to yet

vars == <<elapsed, msip, mtimecmp, flag, notified, remaining, mip, sie, pc,
          left, sample, timeout, todo>>

\* The registers every thread may write.
shared == <<msip, mtimecmp>>
\* What parking and waking touch.
parking == <<flag, notified, remaining>>

Bits == {"SSIP", "STIP", "SEIP"}
Labels == {"batch", "sync", "run", "wfi", "check", "timeout", "wait",
           "parked", "store", "wake"}

Goto(h, label) == pc' = [pc EXCEPT ![h] = label]

\* The lowest hart the IPI loop has not handled yet.
NextTarget(h) == CHOOSE t \in todo[h] : \A u \in todo[h] : t <= u

mtime == elapsed * TicksPerMs

\* check_pending_interrupt, restricted to the delegated S interrupts.
Interruptible(m, h) == sie[h] /\ m[h] # {}

-----------------------------------------------------------------------------
(* Reset state: Clint::with_harts and a freshly created Cpu.               *)

Init ==
    /\ elapsed = 0
    /\ msip = [h \in Harts |-> 0]
    /\ mtimecmp = [h \in Harts |-> Never]
    /\ flag = [h \in Harts |-> FALSE]
    /\ notified = [h \in Harts |-> FALSE]
    /\ remaining = [h \in Harts |-> 0]
    /\ mip = [h \in Harts |-> {}]
    /\ sie = [h \in Harts |-> FALSE]
    /\ pc = [h \in Harts |-> "batch"]
    /\ left = [h \in Harts |-> 0]
    /\ sample = [h \in Harts |-> 0]
    /\ timeout = [h \in Harts |-> 0]
    /\ todo = [h \in Harts |-> {}]

-----------------------------------------------------------------------------
(* check_interrupts_for_hart reads mtime first, msip and mtimecmp after.   *)

SampleTime(h, from, to) ==
    /\ pc[h] = from
    /\ sample' = [sample EXCEPT ![h] = mtime]
    /\ Goto(h, to)
    /\ UNCHANGED <<elapsed, shared, parking, mip, sie, left, timeout, todo>>

ClintPending(h) ==
    {b \in {"SSIP", "STIP"} :
        \/ b = "SSIP" /\ msip[h] = 1
        \/ b = "STIP" /\ sample[h] >= mtimecmp[h]}

\* Batch start: pending CLINT interrupts are OR-ed into mip, never cleared.
BatchStart(h) == SampleTime(h, "batch", "sync")

\* Mutant: the batch starts without looking at the CLINT.
SyncMipDropped(h) ==
    /\ pc[h] = "sync"
    /\ left' = [left EXCEPT ![h] = BatchSize]
    /\ sample' = [sample EXCEPT ![h] = 0]
    /\ Goto(h, "run")
    /\ UNCHANGED <<elapsed, shared, parking, mip, sie, timeout, todo>>

SyncMip(h) ==
    /\ pc[h] = "sync"
    /\ mip' = [mip EXCEPT ![h] = @ \cup ClintPending(h)]
    /\ left' = [left EXCEPT ![h] = BatchSize]
    /\ sample' = [sample EXCEPT ![h] = 0]
    /\ Goto(h, "run")
    /\ UNCHANGED <<elapsed, shared, parking, sie, timeout, todo>>

BatchEnd(h) ==
    /\ pc[h] = "run"
    /\ left[h] = 0
    /\ Goto(h, "batch")
    /\ UNCHANGED <<elapsed, shared, parking, mip, sie, left, sample, timeout,
                   todo>>

-----------------------------------------------------------------------------
(* Guest instructions.  Each consumes one iteration of the batch loop.     *)

Step(h) ==
    /\ pc[h] = "run"
    /\ left[h] > 0
    /\ left' = [left EXCEPT ![h] = @ - 1]

\* Mutant: set_timer forgets to drop STIP.
SetTimerKeepsStip(h, v) ==
    /\ Step(h)
    /\ mtimecmp' = [mtimecmp EXCEPT ![h] = v]
    /\ UNCHANGED <<elapsed, msip, parking, mip, sie, pc, sample, timeout, todo>>

\* SBI set_timer: program the compare register, then drop STIP.
SetTimer(h, v) ==
    /\ Step(h)
    /\ mtimecmp' = [mtimecmp EXCEPT ![h] = v]
    /\ mip' = [mip EXCEPT ![h] = @ \ {"STIP"}]
    /\ UNCHANGED <<elapsed, msip, parking, sie, pc, sample, timeout, todo>>

\* A plain MMIO store to any hart's mtimecmp: nobody is woken.
StoreMtimecmp(h, t, v) ==
    /\ Step(h)
    /\ mtimecmp' = [mtimecmp EXCEPT ![t] = v]
    /\ UNCHANGED <<elapsed, msip, parking, mip, sie, pc, sample, timeout, todo>>

\* SBI legacy clear_ipi: clear the hart's own msip, then its SSIP.
ClearIpi(h) ==
    /\ Step(h)
    /\ msip' = [msip EXCEPT ![h] = 0]
    /\ mip' = [mip EXCEPT ![h] = @ \ {"SSIP"}]
    /\ UNCHANGED <<elapsed, mtimecmp, parking, sie, pc, sample, timeout, todo>>

\* A store of 0 to some msip word: set_msip without a wakeup.
StoreMsipZero(h, t) ==
    /\ Step(h)
    /\ msip' = [msip EXCEPT ![t] = 0]
    /\ UNCHANGED <<elapsed, mtimecmp, parking, mip, sie, pc, sample, timeout,
                   todo>>

\* SBI send_ipi.  Base -1 means "all harts", served as the first MaskBits ids;
\* any other negative base is refused.
IpiTargets(base, mask) ==
    IF base = -1 THEN Harts \cap (0 .. MaskBits - 1)
                 ELSE {t \in Harts : base >= 0 /\ t - base \in mask}

SendIpi(h, base, mask) ==
    /\ Step(h)
    /\ todo' = [todo EXCEPT ![h] = IpiTargets(base, mask)]
    /\ IF IpiTargets(base, mask) = {} THEN UNCHANGED pc ELSE Goto(h, "store")
    /\ UNCHANGED <<elapsed, shared, parking, mip, sie, sample, timeout>>

\* set_msip(t, 1): the store ...
IpiStore(h) ==
    /\ pc[h] = "store"
    /\ msip' = [msip EXCEPT ![NextTarget(h)] = 1]
    /\ Goto(h, "wake")
    /\ UNCHANGED <<elapsed, mtimecmp, parking, mip, sie, left, sample, timeout,
                   todo>>

\* ... and HartWakeup::wake under the target's mutex.
IpiWake(h) ==
    LET t == NextTarget(h)
    IN  /\ pc[h] = "wake"
        /\ flag' = [flag EXCEPT ![t] = TRUE]
        /\ notified' = [notified EXCEPT ![t] = pc[t] = "parked"]
        /\ todo' = [todo EXCEPT ![h] = @ \ {t}]
        /\ Goto(h, IF todo[h] = {t} THEN "run" ELSE "store")
        /\ UNCHANGED <<elapsed, shared, remaining, mip, sie, left, sample,
                       timeout>>

\* csrs/csrc sstatus, SRET: the guest changes the global enable.
SetSie(h, on) ==
    /\ Step(h)
    /\ sie' = [sie EXCEPT ![h] = on]
    /\ UNCHANGED <<elapsed, shared, parking, mip, pc, sample, timeout, todo>>

\* Cpu::step with a wrapped poll counter: SEIP mirrors the PLIC; a pending and
\* enabled interrupt traps, which clears SIE.
PollInterrupts(h, level) ==
    LET m == [mip EXCEPT ![h] = IF level THEN @ \cup {"SEIP"} ELSE @ \ {"SEIP"}]
    IN  /\ Step(h)
        /\ mip' = m
        /\ sie' = [sie EXCEPT ![h] = sie[h] /\ ~Interruptible(m, h)]
        /\ UNCHANGED <<elapsed, shared, parking, pc, sample, timeout, todo>>

-----------------------------------------------------------------------------
(* WFI.                                                                    *)

Wfi(h) ==
    /\ Step(h)
    /\ Goto(h, "wfi")
    /\ UNCHANGED <<elapsed, shared, parking, mip, sie, sample, timeout, todo>>

WfiSample(h) == SampleTime(h, "wfi", "check")

\* The CLINT is checked again; only when it has something pending is
\* check_pending_interrupt asked whether the hart may go on.
WfiCheck(h) ==
    LET p == ClintPending(h)
        m == [mip EXCEPT ![h] = @ \cup p]
    IN  /\ pc[h] = "check"
        /\ mip' = m
        /\ sample' = [sample EXCEPT ![h] = 0]
        /\ Goto(h, IF p # {} /\ Interruptible(m, h) THEN "run" ELSE "timeout")
        /\ UNCHANGED <<elapsed, shared, parking, sie, left, timeout, todo>>

SleepMs(now, trigger) ==
    IF trigger > now
    THEN LET ms == (trigger - now) \div TicksPerMs
         IN  IF ms < 1 THEN 1 ELSE IF ms > MaxSleepMs THEN MaxSleepMs ELSE ms
    ELSE 1

WfiTimeout(h) ==
    /\ pc[h] = "timeout"
    /\ timeout' = [timeout EXCEPT ![h] = SleepMs(mtime, mtimecmp[h])]
    /\ Goto(h, "wait")
    /\ UNCHANGED <<elapsed, shared, parking, mip, sie, left, sample, todo>>

\* Mutant: the wait does not look at the pending flag before it parks.
WaitIgnoresFlag(h) ==
    /\ pc[h] = "wait"
    /\ remaining' = [remaining EXCEPT ![h] = timeout[h]]
    /\ notified' = [notified EXCEPT ![h] = FALSE]
    /\ timeout' = [timeout EXCEPT ![h] = 0]
    /\ Goto(h, "parked")
    /\ UNCHANGED <<elapsed, shared, flag, mip, sie, left, sample, todo>>

\* HartWakeup::wait_for_interrupt up to the condvar: a pending wakeup is
\* consumed and the call returns, otherwise the thread parks.
WaitForInterrupt(h) ==
    /\ pc[h] = "wait"
    /\ IF flag[h]
       THEN /\ flag' = [flag EXCEPT ![h] = FALSE]
            /\ Goto(h, "run")
            /\ UNCHANGED <<notified, remaining>>
       ELSE /\ remaining' = [remaining EXCEPT ![h] = timeout[h]]
            /\ notified' = [notified EXCEPT ![h] = FALSE]
            /\ Goto(h, "parked")
            /\ UNCHANGED flag
    /\ timeout' = [timeout EXCEPT ![h] = 0]
    /\ UNCHANGED <<elapsed, shared, mip, sie, left, sample, todo>>

\* wait_timeout returns: the guard is dropped, the flag stays as it is.
WaitReturns(h) ==
    /\ pc[h] = "parked"
    /\ notified' = [notified EXCEPT ![h] = FALSE]
    /\ remaining' = [remaining EXCEPT ![h] = 0]
    /\ Goto(h, "run")
    /\ UNCHANGED <<elapsed, shared, flag, mip, sie, left, sample, timeout, todo>>

\* Mutant: wait instead of wait_timeout, so that only a notification ends it.
UnparkWithoutTimeout(h) == notified[h] /\ WaitReturns(h)

Unpark(h) == (notified[h] \/ remaining[h] = 0) /\ WaitReturns(h)

\* A condition variable may also wake without a reason.
SpuriousWake(h) == ~notified[h] /\ remaining[h] > 0 /\ WaitReturns(h)

-----------------------------------------------------------------------------
\* The host clock.  mtime saturates at the bound, sleeps keep running down.
Tick ==
    /\ \/ elapsed < MaxElapsed
       \/ \E h \in Harts : remaining[h] > 0
    /\ elapsed' = IF elapsed < MaxElapsed THEN elapsed + 1 ELSE elapsed
    /\ remaining' = [h \in Harts |->
                        IF remaining[h] > 0 THEN remaining[h] - 1 ELSE 0]
    /\ UNCHANGED <<shared, flag, notified, mip, sie, pc, left, sample, timeout,
                   todo>>

Guest(h) ==
    \/ \E v \in Deadlines : SetTimer(h, v)
    \/ \E t \in Harts, v \in MmioStores : StoreMtimecmp(h, t, v)
    \/ ClearIpi(h)
    \/ \E t \in Harts : StoreMsipZero(h, t)
    \/ \E base \in Harts \cup {-2, -1}, mask \in SUBSET (0 .. MaskBits - 1) :
          SendIpi(h, base, mask)
    \/ \E on \in BOOLEAN : SetSie(h, on)
    \/ \E level \in ExtLevels : PollInterrupts(h, level)
    \/ Wfi(h)

Host(h) ==
    \/ BatchStart(h) \/ SyncMip(h) \/ BatchEnd(h)
    \/ IpiStore(h) \/ IpiWake(h)
    \/ WfiSample(h) \/ WfiCheck(h) \/ WfiTimeout(h)
    \/ WaitForInterrupt(h) \/ Unpark(h)

Next ==
    \/ \E h \in Harts : Guest(h) \/ Host(h) \/ SpuriousWake(h)
    \/ Tick

\* Host threads are scheduled and the clock advances.
Fairness ==
    /\ \A h \in Harts : WF_vars(Guest(h) \/ Host(h))
    /\ WF_vars(Tick)

Spec == Init /\ [][Next]_vars
FairSpec == Spec /\ Fairness

-----------------------------------------------------------------------------
\* Every variable has the type its Rust counterpart has.
TypeOK ==
    /\ elapsed \in 0 .. MaxElapsed
    /\ msip \in [Harts -> {0, 1}]
    /\ mtimecmp \in [Harts -> Nat]
    /\ flag \in [Harts -> BOOLEAN]
    /\ notified \in [Harts -> BOOLEAN]
    /\ remaining \in [Harts -> Nat]
    /\ mip \in [Harts -> SUBSET Bits]
    /\ sie \in [Harts -> BOOLEAN]
    /\ pc \in [Harts -> Labels]
    /\ left \in [Harts -> 0 .. BatchSize]
    /\ sample \in [Harts -> Nat]
    /\ timeout \in [Harts -> Nat]
    /\ todo \in [Harts -> SUBSET Harts]

WakeInFlight(h) == \E g \in Harts : pc[g] = "wake" /\ NextTarget(g) = h

\* A hart sleeping in WFI that an IPI reached after it looked at msip has been
\* notified, or the sender is between its msip store and its wake() call: the
\* pending flag of HartWakeup closes the window between check and sleep.
NoLostIpi ==
    \A h \in Harts :
        (pc[h] = "parked" /\ msip[h] = 1 /\ "SSIP" \notin mip[h])
            => notified[h] \/ WakeInFlight(h)

\* A pending STIP is never stale while the hart's deadline is one it gave to
\* SBI set_timer: the deadline has really passed, although the CLINT sync only
\* ever sets the bit, from an mtime read earlier, and set_timer is the only
\* place that clears it.  (A plain store to mtimecmp leaves the bit alone.)
TimerBitJustified ==
    \A h \in Harts :
        "STIP" \in mip[h] /\ mtimecmp[h] \notin MmioStores => mtime >= mtimecmp[h]

\* An IPI reaches the target's mip (or is withdrawn by a store of 0), whatever
\* the target does: running, about to sleep or asleep.
IpiDelivered ==
    \A h \in Harts :
        msip[h] = 1 ~> ("SSIP" \in mip[h] \/ msip[h] = 0)

\* An expired timer reaches mip unless the deadline is moved: nobody wakes a
\* sleeping hart for its timer, so this rests on the WFI timeout.
TimerDelivered ==
    \A h \in Harts :
        mtime >= mtimecmp[h] ~> ("STIP" \in mip[h] \/ mtime < mtimecmp[h])
=============================================================================
