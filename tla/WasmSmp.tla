-------------------------------- MODULE WasmSmp --------------------------------
(***************************************************************************)
(* The WASM build with several harts: hart 0 runs in WasmVm::step on the   *)
(* main thread, the others in Web Workers that call                        *)
(* WorkerState::step_batch in a loop.  They share the control words and    *)
(* the CLINT words of one SharedArrayBuffer; each Atomics load, store,     *)
(* notify and wait on them is a step here, except where a step reads       *)
(* several words that only ever go from 0 to 1.                            *)
(*                                                                         *)
(* Time is a choice: a deadline passes, and a wait ends, at any moment.    *)
(* Atomics.wait compares and goes to sleep in one step (external).         *)
(***************************************************************************)
EXTENDS Integers, FiniteSets

CONSTANTS
    SmpWorkers,     \* the harts that run in workers; hart 0 is the main thread
    BatchLen,       \* batch_size
    HaltEvery, InterruptEvery,      \* HALT_CHECK_INTERVAL, INTERRUPT_CHECK_INTERVAL
    HaltCodes,      \* codes a guest writes to the test finisher, <<low, high>>
    MaxIpis         \* bound on the IPIs sent

ASSUME WasmSmpAssumption ==
    /\ 0 \notin SmpWorkers /\ BatchLen \in Nat \ {0} /\ MaxIpis \in Nat
    /\ HaltEvery \in Nat \ {0} /\ InterruptEvery \in Nat \ {0}
    /\ HaltCodes \subseteq Nat \X Nat

VARIABLES
    canStart, haltReq, haltFlag, haltCode,  \* the control words
    msip, due,      \* the CLINT words; due: mtime >= mtimecmp
    smp,            \* smp[h]: where the thread of hart h is, with its locals
    ssip, stip,     \* SSIP and STIP of the hart's mip
    vmHalt,         \* WasmVm.halted and halt_code
    sentIpis, signalled     \* history: IPIs so far, codes passed to signal_halted

smpVars == <<canStart, haltReq, haltFlag, haltCode, msip, due, smp, ssip, stip,
             vmHalt, sentIpis, signalled>>
clintWords == <<msip, due>>
controlWords == <<canStart, haltReq, haltFlag, haltCode>>
smpHistory == <<sentIpis, signalled>>

SmpHarts == {0} \cup SmpWorkers
NoCode == <<0, 0>>
Dead == <<57005, 0>>        \* 0xDEAD
ShouldStop == haltReq \/ haltFlag

\* init_shared_memory; no worker yet.
SmpInit ==
    /\ canStart = FALSE /\ haltReq = FALSE /\ haltFlag = FALSE /\ haltCode = NoCode
    /\ msip = [h \in SmpHarts |-> FALSE] /\ due = [h \in SmpHarts |-> FALSE]
    /\ smp = [h \in SmpHarts |-> [at |-> IF h = 0 THEN "idle" ELSE "off"]]
    /\ ssip = [h \in SmpHarts |-> FALSE] /\ stip = [h \in SmpHarts |-> FALSE]
    /\ vmHalt = [halted |-> FALSE, code |-> NoCode]
    /\ sentIpis = 0 /\ signalled = {}

SmpAt(h, place) == smp[h].at = place
SmpGoto(h, place) == smp' = [smp EXCEPT ![h].at = place]

\* deliver_interrupts: bits are set, never cleared, here.
DeliverInterrupts(h) ==
    /\ ssip' = [ssip EXCEPT ![h] = @ \/ msip[h]]
    /\ stip' = [stip EXCEPT ![h] = @ \/ due[h]]

-----------------------------------------------------------------------------
(* The main thread around WasmVm: start_workers, allow_workers_to_start and *)
(* terminate_workers, and the passing of time.                              *)

StartWorkers ==
    /\ SmpAt(0, "idle") /\ \A w \in SmpWorkers : SmpAt(w, "off")
    /\ smp' = [h \in SmpHarts |->
                 IF h = 0 THEN smp[0] ELSE [at |-> "batch", left |-> 0, started |-> FALSE]]
    /\ ssip' = [h \in SmpHarts |-> h = 0 /\ ssip[0]]
    /\ stip' = [h \in SmpHarts |-> h = 0 /\ stip[0]]
    /\ UNCHANGED <<controlWords, clintWords, vmHalt, smpHistory>>

\* The store and the notify; a parked worker would also time out by itself.
AllowWorkersToStart ==
    /\ SmpAt(0, "idle") /\ ~canStart
    /\ canStart' = TRUE
    /\ smp' = [h \in SmpHarts |-> IF SmpAt(h, "parked") THEN [smp[h] EXCEPT !.at = "batch"] ELSE smp[h]]
    /\ UNCHANGED <<haltReq, haltFlag, haltCode, clintWords, ssip, stip, vmHalt, smpHistory>>

\* The worker threads are killed wherever they are.
TerminateWorkers ==
    /\ SmpAt(0, "idle") /\ ~haltReq
    /\ haltReq' = TRUE
    /\ smp' = [h \in SmpHarts |-> IF h = 0 THEN smp[0] ELSE [at |-> "off"]]
    /\ UNCHANGED <<canStart, haltFlag, haltCode, clintWords, ssip, stip, vmHalt, smpHistory>>

\* Another holder of the control words asks for the end (request_halt).
RequestHalt ==
    /\ ~haltReq
    /\ haltReq' = TRUE
    /\ UNCHANGED <<canStart, haltFlag, haltCode, clintWords, smp, ssip, stip, vmHalt, smpHistory>>

DeadlinePasses(h) ==
    /\ ~due[h]
    /\ due' = [due EXCEPT ![h] = TRUE]
    /\ UNCHANGED <<controlWords, msip, smp, ssip, stip, vmHalt, smpHistory>>

-----------------------------------------------------------------------------
(* WorkerState::step_batch up to the instruction.                           *)

BatchStart(w) ==
    /\ SmpAt(w, "batch")
    /\ IF ShouldStop
       THEN SmpGoto(w, "done") /\ UNCHANGED <<ssip, stip>>
       ELSE IF ~smp[w].started /\ ~canStart
       THEN SmpGoto(w, "parked") /\ UNCHANGED <<ssip, stip>>
       ELSE /\ smp' = [smp EXCEPT ![w] = [at |-> "top", left |-> BatchLen, started |-> TRUE]]
            /\ DeliverInterrupts(w)
    /\ UNCHANGED <<controlWords, clintWords, vmHalt, smpHistory>>

\* wait_brief ends; step_batch returns Continue and is called again.
Unpark(w) ==
    /\ SmpAt(w, "parked")
    /\ SmpGoto(w, "batch")
    /\ UNCHANGED <<controlWords, clintWords, ssip, stip, vmHalt, smpHistory>>

\* The head of the loop over the batch, and the end of the batch.
BatchTop(w) ==
    /\ SmpAt(w, "top")
    /\ LET i == BatchLen - smp[w].left
           stop == i > 0 /\ i % HaltEvery = 0 /\ ShouldStop
       IN /\ SmpGoto(w, IF smp[w].left = 0 THEN "batch" ELSE IF stop THEN "done" ELSE "insn")
          /\ IF smp[w].left = 0 \/ (~stop /\ i > 0 /\ i % InterruptEvery = 0)
             THEN DeliverInterrupts(w) ELSE UNCHANGED <<ssip, stip>>
    /\ UNCHANGED <<controlWords, clintWords, vmHalt, smpHistory>>

(* WasmVm::step up to the instruction: a halt signalled by a worker is      *)
(* copied, HALTED first and then the two halves of the code; the periodic   *)
(* poll delivers interrupts.                                                *)
MainStep ==
    /\ SmpAt(0, "idle") /\ ~vmHalt.halted
    /\ IF haltFlag
       THEN SmpGoto(0, "copylow") /\ UNCHANGED <<ssip, stip>>
       ELSE SmpGoto(0, "insn") /\ (UNCHANGED <<ssip, stip>> \/ DeliverInterrupts(0))
    /\ UNCHANGED <<controlWords, clintWords, vmHalt, smpHistory>>

CopyLow ==
    /\ SmpAt(0, "copylow")
    /\ smp' = [smp EXCEPT ![0] = [at |-> "copyhigh", low |-> haltCode[1]]]
    /\ UNCHANGED <<controlWords, clintWords, ssip, stip, vmHalt, smpHistory>>

CopyHigh ==
    /\ SmpAt(0, "copyhigh")
    /\ vmHalt' = [halted |-> TRUE, code |-> <<smp[0].low, haltCode[2]>>]
    /\ smp' = [smp EXCEPT ![0] = [at |-> "idle"]]
    /\ UNCHANGED <<controlWords, clintWords, ssip, stip, smpHistory>>

-----------------------------------------------------------------------------
(* The instruction (cpu.step): what a guest can do to the shared words.     *)

\* The rest of the loop after an instruction.
After(h) ==
    IF h = 0 THEN [at |-> "idle"]
    ELSE [at |-> "top", left |-> smp[h].left - 1, started |-> TRUE]
SmpDone(h) == smp' = [smp EXCEPT ![h] = After(h)]

Compute(h) ==
    /\ SmpAt(h, "insn")
    /\ SmpDone(h)
    /\ UNCHANGED <<controlWords, clintWords, ssip, stip, vmHalt, smpHistory>>

\* A store of 1 to an msip word: SharedClint::store, then its notify.
SendIpi(h, to) ==
    /\ SmpAt(h, "insn") /\ sentIpis < MaxIpis
    /\ sentIpis' = sentIpis + 1
    /\ msip' = [msip EXCEPT ![to] = TRUE]
    /\ smp' = [smp EXCEPT ![h] = [at |-> "notify", to |-> to, then |-> After(h)]]
    /\ UNCHANGED <<controlWords, due, ssip, stip, vmHalt, signalled>>

NotifyHart(h) ==
    /\ SmpAt(h, "notify")
    /\ smp' = [g \in SmpHarts |->
                 IF g = h THEN smp[h].then
                 ELSE IF g = smp[h].to /\ SmpAt(g, "asleep") THEN [smp[g] EXCEPT !.at = "awake"]
                 ELSE smp[g]]
    /\ UNCHANGED <<controlWords, clintWords, ssip, stip, vmHalt, smpHistory>>

\* A store of 0 to its own msip word, and the guest's write to sip.
ClearMsip(h) ==
    /\ SmpAt(h, "insn") /\ msip[h]
    /\ msip' = [msip EXCEPT ![h] = FALSE]
    /\ SmpDone(h)
    /\ UNCHANGED <<controlWords, due, ssip, stip, vmHalt, smpHistory>>
ClearSsip(h) ==
    /\ SmpAt(h, "insn") /\ ssip[h]
    /\ ssip' = [ssip EXCEPT ![h] = FALSE]
    /\ SmpDone(h)
    /\ UNCHANGED <<controlWords, clintWords, stip, vmHalt, smpHistory>>

\* SBI set_timer.
SetTimer(h) ==
    /\ SmpAt(h, "insn") /\ due[h]
    /\ due' = [due EXCEPT ![h] = FALSE]
    /\ stip' = [stip EXCEPT ![h] = FALSE]
    /\ SmpDone(h)
    /\ UNCHANGED <<controlWords, msip, ssip, vmHalt, smpHistory>>

-----------------------------------------------------------------------------
(* WFI.                                                                     *)

\* check_interrupts: something pending is delivered; if the guest has masked it
\* the thread waits 1 ms on the msip word (which ends at once if that is 1).
Wfi(h) ==
    /\ SmpAt(h, "insn")
    /\ IF msip[h] \/ due[h]
       THEN DeliverInterrupts(h) /\ (SmpDone(h) \/ (~msip[h] /\ SmpGoto(h, "nap")))
       ELSE SmpGoto(h, IF h = 0 THEN "wait" ELSE "recheck") /\ UNCHANGED <<ssip, stip>>
    /\ UNCHANGED <<controlWords, clintWords, vmHalt, smpHistory>>

EndNap(h) ==
    /\ SmpAt(h, "nap")
    /\ SmpDone(h)
    /\ UNCHANGED <<controlWords, clintWords, ssip, stip, vmHalt, smpHistory>>

\* The look at msip before the wait (workers only).
Recheck(w) ==
    /\ SmpAt(w, "recheck")
    /\ IF msip[w] THEN DeliverInterrupts(w) /\ SmpDone(w) ELSE SmpGoto(w, "wait") /\ UNCHANGED <<ssip, stip>>
    /\ UNCHANGED <<controlWords, clintWords, vmHalt, smpHistory>>

\* Mutant: the wait does not compare the word it waits on.
WaitBlindly(h) ==
    /\ SmpAt(h, "wait")
    /\ SmpGoto(h, "asleep")
    /\ UNCHANGED <<controlWords, clintWords, ssip, stip, vmHalt, smpHistory>>

\* Atomics.wait(msip, 0): "not-equal" at once, or asleep.
WaitMsip(h) ==
    /\ SmpAt(h, "wait")
    /\ SmpGoto(h, IF msip[h] THEN "awake" ELSE "asleep")
    /\ UNCHANGED <<controlWords, clintWords, ssip, stip, vmHalt, smpHistory>>

TimeOut(h) ==
    /\ SmpAt(h, "asleep")
    /\ SmpGoto(h, "awake")
    /\ UNCHANGED <<controlWords, clintWords, ssip, stip, vmHalt, smpHistory>>

\* A worker delivers what woke it and goes on, or returns Wfi and is called
\* again; hart 0 just returns.
Awake(h) ==
    /\ SmpAt(h, "awake")
    /\ IF h = 0 THEN SmpDone(h) /\ UNCHANGED <<ssip, stip>>
       ELSE IF msip[h] \/ due[h] THEN DeliverInterrupts(h) /\ SmpDone(h)
       ELSE SmpGoto(h, "batch") /\ UNCHANGED <<ssip, stip>>
    /\ UNCHANGED <<controlWords, clintWords, vmHalt, smpHistory>>

-----------------------------------------------------------------------------
(* Trap::RequestedTrap and Trap::Fatal: signal_halted stores the halves of  *)
(* the code and then HALTED.  Hart 0 sets its own flag first, and its own   *)
(* code only for a requested trap.                                          *)
StopWith(h, code, own) ==
    /\ SmpAt(h, "insn")
    /\ smp' = [smp EXCEPT ![h] = [at |-> "low", code |-> code]]
    /\ vmHalt' = IF h = 0 THEN [halted |-> TRUE, code |-> own] ELSE vmHalt
    /\ signalled' = signalled \cup {code}
    /\ UNCHANGED <<controlWords, clintWords, ssip, stip, sentIpis>>
RequestedTrap(h, code) == StopWith(h, code, code)
Fatal(h) == StopWith(h, Dead, vmHalt.code)

\* Mutant: HALTED is stored before the code.
FlagFirst(h) ==
    /\ SmpAt(h, "low")
    /\ haltFlag' = TRUE
    /\ SmpGoto(h, "high")
    /\ UNCHANGED <<canStart, haltReq, haltCode, clintWords, ssip, stip, vmHalt, smpHistory>>

StoreCodeLow(h) ==
    /\ SmpAt(h, "low")
    /\ haltCode' = <<smp[h].code[1], haltCode[2]>>
    /\ SmpGoto(h, "high")
    /\ UNCHANGED <<canStart, haltReq, haltFlag, clintWords, ssip, stip, vmHalt, smpHistory>>

StoreCodeHigh(h) ==
    /\ SmpAt(h, "high")
    /\ haltCode' = <<haltCode[1], smp[h].code[2]>>
    /\ SmpGoto(h, "flag")
    /\ UNCHANGED <<canStart, haltReq, haltFlag, clintWords, ssip, stip, vmHalt, smpHistory>>

StoreHalted(h) ==
    /\ SmpAt(h, "flag")
    /\ haltFlag' = TRUE
    /\ smp' = [smp EXCEPT ![h] = [at |-> IF h = 0 THEN "idle" ELSE "done"]]
    /\ UNCHANGED <<canStart, haltReq, haltCode, clintWords, ssip, stip, vmHalt, smpHistory>>

-----------------------------------------------------------------------------
\* One step of the thread of hart h.
HostStep(h) ==
    \/ NotifyHart(h) \/ EndNap(h) \/ WaitMsip(h) \/ TimeOut(h) \/ Awake(h)
    \/ StoreCodeLow(h) \/ StoreCodeHigh(h) \/ StoreHalted(h)
WorkerHost(w) == BatchStart(w) \/ Unpark(w) \/ BatchTop(w) \/ Recheck(w)
GuestStep(h) ==
    \/ Compute(h) \/ ClearMsip(h) \/ ClearSsip(h) \/ SetTimer(h) \/ Wfi(h) \/ Fatal(h)
    \/ \E to \in SmpHarts \ {h} : SendIpi(h, to)
    \/ \E code \in HaltCodes : RequestedTrap(h, code)
Main == MainStep \/ CopyLow \/ CopyHigh

SmpNext ==
    \/ StartWorkers \/ AllowWorkersToStart \/ TerminateWorkers \/ RequestHalt
    \/ Main
    \/ \E h \in SmpHarts : DeadlinePasses(h) \/ HostStep(h) \/ GuestStep(h)
    \/ \E w \in SmpWorkers : WorkerHost(w)

SmpSpec == SmpInit /\ [][SmpNext]_smpVars

-----------------------------------------------------------------------------
\* No lost wake-up: a hart sleeps on its msip word with an IPI in it only while
\* the sender is between its store and its notify, or was killed there by
\* terminate_workers.
NoLostWakeup ==
    \A h \in SmpHarts :
        SmpAt(h, "asleep") /\ msip[h] /\ ~haltReq =>
            \E g \in SmpHarts : SmpAt(g, "notify") /\ smp[g].to = h

\* When HALTED can be seen, the code next to it was passed whole to signal_halted
\* by some hart, and so is the code WasmVm copies (hart 0 keeps 0 for its own
\* Fatal): as long as the harts that signal agree on the upper half, as they do
\* when the test finisher is written with 32 bits.
HaltCodeComplete ==
    (\A c, d \in signalled : c[2] = d[2]) =>
        /\ haltFlag => haltCode \in signalled
        /\ vmHalt.halted => vmHalt.code \in signalled \/ (vmHalt.code = NoCode /\ Dead \in signalled)

=============================================================================
