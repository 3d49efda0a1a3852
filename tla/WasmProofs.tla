------------------------------ MODULE WasmProofs ------------------------------
(***************************************************************************)
(* The shared memory of the WASM build, for any number of workers.         *)
(*                                                                         *)
(* NoLostWakeup is inductive once the records of the threads are typed.    *)
(* HaltCodeComplete is not: what a hart between the stores of              *)
(* signal_halted, and hart 0 between its loads, still have to do must be   *)
(* known, half by half.  The refinement of Fifo rests on where the writer  *)
(* and the reader are in the ring, as distances from the two indices.      *)
(***************************************************************************)
EXTENDS WasmSmp, SharedUart, TLAPS

Codes == HaltCodes \cup {Dead}

\* The records a thread goes through: hart 0 between calls and at an
\* instruction, a worker in its loop, and the detours of both.
Quiet == [at : {"idle", "off", "done", "copylow", "insn", "nap", "wait", "asleep", "awake"}]
Looping ==
    [at : {"batch", "parked", "top", "insn", "nap", "recheck", "wait", "asleep", "awake", "done"},
     left : Int, started : BOOLEAN]
Copying == [at : {"copyhigh"}, low : Nat]
Resumed == [at : {"idle"}] \cup [at : {"top"}, left : Int, started : BOOLEAN]
Notifying == [at : {"notify"}, to : SmpHarts, then : Resumed]
Halting == [at : {"low", "high", "flag"}, code : Codes]
Threads == Quiet \cup Looping \cup Copying \cup Notifying \cup Halting

\* A worker that runs has its batch in its record.
WorkerRecord(r) ==
    /\ r \in Quiet => r.at \in {"off", "done"}
    /\ r \in Notifying => r.then \in Looping

SmpTyped ==
    /\ smp \in [SmpHarts -> Threads]
    /\ \A w \in SmpWorkers : WorkerRecord(smp[w])
    /\ haltCode \in Nat \X Nat
    /\ msip \in [SmpHarts -> BOOLEAN]
    /\ vmHalt \in [halted : BOOLEAN, code : Nat \X Nat]
    /\ signalled \subseteq Codes

\* A hart in signal_halted has put its code on record.
HasSignalled == \A h \in SmpHarts : smp[h].at \in {"low", "high", "flag"} => smp[h].code \in signalled

\* Once a hart is past the store of a half, or HALTED is set, that half is of a
\* signalled code.
LowStored ==
    (haltFlag \/ \E h \in SmpHarts : smp[h].at \in {"high", "flag"}) =>
        \E c \in signalled : haltCode[1] = c[1]
HighStored ==
    (haltFlag \/ \E h \in SmpHarts : smp[h].at = "flag") =>
        \E c \in signalled : haltCode[2] = c[2]

\* Hart 0 copies a code only after it has seen HALTED.
Copied ==
    /\ smp[0].at = "copylow" => haltFlag
    /\ smp[0].at = "copyhigh" => haltFlag /\ \E c \in signalled : smp[0].low = c[1]

\* What WasmVm has kept: the halves of signalled codes, or 0 for its own Fatal.
Kept ==
    IF vmHalt.halted
    THEN \/ \E c, d \in signalled : vmHalt.code = <<c[1], d[2]>>
         \/ vmHalt.code = NoCode /\ Dead \in signalled
    ELSE vmHalt.code = NoCode

SmpInv ==
    /\ SmpTyped /\ NoLostWakeup
    /\ HasSignalled /\ LowStored /\ HighStored /\ Copied /\ Kept

-----------------------------------------------------------------------------
LEMMA CodesArePairs ==
  ASSUME NEW c \in Codes
  PROVE  c \in Nat \X Nat /\ c = <<c[1], c[2]>> /\ c[1] \in Nat /\ c[2] \in Nat
  BY WasmSmpAssumption DEF Codes, Dead

\* What the place of a thread tells about its record.
LEMMA PlaceShape ==
  ASSUME NEW r \in Threads
  PROVE  /\ r.at \in {"low", "high", "flag"} => r \in Halting
         /\ r.at = "notify" => r \in Notifying
         /\ r.at = "copyhigh" => r \in Copying
         /\ r.at \in {"copylow", "idle"} => r \in Quiet
         /\ r.at \in {"batch", "parked", "top", "recheck"} => r \in Looping
         /\ r.at \in {"insn", "nap", "wait", "asleep", "awake"} => r \in Quiet \cup Looping
  BY DEF Threads, Quiet, Looping, Copying, Notifying, Halting

\* Moving a thread to another place keeps the rest of its record.
LEMMA Moved ==
  ASSUME NEW r \in Threads, NEW place
  PROVE  /\ [r EXCEPT !.at = place].at = place
         /\ r \in Halting /\ place \in {"low", "high", "flag"} =>
              [r EXCEPT !.at = place] \in Halting /\ [r EXCEPT !.at = place].code = r.code
         /\ r \in Quiet /\ place \in {"idle", "off", "done", "copylow", "insn", "nap", "wait", "asleep", "awake"} =>
              [r EXCEPT !.at = place] \in Quiet
         /\ r \in Looping /\ place \in {"batch", "parked", "top", "insn", "nap", "recheck", "wait", "asleep", "awake", "done"} =>
              [r EXCEPT !.at = place] \in Looping
<1>1. r = [f \in DOMAIN r |-> r[f]] /\ "at" \in DOMAIN r
  BY DEF Threads, Quiet, Looping, Copying, Notifying, Halting
<1> QED BY <1>1 DEF Quiet, Looping, Halting

-----------------------------------------------------------------------------
(* Most steps move one thread and touch none of the words the invariant is  *)
(* about.                                                                   *)
LocalMove(h, r) ==
    /\ smp' = [smp EXCEPT ![h] = r]
    /\ r \in Quiet \cup Looping
    /\ smp[h].at \notin {"notify", "high", "flag"}
    /\ r.at = "asleep" => ~msip[h]
    /\ h = 0 /\ r.at = "copylow" => haltFlag
    /\ h # 0 => WorkerRecord(r)
    /\ UNCHANGED <<haltReq, haltFlag, haltCode, msip, vmHalt, signalled>>

LEMMA LocalMoveStep ==
  ASSUME SmpInv, NEW h \in SmpHarts, NEW r, LocalMove(h, r)
  PROVE  SmpInv'
<1> USE DEF SmpInv
<1>1. /\ smp'[h] = r
      /\ \A g \in SmpHarts : g # h => smp'[g] = smp[g]
      /\ r \in Threads
      /\ r.at \notin {"low", "high", "flag", "notify", "copyhigh"}
  BY DEF LocalMove, SmpTyped, Threads, Quiet, Looping
<1>2. SmpTyped'
  <2>1. smp' \in [SmpHarts -> Threads]
    BY <1>1 DEF LocalMove, SmpTyped
  <2>2. \A w \in SmpWorkers : WorkerRecord(smp[w])'
    BY <1>1, WasmSmpAssumption DEF LocalMove, SmpTyped, SmpHarts, WorkerRecord
  <2> QED BY <2>1, <2>2 DEF LocalMove, SmpTyped
<1>3. NoLostWakeup'
  BY <1>1 DEF NoLostWakeup, LocalMove, SmpAt
<1>4. HasSignalled'
  BY <1>1 DEF HasSignalled, LocalMove
<1>5. LowStored' /\ HighStored'
  BY <1>1 DEF LowStored, HighStored, LocalMove
<1>6. Copied'
  BY <1>1 DEF Copied, LocalMove, SmpHarts
<1>7. Kept'
  BY DEF Kept, LocalMove
<1> QED BY <1>2, <1>3, <1>4, <1>5, <1>6, <1>7

\* The thread of h goes to a place of the same record.
LEMMA GotoMoves ==
  ASSUME SmpInv, NEW h \in SmpHarts, NEW place, SmpGoto(h, place),
         \/ /\ smp[h] \in Looping
            /\ place \in {"batch", "parked", "top", "insn", "nap", "recheck", "wait", "asleep", "awake", "done"}
         \/ /\ h = 0 /\ smp[h] \in Quiet
            /\ place \in {"copylow", "insn", "nap", "wait", "asleep", "awake"},
         place = "asleep" => ~msip[h],
         place = "copylow" => haltFlag,
         UNCHANGED <<haltReq, haltFlag, haltCode, msip, vmHalt, signalled>>
  PROVE  SmpInv'
<1> DEFINE r == [smp[h] EXCEPT !.at = place]
<1>1. smp[h] \in Threads
  BY DEF SmpInv, SmpTyped
<1>2. r.at = place
  BY <1>1, Moved
<1>3. r \in Quiet \cup Looping
  BY <1>1, Moved
<1>4. h # 0 => WorkerRecord(r)
  BY <1>1, Moved DEF WorkerRecord, Looping, Quiet, Notifying
<1>5. smp[h].at \notin {"notify", "high", "flag"}
  BY DEF Looping, Quiet
<1>6. smp' = [smp EXCEPT ![h] = r]
  BY DEF SmpGoto
<1>7. LocalMove(h, r)
  <2> HIDE DEF r
  <2> QED BY <1>2, <1>3, <1>4, <1>5, <1>6 DEF LocalMove
<1> QED BY <1>7, LocalMoveStep

\* The record an instruction leaves.
LEMMA AfterShape ==
  ASSUME SmpInv, NEW h \in SmpHarts, smp[h].at \in {"insn", "nap", "recheck", "awake"}
  PROVE  /\ After(h) \in Resumed /\ After(h) \in Quiet \cup Looping
         /\ h # 0 => WorkerRecord(After(h)) /\ After(h) \in Looping
         /\ After(h).at \in {"idle", "top"}
<1>1. smp[h] \in Threads /\ (h # 0 => WorkerRecord(smp[h]))
  BY DEF SmpInv, SmpTyped, SmpHarts
<1>2. h # 0 => smp[h] \in Looping
  BY <1>1, PlaceShape DEF WorkerRecord
<1>3. CASE h = 0
  BY <1>3 DEF After, Resumed, Quiet
<1>4. CASE h # 0
  <2>1. smp[h].left \in Int
    BY <1>2, <1>4 DEF Looping
  <2> QED BY <2>1, <1>4 DEF After, Resumed, Looping, Quiet, Notifying, WorkerRecord
<1> QED BY <1>3, <1>4

LEMMA DoneMoves ==
  ASSUME SmpInv, NEW h \in SmpHarts, SmpDone(h),
         smp[h].at \in {"insn", "nap", "recheck", "awake"},
         UNCHANGED <<haltReq, haltFlag, haltCode, msip, vmHalt, signalled>>
  PROVE  SmpInv'
<1>1. LocalMove(h, After(h))
  BY AfterShape DEF LocalMove, SmpDone
<1> QED BY <1>1, LocalMoveStep

LEMMA LocalSteps ==
  ASSUME SmpInv, NEW h \in SmpHarts,
         \/ (h # 0 /\ WorkerHost(h)) \/ (h = 0 /\ MainStep)
         \/ EndNap(h) \/ WaitMsip(h) \/ TimeOut(h) \/ Awake(h)
         \/ Compute(h) \/ ClearSsip(h) \/ SetTimer(h) \/ Wfi(h)
  PROVE  SmpInv'
<1> USE DEF controlWords, clintWords, smpHistory, SmpAt
<1>1. /\ smp[h] \in Threads
      /\ h # 0 /\ smp[h].at \in {"batch", "parked", "top", "insn", "nap", "recheck",
                                  "wait", "asleep", "awake"} => smp[h] \in Looping
      /\ h = 0 /\ smp[h].at \in {"idle", "insn", "wait", "asleep"} => smp[h] \in Quiet \cup Looping
  BY PlaceShape, WasmSmpAssumption DEF SmpInv, SmpTyped, SmpHarts, WorkerRecord
<1>2. CASE h # 0 /\ WorkerHost(h)
  <2>1. CASE BatchStart(h) /\ ShouldStop
    BY <1>1, <1>2, <2>1, GotoMoves DEF BatchStart
  <2>2. CASE BatchStart(h) /\ ~ShouldStop /\ ~smp[h].started /\ ~canStart
    BY <1>1, <1>2, <2>2, GotoMoves DEF BatchStart
  <2>3. CASE BatchStart(h) /\ ~ShouldStop /\ ~(~smp[h].started /\ ~canStart)
    <3> DEFINE r == [at |-> "top", left |-> BatchLen, started |-> TRUE]
    <3>1. r \in Looping /\ WorkerRecord(r)
      BY WasmSmpAssumption DEF Looping, WorkerRecord, Quiet, Notifying
    <3>2. LocalMove(h, r)
      BY <1>1, <1>2, <2>3, <3>1 DEF BatchStart, LocalMove
    <3> QED BY <3>2, LocalMoveStep
  <2>4. CASE Unpark(h)
    BY <1>1, <1>2, <2>4, GotoMoves DEF Unpark
  <2>5. CASE BatchTop(h)
    <3>1. PICK place \in {"batch", "done", "insn"} : SmpGoto(h, place)
      BY <2>5 DEF BatchTop
    <3> QED BY <1>1, <1>2, <2>5, <3>1, GotoMoves DEF BatchTop
  <2>6. CASE Recheck(h) /\ msip[h]
    BY <2>6, DoneMoves DEF Recheck
  <2>7. CASE Recheck(h) /\ ~msip[h]
    BY <1>1, <1>2, <2>7, GotoMoves DEF Recheck
  <2> QED BY <1>2, <2>1, <2>2, <2>3, <2>4, <2>5, <2>6, <2>7 DEF WorkerHost
<1>3. CASE h = 0 /\ MainStep
  <2>1. smp[0] \in Quiet
    BY <1>1, <1>3, PlaceShape DEF MainStep
  <2>2. PICK place \in {"copylow", "insn"} : SmpGoto(0, place) /\ (place = "copylow" => haltFlag)
    BY <1>3 DEF MainStep
  <2> QED BY <1>3, <2>1, <2>2, GotoMoves DEF MainStep
<1>4. CASE EndNap(h)
  BY <1>4, DoneMoves DEF EndNap
<1>5. CASE Compute(h) \/ ClearSsip(h) \/ SetTimer(h)
  BY <1>5, DoneMoves DEF Compute, ClearSsip, SetTimer
<1>6. CASE Awake(h)
  <2>1. CASE SmpDone(h)
    BY <1>6, <2>1, DoneMoves DEF Awake
  <2>2. CASE h # 0 /\ SmpGoto(h, "batch")
    BY <1>1, <1>6, <2>2, GotoMoves DEF Awake
  <2> QED BY <1>6, <2>1, <2>2 DEF Awake
<1> DEFINE Waits == {"nap", "recheck", "wait", "asleep", "awake"}
<1>7. ASSUME NEW place \in Waits, SmpGoto(h, place), h = 0 => place # "recheck",
             smp[h].at \in {"insn", "wait", "asleep"}, place = "asleep" => ~msip[h],
             UNCHANGED <<haltReq, haltFlag, haltCode, msip, vmHalt, signalled>>
      PROVE  SmpInv'
  BY <1>1, <1>7, GotoMoves
<1>8. CASE WaitMsip(h) \/ TimeOut(h)
  BY <1>7, <1>8 DEF WaitMsip, TimeOut
<1>9. CASE Wfi(h)
  <2>1. CASE SmpDone(h)
    BY <1>9, <2>1, DoneMoves DEF Wfi
  <2>2. CASE SmpGoto(h, "nap")
    BY <1>7, <1>9, <2>2 DEF Wfi
  <2>3. CASE SmpGoto(h, IF h = 0 THEN "wait" ELSE "recheck")
    BY <1>7, <1>9, <2>3 DEF Wfi
  <2> QED BY <1>9, <2>1, <2>2, <2>3 DEF Wfi
<1> QED BY <1>2, <1>3, <1>4, <1>5, <1>6, <1>8, <1>9

-----------------------------------------------------------------------------
(* The main thread around WasmVm.                                           *)

LEMMA MainThreadSteps ==
  ASSUME SmpInv, StartWorkers \/ AllowWorkersToStart \/ TerminateWorkers \/ RequestHalt
  PROVE  SmpInv'
<1> USE DEF SmpInv, SmpAt, controlWords, clintWords, smpHistory
<1>1. /\ 0 \in SmpHarts /\ smp[0] \in Threads
      /\ \A h \in SmpHarts : smp[h] \in Threads
      /\ SmpWorkers \subseteq SmpHarts /\ 0 \notin SmpWorkers
      /\ \A h \in SmpHarts : h # 0 => h \in SmpWorkers
  BY WasmSmpAssumption DEF SmpTyped, SmpHarts
<1>2. CASE StartWorkers
  <2> DEFINE r == [at |-> "batch", left |-> 0, started |-> FALSE]
  <2>1. r \in Looping /\ r \in Threads /\ WorkerRecord(r)
    BY DEF Looping, Threads, WorkerRecord, Quiet, Notifying
  <2>2. /\ smp'[0] = smp[0] /\ smp[0].at = "idle"
        /\ \A h \in SmpHarts : h # 0 => smp'[h] = r /\ smp[h].at = "off"
        /\ smp' \in [SmpHarts -> Threads]
    BY <1>1, <1>2, <2>1 DEF StartWorkers
  <2>3. SmpTyped'
    BY <1>1, <1>2, <2>1, <2>2 DEF StartWorkers, SmpTyped
  <2>4. \A h \in SmpHarts : smp'[h].at \in {"idle", "batch"}
    BY <2>2
  <2>5. NoLostWakeup' /\ HasSignalled' /\ Copied'
    BY <1>1, <2>4 DEF NoLostWakeup, HasSignalled, Copied
  <2>6. LowStored' /\ HighStored' /\ Kept'
    BY <1>2, <2>4 DEF LowStored, HighStored, Kept, StartWorkers
  <2> QED BY <2>3, <2>5, <2>6
<1>3. CASE AllowWorkersToStart
  <2>1. \A h \in SmpHarts :
            IF smp[h].at = "parked"
            THEN /\ smp'[h] = [smp[h] EXCEPT !.at = "batch"] /\ smp'[h].at = "batch"
                 /\ smp'[h] \in Looping
            ELSE smp'[h] = smp[h]
    BY <1>1, <1>3, PlaceShape, Moved DEF AllowWorkersToStart
  <2>2. smp' \in [SmpHarts -> Threads]
    BY <1>1, <1>3, <2>1 DEF AllowWorkersToStart, Threads
  <2>3. \A w \in SmpWorkers : WorkerRecord(smp[w])'
    BY <1>1, <2>1 DEF SmpTyped, WorkerRecord, Looping, Quiet, Notifying
  <2>4. SmpTyped'
    BY <1>3, <2>2, <2>3 DEF AllowWorkersToStart, SmpTyped
  <2>5. \A h \in SmpHarts : smp'[h].at # "batch" => smp'[h] = smp[h]
    BY <2>1
  <2>6. \A h \in SmpHarts : smp[h].at # "parked" => smp'[h] = smp[h]
    BY <2>1
  <2>7. NoLostWakeup'
    BY <1>3, <2>5, <2>6 DEF NoLostWakeup, AllowWorkersToStart
  <2>8. HasSignalled' /\ LowStored' /\ HighStored'
    BY <1>3, <2>5 DEF HasSignalled, LowStored, HighStored, AllowWorkersToStart
  <2>9. Copied' /\ Kept'
    BY <1>1, <1>3, <2>6 DEF Copied, Kept, AllowWorkersToStart
  <2> QED BY <2>4, <2>7, <2>8, <2>9
<1>4. CASE TerminateWorkers
  <2> DEFINE r == [at |-> "off"]
  <2>1. r \in Threads /\ WorkerRecord(r)
    BY DEF Threads, WorkerRecord, Quiet, Notifying
  <2>2. /\ smp'[0] = smp[0] /\ smp[0].at = "idle"
        /\ \A h \in SmpHarts : h # 0 => smp'[h] = r
        /\ smp' \in [SmpHarts -> Threads]
    BY <1>1, <1>4, <2>1 DEF TerminateWorkers
  <2>3. SmpTyped'
    BY <1>1, <1>4, <2>1, <2>2 DEF TerminateWorkers, SmpTyped
  <2>4. \A h \in SmpHarts : smp'[h].at \in {"idle", "off"}
    BY <2>2
  <2>5. NoLostWakeup' /\ HasSignalled' /\ Copied'
    BY <1>1, <2>4 DEF NoLostWakeup, HasSignalled, Copied
  <2>6. LowStored' /\ HighStored' /\ Kept'
    BY <1>4, <2>4 DEF LowStored, HighStored, Kept, TerminateWorkers
  <2> QED BY <2>3, <2>5, <2>6
<1>5. CASE RequestHalt
  BY <1>5 DEF RequestHalt, SmpTyped, NoLostWakeup, HasSignalled, LowStored, HighStored, Copied, Kept
<1> QED BY <1>2, <1>3, <1>4, <1>5

\* Hart 0 copies the code a worker signalled.
LEMMA CopySteps ==
  ASSUME SmpInv, CopyLow \/ CopyHigh
  PROVE  SmpInv'
<1> USE DEF SmpInv, SmpAt, controlWords, clintWords, smpHistory
<1>1. /\ 0 \in SmpHarts /\ smp[0] \in Threads /\ 0 \notin SmpWorkers /\ SmpWorkers \subseteq SmpHarts
      /\ haltFlag
  BY WasmSmpAssumption DEF SmpTyped, SmpHarts, Copied, CopyLow, CopyHigh
<1>2. \A h \in SmpHarts : h # 0 => smp'[h] = smp[h]
  BY DEF CopyLow, CopyHigh, SmpTyped
<1>3. CASE CopyLow
  <2>1. smp'[0] = [at |-> "copyhigh", low |-> haltCode[1]] /\ haltCode[1] \in Nat
    BY <1>1, <1>3 DEF CopyLow, SmpTyped
  <2>2. smp'[0] \in Threads
    BY <2>1 DEF Threads, Copying
  <2>3. SmpTyped'
    BY <1>1, <1>2, <1>3, <2>2 DEF CopyLow, SmpTyped, WorkerRecord
  <2>4. NoLostWakeup' /\ HasSignalled'
    BY <1>2, <1>3, <2>1 DEF CopyLow, NoLostWakeup, HasSignalled
  <2>5. LowStored' /\ HighStored' /\ Copied'
    BY <1>1, <1>3, <2>1 DEF CopyLow, LowStored, HighStored, Copied
  <2> QED BY <1>3, <2>3, <2>4, <2>5 DEF CopyLow, Kept
<1>4. CASE CopyHigh
  <2>1. smp'[0] = [at |-> "idle"]
    BY <1>1, <1>4 DEF CopyHigh, SmpTyped
  <2>2. smp'[0] \in Threads
    BY <2>1 DEF Threads, Quiet
  <2>3. smp[0].low \in Nat
    BY <1>1, <1>4, PlaceShape DEF CopyHigh, Copying
  <2>4. SmpTyped'
    BY <1>1, <1>2, <1>4, <2>2, <2>3 DEF CopyHigh, SmpTyped, WorkerRecord
  <2>5. NoLostWakeup' /\ HasSignalled'
    BY <1>2, <1>4, <2>1 DEF CopyHigh, NoLostWakeup, HasSignalled
  <2>6. LowStored' /\ HighStored' /\ Copied'
    BY <1>1, <1>4, <2>1 DEF CopyHigh, LowStored, HighStored, Copied
  <2>7. Kept'
    <3>1. PICK c \in signalled : smp[0].low = c[1]
      BY <1>4 DEF CopyHigh, Copied
    <3>2. PICK d \in signalled : haltCode[2] = d[2]
      BY <1>1 DEF HighStored
    <3>3. vmHalt'.halted /\ vmHalt'.code = <<c[1], d[2]>> /\ signalled' = signalled
      BY <1>4, <3>1, <3>2 DEF CopyHigh
    <3> QED BY <3>3 DEF Kept
  <2> QED BY <2>4, <2>5, <2>6, <2>7
<1> QED BY <1>3, <1>4

-----------------------------------------------------------------------------
(* The IPI: store, notify, clear.                                           *)

LEMMA IpiSteps ==
  ASSUME SmpInv, NEW h \in SmpHarts,
         \/ ClearMsip(h) \/ NotifyHart(h)
         \/ \E to \in SmpHarts \ {h} : SendIpi(h, to)
  PROVE  SmpInv'
<1> USE DEF SmpInv, SmpAt, controlWords, clintWords, smpHistory
<1>1. /\ \A g \in SmpHarts : smp[g] \in Threads
      /\ 0 \in SmpHarts /\ SmpWorkers \subseteq SmpHarts /\ 0 \notin SmpWorkers
  BY WasmSmpAssumption DEF SmpTyped, SmpHarts
<1>2. CASE ClearMsip(h)
  <2>1. /\ smp'[h] = After(h)
        /\ \A g \in SmpHarts : g # h => smp'[g] = smp[g] /\ msip'[g] = msip[g]
    BY <1>2 DEF ClearMsip, SmpDone, SmpTyped
  <2>2. /\ After(h) \in Threads /\ After(h).at \in {"idle", "top"}
        /\ h # 0 => WorkerRecord(After(h))
    BY <1>2, AfterShape DEF ClearMsip, Threads
  <2>3. SmpTyped'
    BY <1>1, <1>2, <2>1, <2>2 DEF ClearMsip, SmpDone, SmpTyped
  <2>4. NoLostWakeup' /\ HasSignalled' /\ LowStored' /\ HighStored'
    BY <1>2, <2>1, <2>2 DEF ClearMsip, NoLostWakeup, HasSignalled, LowStored, HighStored
  <2>5. Copied' /\ Kept'
    BY <1>1, <1>2, <2>1, <2>2 DEF ClearMsip, Copied, Kept
  <2> QED BY <2>3, <2>4, <2>5
<1>3. ASSUME NEW to \in SmpHarts \ {h}, SendIpi(h, to)
      PROVE  SmpInv'
  <2> DEFINE r == [at |-> "notify", to |-> to, then |-> After(h)]
  <2>1. /\ smp'[h] = r /\ smp[h].at = "insn"
        /\ \A g \in SmpHarts : g # h => smp'[g] = smp[g]
        /\ \A g \in SmpHarts : g # to => msip'[g] = msip[g]
    BY <1>3 DEF SendIpi, SmpTyped
  <2>2. /\ r \in Notifying
        /\ h # 0 => WorkerRecord(r)
    BY <2>1, AfterShape DEF Notifying, WorkerRecord, Quiet
  <2>3. SmpTyped'
    <3>1. smp' \in [SmpHarts -> Threads]
      BY <1>3, <2>2 DEF SendIpi, SmpTyped, Threads
    <3>2. \A w \in SmpWorkers : WorkerRecord(smp[w])'
      BY <1>1, <2>1, <2>2 DEF SmpTyped, WorkerRecord
    <3> QED BY <1>3, <3>1, <3>2 DEF SendIpi, SmpTyped
  <2>4. NoLostWakeup'
    BY <1>3, <2>1 DEF SendIpi, NoLostWakeup
  <2>5. HasSignalled' /\ LowStored' /\ HighStored'
    BY <1>3, <2>1 DEF SendIpi, HasSignalled, LowStored, HighStored
  <2>6. Copied' /\ Kept'
    BY <1>1, <1>3, <2>1 DEF SendIpi, Copied, Kept
  <2> QED BY <2>3, <2>4, <2>5, <2>6
<1>4. CASE NotifyHart(h)
  <2>1. smp[h] \in Notifying /\ smp[h].then \in Resumed
    BY <1>1, <1>4, PlaceShape DEF NotifyHart, Notifying
  <2>2. /\ smp'[h] = smp[h].then /\ smp[h].then \in Quiet \cup Looping
        /\ smp[h].then.at \in {"idle", "top"}
        /\ h # 0 => WorkerRecord(smp[h].then)
    <3>1. smp'[h] = smp[h].then
      BY <1>4 DEF NotifyHart
    <3>2. smp[h].then \in Quiet \cup Looping /\ smp[h].then.at \in {"idle", "top"}
      BY <2>1 DEF Resumed, Quiet, Looping
    <3>3. h # 0 => smp[h].then \in Looping
      BY <2>1 DEF SmpTyped, WorkerRecord, SmpHarts
    <3>4. h # 0 => WorkerRecord(smp[h].then)
      BY <3>3 DEF WorkerRecord, Looping, Quiet, Notifying
    <3> QED BY <3>1, <3>2, <3>4
  <2>3. \A g \in SmpHarts : g # h =>
          IF g = smp[h].to /\ smp[g].at = "asleep"
          THEN smp'[g] = [smp[g] EXCEPT !.at = "awake"] ELSE smp'[g] = smp[g]
    BY <1>4 DEF NotifyHart
  <2>4. \A g \in SmpHarts : g # h =>
          IF g = smp[h].to /\ smp[g].at = "asleep"
          THEN /\ smp'[g].at = "awake" /\ smp'[g] \in Quiet \cup Looping
               /\ g \in SmpWorkers => smp'[g] \in Looping
          ELSE smp'[g] = smp[g]
    <3> SUFFICES ASSUME NEW g \in SmpHarts, g # h, g = smp[h].to, smp[g].at = "asleep"
                 PROVE  /\ smp'[g].at = "awake" /\ smp'[g] \in Quiet \cup Looping
                        /\ g \in SmpWorkers => smp'[g] \in Looping
      BY <2>3
    <3>1. smp'[g] = [smp[g] EXCEPT !.at = "awake"] /\ smp[g] \in Threads
      BY <1>1, <2>3
    <3>2. smp[g] \in Quiet \cup Looping
      BY <3>1, PlaceShape
    <3>3. g \in SmpWorkers => smp[g] \in Looping
      BY <3>2 DEF SmpTyped, WorkerRecord
    <3> QED BY <3>1, <3>2, <3>3, Moved
  <2>5. smp' \in [SmpHarts -> Threads]
    <3>1. \A g \in SmpHarts : smp'[g] \in Threads
      BY <1>1, <2>2, <2>4 DEF Threads
    <3> QED BY <1>4, <3>1 DEF NotifyHart
  <2>6. \A w \in SmpWorkers : WorkerRecord(smp[w])'
    BY <1>1, <2>2, <2>4 DEF SmpTyped, WorkerRecord, Looping, Quiet, Notifying
  <2>7. SmpTyped'
    BY <1>4, <2>5, <2>6 DEF NotifyHart, SmpTyped
  <2>8. NoLostWakeup'
    <3> SUFFICES ASSUME NEW g \in SmpHarts, smp'[g].at = "asleep", msip'[g], ~haltReq'
                 PROVE  \E f \in SmpHarts : smp'[f].at = "notify" /\ smp'[f].to = g
      BY DEF NoLostWakeup
    <3>1. g # h /\ smp'[g] = smp[g] /\ g # smp[h].to
      BY <2>2, <2>4
    <3>2. PICK f \in SmpHarts : smp[f].at = "notify" /\ smp[f].to = g
      BY <1>4, <3>1 DEF NotifyHart, NoLostWakeup
    <3> QED BY <2>4, <3>1, <3>2
  <2>9. \A g \in SmpHarts : smp'[g].at \notin {"idle", "top", "awake"} => smp'[g] = smp[g]
    BY <2>2, <2>4
  <2>10. HasSignalled' /\ LowStored' /\ HighStored'
    BY <1>4, <2>9 DEF NotifyHart, HasSignalled, LowStored, HighStored
  <2>11. Copied' /\ Kept'
    BY <1>1, <1>4, <2>9 DEF NotifyHart, Copied, Kept
  <2> QED BY <2>7, <2>8, <2>10, <2>11
<1> QED BY <1>2, <1>3, <1>4

-----------------------------------------------------------------------------
(* signal_halted.                                                           *)

LEMMA StopStep ==
  ASSUME SmpInv, NEW h \in SmpHarts, NEW code \in Codes, NEW own,
         StopWith(h, code, own), own = code \/ (own = vmHalt.code /\ code = Dead)
  PROVE  SmpInv'
<1> USE DEF SmpInv, SmpAt, controlWords, clintWords, smpHistory
<1> DEFINE r == [at |-> "low", code |-> code]
<1>1. /\ smp'[h] = r /\ smp[h].at = "insn"
      /\ \A g \in SmpHarts : g # h => smp'[g] = smp[g]
      /\ 0 \in SmpHarts /\ SmpWorkers \subseteq SmpHarts
      /\ code \in signalled' /\ signalled \subseteq signalled'
  BY DEF StopWith, SmpTyped, SmpHarts
<1>2. r \in Halting /\ WorkerRecord(r)
  BY DEF Halting, WorkerRecord, Quiet, Notifying
<1>3. code \in Nat \X Nat /\ code = <<code[1], code[2]>>
  BY CodesArePairs
<1>4. SmpTyped'
  <2>1. smp' \in [SmpHarts -> Threads]
    BY <1>2 DEF StopWith, SmpTyped, Threads
  <2>2. \A w \in SmpWorkers : WorkerRecord(smp[w])'
    BY <1>1, <1>2 DEF SmpTyped, WorkerRecord
  <2>3. vmHalt' \in [halted : BOOLEAN, code : Nat \X Nat]
    BY <1>3 DEF StopWith, SmpTyped
  <2> QED BY <2>1, <2>2, <2>3 DEF StopWith, SmpTyped
<1>5. NoLostWakeup'
  BY <1>1 DEF StopWith, NoLostWakeup
<1>6. HasSignalled'
  BY <1>1 DEF StopWith, HasSignalled
<1>7. LowStored' /\ HighStored'
  BY <1>1 DEF StopWith, LowStored, HighStored
<1>8. Copied'
  BY <1>1 DEF StopWith, Copied
<1>9. Kept'
  <2>1. CASE h # 0
    BY <1>1, <2>1 DEF StopWith, Kept
  <2>2. CASE h = 0 /\ own = code
    <3>1. vmHalt'.halted /\ vmHalt'.code = <<code[1], code[2]>>
      BY <1>3, <2>2 DEF StopWith
    <3> QED BY <1>1, <3>1 DEF Kept
  <2>3. CASE h = 0 /\ own = vmHalt.code /\ code = Dead
    <3>1. vmHalt'.halted /\ vmHalt'.code = vmHalt.code
      BY <2>3 DEF StopWith
    <3> QED BY <1>1, <2>3, <3>1 DEF Kept
  <2> QED BY <2>1, <2>2, <2>3
<1> QED BY <1>4, <1>5, <1>6, <1>7, <1>8, <1>9

LEMMA HaltSteps ==
  ASSUME SmpInv, NEW h \in SmpHarts, StoreCodeLow(h) \/ StoreCodeHigh(h) \/ StoreHalted(h)
  PROVE  SmpInv'
<1> USE DEF SmpInv, SmpAt, controlWords, clintWords, smpHistory
<1>1. /\ smp[h] \in Threads /\ smp[h] \in Halting
      /\ smp[h].code \in signalled /\ smp[h].code \in Codes
      /\ 0 \in SmpHarts /\ SmpWorkers \subseteq SmpHarts
  <2>1. smp[h] \in Threads
    BY DEF SmpTyped
  <2>2. smp[h].at \in {"low", "high", "flag"}
    BY DEF StoreCodeLow, StoreCodeHigh, StoreHalted
  <2> QED BY <2>1, <2>2, PlaceShape DEF HasSignalled, SmpTyped, SmpHarts
<1>2. smp[h].code \in Nat \X Nat
  BY <1>1, CodesArePairs
<1>3. \A g \in SmpHarts : g # h => smp'[g] = smp[g]
  BY DEF StoreCodeLow, StoreCodeHigh, StoreHalted, SmpGoto, SmpTyped
<1>4. smp'[h].at \in {"high", "flag", "idle", "done"} /\ smp'[h] \in Threads
          /\ (h # 0 => WorkerRecord(smp'[h]))
          /\ (smp'[h].at \in {"high", "flag"} => smp'[h].code = smp[h].code)
  <2>1. CASE StoreHalted(h)
    <3>1. smp'[h] = [at |-> IF h = 0 THEN "idle" ELSE "done"]
      BY <2>1 DEF StoreHalted, SmpTyped
    <3> QED BY <3>1 DEF Threads, Quiet, WorkerRecord, Notifying
  <2>2. CASE StoreCodeLow(h) \/ StoreCodeHigh(h)
    <3>1. PICK place \in {"high", "flag"} : smp'[h] = [smp[h] EXCEPT !.at = place]
      BY <2>2 DEF StoreCodeLow, StoreCodeHigh, SmpGoto, SmpTyped
    <3>2. smp'[h].at = place /\ smp'[h] \in Halting /\ smp'[h].code = smp[h].code
      BY <1>1, <3>1, Moved
    <3> QED BY <3>2 DEF Threads, Halting, Quiet, Notifying, WorkerRecord
  <2> QED BY <2>1, <2>2
<1>5. SmpTyped'
  <2>1. smp' \in [SmpHarts -> Threads]
    BY <1>3, <1>4 DEF StoreCodeLow, StoreCodeHigh, StoreHalted, SmpGoto, SmpTyped
  <2>2. \A w \in SmpWorkers : WorkerRecord(smp[w])'
    BY <1>1, <1>3, <1>4, WasmSmpAssumption DEF SmpTyped, WorkerRecord
  <2>3. haltCode' \in Nat \X Nat
    BY <1>2 DEF StoreCodeLow, StoreCodeHigh, StoreHalted, SmpTyped
  <2> QED BY <2>1, <2>2, <2>3 DEF StoreCodeLow, StoreCodeHigh, StoreHalted, SmpTyped
<1>6. NoLostWakeup'
  BY <1>3, <1>4 DEF StoreCodeLow, StoreCodeHigh, StoreHalted, NoLostWakeup
<1>7. HasSignalled'
  BY <1>1, <1>3, <1>4 DEF StoreCodeLow, StoreCodeHigh, StoreHalted, HasSignalled
<1>8. LowStored' /\ HighStored'
  <2>1. CASE StoreCodeLow(h)
    <3>1. smp'[h].at = "high" /\ haltCode'[1] = smp[h].code[1] /\ haltCode'[2] = haltCode[2]
      BY <1>1, <2>1, Moved DEF StoreCodeLow, SmpGoto, SmpTyped
    <3> QED BY <1>1, <1>3, <2>1, <3>1 DEF StoreCodeLow, LowStored, HighStored
  <2>2. CASE StoreCodeHigh(h)
    <3>1. smp[h].at = "high" /\ haltCode'[2] = smp[h].code[2] /\ haltCode'[1] = haltCode[1]
      BY <2>2 DEF StoreCodeHigh, SmpTyped
    <3> QED BY <1>1, <1>3, <2>2, <3>1 DEF StoreCodeHigh, LowStored, HighStored
  <2>3. CASE StoreHalted(h)
    BY <1>1, <2>3 DEF StoreHalted, LowStored, HighStored
  <2> QED BY <2>1, <2>2, <2>3
<1>9. Copied' /\ Kept'
  BY <1>1, <1>3, <1>4 DEF StoreCodeLow, StoreCodeHigh, StoreHalted, Copied, Kept
<1> QED BY <1>5, <1>6, <1>7, <1>8, <1>9

-----------------------------------------------------------------------------
LEMMA SmpStart == SmpInit => SmpInv
<1> SUFFICES ASSUME SmpInit PROVE SmpInv
  OBVIOUS
<1>1. \A h \in SmpHarts : smp[h] = [at |-> IF h = 0 THEN "idle" ELSE "off"]
  BY DEF SmpInit
<1>2. 0 \in SmpHarts /\ SmpWorkers \subseteq SmpHarts /\ 0 \notin SmpWorkers
  BY WasmSmpAssumption DEF SmpHarts
<1>3. smp \in [SmpHarts -> Threads] /\ \A w \in SmpWorkers : WorkerRecord(smp[w])
  BY <1>1, <1>2 DEF SmpInit, Threads, Quiet, WorkerRecord, Notifying
<1>4. SmpTyped
  BY <1>3 DEF SmpInit, SmpTyped, NoCode
<1> QED BY <1>1, <1>2, <1>4 DEF SmpInit, SmpInv, NoLostWakeup, HasSignalled, LowStored,
                                HighStored, Copied, Kept, SmpAt

LEMMA SmpKept == SmpInv /\ [SmpNext]_smpVars => SmpInv'
<1> SUFFICES ASSUME SmpInv, [SmpNext]_smpVars PROVE SmpInv'
  OBVIOUS
<1>1. CASE StartWorkers \/ AllowWorkersToStart \/ TerminateWorkers \/ RequestHalt
  BY <1>1, MainThreadSteps
<1>2. CASE MainStep
  BY <1>2, LocalSteps DEF SmpHarts
<1>3. CASE CopyLow \/ CopyHigh
  BY <1>3, CopySteps
<1>4. ASSUME NEW h \in SmpHarts, DeadlinePasses(h)
      PROVE  SmpInv'
  BY <1>4 DEF DeadlinePasses, SmpInv, SmpTyped, NoLostWakeup, HasSignalled, LowStored,
              HighStored, Copied, Kept, SmpAt, controlWords, smpHistory
<1>5. ASSUME NEW h \in SmpHarts, HostStep(h)
      PROVE  SmpInv'
  BY <1>5, LocalSteps, IpiSteps, HaltSteps DEF HostStep
<1>6. ASSUME NEW h \in SmpHarts, GuestStep(h)
      PROVE  SmpInv'
  <2>1. CASE Fatal(h)
    BY <2>1, StopStep DEF Fatal, Codes
  <2>2. CASE \E code \in HaltCodes : RequestedTrap(h, code)
    <3>1. PICK code \in HaltCodes : StopWith(h, code, code)
      BY <2>2 DEF RequestedTrap
    <3>2. code \in Codes
      BY DEF Codes
    <3> QED BY <3>1, <3>2, StopStep
  <2> QED BY <1>6, <2>1, <2>2, LocalSteps, IpiSteps DEF GuestStep
<1>7. ASSUME NEW w \in SmpWorkers, WorkerHost(w)
      PROVE  SmpInv'
  <2>1. w \in SmpHarts /\ w # 0
    BY WasmSmpAssumption DEF SmpHarts
  <2> QED BY <1>7, <2>1, LocalSteps
<1>8. CASE UNCHANGED smpVars
  BY <1>8 DEF smpVars, SmpInv, SmpTyped, NoLostWakeup, HasSignalled, LowStored,
              HighStored, Copied, Kept, SmpAt
<1> QED BY <1>1, <1>2, <1>3, <1>4, <1>5, <1>6, <1>7, <1>8 DEF SmpNext, Main

\* A hart asleep on its msip word with an IPI in it has a notifier on the way,
\* for any number of workers (SharedClint::store, Atomics.wait and notify).
THEOREM WakeupsNotLost == SmpSpec => []NoLostWakeup
<1>1. SmpInv => NoLostWakeup
  BY DEF SmpInv
<1> QED BY <1>1, SmpStart, SmpKept, PTL DEF SmpSpec

\* HALTED is seen only next to a whole code, and WasmVm copies only such a one,
\* for any number of workers that stop at the same time (signal_halted,
\* WasmVm::step).
THEOREM HaltCodesWhole == SmpSpec => []HaltCodeComplete
<1>1. SmpInv => HaltCodeComplete
  <2> SUFFICES ASSUME SmpInv, \A c, d \in signalled : c[2] = d[2]
               PROVE  /\ haltFlag => haltCode \in signalled
                      /\ vmHalt.halted => \/ vmHalt.code \in signalled
                                          \/ vmHalt.code = NoCode /\ Dead \in signalled
    BY DEF HaltCodeComplete
  <2>1. ASSUME NEW c \in signalled, NEW d \in signalled
        PROVE  <<c[1], d[2]>> = c
    BY <2>1, CodesArePairs DEF SmpInv, SmpTyped
  <2>2. ASSUME haltFlag PROVE haltCode \in signalled
    <3>1. PICK c \in signalled : haltCode[1] = c[1]
      BY <2>2 DEF SmpInv, LowStored
    <3>2. PICK d \in signalled : haltCode[2] = d[2]
      BY <2>2 DEF SmpInv, HighStored
    <3>3. haltCode = <<haltCode[1], haltCode[2]>>
      BY DEF SmpInv, SmpTyped
    <3> QED BY <2>1, <3>1, <3>2, <3>3
  <2> QED BY <2>1, <2>2 DEF SmpInv, Kept
<1> QED BY <1>1, SmpStart, SmpKept, PTL DEF SmpSpec

-----------------------------------------------------------------------------
(* The shared UART ring with one writer.  Distances go round the ring.      *)

OneWriter == \A v, w \in Writers : v = w

Gap(a, b) == IF b >= a THEN b - a ELSE (UartCapacity - a) + b
Onward(a, k) == IF a + k < UartCapacity THEN a + k ELSE a + k - UartCapacity

Writing == [at : {"room", "put"}, cur : Places, first : Nat, left : Nat]
Looking == [at : {"index"}, upto : Places, left : Nat]
Getting == [at : {"get"}, cur : Places, left : Nat, bytes : Seq(Nat)]

RingTyped ==
    /\ cells \in [Places -> Nat] /\ widx \in Places /\ ridx \in Places
    /\ writer \in [Writers -> {NoWrite} \cup Writing]
    /\ reader \in {NoRead} \cup Looking \cup Getting
    /\ made \in Nat /\ taken \in Seq(Nat)

\* The last byte that entered.
LastByte ==
    IF Filled > 0 THEN cells[Onward(ridx, Filled - 1)]
    ELSE IF Len(taken) > 0 THEN taken[Len(taken)] ELSE 0

\* A write has its bytes, newer than all inside, in the places after the write
\* index, and room for the rest before the read index.
WriterKnows ==
    \A w \in Writers :
        /\ writer[w] = NoWrite => LastByte <= made
        /\ writer[w].at = "room" =>
             /\ writer[w].cur = widx /\ LastByte < writer[w].first
             /\ writer[w].first + writer[w].left - 1 <= made
        /\ writer[w].at = "put" =>
             LET n == Gap(widx, writer[w].cur) IN
             /\ Filled + n + writer[w].left <= UartCapacity - 1
             /\ LastByte + n < writer[w].first
             /\ writer[w].first + writer[w].left - 1 <= made
             /\ \A j \in 0 .. n - 1 : cells[Onward(widx, j)] = writer[w].first - n + j

\* A read has the first bytes inside, and asks for no more than there are.
ReaderKnows ==
    /\ reader.at = "index" => Gap(ridx, reader.upto) <= Filled
    /\ reader.at = "get" =>
         /\ Len(reader.bytes) = Gap(ridx, reader.cur)
         /\ Len(reader.bytes) + reader.left \in 1 .. Filled
         /\ \A j \in 1 .. Len(reader.bytes) : reader.bytes[j] = cells[Onward(ridx, j - 1)]

RingInv == RingTyped /\ WriterKnows /\ ReaderKnows

LEMMA RoundTheRing ==
  ASSUME NEW a \in Places, NEW k \in 0 .. UartCapacity
  PROVE  (a + k) % UartCapacity = Onward(a, k) /\ Onward(a, k) \in Places
  BY SharedUartAssumption DEF Places, Onward

\* How far a place is, going on from another one, and going on again.
LEMMA GapIs ==
  ASSUME NEW a \in Places, NEW b \in Places
  PROVE  /\ Gap(a, b) \in 0 .. UartCapacity - 1 /\ Onward(a, Gap(a, b)) = b
         /\ Gap(a, a) = 0 /\ Onward(a, 0) = a
  BY SharedUartAssumption DEF Places, Gap, Onward

LEMMA OnwardIs ==
  ASSUME NEW a \in Places, NEW k \in 0 .. UartCapacity - 1
  PROVE  /\ Onward(a, k) \in Places /\ Gap(a, Onward(a, k)) = k
         /\ NextPlace(Onward(a, k)) = Onward(a, k + 1)
<1>1. Onward(a, k) \in Places /\ Gap(a, Onward(a, k)) = k
  BY SharedUartAssumption DEF Places, Gap, Onward
<1>2. NextPlace(Onward(a, k)) = Onward(Onward(a, k), 1)
  BY <1>1, RoundTheRing, SharedUartAssumption DEF NextPlace
<1> QED BY <1>1, <1>2, SharedUartAssumption DEF Onward, Places

LEMMA Apart ==
  ASSUME NEW a \in Places, NEW j \in 0 .. UartCapacity - 1, NEW k \in 0 .. UartCapacity - 1, j # k
  PROVE  Onward(a, j) # Onward(a, k)
  BY SharedUartAssumption DEF Places, Onward

LEMMA OnwardAgain ==
  ASSUME NEW a \in Places, NEW j \in Nat, NEW k \in Nat, j + k <= UartCapacity - 1
  PROVE  Onward(Onward(a, j), k) = Onward(a, j + k)
  BY SharedUartAssumption DEF Places, Onward

\* What is between the indices, and the last byte that entered.
Layout ==
    /\ Filled = Gap(ridx, widx) /\ Filled \in 0 .. UartCapacity - 1
    /\ Contents \in Seq(Nat) /\ Len(Contents) = Filled
    /\ \A k \in 1 .. Filled : Contents[k] = cells[Onward(ridx, k - 1)]
    /\ \A k \in 0 .. UartCapacity - 1 : cells[Onward(ridx, k)] \in Nat
    /\ LastByte = Queue!LastIn /\ LastByte \in Nat

LEMMA LayoutHolds == RingTyped => Layout
<1> SUFFICES ASSUME RingTyped PROVE Layout
  OBVIOUS
<1>1. Filled = Gap(ridx, widx)
  BY DEF Filled, Gap
<1>2. Filled \in 0 .. UartCapacity - 1
  BY <1>1, GapIs DEF RingTyped
<1>3. \A k \in 0 .. UartCapacity - 1 : cells[Onward(ridx, k)] \in Nat
  BY OnwardIs DEF RingTyped
<1>4. \A k \in 1 .. Filled : Contents[k] = cells[Onward(ridx, k - 1)]
  <2> SUFFICES ASSUME NEW k \in 1 .. Filled
               PROVE  Contents[k] = cells[Onward(ridx, k - 1)]
    OBVIOUS
  <2>1. k - 1 \in 0 .. UartCapacity /\ ridx + k - 1 = ridx + (k - 1)
    BY <1>2, SharedUartAssumption DEF RingTyped, Places
  <2>2. (ridx + k - 1) % UartCapacity = Onward(ridx, k - 1)
    BY <2>1, RoundTheRing DEF RingTyped
  <2> QED BY <2>2 DEF Contents
<1>5. \A k \in 1 .. Filled : Contents[k] \in Nat
  BY <1>2, <1>3, <1>4, SharedUartAssumption
<1>6. Contents \in [1 .. Filled -> Nat]
  BY <1>5 DEF Contents
<1>7. Contents \in Seq(Nat) /\ Len(Contents) = Filled /\ taken \in Seq(Nat) /\ Filled \in Nat
  BY <1>2, <1>6 DEF RingTyped
<1>8. LastByte = IF Len(Contents) > 0 THEN Contents[Len(Contents)]
                 ELSE IF Len(taken) > 0 THEN taken[Len(taken)] ELSE 0
  BY <1>4, <1>7 DEF LastByte
<1>9. ASSUME NEW s \in Seq(Nat), NEW t \in Seq(Nat)
      PROVE  (IF s \o t = <<>> THEN 0 ELSE (s \o t)[Len(s \o t)])
               = IF Len(t) > 0 THEN t[Len(t)] ELSE IF Len(s) > 0 THEN s[Len(s)] ELSE 0
  OBVIOUS
<1>10. LastByte = Queue!LastIn
  BY <1>7, <1>8, <1>9 DEF Queue!LastIn
<1>11. LastByte \in Nat
  BY <1>7, <1>8
<1> QED BY <1>1, <1>2, <1>3, <1>4, <1>7, <1>10, <1>11 DEF Layout

LEMMA LayoutHoldsNext == RingTyped' => Layout'
  BY LayoutHolds, PTL

-----------------------------------------------------------------------------
\* Steps that leave the bytes and the indices alone.
LEMMA SameBytes ==
  ASSUME UNCHANGED <<cells, widx, ridx, taken>>
  PROVE  Filled' = Filled /\ LastByte' = LastByte /\ Contents' = Contents
  BY DEF Filled, LastByte, Contents, Onward

LEMMA StartWriteStep ==
  ASSUME RingInv, OneWriter, NEW w \in Writers, NEW n \in 1 .. MaxSlice, StartWrite(w, n)
  PROVE  RingInv'
<1> USE DEF RingInv
<1>1. /\ writer'[w] = [at |-> "room", cur |-> widx, first |-> made + 1, left |-> n]
      /\ \A v \in Writers : v = w
      /\ n \in Nat /\ made \in Nat
  BY SharedUartAssumption DEF StartWrite, RingTyped, OneWriter
<1>2. RingTyped'
  <2>1. writer'[w] \in Writing
    BY <1>1 DEF Writing, RingTyped
  <2> QED BY <1>1, <2>1 DEF StartWrite, RingTyped
<1>3. LastByte \in Nat /\ LastByte <= made
  BY LayoutHolds DEF Layout, StartWrite, WriterKnows
<1>4. WriterKnows'
  BY <1>1, <1>3, SameBytes DEF StartWrite, WriterKnows, NoWrite
<1>5. ReaderKnows'
  BY SameBytes DEF StartWrite, ReaderKnows
<1> QED BY <1>2, <1>4, <1>5

LEMMA CheckRoomStep ==
  ASSUME RingInv, OneWriter, NEW w \in Writers, CheckRoom(w)
  PROVE  RingInv'
<1> USE DEF RingInv
<1> DEFINE u == writer[w]
           fits == IF RoomLeft(w) < u.left THEN RoomLeft(w) ELSE u.left
<1>1. /\ u \in Writing /\ u.at = "room" /\ u.cur = widx /\ LastByte < u.first
      /\ u.first \in Nat /\ u.left \in Nat /\ u.first + u.left - 1 <= made
      /\ \A v \in Writers : v = w
  BY DEF CheckRoom, RingTyped, WriterKnows, NoWrite, Writing, OneWriter
<1>2. RoomLeft(w) = UartCapacity - 1 - Filled /\ Filled \in 0 .. UartCapacity - 1
  BY <1>1, LayoutHolds, SharedUartAssumption DEF Layout, RoomLeft, Filled, RingTyped, Places
<1>3. fits \in Nat /\ fits <= u.left /\ Filled + fits <= UartCapacity - 1
  BY <1>1, <1>2, SharedUartAssumption
<1>4. writer'[w] = IF fits = 0 THEN NoWrite ELSE [u EXCEPT !.at = "put", !.left = fits]
  BY DEF CheckRoom, RingTyped
<1>5. writer'[w] \in {NoWrite} \cup Writing
  BY <1>1, <1>3, <1>4 DEF Writing
<1>6. RingTyped'
  BY <1>1, <1>5 DEF CheckRoom, RingTyped
<1>7. Gap(widx, widx) = 0 /\ LastByte \in Nat /\ made \in Nat /\ Filled \in Nat
  BY <1>2, GapIs, LayoutHolds DEF Layout, RingTyped
<1>8. WriterKnows'
  <2>1. CASE fits = 0
    <3>1. writer'[w] = NoWrite /\ LastByte' <= made'
      BY <1>1, <1>4, <1>7, <2>1, SameBytes DEF CheckRoom
    <3> QED BY <1>1, <3>1 DEF WriterKnows, NoWrite
  <2>2. CASE fits # 0
    <3>1. /\ writer'[w].at = "put" /\ writer'[w].cur = widx
          /\ writer'[w].first = u.first /\ writer'[w].left = fits
      BY <1>1, <1>4, <2>2 DEF Writing
    <3>2. Gap(widx', writer'[w].cur) = 0
      BY <1>7, <3>1 DEF CheckRoom
    <3>3. Filled' = Filled /\ LastByte' = LastByte /\ made' = made
      BY SameBytes DEF CheckRoom
    <3>4. u.first + fits - 1 <= made /\ fits \in Nat /\ Filled + fits <= UartCapacity - 1
      BY <1>1, <1>3, <1>7
    <3> HIDE DEF fits, u
    <3> QED BY <1>1, <1>7, <3>1, <3>2, <3>3, <3>4 DEF WriterKnows, NoWrite
  <2> QED BY <2>1, <2>2
<1>9. ReaderKnows'
  BY SameBytes DEF CheckRoom, ReaderKnows
<1> QED BY <1>6, <1>8, <1>9

\* The place written is none of those the reader may look at.
LEMMA PutByteStep ==
  ASSUME RingInv, OneWriter, NEW w \in Writers, PutByteIn(w)
  PROVE  RingInv' /\ Contents' = Contents
<1> USE DEF RingInv
<1> DEFINE u == writer[w]
           n == Gap(widx, u.cur)
<1>1. /\ u \in Writing /\ u.at = "put" /\ u.cur \in Places /\ u.first \in Nat
      /\ u.left \in Nat /\ u.left > 0 /\ widx \in Places /\ ridx \in Places
      /\ \A v \in Writers : v = w
  BY DEF PutByteIn, RingTyped, NoWrite, Writing, OneWriter
<1>2. /\ Filled + n + u.left <= UartCapacity - 1
      /\ LastByte + n < u.first /\ u.first + u.left - 1 <= made
      /\ \A j \in 0 .. n - 1 : cells[Onward(widx, j)] = u.first - n + j
  BY DEF PutByteIn, WriterKnows
<1>3. writer'[w] = [u EXCEPT !.cur = NextPlace(u.cur), !.first = u.first + 1, !.left = u.left - 1]
  BY DEF PutByteIn, RingTyped
<1>4. cells' = [cells EXCEPT ![u.cur] = u.first] /\ UNCHANGED <<widx, ridx, taken, made, reader>>
  BY DEF PutByteIn
<1>5. n = Gap(widx, u.cur)
  OBVIOUS
<1> HIDE DEF n, u
<1>6. n \in 0 .. UartCapacity - 1 /\ u.cur = Onward(widx, n)
  BY <1>1, <1>5, GapIs
<1>7. /\ Filled \in 0 .. UartCapacity - 1 /\ Filled = Gap(ridx, widx)
      /\ UartCapacity \in Nat /\ LastByte \in Nat /\ made \in Nat
  BY LayoutHolds, SharedUartAssumption DEF Layout, RingTyped
<1>8. widx = Onward(ridx, Filled)
  BY <1>1, <1>7, GapIs
<1>9. Filled + n \in 0 .. UartCapacity - 1 /\ n + 1 \in 0 .. UartCapacity - 1
  BY <1>1, <1>2, <1>6, <1>7
<1>10. u.cur = Onward(ridx, Filled + n)
  BY <1>1, <1>6, <1>7, <1>8, <1>9, OnwardAgain
<1>11. NextPlace(u.cur) = Onward(widx, n + 1)
  BY <1>1, <1>6, OnwardIs
<1>12. NextPlace(u.cur) \in Places /\ Gap(widx, NextPlace(u.cur)) = n + 1
  BY <1>1, <1>9, <1>11, OnwardIs
<1>13. /\ writer'[w] \in Writing /\ writer'[w].at = "put" /\ writer'[w].cur = NextPlace(u.cur)
       /\ writer'[w].first = u.first + 1 /\ writer'[w].left = u.left - 1
  <2>1. PICK c \in Places, f \in Nat, l \in Nat :
          u = [at |-> "put", cur |-> c, first |-> f, left |-> l]
    BY <1>1 DEF Writing
  <2>2. l - 1 \in Nat /\ f + 1 \in Nat
    BY <1>1, <2>1
  <2>3. writer'[w] = [at |-> "put", cur |-> NextPlace(c), first |-> f + 1, left |-> l - 1]
    BY <1>3, <2>1
  <2> QED BY <1>12, <2>1, <2>2, <2>3 DEF Writing
<1>14. ASSUME NEW k \in 0 .. UartCapacity - 1, k # Filled + n
       PROVE  cells'[Onward(ridx, k)] = cells[Onward(ridx, k)]
  <2>1. Onward(ridx, k) # u.cur /\ Onward(ridx, k) \in Places
    BY <1>1, <1>9, <1>10, <1>14, OnwardIs, Apart
  <2> QED BY <1>4, <2>1 DEF RingTyped
<1>15. RingTyped'
  BY <1>1, <1>4, <1>13 DEF PutByteIn, RingTyped
<1>16. \A k \in 0 .. Filled - 1 : cells'[Onward(ridx, k)] = cells[Onward(ridx, k)]
  <2> SUFFICES ASSUME NEW k \in 0 .. Filled - 1
               PROVE  cells'[Onward(ridx, k)] = cells[Onward(ridx, k)]
    OBVIOUS
  <2>1. k \in 0 .. UartCapacity - 1 /\ k # Filled + n
    BY <1>6, <1>7
  <2> QED BY <1>14, <2>1
<1>17. Filled' = Filled
  BY <1>4 DEF Filled
<1>18. LastByte' = LastByte
  BY <1>4, <1>7, <1>16, <1>17 DEF LastByte
<1>19. Contents' = Contents
  <2>1. ASSUME NEW k \in 1 .. Filled PROVE Contents'[k] = Contents[k]
    <3>1. Contents[k] = cells[Onward(ridx, k - 1)] /\ k - 1 \in 0 .. Filled - 1
      BY <1>7, LayoutHolds DEF Layout
    <3>2. Contents'[k] = cells'[Onward(ridx, k - 1)]
      BY <1>4, <1>15, <1>17, LayoutHoldsNext DEF Layout
    <3> QED BY <1>16, <3>1, <3>2
  <2> QED BY <1>17, <2>1 DEF Contents
<1>20. WriterKnows'
  <2>1. ASSUME NEW j \in 0 .. n
        PROVE  cells'[Onward(widx, j)] = u.first - n + j
    <3>1. CASE j = n
      <4>1. cells'[u.cur] = u.first
        BY <1>1, <1>4 DEF RingTyped
      <4> QED BY <1>1, <1>6, <3>1, <4>1
    <3>2. CASE j # n
      <4>1. /\ j \in 0 .. n - 1 /\ Filled + j \in 0 .. UartCapacity - 1 /\ Filled + j # Filled + n
            /\ Filled \in Nat /\ j \in Nat /\ Filled + j <= UartCapacity - 1
        BY <1>6, <1>7, <1>9, <3>2
      <4>2. Onward(widx, j) = Onward(ridx, Filled + j)
        BY <1>1, <1>8, <4>1, OnwardAgain
      <4> QED BY <1>2, <1>14, <4>1, <4>2
    <3> QED BY <3>1, <3>2
  <2> DEFINE m == Gap(widx', writer'[w].cur)
  <2>2. m = n + 1
    BY <1>4, <1>12, <1>13
  <2>3. /\ Filled' + m + writer'[w].left <= UartCapacity - 1
        /\ LastByte' + m < writer'[w].first
        /\ writer'[w].first + writer'[w].left - 1 <= made'
    BY <1>1, <1>2, <1>4, <1>6, <1>7, <1>13, <1>17, <1>18, <2>2
  <2>4. \A j \in 0 .. m - 1 : cells'[Onward(widx', j)] = writer'[w].first - m + j
    <3> SUFFICES ASSUME NEW j \in 0 .. m - 1
                 PROVE  cells'[Onward(widx', j)] = writer'[w].first - m + j
      OBVIOUS
    <3>1. j \in 0 .. n /\ writer'[w].first - m + j = u.first - n + j
      BY <1>1, <1>6, <1>13, <2>2
    <3> QED BY <1>4, <2>1, <3>1
  <2>5. writer'[w] # NoWrite /\ writer'[w].at = "put"
    BY <1>13 DEF NoWrite
  <2> QED BY <1>1, <2>3, <2>4, <2>5 DEF WriterKnows
<1>21. ReaderKnows'
  <2>1. CASE reader.at = "get"
    <3>1. \A j \in 1 .. Len(reader.bytes) : j - 1 \in 0 .. Filled - 1
      BY <1>7, <2>1 DEF ReaderKnows, RingTyped, NoRead, Looking, Getting
    <3> QED BY <1>4, <1>16, <1>17, <2>1, <3>1 DEF ReaderKnows
  <2>2. CASE reader.at # "get"
    BY <1>4, <1>17, <2>2 DEF ReaderKnows
  <2> QED BY <2>1, <2>2
<1> QED BY <1>15, <1>19, <1>20, <1>21

LEMMA EndWriteStep ==
  ASSUME RingInv, OneWriter, NEW w \in Writers, EndWrite(w)
  PROVE  RingInv' /\ (Queue!Put \/ UNCHANGED <<Contents, taken>>)
<1> USE DEF RingInv
<1> DEFINE u == writer[w]
           n == Gap(widx, u.cur)
<1>1. /\ u \in Writing /\ u.cur \in Places /\ u.first \in Nat /\ u.left = 0
      /\ widx \in Places /\ ridx \in Places
      /\ \A v \in Writers : v = w
  BY DEF EndWrite, RingTyped, NoWrite, Writing, OneWriter
<1>2. /\ Filled + n + u.left <= UartCapacity - 1
      /\ LastByte + n < u.first /\ u.first + u.left - 1 <= made
      /\ \A j \in 0 .. n - 1 : cells[Onward(widx, j)] = u.first - n + j
  BY DEF EndWrite, WriterKnows
<1>3. /\ widx' = u.cur /\ writer'[w] = NoWrite
      /\ UNCHANGED <<cells, ridx, reader, made, taken>>
  BY DEF EndWrite, RingTyped
<1>4. n = Gap(widx, u.cur)
  OBVIOUS
<1>5. RingTyped'
  BY <1>1, <1>3 DEF EndWrite, RingTyped
<1> HIDE DEF n, u
<1>6. n \in 0 .. UartCapacity - 1 /\ u.cur = Onward(widx, n)
  BY <1>1, <1>4, GapIs
<1>7. /\ Filled \in 0 .. UartCapacity - 1 /\ Filled = Gap(ridx, widx)
      /\ UartCapacity \in Nat /\ LastByte \in Nat /\ made \in Nat
      /\ Contents \in Seq(Nat) /\ Len(Contents) = Filled
  BY LayoutHolds, SharedUartAssumption DEF Layout, RingTyped
<1>8. widx = Onward(ridx, Filled)
  BY <1>1, <1>7, GapIs
<1>9. Filled + n \in 0 .. UartCapacity - 1 /\ Filled \in Nat /\ n \in Nat
  BY <1>1, <1>2, <1>6, <1>7
<1>10. widx' = Onward(ridx, Filled + n)
  BY <1>1, <1>3, <1>6, <1>7, <1>8, <1>9, OnwardAgain
<1>11. /\ Filled' = Filled + n
       /\ Contents' \in Seq(Nat) /\ Len(Contents') = Filled + n
  BY <1>1, <1>3, <1>5, <1>9, <1>10, OnwardIs, LayoutHoldsNext DEF Layout
<1>12. ASSUME NEW k \in 1 .. Filled + n
       PROVE  Contents'[k] = cells[Onward(ridx, k - 1)]
  BY <1>3, <1>5, <1>11, LayoutHoldsNext DEF Layout
<1>13. ASSUME NEW k \in 1 .. Filled
       PROVE  Contents'[k] = Contents[k]
  <2>1. k \in 1 .. Filled + n
    BY <1>9
  <2> QED BY <1>12, <2>1, LayoutHolds DEF Layout
<1>14. ASSUME NEW k \in Filled + 1 .. Filled + n
       PROVE  Contents'[k] = u.first - n + (k - Filled - 1)
  <2> DEFINE j == k - Filled - 1
  <2>1. /\ j \in 0 .. n - 1 /\ j \in Nat /\ k \in 1 .. Filled + n /\ Filled + j = k - 1
        /\ Filled + j <= UartCapacity - 1
    BY <1>7, <1>9
  <2>2. Onward(ridx, k - 1) = Onward(widx, j)
    BY <1>1, <1>8, <1>9, <2>1, OnwardAgain
  <2> HIDE DEF j
  <2>3. Contents'[k] = u.first - n + j
    BY <1>2, <1>12, <2>1, <2>2
  <2> QED BY <2>3 DEF j
<1>15. LastByte' <= made'
  <2>1. CASE n = 0
    <3>1. widx' = widx
      BY <1>3, <1>6, <2>1, <1>1, GapIs
    <3> QED BY <1>1, <1>2, <1>3, <1>7, <2>1, <3>1, SameBytes
  <2>2. CASE n # 0
    <3>1. /\ Filled + n \in Filled + 1 .. Filled + n /\ Filled + n \in 1 .. Filled + n
          /\ (Filled + n) - Filled - 1 = n - 1
      BY <1>9, <2>2
    <3>2. LastByte' = cells'[Onward(ridx', Filled' - 1)]
      BY <1>9, <1>11, <2>2 DEF LastByte
    <3>3. LastByte' = Contents'[Filled + n]
      BY <1>3, <1>11, <1>12, <3>1, <3>2
    <3>4. Contents'[Filled + n] = u.first - n + (n - 1)
      BY <1>14, <3>1
    <3> QED BY <1>1, <1>2, <1>3, <1>7, <1>9, <3>3, <3>4
  <2> QED BY <2>1, <2>2
<1>16. WriterKnows'
  BY <1>1, <1>3, <1>15 DEF WriterKnows, NoWrite
<1>17. ReaderKnows'
  <2>1. CASE reader.at = "index"
    <3>1. reader.upto \in Places
      BY <2>1 DEF RingTyped, NoRead, Looking, Getting
    <3>2. Gap(ridx, reader.upto) \in Nat
      BY <1>1, <3>1, GapIs
    <3> QED BY <1>3, <1>9, <1>11, <2>1, <3>2 DEF ReaderKnows
  <2>2. CASE reader.at = "get"
    <3>1. Len(reader.bytes) \in Nat /\ reader.left \in Nat
      BY <2>2 DEF RingTyped, NoRead, Looking, Getting
    <3> QED BY <1>3, <1>9, <1>11, <2>2, <3>1 DEF ReaderKnows
  <2>3. CASE reader.at \notin {"index", "get"}
    BY <1>3, <2>3 DEF ReaderKnows
  <2> QED BY <2>1, <2>2, <2>3
<1>18. CASE n = 0
  <2>1. Contents' = Contents
    <3>1. widx' = widx
      BY <1>3, <1>6, <1>18, <1>1, GapIs
    <3> QED BY <1>3, <3>1, SameBytes
  <2> QED BY <1>3, <1>5, <1>16, <1>17, <2>1
<1>19. CASE n # 0
  <2>1. Len(Contents') \in Len(Contents) + 1 .. UartCapacity - 1
    BY <1>7, <1>9, <1>11, <1>19
  <2>2. SubSeq(Contents', 1, Len(Contents)) = Contents
    BY <1>7, <1>9, <1>11, <1>13
  <2>3. ASSUME NEW k \in Len(Contents) + 1 .. Len(Contents')
        PROVE  IF k = Len(Contents) + 1 THEN Contents'[k] > Queue!LastIn
               ELSE Contents'[k] = Contents'[k - 1] + 1
    <3>1. k \in Filled + 1 .. Filled + n
      BY <1>7, <1>11
    <3>2. CASE k = Filled + 1
      <4>1. Contents'[k] = u.first - n
        BY <1>1, <1>9, <1>14, <3>1, <3>2
      <4>2. LastByte = Queue!LastIn
        BY LayoutHolds DEF Layout
      <4> QED BY <1>1, <1>2, <1>7, <1>9, <3>2, <4>1, <4>2
    <3>3. CASE k # Filled + 1
      <4>1. k - 1 \in Filled + 1 .. Filled + n /\ k \in Int
        BY <1>9, <3>1, <3>3
      <4>2. /\ Contents'[k] = u.first - n + (k - Filled - 1)
            /\ Contents'[k - 1] = u.first - n + ((k - 1) - Filled - 1)
        BY <1>14, <3>1, <4>1
      <4>3. Contents'[k] = Contents'[k - 1] + 1
        BY <1>1, <1>9, <4>1, <4>2
      <4> QED BY <1>7, <3>3, <4>3
    <3> QED BY <3>2, <3>3
  <2>4. Queue!Put
    BY <1>3, <2>1, <2>2, <2>3 DEF Queue!Put
  <2> QED BY <1>5, <1>16, <1>17, <2>4
<1> QED BY <1>18, <1>19

LEMMA LookSteps ==
  ASSUME RingInv, (\E n \in 1 .. MaxSlice : StartRead(n)) \/ CheckData
  PROVE  RingInv'
<1> USE DEF RingInv
<1>1. Filled = Gap(ridx, widx) /\ Filled \in 0 .. UartCapacity - 1 /\ ridx \in Places
      /\ UartCapacity \in Nat /\ UNCHANGED <<cells, widx, ridx, taken, made, writer>>
  BY LayoutHolds, SharedUartAssumption DEF Layout, RingTyped, StartRead, CheckData
<1>2. WriterKnows'
  BY <1>1, SameBytes DEF WriterKnows
<1>3. ASSUME NEW n \in 1 .. MaxSlice, StartRead(n)
      PROVE  RingInv'
  <2>1. reader' = [at |-> "index", upto |-> widx, left |-> n] /\ n \in Nat
    BY <1>3, SharedUartAssumption DEF StartRead
  <2>2. RingTyped'
    BY <1>1, <2>1 DEF RingTyped, Looking
  <2>3. ReaderKnows'
    <3>1. reader'.at = "index" /\ reader'.upto = widx
      BY <2>1
    <3>2. Gap(ridx, widx) <= Filled
      BY <1>1
    <3>3. Gap(ridx, reader.upto)' <= Filled'
      BY <1>1, <3>1, <3>2, SameBytes
    <3> QED BY <3>1, <3>3 DEF ReaderKnows
  <2> QED BY <1>2, <2>2, <2>3
<1>4. CASE CheckData
  <2> DEFINE have == IF reader.upto >= ridx THEN reader.upto - ridx
                     ELSE (UartCapacity - ridx) + reader.upto
             n == IF have < reader.left THEN have ELSE reader.left
  <2>1. reader.upto \in Places /\ reader.left \in Nat /\ reader.at = "index"
    BY <1>4 DEF CheckData, RingTyped, NoRead, Looking, Getting
  <2>2. have = Gap(ridx, reader.upto) /\ have \in 0 .. UartCapacity - 1
    BY <1>1, <2>1, GapIs DEF Gap
  <2>3. have <= Filled
    BY <2>1, <2>2 DEF ReaderKnows
  <2>4. n \in Nat /\ n <= Filled
    BY <1>1, <2>1, <2>2, <2>3
  <2>5. reader' = IF n = 0 THEN NoRead
                  ELSE [at |-> "get", cur |-> ridx, left |-> n, bytes |-> <<>>]
    BY <1>4 DEF CheckData
  <2> HIDE DEF n, have
  <2>6. RingTyped'
    BY <1>1, <2>4, <2>5 DEF RingTyped, Getting
  <2>7. ReaderKnows'
    <3>1. CASE n = 0
      BY <2>5, <3>1 DEF ReaderKnows, NoRead
    <3>2. CASE n # 0
      <4>1. /\ reader'.at = "get" /\ reader'.cur = ridx /\ reader'.left = n
            /\ reader'.bytes = <<>> /\ Len(reader'.bytes) = 0
        BY <2>5, <3>2
      <4>2. Gap(ridx', reader'.cur) = 0 /\ Filled' = Filled
        BY <1>1, <4>1, GapIs, SameBytes
      <4> QED BY <1>1, <2>4, <3>2, <4>1, <4>2 DEF ReaderKnows
    <3> QED BY <3>1, <3>2
  <2> QED BY <1>2, <2>6, <2>7
<1> QED BY <1>3, <1>4

LEMMA GetByteStep ==
  ASSUME RingInv, GetByteOut
  PROVE  RingInv'
<1> USE DEF RingInv
<1>1. /\ Filled = Gap(ridx, widx) /\ Filled \in 0 .. UartCapacity - 1 /\ ridx \in Places
      /\ UartCapacity \in Nat /\ UNCHANGED <<cells, widx, ridx, taken, made, writer>>
  BY LayoutHolds, SharedUartAssumption DEF Layout, RingTyped, GetByteOut
<1>2. WriterKnows'
  BY <1>1, SameBytes DEF WriterKnows
<1>3. PICK c \in Places, l \in Nat, s \in Seq(Nat) :
        reader = [at |-> "get", cur |-> c, left |-> l, bytes |-> s]
  BY DEF GetByteOut, RingTyped, NoRead, Looking, Getting
<1>4. /\ l > 0 /\ Len(s) = Gap(ridx, c) /\ Len(s) + l \in 1 .. Filled
      /\ \A j \in 1 .. Len(s) : s[j] = cells[Onward(ridx, j - 1)]
  BY <1>3 DEF GetByteOut, ReaderKnows
<1>5. c = Onward(ridx, Len(s)) /\ Len(s) \in 0 .. UartCapacity - 1
  BY <1>1, <1>4, GapIs
<1>6. reader' = [at |-> "get", cur |-> NextPlace(c), left |-> l - 1, bytes |-> Append(s, cells[c])]
  BY <1>3 DEF GetByteOut
<1>7. Len(s) + 1 \in 0 .. UartCapacity - 1 /\ l - 1 \in Nat
  BY <1>1, <1>4, <1>5
<1>8. NextPlace(c) = Onward(ridx, Len(s) + 1)
  BY <1>1, <1>5, OnwardIs
<1>9. NextPlace(c) \in Places /\ Gap(ridx, NextPlace(c)) = Len(s) + 1
  BY <1>1, <1>7, <1>8, OnwardIs
<1>10. cells[c] \in Nat
  BY DEF RingTyped
<1>11. Append(s, cells[c]) \in Seq(Nat) /\ Len(Append(s, cells[c])) = Len(s) + 1
  BY <1>10
<1>12. RingTyped'
  BY <1>1, <1>6, <1>7, <1>9, <1>11 DEF RingTyped, Getting
<1>13. ASSUME NEW j \in 1 .. Len(s) + 1
       PROVE  Append(s, cells[c])[j] = cells[Onward(ridx, j - 1)]
  <2>1. CASE j = Len(s) + 1
    <3>1. Append(s, cells[c])[j] = cells[c]
      BY <1>10, <2>1
    <3>2. j - 1 = Len(s)
      BY <1>5, <2>1
    <3> QED BY <1>5, <3>1, <3>2
  <2>2. CASE j # Len(s) + 1
    <3>1. j \in 1 .. Len(s)
      BY <1>5, <2>2
    <3> QED BY <1>4, <1>10, <3>1
  <2> QED BY <2>1, <2>2
<1>14. ReaderKnows'
  <2>1. /\ reader'.at = "get" /\ reader'.cur = NextPlace(c) /\ reader'.left = l - 1
        /\ reader'.bytes = Append(s, cells[c]) /\ Len(reader'.bytes) = Len(s) + 1
    BY <1>6, <1>11
  <2>2. Filled' = Filled /\ ridx' = ridx /\ cells' = cells
    BY <1>1, SameBytes
  <2>3. Len(reader'.bytes) + reader'.left \in 1 .. Filled
    <3>1. (Len(s) + 1) + (l - 1) = Len(s) + l
      BY <1>5
    <3> QED BY <1>4, <2>1, <3>1
  <2>4. Len(reader'.bytes) = Gap(ridx', reader'.cur)
    BY <1>9, <2>1, <2>2
  <2>5. \A j \in 1 .. Len(reader'.bytes) : reader'.bytes[j] = cells'[Onward(ridx', j - 1)]
    BY <1>13, <2>1, <2>2
  <2> QED BY <2>1, <2>2, <2>3, <2>4, <2>5 DEF ReaderKnows
<1> QED BY <1>2, <1>12, <1>14

LEMMA TailOf ==
  ASSUME NEW q \in Seq(Nat), NEW m \in 1 .. Len(q)
  PROVE  /\ SubSeq(q, m + 1, Len(q)) \in Seq(Nat)
         /\ Len(SubSeq(q, m + 1, Len(q))) = Len(q) - m
         /\ \A k \in 1 .. Len(q) - m : SubSeq(q, m + 1, Len(q))[k] = q[m + k]
<1>1. SubSeq(q, m + 1, Len(q)) \in Seq(Nat) /\ Len(SubSeq(q, m + 1, Len(q))) = Len(q) - m
  OBVIOUS
<1>2. ASSUME NEW k \in 1 .. Len(q) - m
      PROVE  SubSeq(q, m + 1, Len(q))[k] = q[m + k]
  <2>1. SubSeq(q, m + 1, Len(q))[k] = q[(m + 1) + k - 1]
    OBVIOUS
  <2>2. (m + 1) + k - 1 = m + k
    OBVIOUS
  <2> QED BY <2>1, <2>2
<1> QED BY <1>1, <1>2

LEMMA EndReadStep ==
  ASSUME RingInv, EndRead
  PROVE  RingInv' /\ Queue!Take
<1> USE DEF RingInv
<1>1. /\ Filled = Gap(ridx, widx) /\ Filled \in 0 .. UartCapacity - 1 /\ Filled \in Nat
      /\ ridx \in Places /\ widx \in Places /\ taken \in Seq(Nat) /\ Len(taken) \in Nat
      /\ Contents \in Seq(Nat) /\ Len(Contents) = Filled
      /\ UartCapacity \in Nat /\ UNCHANGED <<cells, widx, made, writer>>
  BY LayoutHolds, SharedUartAssumption DEF Layout, RingTyped, EndRead
<1>2. PICK c \in Places, s \in Seq(Nat) :
        reader = [at |-> "get", cur |-> c, left |-> 0, bytes |-> s]
  BY DEF EndRead, RingTyped, NoRead, Looking, Getting
<1> DEFINE n == Len(s)
<1>3. /\ n = Gap(ridx, c) /\ n \in 1 .. Filled
      /\ \A j \in 1 .. n : s[j] = cells[Onward(ridx, j - 1)]
  BY <1>1, <1>2 DEF EndRead, ReaderKnows
<1>4. ridx' = c /\ taken' = taken \o s /\ reader' = NoRead
  BY <1>2 DEF EndRead
<1>5. c = Onward(ridx, n) /\ n \in 0 .. UartCapacity - 1 /\ n \in Nat /\ Filled - n \in Nat
  BY <1>1, <1>3, GapIs
<1>6. RingTyped'
  <2>1. taken' \in Seq(Nat)
    BY <1>1, <1>4
  <2> QED BY <1>1, <1>4, <2>1 DEF RingTyped
<1>7. widx = Onward(c, Filled - n)
  <2>1. widx = Onward(ridx, Filled)
    BY <1>1, GapIs
  <2>2. n + (Filled - n) = Filled /\ Filled <= UartCapacity - 1
    BY <1>1, <1>5
  <2> HIDE DEF n
  <2>3. Onward(Onward(ridx, n), Filled - n) = Onward(ridx, n + (Filled - n))
    BY <1>1, <1>5, <2>2, OnwardAgain
  <2> QED BY <1>5, <2>1, <2>2, <2>3
<1>8. /\ Filled' = Filled - n
      /\ Contents' \in Seq(Nat) /\ Len(Contents') = Filled - n
  <2>1. Filled' = Gap(c, widx) /\ Contents' \in Seq(Nat) /\ Len(Contents') = Filled'
    BY <1>1, <1>4, <1>6, LayoutHoldsNext DEF Layout
  <2>2. Filled - n \in 0 .. UartCapacity - 1
    BY <1>1, <1>3, <1>5
  <2> QED BY <1>7, <2>1, <2>2, OnwardIs
<1>9. ASSUME NEW k \in 1 .. Filled - n
      PROVE  Contents'[k] = Contents[n + k]
  <2>1. /\ n + k \in 1 .. Filled /\ k - 1 \in Nat /\ n + (k - 1) <= UartCapacity - 1
        /\ n + (k - 1) = n + k - 1
    BY <1>1, <1>5
  <2>2. Contents'[k] = cells[Onward(c, k - 1)]
    BY <1>1, <1>4, <1>6, <1>8, LayoutHoldsNext DEF Layout
  <2>3. Contents[n + k] = cells[Onward(ridx, n + k - 1)]
    BY <2>1, LayoutHolds DEF Layout
  <2> HIDE DEF n
  <2>4. Onward(Onward(ridx, n), k - 1) = Onward(ridx, n + (k - 1))
    BY <1>1, <1>5, <2>1, OnwardAgain
  <2> QED BY <1>5, <2>1, <2>2, <2>3, <2>4
<1>10. \A j \in 1 .. n : s[j] = Contents[j]
  <2> SUFFICES ASSUME NEW j \in 1 .. n PROVE s[j] = Contents[j]
    OBVIOUS
  <2>1. j \in 1 .. Filled
    BY <1>1, <1>3
  <2> QED BY <1>3, <2>1, LayoutHolds DEF Layout
<1>11. Queue!Take
  <2>1. s = SubSeq(Contents, 1, n)
    BY <1>1, <1>3, <1>10
  <2>2. Contents' = SubSeq(Contents, n + 1, Len(Contents))
    <3>1. /\ SubSeq(Contents, n + 1, Len(Contents)) \in Seq(Nat)
          /\ Len(SubSeq(Contents, n + 1, Len(Contents))) = Filled - n
          /\ \A k \in 1 .. Filled - n : SubSeq(Contents, n + 1, Len(Contents))[k] = Contents[n + k]
      <4>1. n \in 1 .. Len(Contents)
        BY <1>1, <1>3
      <4> HIDE DEF n
      <4> QED BY <1>1, <4>1, TailOf
    <3> QED BY <1>8, <1>9, <3>1
  <2>3. n \in 1 .. Len(Contents)
    BY <1>1, <1>3
  <2> QED BY <1>4, <2>1, <2>2, <2>3 DEF Queue!Take
<1>12. LastByte' = LastByte
  <2>1. LastByte = Contents[Filled]
    BY <1>1, <1>3, LayoutHolds DEF Layout, LastByte
  <2>2. CASE Filled - n > 0
    <3>1. LastByte' = Contents'[Filled - n]
      BY <1>6, <1>8, <2>2, LayoutHoldsNext DEF Layout, LastByte
    <3>2. n + (Filled - n) = Filled /\ Filled - n \in 1 .. Filled - n
      BY <1>1, <1>5, <2>2
    <3> QED BY <1>9, <2>1, <3>1, <3>2
  <2>3. CASE Filled - n = 0
    <3>1. Len(taken') = Len(taken) + n /\ Len(taken') > 0 /\ taken'[Len(taken')] = s[n]
      BY <1>1, <1>3, <1>4
    <3>2. LastByte' = taken'[Len(taken')]
      BY <1>8, <2>3, <3>1 DEF LastByte
    <3>3. n = Filled /\ n \in 1 .. n
      BY <1>1, <1>3, <1>5, <2>3
    <3> QED BY <1>10, <2>1, <3>1, <3>2, <3>3
  <2> QED BY <1>5, <2>2, <2>3
<1>13. WriterKnows'
  <2> SUFFICES ASSUME NEW w \in Writers, writer[w].at = "put"
               PROVE  Filled' + Gap(widx, writer[w].cur) + writer[w].left <= UartCapacity - 1
    BY <1>1, <1>12 DEF WriterKnows
  <2>1. writer[w].cur \in Places /\ writer[w].left \in Nat
    BY DEF RingTyped, NoWrite, Writing
  <2> DEFINE g == Gap(widx, writer[w].cur)
             l == writer[w].left
  <2>2. g \in 0 .. UartCapacity - 1 /\ l \in Nat
    BY <1>1, <2>1, GapIs
  <2>3. Filled + g + l <= UartCapacity - 1
    BY DEF WriterKnows
  <2> HIDE DEF g, l, n
  <2>4. Filled \in Nat /\ n \in Nat /\ g \in Nat /\ UartCapacity \in Nat
    BY <1>1, <1>5, <2>2
  <2>5. Filled - n + g + l <= UartCapacity - 1
    BY <2>2, <2>3, <2>4
  <2> QED BY <1>8, <2>5 DEF g, l
<1>14. ReaderKnows'
  BY <1>4 DEF ReaderKnows, NoRead
<1> QED BY <1>6, <1>11, <1>13, <1>14

-----------------------------------------------------------------------------
LEMMA RingStart == RingInit => RingInv /\ Queue!FifoInit
<1> SUFFICES ASSUME RingInit PROVE RingInv /\ Queue!FifoInit
  OBVIOUS
<1>1. Filled = 0 /\ LastByte = 0 /\ taken = <<>> /\ Len(taken) = 0
  BY DEF RingInit, Filled, LastByte
<1>2. RingTyped
  BY SharedUartAssumption DEF RingInit, RingTyped, Places
<1>3. WriterKnows /\ ReaderKnows
  BY <1>1 DEF RingInit, WriterKnows, ReaderKnows, NoWrite, NoRead
<1>4. Contents = <<>>
  BY <1>1 DEF Contents
<1> QED BY <1>1, <1>2, <1>3, <1>4 DEF RingInv, Queue!FifoInit

\* Each step of the ring is a step of the queue or leaves it alone.
LEMMA RingStep ==
  ASSUME OneWriter, RingInv, [RingNext]_ringVars
  PROVE  RingInv' /\ [Queue!Put \/ Queue!Take]_Queue!fifoVars
<1> DEFINE Same == UNCHANGED <<Contents, taken>>
<1>1. ASSUME NEW w \in Writers, NEW n \in 1 .. MaxSlice, StartWrite(w, n)
      PROVE  RingInv' /\ Same
  BY <1>1, StartWriteStep, SameBytes DEF StartWrite
<1>2. ASSUME NEW w \in Writers, CheckRoom(w)
      PROVE  RingInv' /\ Same
  BY <1>2, CheckRoomStep, SameBytes DEF CheckRoom
<1>3. ASSUME NEW w \in Writers, PutByteIn(w)
      PROVE  RingInv' /\ Same
  BY <1>3, PutByteStep DEF PutByteIn
<1>4. ASSUME NEW w \in Writers, EndWrite(w)
      PROVE  RingInv' /\ (Queue!Put \/ Same)
  BY <1>4, EndWriteStep
<1>5. CASE (\E n \in 1 .. MaxSlice : StartRead(n)) \/ CheckData
  <2>1. UNCHANGED <<cells, widx, ridx, taken>>
    BY <1>5 DEF StartRead, CheckData
  <2>2. RingInv' /\ Same
    BY <1>5, <2>1, LookSteps, SameBytes
  <2> QED BY <2>2 DEF Queue!fifoVars
<1>6. CASE GetByteOut
  <2>1. RingInv' /\ Same
    BY <1>6, GetByteStep, SameBytes DEF GetByteOut
  <2> QED BY <2>1 DEF Queue!fifoVars
<1>7. CASE EndRead
  BY <1>7, EndReadStep
<1>8. CASE UNCHANGED ringVars
  <2>1. Same
    BY <1>8, SameBytes DEF ringVars
  <2>2. Filled' = Filled /\ LastByte' = LastByte
    BY <1>8, SameBytes DEF ringVars
  <2>3. RingInv'
    BY <1>8, <2>2 DEF ringVars, RingInv, RingTyped, WriterKnows, ReaderKnows
  <2> QED BY <2>1, <2>3 DEF Queue!fifoVars
<1>9. ASSUME NEW w \in Writers,
             (\E n \in 1 .. MaxSlice : StartWrite(w, n)) \/ CheckRoom(w) \/ PutByteIn(w) \/ EndWrite(w)
      PROVE  RingInv' /\ (Queue!Put \/ Same)
  BY <1>1, <1>2, <1>3, <1>4, <1>9
<1> QED BY <1>5, <1>6, <1>7, <1>8, <1>9 DEF RingNext, Queue!fifoVars

\* With one writer and one reader the ring implements the queue, for every
\* capacity and every length of the slices: bytes come out once, in order and
\* intact (SharedUartOutput, SharedUartInput).
THEOREM RingRefinesFifo ==
  ASSUME OneWriter
  PROVE  RingSpec => RingIsFifo
<1>1. RingInv /\ [RingNext]_ringVars => RingInv' /\ [Queue!Put \/ Queue!Take]_Queue!fifoVars
  BY RingStep
<1> QED BY <1>1, RingStart, PTL DEF RingSpec, RingIsFifo, Queue!FifoSpec

===============================================================================
