--------------------------- MODULE NativeVmProofs ---------------------------
(***************************************************************************)
(* Machine-checked proofs about NativeVm, for any number of worker harts   *)
(* and any batch size and polling intervals: workers are held back, the    *)
(* halt code is stored before HALTED, and it is final when run() returns;  *)
(* the UART gets exactly the typed keys that are meant for it.             *)
(***************************************************************************)
EXTENDS NativeVm, SequenceTheorems, WellFoundedInduction, TLAPS

-----------------------------------------------------------------------------
(* The inductive invariant, one part per theorem over a common shape.      *)

Shape ==
    /\ pc \in [Threads -> Labels]
    /\ reason \in [Threads -> Reasons]
    /\ steps \in Nat

\* A hart on its way through signal_halted has a code, and has stored it
\* before it raises the flag.
CodeInv ==
    /\ \A t \in Threads :
          /\ pc[t] = "code" => reason[t] \in Codes \cup {Fatal}
          /\ pc[t] = "flag" => haltCode \in Codes \cup {Fatal}
    /\ CodeBeforeHalted

\* WORKERS_CAN_START is the witness that hart 0 has booted.
BootInv ==
    /\ "WORKERS_CAN_START" \in flags => steps >= BootSteps
    /\ \A w \in Workers :
          pc[w] \in {"check", "batch", "code", "flag"} => "WORKERS_CAN_START" \in flags

\* The join is over only when the workers are.
JoinInv == pc[0] = "done" => \A w \in Workers : pc[w] = "done"

LifeInv == Shape /\ CodeInv /\ BootInv /\ JoinInv

\* Wrapping the step count never takes hart 0 back into the boot phase.
LEMMA CountKeepsBoot ==
    ASSUME NEW n \in Nat
    PROVE  /\ Count(n) \in Nat
           /\ n >= BootSteps => Count(n) >= BootSteps
  BY NativeVmAssumption DEF Count

\* A step that moves one thread to a label without obligations.
LEMMA Moves ==
    ASSUME LifeInv, NEW t \in Threads, NEW l \in Labels \ {"code", "flag", "done"},
           pc' = [pc EXCEPT ![t] = l],
           t \in Workers /\ l \in {"check", "batch"}
              => "WORKERS_CAN_START" \in flags,
           pc[0] # "done",
           UNCHANGED <<flags, haltCode, reason, steps>>
    PROVE  LifeInv'
<1> USE NativeVmAssumption
        DEF LifeInv, Shape, CodeInv, BootInv, JoinInv, CodeBeforeHalted
<1>1. 0 \in Threads /\ Workers \subseteq Threads
  BY DEF Threads
<1>2. Shape' /\ JoinInv'
  BY <1>1
<1>3. CodeInv'
  BY <1>1
<1>4. BootInv'
  BY <1>1
<1> QED
  BY <1>2, <1>3, <1>4

\* Hart 0 is not done while a worker is running.
LEMMA WorkerRuns ==
    ASSUME LifeInv, NEW w \in Workers, pc[w] # "done"
    PROVE  pc[0] # "done"
  BY DEF LifeInv, JoinInv

\* The steps of hart_thread and run() that are common to all harts.
LEMMA HartLoop ==
    ASSUME LifeInv, NEW t \in Threads, pc[t] # "done", pc[0] # "done",
           \/ CheckStop(t) \/ ExecuteBatch(t) \/ SignalCode(t) \/ SignalHalted(t)
    PROVE  LifeInv'
<1> USE NativeVmAssumption
<1>0. 0 \in Threads /\ Workers \subseteq Threads
  BY DEF Threads
<1>1. CASE CheckStop(t)
  <2> USE <1>1 DEF CheckStop, Goto, Labels
  <2>1. CASE ~ShouldStop
    <3>1. pc' = [pc EXCEPT ![t] = "batch"]
      BY <2>1
    <3>2. t \in Workers => "WORKERS_CAN_START" \in flags
      BY DEF LifeInv, BootInv
    <3> QED
      BY <3>1, <3>2, Moves
  <2>2. CASE ShouldStop /\ t = 0
    <3>1. pc' = [pc EXCEPT ![0] = "request"]
      BY <2>2
    <3> QED
      BY <1>0, <2>2, <3>1, Moves
  <2>3. CASE ShouldStop /\ t # 0
    <3>1. pc' = [pc EXCEPT ![t] = "done"]
      BY <2>3
    <3> QED
      BY <1>0, <2>3, <3>1 DEF LifeInv, Shape, CodeInv, BootInv, JoinInv,
                             CodeBeforeHalted
  <2> QED
    BY <2>1, <2>2, <2>3
<1>2. CASE ExecuteBatch(t)
  <2>1. PICK n \in 0 .. BatchSize, r \in Reasons :
          /\ reason' = [reason EXCEPT ![t] = r]
          /\ IF t = 0
             THEN steps' = Count(steps + n) /\ Goto(0, "allow")
             ELSE /\ Goto(t, IF r = NoCode THEN "check" ELSE "code")
                  /\ UNCHANGED steps
    BY <1>2 DEF ExecuteBatch
  <2>2. UNCHANGED <<flags, haltCode>> /\ pc[t] = "batch"
    BY <1>2 DEF ExecuteBatch
  <2>3. CASE t = 0
    <3>1. steps + n \in Nat /\ steps + n >= steps
      BY DEF LifeInv, Shape
    <3>2. steps' \in Nat /\ (steps >= BootSteps => steps' >= BootSteps)
      BY <2>1, <2>3, <3>1, CountKeepsBoot DEF LifeInv, Shape
    <3>3. pc' = [pc EXCEPT ![0] = "allow"]
      BY <2>1, <2>3 DEF Goto
    <3>4. Shape'
      BY <1>0, <2>1, <3>2, <3>3 DEF LifeInv, Shape, Labels
    <3>5. CodeInv'
      BY <1>0, <2>1, <2>2, <2>3, <3>3 DEF LifeInv, Shape, CodeInv, CodeBeforeHalted
    <3>6. BootInv' /\ JoinInv'
      BY <1>0, <2>2, <3>2, <3>3 DEF LifeInv, Shape, BootInv, JoinInv
    <3> QED
      BY <3>4, <3>5, <3>6 DEF LifeInv
  <2>4. CASE t # 0
    <3>1. PICK l \in {"check", "code"} :
            /\ pc' = [pc EXCEPT ![t] = l]
            /\ l = "code" => r # NoCode
      BY <2>1, <2>4 DEF Goto
    <3>2. UNCHANGED steps
      BY <2>1, <2>4
    <3>3. Shape' /\ JoinInv'
      BY <1>0, <2>1, <2>4, <3>1, <3>2 DEF LifeInv, Shape, JoinInv, Labels
    <3>4. CodeInv'
      BY <2>1, <2>2, <3>1 DEF LifeInv, Shape, CodeInv, CodeBeforeHalted, Reasons
    <3>5. BootInv'
      BY <1>0, <2>2, <2>4, <3>1, <3>2 DEF LifeInv, Shape, BootInv, Threads
    <3> QED
      BY <3>3, <3>4, <3>5 DEF LifeInv
  <2> QED
    BY <2>3, <2>4
<1>3. CASE SignalCode(t)
  <2>1. /\ pc' = [pc EXCEPT ![t] = "flag"] /\ haltCode' = reason[t]
        /\ pc[t] = "code"
        /\ UNCHANGED <<flags, reason, steps>>
    BY <1>3 DEF SignalCode, Goto
  <2>2. haltCode' \in Codes \cup {Fatal}
    BY <2>1 DEF LifeInv, CodeInv
  <2>3. Shape' /\ CodeInv'
    BY <2>1, <2>2 DEF LifeInv, Shape, CodeInv, CodeBeforeHalted, Labels
  <2>4. BootInv' /\ JoinInv'
    BY <1>0, <2>1 DEF LifeInv, Shape, BootInv, JoinInv
  <2> QED
    BY <2>3, <2>4 DEF LifeInv
<1>4. CASE SignalHalted(t)
  <2>1. /\ pc[t] = "flag"
        /\ flags' = flags \cup {"HALTED"}
        /\ reason' = [reason EXCEPT ![t] = NoCode]
        /\ UNCHANGED <<haltCode, steps>>
    BY <1>4 DEF SignalHalted
  <2>2. PICK l \in {"request", "done"} :
          pc' = [pc EXCEPT ![t] = l] /\ (l = "done" => t # 0)
    BY <1>4 DEF SignalHalted, Goto
  <2>3. Shape' /\ CodeInv'
    BY <2>1, <2>2 DEF LifeInv, Shape, CodeInv, CodeBeforeHalted, Labels, Reasons
  <2>4. BootInv' /\ JoinInv'
    BY <1>0, <2>1, <2>2 DEF LifeInv, Shape, BootInv, JoinInv
  <2> QED
    BY <2>3, <2>4 DEF LifeInv
<1> QED
  BY <1>1, <1>2, <1>3, <1>4

\* LifeInv holds initially and every step of every thread, of the window and
\* of the user keeps it.
THEOREM LifeInvariant == Spec => []LifeInv
<1> USE NativeVmAssumption
<1>0. 0 \in Threads /\ Workers \subseteq Threads
  BY DEF Threads
<1>1. Init => LifeInv
  BY <1>0 DEF Init, LifeInv, Shape, CodeInv, BootInv, JoinInv, CodeBeforeHalted,
              Labels, Reasons
<1>2. LifeInv /\ [Next]_vars => LifeInv'
  <2> SUFFICES ASSUME LifeInv, [Next]_vars PROVE LifeInv'
    OBVIOUS
  <2>1. ASSUME NEW w \in Workers, StartWorker(w) PROVE LifeInv'
    <3>1. pc' = [pc EXCEPT ![w] = "wait"] /\ pc[0] # "done"
          /\ UNCHANGED <<flags, haltCode, reason, steps>>
      BY <2>1 DEF StartWorker, Goto
    <3> QED
      BY <1>0, <3>1, Moves DEF Labels
  <2>2. CASE EnterLoop \/ PollDevices \/ PollVirtio \/ PollConsole
    <3>1. PICK l \in {"check", "virtio", "console", "pump"} :
            pc' = [pc EXCEPT ![0] = l]
      BY <2>2 DEF EnterLoop, PollDevices, PollVirtio, PollConsole, Goto
    <3>2. pc[0] # "done" /\ UNCHANGED <<flags, haltCode, reason, steps>>
      BY <2>2 DEF EnterLoop, PollDevices, PollVirtio, PollConsole
    <3> QED
      BY <1>0, <3>1, <3>2, Moves DEF Labels
  <2>3. ASSUME NEW t \in Threads,
               \/ CheckStop(t) \/ ExecuteBatch(t) \/ SignalCode(t)
               \/ SignalHalted(t)
        PROVE  LifeInv'
    <3>1. pc[t] # "done"
      BY <2>3 DEF CheckStop, ExecuteBatch, SignalCode, SignalHalted
    <3>2. pc[0] # "done"
      BY <3>1, WorkerRuns DEF Threads
    <3> QED
      BY <2>3, <3>1, <3>2, HartLoop
  <2>4. CASE AllowWorkers
    <3>1. PICK l \in {"poll", "code"} :
            pc' = [pc EXCEPT ![0] = l] /\ (l = "code" => reason[0] # NoCode)
      BY <2>4 DEF AllowWorkers, Goto
    <3>2. /\ UNCHANGED <<haltCode, reason, steps>> /\ flags \subseteq flags'
          /\ "HALTED" \in flags' => "HALTED" \in flags
          /\ "WORKERS_CAN_START" \in flags' =>
                "WORKERS_CAN_START" \in flags \/ steps >= BootSteps
      BY <2>4 DEF AllowWorkers
    <3>3. Shape' /\ JoinInv'
      BY <1>0, <3>1, <3>2 DEF LifeInv, Shape, JoinInv, Labels
    <3>4. CodeInv'
      BY <1>0, <3>1, <3>2 DEF LifeInv, Shape, CodeInv, CodeBeforeHalted, Reasons
    <3>5. BootInv'
      BY <1>0, <3>1, <3>2 DEF LifeInv, Shape, BootInv
    <3> QED
      BY <3>3, <3>4, <3>5 DEF LifeInv
  <2>5. CASE PumpConsole \/ RequestHalt
    <3>1. PICK l \in {"check", "join"} : pc' = [pc EXCEPT ![0] = l]
      BY <2>5 DEF PumpConsole, RequestHalt, Goto
    <3>2. /\ UNCHANGED <<haltCode, reason, steps>>
          /\ \/ flags' = flags
             \/ flags' = flags \cup {"HALT_REQUESTED"}
      BY <2>5 DEF PumpConsole, RequestHalt
    <3> QED
      BY <1>0, <3>1, <3>2 DEF LifeInv, Shape, CodeInv, BootInv, JoinInv,
                             CodeBeforeHalted, Labels
  <2>6. CASE JoinWorkers
    BY <1>0, <2>6 DEF JoinWorkers, Goto, LifeInv, Shape, CodeInv, BootInv,
                      JoinInv, CodeBeforeHalted, Labels
  <2>7. ASSUME NEW w \in Workers, WaitForBoot(w) \/ WaitStop(w) PROVE LifeInv'
    <3>0. pc[0] # "done" /\ UNCHANGED <<flags, haltCode, reason, steps>>
      BY <2>7, WorkerRuns DEF WaitForBoot, WaitStop
    <3>1. CASE WaitForBoot(w)
      BY <1>0, <3>0, <3>1, Moves DEF WaitForBoot, Goto, Labels
    <3>2. CASE WaitStop(w) /\ ~ShouldStop
      BY <1>0, <3>0, <3>2, Moves DEF WaitStop, Goto, Labels
    <3>3. CASE WaitStop(w) /\ ShouldStop
      <4>1. pc' = [pc EXCEPT ![w] = "done"]
        BY <3>3 DEF WaitStop, Goto
      <4> QED
        BY <1>0, <3>0, <4>1 DEF LifeInv, Shape, CodeInv, BootInv, JoinInv,
                                CodeBeforeHalted, Labels
    <3> QED
      BY <2>7, <3>1, <3>2, <3>3
  <2>8. CASE GuiFrame \/ GuiJoin \/ CloseWindow
    BY <2>8 DEF GuiFrame, GuiJoin, CloseWindow, LifeInv, Shape, CodeInv,
                BootInv, JoinInv, CodeBeforeHalted
  <2>9. CASE (\E k \in Keys : TypeKey(k)) \/ UNCHANGED vars
    BY <2>9 DEF TypeKey, vars, LifeInv, Shape, CodeInv, BootInv, JoinInv,
                CodeBeforeHalted
  <2> QED
    BY <1>0, <2>1, <2>2, <2>3, <2>4, <2>5, <2>6, <2>7, <2>8, <2>9
       DEF Next, Hart0, Worker
<1> QED
  BY <1>1, <1>2, PTL DEF Spec

\* main.rs never reports a halted VM with the code nobody signalled.
THEOREM CodeStoredFirst == Spec => []CodeBeforeHalted
<1>1. LifeInv => CodeBeforeHalted
  BY DEF LifeInv, CodeInv
<1> QED
  BY <1>1, LifeInvariant, PTL

\* Secondary harts start only after hart 0's boot phase.
THEOREM BootFirst == Spec => []WorkersHeldBack
<1>1. LifeInv => WorkersHeldBack
  BY DEF LifeInv, BootInv, WorkersHeldBack
<1> QED
  BY <1>1, LifeInvariant, PTL

\* The code main.rs reads after run() is the last one: no hart that was
\* halting at the same time can still overwrite it.
THEOREM CodeIsFinal == Spec => FinalCode
<1>1. LifeInv /\ [Next]_vars => [pc[0] = "done" => haltCode' = haltCode]_vars
  <2> SUFFICES ASSUME LifeInv, [Next]_vars, pc[0] = "done"
               PROVE  haltCode' = haltCode
    OBVIOUS
  <2>1. \A t \in Threads : ~SignalCode(t)
    BY DEF LifeInv, JoinInv, SignalCode, Threads
  <2>2. CASE Hart0
    BY <2>1, <2>2 DEF Hart0, StartWorker, EnterLoop, CheckStop, ExecuteBatch,
       AllowWorkers, SignalHalted, PollDevices, PollVirtio, PollConsole,
       PumpConsole, RequestHalt, JoinWorkers, Threads
  <2>3. ASSUME NEW w \in Workers, Worker(w) PROVE haltCode' = haltCode
    BY <2>1, <2>3 DEF Worker, WaitForBoot, WaitStop, CheckStop, ExecuteBatch,
       SignalHalted, Threads
  <2>4. CASE GuiFrame \/ GuiJoin \/ CloseWindow \/ \E k \in Keys : TypeKey(k)
    BY <2>4 DEF GuiFrame, GuiJoin, CloseWindow, TypeKey
  <2>5. CASE UNCHANGED vars
    BY <2>5 DEF vars
  <2> QED
    BY <2>2, <2>3, <2>4, <2>5 DEF Next
<1> QED
  BY <1>1, LifeInvariant, PTL DEF Spec, FinalCode

-----------------------------------------------------------------------------
(* The keyboard.  What InputExact says of the typed keys, as statements about *)
(* any sequence of keys t, and by induction over its positions.               *)

\* A set of naturals that holds 0, and n + 1 with n, holds all.
LEMMA AllNaturals ==
  ASSUME NEW S, 0 \in S, \A n \in Nat : n \in S => n + 1 \in S
  PROVE  Nat \subseteq S
<1> DEFINE T == Nat \ S
<1>1. SUFFICES ASSUME T # {} PROVE FALSE
  OBVIOUS
<1>2. T \subseteq Nat
  OBVIOUS
<1>3. PICK x \in T : \A y \in T : ~(<<y, x>> \in OpToRel(<, Nat))
  <2> HIDE DEF T
  <2> QED BY <1>1, <1>2, NatLessThanWellFounded, WFMin, Zenon
<1>4. x # 0 /\ x \in Nat
  OBVIOUS
<1>5. x - 1 \in Nat /\ (x - 1) + 1 = x /\ x - 1 < x
  BY <1>4
<1>6. x - 1 \notin S
  BY <1>4, <1>5
<1>7. <<x - 1, x>> \in OpToRel(<, Nat)
  BY <1>4, <1>5 DEF OpToRel
<1> QED BY <1>3, <1>5, <1>6, <1>7

\* A key added to the second of two sequences is added to both.
LEMMA KeyAppended == \A a, b \in Seq(Keys), k \in Keys : Append(a \o b, k) = a \o Append(b, k)
<1> SUFFICES ASSUME NEW a \in Seq(Keys), NEW b \in Seq(Keys), NEW k \in Keys
             PROVE  Append(a \o b, k) = a \o Append(b, k)
  OBVIOUS
<1>1. <<k>> \in Seq(Keys) /\ a \o b \in Seq(Keys)
  BY ConcatProperties
<1>2. Append(a \o b, k) = (a \o b) \o <<k>> /\ Append(b, k) = b \o <<k>>
  BY <1>1, AppendIsConcat
<1>3. (a \o b) \o <<k>> = a \o (b \o <<k>>)
  BY <1>1, ConcatAssociative
<1> QED BY <1>2, <1>3, Zenon

\* The n keys up to position i are Ctrl-A, and no more.
IsRun(t, i, n) ==
    /\ \A j \in (i - n) + 1 .. i : t[j] = "ctrlA"
    /\ i - n >= 1 => t[i - n] # "ctrlA"

\* Quoted, ExitAt and Kept of any keys.
QuotedIn(t, i) ==
    \E n \in 1 .. i - 1 :
        /\ n % 2 = 1
        /\ \A j \in i - n .. i - 1 : t[j] = "ctrlA"
        /\ i - n > 1 => t[i - n - 1] # "ctrlA"
ExitIn(t, i) == QuotedIn(t, i) /\ t[i] = "x"
Exited(t, i) == \E j \in 1 .. i : ExitIn(t, j)
KeptIn(t, i) == (QuotedIn(t, i) \/ t[i] # "ctrlA") /\ ~Exited(t, i)

LEMMA RunExists ==
  ASSUME NEW t, NEW i \in Nat
  PROVE  \E n \in 0 .. i : IsRun(t, i, n)
<1> DEFINE S == {m \in Nat : \E n \in 0 .. m : IsRun(t, m, n)}
<1>1. 0 \in S
  <2>1. IsRun(t, 0, 0)
    BY DEF IsRun
  <2> QED BY <2>1
<1>2. ASSUME NEW m \in Nat, m \in S PROVE m + 1 \in S
  <2>1. PICK n \in 0 .. m : IsRun(t, m, n)
    BY <1>2
  <2>2. CASE t[m + 1] = "ctrlA"
    <3>1. (m + 1) - (n + 1) = m - n /\ n + 1 \in 0 .. m + 1
      OBVIOUS
    <3>2. \A j \in (m - n) + 1 .. m + 1 : j = m + 1 \/ j \in (m - n) + 1 .. m
      OBVIOUS
    <3>3. IsRun(t, m + 1, n + 1)
      BY <2>1, <2>2, <3>1, <3>2 DEF IsRun
    <3> QED BY <3>1, <3>3
  <2>3. CASE t[m + 1] # "ctrlA"
    <3>1. (m + 1) - 0 = m + 1 /\ 0 \in 0 .. m + 1 /\ \A j : j \notin (m + 1) + 1 .. m + 1
      OBVIOUS
    <3>2. IsRun(t, m + 1, 0)
      BY <2>3, <3>1 DEF IsRun
    <3> QED BY <3>1, <3>2
  <2> QED BY <2>2, <2>3
<1> HIDE DEF S
<1>3. i \in S
  BY <1>1, <1>2, AllNaturals
<1> QED BY <1>3 DEF S

LEMMA RunUnique ==
  ASSUME NEW t, NEW i \in Nat, NEW n \in 0 .. i, NEW m \in 0 .. i, IsRun(t, i, n), IsRun(t, i, m)
  PROVE  n = m
<1>1. CASE n < m
  <2>1. i - n >= 1 /\ i - n \in (i - m) + 1 .. i
    BY <1>1
  <2> QED BY <2>1 DEF IsRun
<1>2. CASE m < n
  <2>1. i - m >= 1 /\ i - m \in (i - n) + 1 .. i
    BY <1>2
  <2> QED BY <2>1 DEF IsRun
<1> QED BY <1>1, <1>2

LEMMA QuotedByRun ==
  ASSUME NEW t, NEW i \in Nat, NEW n \in 0 .. i, IsRun(t, i, n)
  PROVE  QuotedIn(t, i + 1) <=> n % 2 = 1
<1>1. ASSUME NEW m \in 1 .. i
      PROVE  IsRun(t, i, m) <=>
                /\ \A j \in (i + 1) - m .. (i + 1) - 1 : t[j] = "ctrlA"
                /\ (i + 1) - m > 1 => t[(i + 1) - m - 1] # "ctrlA"
  <2>1. (i + 1) - m = (i - m) + 1 /\ (i + 1) - 1 = i /\ (i + 1) - m - 1 = i - m
    OBVIOUS
  <2>2. (i + 1) - m > 1 <=> i - m >= 1
    OBVIOUS
  <2> QED BY <2>1, <2>2 DEF IsRun
<1>2. ASSUME QuotedIn(t, i + 1) PROVE n % 2 = 1
  <2>1. PICK m \in 1 .. (i + 1) - 1 :
          /\ m % 2 = 1
          /\ \A j \in (i + 1) - m .. (i + 1) - 1 : t[j] = "ctrlA"
          /\ (i + 1) - m > 1 => t[(i + 1) - m - 1] # "ctrlA"
    BY <1>2 DEF QuotedIn
  <2>2. m \in 1 .. i /\ m \in 0 .. i
    OBVIOUS
  <2>3. IsRun(t, i, m)
    BY <1>1, <2>1, <2>2
  <2> QED BY <2>1, <2>2, <2>3, RunUnique
<1>3. ASSUME n % 2 = 1 PROVE QuotedIn(t, i + 1)
  <2>1. n # 0
    BY <1>3
  <2>2. n \in 1 .. i /\ n \in 1 .. (i + 1) - 1
    BY <2>1
  <2>3. /\ \A j \in (i + 1) - n .. (i + 1) - 1 : t[j] = "ctrlA"
        /\ (i + 1) - n > 1 => t[(i + 1) - n - 1] # "ctrlA"
    BY <1>1, <2>2
  <2> QED BY <1>3, <2>2, <2>3 DEF QuotedIn
<1> QED BY <1>2, <1>3

\* The state `escaped' of the loop: a Ctrl-A that is not itself quoted quotes what follows.
LEMMA QuotedNext ==
  ASSUME NEW t, NEW i \in Nat \ {0}
  PROVE  QuotedIn(t, i + 1) <=> t[i] = "ctrlA" /\ ~QuotedIn(t, i)
<1> DEFINE h == i - 1
<1>0. h \in Nat /\ i = h + 1 /\ i \in Nat
  OBVIOUS
<1>1. PICK n \in 0 .. i : IsRun(t, i, n)
  BY <1>0, RunExists
<1>2. QuotedIn(t, i + 1) <=> n % 2 = 1
  BY <1>0, <1>1, QuotedByRun
<1> HIDE DEF h
<1>3. CASE t[i] # "ctrlA"
  <2>1. n = 0
    <3>1. SUFFICES ASSUME n # 0 PROVE FALSE
      OBVIOUS
    <3>2. i \in (i - n) + 1 .. i
      BY <3>1
    <3> QED BY <3>2, <1>1, <1>3 DEF IsRun
  <2> QED BY <2>1, <1>2, <1>3
<1>4. CASE t[i] = "ctrlA"
  <2>1. n # 0
    <3>1. SUFFICES ASSUME n = 0 PROVE FALSE
      OBVIOUS
    <3>2. i - n = i /\ i >= 1
      BY <3>1
    <3> QED BY <3>2, <1>1, <1>4 DEF IsRun
  <2>2. n - 1 \in 0 .. h /\ h - (n - 1) = i - n
    BY <2>1, <1>0
  <2>3. IsRun(t, h, n - 1)
    <3>1. \A j \in (h - (n - 1)) + 1 .. h : j \in (i - n) + 1 .. i
      BY <2>2, <1>0
    <3> QED BY <3>1, <2>2, <1>1 DEF IsRun
  <2>4. QuotedIn(t, h + 1) <=> (n - 1) % 2 = 1
    BY <1>0, <2>2, <2>3, QuotedByRun
  <2>5. n % 2 = 1 <=> ~((n - 1) % 2 = 1)
    OBVIOUS
  <2> QED BY <2>4, <2>5, <1>0, <1>2, <1>4
<1> QED BY <1>3, <1>4

-----------------------------------------------------------------------------
\* What the UART is to get of the first n keys of t.
KeepTurn(t, i, p) == IF KeptIn(t, i) THEN Append(p, t[i]) ELSE p
IsKeeping(t, g, n) ==
    g = [i \in 0 .. n |-> IF i = 0 THEN <<>> ELSE KeepTurn(t, i, g[i - 1])]
OutOf(t, n) == (CHOOSE g : IsKeeping(t, g, n))[n]

LEMMA KeepingEnds ==
  ASSUME NEW t, NEW n \in Nat
  PROVE  \E g : IsKeeping(t, g, n)
<1> DEFINE S == {m \in Nat : \E g : IsKeeping(t, g, m)}
<1>1. 0 \in S
  <2> DEFINE g == [s \in 0 .. 0 |-> <<>>]
  <2>1. IsKeeping(t, g, 0)
    BY DEF IsKeeping
  <2> QED BY <2>1
<1>2. ASSUME NEW m \in Nat, m \in S PROVE m + 1 \in S
  <2>1. PICK g : IsKeeping(t, g, m)
    BY <1>2
  <2> DEFINE f == [s \in 0 .. m + 1 |-> IF s = m + 1 THEN KeepTurn(t, m + 1, g[m]) ELSE g[s]]
  <2>2. ASSUME NEW s \in 0 .. m + 1
        PROVE  f[s] = IF s = 0 THEN <<>> ELSE KeepTurn(t, s, f[s - 1])
    <3>1. CASE s = m + 1
      <4>1. s # 0 /\ s - 1 = m /\ m \in 0 .. m + 1 /\ m # m + 1
        BY <3>1
      <4>2. f[s] = KeepTurn(t, m + 1, g[m]) /\ f[m] = g[m]
        BY <3>1, <4>1
      <4> QED BY <3>1, <4>1, <4>2
    <3>2. CASE s # m + 1
      <4>1. s \in 0 .. m
        BY <3>2
      <4>2. f[s] = g[s]
        BY <3>2
      <4>3. g[s] = IF s = 0 THEN <<>> ELSE KeepTurn(t, s, g[s - 1])
        BY <4>1, <2>1 DEF IsKeeping
      <4>4. s # 0 => f[s - 1] = g[s - 1]
        BY <4>1
      <4> HIDE DEF f
      <4> QED BY <4>2, <4>3, <4>4
    <3> QED BY <3>1, <3>2
  <2>3. IsKeeping(t, f, m + 1)
    <3>1. f = [s \in 0 .. m + 1 |-> f[s]]
      OBVIOUS
    <3> HIDE DEF f
    <3> QED BY <3>1, <2>2 DEF IsKeeping
  <2>4. m + 1 \in Nat
    OBVIOUS
  <2> HIDE DEF f
  <2> QED BY <2>3, <2>4
<1> HIDE DEF S
<1>3. n \in S
  BY <1>1, <1>2, AllNaturals
<1> QED BY <1>3 DEF S

\* Two recordings of the keys t and u, which agree on the first n of them.
LEMMA KeepingAgrees ==
  ASSUME NEW t, NEW u, NEW n \in Nat, NEW m \in Nat, n <= m, NEW g, NEW f,
         IsKeeping(t, g, n), IsKeeping(u, f, m), \A j \in 1 .. n : t[j] = u[j]
  PROVE  g[n] = f[n]
<1> DEFINE S == {i \in Nat : i <= n => g[i] = f[i]}
<1>1. 0 \in S
  BY DEF IsKeeping
<1>2. ASSUME NEW i \in Nat, i \in S PROVE i + 1 \in S
  <2>1. SUFFICES ASSUME i + 1 <= n PROVE g[i + 1] = f[i + 1]
    OBVIOUS
  <2>2. g[i] = f[i] /\ i + 1 \in 0 .. n /\ i + 1 \in 0 .. m /\ i + 1 # 0 /\ (i + 1) - 1 = i
    BY <1>2, <2>1
  <2>3. g[i + 1] = KeepTurn(t, i + 1, g[i]) /\ f[i + 1] = KeepTurn(u, i + 1, f[i])
    BY <2>2 DEF IsKeeping
  <2>4. KeptIn(t, i + 1) <=> KeptIn(u, i + 1)
    <3>1. ASSUME NEW j \in 1 .. i + 1 PROVE t[j] = u[j] /\ (QuotedIn(t, j) <=> QuotedIn(u, j))
      <4>1. t[j] = u[j]
        BY <2>1
      <4>2. ASSUME NEW k \in 1 .. j - 1
            PROVE  /\ \A l \in j - k .. j - 1 : t[l] = u[l]
                   /\ j - k > 1 => t[j - k - 1] = u[j - k - 1]
        <5>1. \A l \in j - k .. j - 1 : l \in 1 .. n
          BY <2>1
        <5>2. j - k > 1 => j - k - 1 \in 1 .. n
          BY <2>1
        <5> QED BY <5>1, <5>2
      <4> QED BY <4>1, <4>2 DEF QuotedIn
    <3>2. i + 1 \in 1 .. i + 1
      OBVIOUS
    <3> QED BY <3>1, <3>2 DEF KeptIn, Exited, ExitIn
  <2>5. t[i + 1] = u[i + 1]
    BY <2>1
  <2> QED BY <2>2, <2>3, <2>4, <2>5 DEF KeepTurn
<1> HIDE DEF S
<1>3. n \in S
  BY <1>1, <1>2, AllNaturals
<1> QED BY <1>3 DEF S

LEMMA OutNext ==
  ASSUME NEW t, NEW n \in Nat
  PROVE  OutOf(t, 0) = <<>> /\ OutOf(t, n + 1) = KeepTurn(t, n + 1, OutOf(t, n))
<1> DEFINE g == CHOOSE x : IsKeeping(t, x, n)
           f == CHOOSE x : IsKeeping(t, x, n + 1)
           z == CHOOSE x : IsKeeping(t, x, 0)
<1>1. IsKeeping(t, g, n) /\ IsKeeping(t, z, 0)
  BY KeepingEnds
<1>2. IsKeeping(t, f, n + 1)
  <2>1. n + 1 \in Nat
    OBVIOUS
  <2> QED BY <2>1, KeepingEnds
<1>3. OutOf(t, n) = g[n] /\ OutOf(t, n + 1) = f[n + 1] /\ OutOf(t, 0) = z[0]
  BY DEF OutOf
<1> HIDE DEF g, f, z
<1>4. g[n] = f[n]
  BY <1>1, <1>2, KeepingAgrees
<1>5. n + 1 \in 0 .. n + 1 /\ n + 1 # 0 /\ (n + 1) - 1 = n
  OBVIOUS
<1>6. f[n + 1] = KeepTurn(t, n + 1, f[n])
  BY <1>2, <1>5 DEF IsKeeping
<1>7. z[0] = <<>>
  BY <1>1 DEF IsKeeping
<1> QED BY <1>3, <1>4, <1>6, <1>7

LEMMA OutSame ==
  ASSUME NEW t, NEW u, NEW n \in Nat, \A j \in 1 .. n : t[j] = u[j]
  PROVE  OutOf(t, n) = OutOf(u, n)
<1> DEFINE g == CHOOSE x : IsKeeping(t, x, n)
           f == CHOOSE x : IsKeeping(u, x, n)
<1>1. IsKeeping(t, g, n) /\ IsKeeping(u, f, n)
  BY KeepingEnds
<1>2. OutOf(t, n) = g[n] /\ OutOf(u, n) = f[n]
  BY DEF OutOf
<1> HIDE DEF g, f
<1> QED BY <1>1, <1>2, KeepingAgrees

LEMMA InputExactIs == InputExact <=> rx = OutOf(typed, consumed)
<1> DEFINE kept[i \in 0 .. consumed] ==
            IF i = 0 THEN <<>>
            ELSE IF Kept(i) THEN Append(kept[i - 1], typed[i]) ELSE kept[i - 1]
<1>1. \A i : Kept(i) <=> KeptIn(typed, i)
  BY DEF Kept, KeptIn, Exited, ExitAt, ExitIn, Quoted, QuotedIn
<1>2. kept = CHOOSE g : IsKeeping(typed, g, consumed)
  BY <1>1 DEF IsKeeping, KeepTurn
<1>3. InputExact <=> rx = kept[consumed]
  BY DEF InputExact
<1> QED BY <1>2, <1>3 DEF OutOf

-----------------------------------------------------------------------------
\* The loop of pump_console, turn by turn.
PumpTurn(p, k) ==
    IF p.exit THEN p
    ELSE IF p.escaped /\ k = "x" THEN [p EXCEPT !.exit = TRUE]
    ELSE IF ~p.escaped /\ k = "ctrlA" THEN [p EXCEPT !.escaped = TRUE]
    ELSE [p EXCEPT !.escaped = FALSE, !.out = Append(@, k)]
IsPumping(g, esc, keys, n) ==
    g = [i \in 0 .. n |-> IF i = 0 THEN [escaped |-> esc, out |-> <<>>, exit |-> FALSE]
                          ELSE PumpTurn(g[i - 1], keys[i])]

LEMMA PumpingEnds ==
  ASSUME NEW esc, NEW keys, NEW n \in Nat
  PROVE  \E g : IsPumping(g, esc, keys, n)
<1> DEFINE z == [escaped |-> esc, out |-> <<>>, exit |-> FALSE]
           S == {m \in Nat : \E g : IsPumping(g, esc, keys, m)}
<1>1. 0 \in S
  <2> DEFINE g == [s \in 0 .. 0 |-> z]
  <2>1. IsPumping(g, esc, keys, 0)
    BY DEF IsPumping
  <2> QED BY <2>1
<1>2. ASSUME NEW m \in Nat, m \in S PROVE m + 1 \in S
  <2>1. PICK g : IsPumping(g, esc, keys, m)
    BY <1>2
  <2> DEFINE f == [s \in 0 .. m + 1 |-> IF s = m + 1 THEN PumpTurn(g[m], keys[m + 1]) ELSE g[s]]
  <2> HIDE DEF z
  <2>2. ASSUME NEW s \in 0 .. m + 1
        PROVE  f[s] = IF s = 0 THEN z ELSE PumpTurn(f[s - 1], keys[s])
    <3>1. CASE s = m + 1
      <4>1. s # 0 /\ s - 1 = m /\ m \in 0 .. m + 1 /\ m # m + 1
        BY <3>1
      <4>2. f[s] = PumpTurn(g[m], keys[m + 1]) /\ f[m] = g[m]
        BY <3>1, <4>1
      <4> QED BY <3>1, <4>1, <4>2
    <3>2. CASE s # m + 1
      <4>1. s \in 0 .. m
        BY <3>2
      <4>2. f[s] = g[s]
        BY <3>2
      <4>3. g[s] = IF s = 0 THEN z ELSE PumpTurn(g[s - 1], keys[s])
        BY <4>1, <2>1 DEF IsPumping, z
      <4>4. s # 0 => f[s - 1] = g[s - 1]
        BY <4>1
      <4> HIDE DEF f
      <4> QED BY <4>2, <4>3, <4>4
    <3> QED BY <3>1, <3>2
  <2>3. IsPumping(f, esc, keys, m + 1)
    <3>1. f = [s \in 0 .. m + 1 |-> f[s]]
      OBVIOUS
    <3> HIDE DEF f
    <3> QED BY <3>1, <2>2 DEF IsPumping, z
  <2>4. m + 1 \in Nat
    OBVIOUS
  <2> HIDE DEF f
  <2> QED BY <2>3, <2>4
<1> HIDE DEF S
<1>3. n \in S
  BY <1>1, <1>2, AllNaturals
<1> QED BY <1>3 DEF S

LEMMA PumpedIs ==
  ASSUME NEW esc, NEW keys, Len(keys) \in Nat
  PROVE  \E g : IsPumping(g, esc, keys, Len(keys)) /\ Pumped(esc, keys) = g[Len(keys)]
<1> DEFINE after[i \in 0 .. Len(keys)] ==
            IF i = 0 THEN [escaped |-> esc, out |-> <<>>, exit |-> FALSE]
            ELSE LET p == after[i - 1]
                     k == keys[i]
                 IN  IF p.exit THEN p
                     ELSE IF p.escaped /\ k = "x" THEN [p EXCEPT !.exit = TRUE]
                     ELSE IF ~p.escaped /\ k = "ctrlA" THEN [p EXCEPT !.escaped = TRUE]
                     ELSE [p EXCEPT !.escaped = FALSE, !.out = Append(@, k)]
<1>1. after = CHOOSE g : IsPumping(g, esc, keys, Len(keys))
  BY DEF IsPumping, PumpTurn
<1>2. \E g : IsPumping(g, esc, keys, Len(keys))
  BY PumpingEnds
<1>3. Pumped(esc, keys) = after[Len(keys)]
  BY DEF Pumped
<1> QED BY <1>1, <1>2, <1>3

\* Where the loop is when it has taken the keys up to position i, having had out0 before.
Pumps == [escaped : BOOLEAN, out : Seq(Keys), exit : BOOLEAN]
PumpAt(p, t, i, out0) ==
    /\ p \in Pumps
    /\ p.exit <=> Exited(t, i)
    /\ ~p.exit => (p.escaped <=> QuotedIn(t, i + 1))
    /\ OutOf(t, i) = out0 \o p.out

LEMMA PumpTurns ==
  ASSUME NEW t, NEW i \in Nat, t[i + 1] \in Keys, NEW out0 \in Seq(Keys), NEW p,
         PumpAt(p, t, i, out0)
  PROVE  PumpAt(PumpTurn(p, t[i + 1]), t, i + 1, out0)
<1> DEFINE k == t[i + 1]
           s == i + 1
<1>0. s \in Nat \ {0} /\ 1 .. s = (1 .. i) \cup {s} /\ k = t[s]
  OBVIOUS
<1>1. p \in Pumps /\ (p.exit <=> Exited(t, i)) /\ OutOf(t, i) = out0 \o p.out
  BY DEF PumpAt
<1>2. ~p.exit => (p.escaped <=> QuotedIn(t, s))
  BY DEF PumpAt
<1>3. OutOf(t, s) = IF KeptIn(t, s) THEN Append(OutOf(t, i), k) ELSE OutOf(t, i)
  BY OutNext DEF KeepTurn
<1>4. Exited(t, s) <=> Exited(t, i) \/ (QuotedIn(t, s) /\ k = "x")
  BY <1>0 DEF Exited, ExitIn
<1>5. QuotedIn(t, s + 1) <=> k = "ctrlA" /\ ~QuotedIn(t, s)
  BY <1>0, QuotedNext
<1>6. KeptIn(t, s) <=> (QuotedIn(t, s) \/ k # "ctrlA") /\ ~Exited(t, s)
  BY DEF KeptIn
<1>7. SUFFICES PumpAt(PumpTurn(p, k), t, s, out0)
  OBVIOUS
<1>8. k \in Keys
  OBVIOUS
<1> HIDE DEF k, s
<1>9. CASE p.exit
  <2>1. PumpTurn(p, k) = p
    BY <1>9 DEF PumpTurn
  <2>2. OutOf(t, s) = OutOf(t, i) /\ Exited(t, s)
    BY <1>1, <1>3, <1>4, <1>6, <1>9
  <2> QED BY <2>1, <2>2, <1>1, <1>9 DEF PumpAt
<1>10. CASE ~p.exit /\ p.escaped /\ k = "x"
  <2> DEFINE r == PumpTurn(p, k)
  <2>1. r \in Pumps /\ r.exit = TRUE /\ r.out = p.out
    BY <1>1, <1>10 DEF PumpTurn, Pumps
  <2>2. OutOf(t, s) = OutOf(t, i) /\ Exited(t, s)
    BY <1>2, <1>3, <1>4, <1>6, <1>10
  <2> HIDE DEF r
  <2>3. PumpAt(r, t, s, out0)
    BY <2>1, <2>2, <1>1 DEF PumpAt
  <2> QED BY <2>3 DEF r
<1>11. CASE ~p.exit /\ ~p.escaped /\ k = "ctrlA"
  <2> DEFINE r == PumpTurn(p, k)
  <2>1. r \in Pumps /\ r.exit = FALSE /\ r.out = p.out /\ r.escaped = TRUE
    BY <1>1, <1>11 DEF PumpTurn, Pumps
  <2>2. OutOf(t, s) = OutOf(t, i) /\ ~Exited(t, s) /\ QuotedIn(t, s + 1)
    BY <1>1, <1>2, <1>3, <1>4, <1>5, <1>6, <1>11
  <2> HIDE DEF r
  <2>3. PumpAt(r, t, s, out0)
    BY <2>1, <2>2, <1>1 DEF PumpAt
  <2> QED BY <2>3 DEF r
<1>12. CASE ~p.exit /\ ~(p.escaped /\ k = "x") /\ ~(~p.escaped /\ k = "ctrlA")
  <2> DEFINE r == PumpTurn(p, k)
         o == Append(p.out, k)
  <2>0. o \in Seq(Keys)
    BY <1>1, <1>8 DEF Pumps
  <2>9. r = [p EXCEPT !.escaped = FALSE, !.out = o]
    BY <1>12 DEF PumpTurn
  <2> HIDE DEF r, o
  <2>1. r \in Pumps /\ r.exit = FALSE /\ r.out = o /\ r.escaped = FALSE
    BY <2>0, <2>9, <1>1, <1>12 DEF Pumps
  <2>8. (QuotedIn(t, s) /\ k # "x") \/ (~QuotedIn(t, s) /\ k # "ctrlA")
    BY <1>2, <1>12
  <2>7. ~Exited(t, s) /\ KeptIn(t, s)
    BY <2>8, <1>1, <1>4, <1>6, <1>12
  <2>2. OutOf(t, s) = Append(OutOf(t, i), k) /\ ~Exited(t, s) /\ ~QuotedIn(t, s + 1)
    BY <2>7, <2>8, <1>3, <1>5
  <2>3. Append(out0 \o p.out, k) = out0 \o Append(p.out, k)
    <3>1. p.out \in Seq(Keys)
      BY <1>1 DEF Pumps
    <3>2. k \in Keys /\ out0 \in Seq(Keys)
      BY <1>8
    <3> DEFINE b == p.out
    <3>3. b \in Seq(Keys)
      BY <3>1
    <3> HIDE DEF b
    <3>4. Append(out0 \o b, k) = out0 \o Append(b, k)
      BY <3>2, <3>3, KeyAppended, Zenon
    <3> QED BY <3>4 DEF b
  <2>4. PumpAt(r, t, s, out0)
    BY <2>1, <2>2, <2>3, <1>1 DEF PumpAt, o
  <2> QED BY <2>4 DEF r
<1> QED BY <1>9, <1>10, <1>11, <1>12

\* A whole call, over the keys that came after the first n.
LEMMA PumpCall ==
  ASSUME NEW t \in Seq(Keys), NEW n \in 0 .. Len(t), NEW esc \in BOOLEAN, ~Exited(t, n),
         esc <=> QuotedIn(t, n + 1), OutOf(t, n) \in Seq(Keys)
  PROVE  PumpAt(Pumped(esc, SubSeq(t, n + 1, Len(t))), t, Len(t), OutOf(t, n))
<1> DEFINE keys == SubSeq(t, n + 1, Len(t))
           m == Len(t) - n
           out0 == OutOf(t, n)
<1>1. Len(keys) = m /\ m \in Nat /\ n \in Nat /\ \A i \in 1 .. m : keys[i] = t[n + i] /\ t[n + i] \in Keys
  OBVIOUS
<1> HIDE DEF keys
<1>2. PICK g : IsPumping(g, esc, keys, m) /\ Pumped(esc, keys) = g[m]
  <2> HIDE DEF m
  <2> QED BY <1>1, PumpedIs
<1> DEFINE S == {i \in Nat : i <= m => PumpAt(g[i], t, n + i, out0)}
<1> HIDE DEF out0, m
<1>3. 0 \in S
  <2>1. 0 \in 0 .. m /\ n + 0 = n
    BY <1>1
  <2> DEFINE p == g[0]
  <2>2. p = [escaped |-> esc, out |-> <<>>, exit |-> FALSE]
    BY <1>2, <2>1 DEF IsPumping
  <2>3. out0 \o <<>> = out0
    BY DEF out0
  <2>4. p \in Pumps /\ p.exit = FALSE /\ p.escaped = esc /\ p.out = <<>>
    BY <2>2 DEF Pumps
  <2> HIDE DEF p
  <2>5. PumpAt(p, t, n, out0)
    BY <2>3, <2>4 DEF PumpAt, out0
  <2> QED BY <2>1, <2>5 DEF p
<1>4. ASSUME NEW i \in Nat, i \in S PROVE i + 1 \in S
  <2>1. SUFFICES ASSUME i + 1 <= m PROVE PumpAt(g[i + 1], t, n + (i + 1), out0)
    OBVIOUS
  <2>9. m \in Nat /\ n \in Nat
    BY <1>1
  <2>8. PumpAt(g[i], t, n + i, out0)
    BY <1>4, <2>1, <2>9
  <2>7. /\ i + 1 \in 1 .. m /\ i + 1 \in 0 .. m /\ i + 1 # 0
        /\ (i + 1) - 1 = i /\ n + (i + 1) = (n + i) + 1 /\ n + i \in Nat
    BY <2>1, <2>9
  <2>2. /\ PumpAt(g[i], t, n + i, out0) /\ i + 1 \in 1 .. m /\ i + 1 \in 0 .. m /\ i + 1 # 0
        /\ (i + 1) - 1 = i /\ n + (i + 1) = (n + i) + 1 /\ n + i \in Nat
    BY <2>7, <2>8
  <2>3. g[i + 1] = PumpTurn(g[i], keys[i + 1])
    BY <1>2, <2>2 DEF IsPumping
  <2>4. keys[i + 1] = t[(n + i) + 1] /\ t[(n + i) + 1] \in Keys
    BY <1>1, <2>2
  <2>5. out0 \in Seq(Keys)
    BY DEF out0
  <2>6. PumpAt(PumpTurn(g[i], t[(n + i) + 1]), t, (n + i) + 1, out0)
    BY <2>2, <2>4, <2>5, PumpTurns
  <2> QED BY <2>2, <2>3, <2>4, <2>6
<1> HIDE DEF S
<1>5. m \in S
  BY <1>1, <1>3, <1>4, AllNaturals
<1>6. n + m = Len(t)
  BY <1>1 DEF m
<1>7. PumpAt(g[m], t, n + m, out0)
  BY <1>1, <1>5 DEF S
<1> QED BY <1>2, <1>6, <1>7 DEF keys, out0

-----------------------------------------------------------------------------
\* Between two calls: the UART has what it should, `escaped' says whether the next key is
\* quoted, and once Ctrl-A x was among the keys hart 0 is on its way out.
KeysInv ==
    /\ typed \in Seq(Keys) /\ consumed \in 0 .. Len(typed) /\ escaped \in BOOLEAN
    /\ rx = OutOf(typed, consumed) /\ rx \in Seq(Keys)
    /\ Exited(typed, consumed) =>
          "HALT_REQUESTED" \in flags /\ pc[0] \in {"check", "request", "join", "done"}
    /\ ~Exited(typed, consumed) => (escaped <=> QuotedIn(typed, consumed + 1))

LEMMA KeysStart == Init => KeysInv
<1> SUFFICES ASSUME Init PROVE KeysInv
  OBVIOUS
<1>1. typed = <<>> /\ consumed = 0 /\ escaped = FALSE /\ rx = <<>>
  BY DEF Init
<1>2. OutOf(typed, 0) = <<>>
  BY OutNext
<1>3. ~Exited(typed, 0) /\ ~QuotedIn(typed, 0 + 1)
  BY DEF Exited, QuotedIn
<1>4. typed \in Seq(Keys) /\ rx \in Seq(Keys) /\ consumed \in 0 .. Len(typed)
  BY <1>1
<1> QED BY <1>1, <1>2, <1>3, <1>4 DEF KeysInv

\* A step that is neither a key nor a pump.
LEMMA KeysQuiet ==
  ASSUME KeysInv, UNCHANGED console, flags \subseteq flags',
         Exited(typed, consumed) => pc'[0] \in {"check", "request", "join", "done"}
  PROVE  KeysInv'
  BY DEF KeysInv, console

LEMMA KeysKept == Shape /\ KeysInv /\ [Next]_vars => KeysInv'
<1> SUFFICES ASSUME Shape, KeysInv, [Next]_vars PROVE KeysInv'
  OBVIOUS
<1>0. 0 \in Threads /\ pc \in [Threads -> Labels] /\ Workers \subseteq Threads /\ 0 \notin Workers
  BY NativeVmAssumption DEF Shape, Threads
<1>1. ASSUME NEW k \in Keys, TypeKey(k) PROVE KeysInv'
  <2>1. /\ typed' = Append(typed, k) /\ consumed' = consumed /\ escaped' = escaped /\ rx' = rx
        /\ flags' = flags /\ pc' = pc
    BY <1>1 DEF TypeKey
  <2>2. typed \in Seq(Keys) /\ consumed \in 0 .. Len(typed) /\ consumed \in Nat
    BY DEF KeysInv
  <2>3. /\ typed' \in Seq(Keys) /\ Len(typed') = Len(typed) + 1
        /\ \A j \in 1 .. consumed : typed[j] = typed'[j]
    BY <2>1, <2>2
  <2>4. consumed' \in 0 .. Len(typed')
    BY <2>1, <2>2, <2>3
  <2>5. OutOf(typed, consumed) = OutOf(typed', consumed)
    BY <2>2, <2>3, OutSame
  <2>6. ASSUME NEW j \in 1 .. consumed + 1 PROVE QuotedIn(typed, j) <=> QuotedIn(typed', j)
    <3>1. ASSUME NEW n \in 1 .. j - 1
          PROVE  /\ \A l \in j - n .. j - 1 : l \in 1 .. consumed
                 /\ j - n > 1 => j - n - 1 \in 1 .. consumed
      BY <2>2
    <3> QED BY <3>1, <2>3 DEF QuotedIn
  <2>7. Exited(typed, consumed) <=> Exited(typed', consumed)
    <3>1. \A j \in 1 .. consumed : j \in 1 .. consumed + 1
      BY <2>2
    <3> QED BY <3>1, <2>3, <2>6 DEF Exited, ExitIn
  <2>8. QuotedIn(typed, consumed + 1) <=> QuotedIn(typed', consumed + 1)
    <3>1. consumed + 1 \in 1 .. consumed + 1
      BY <2>2
    <3> QED BY <3>1, <2>6
  <2> QED BY <2>1, <2>3, <2>4, <2>5, <2>7, <2>8 DEF KeysInv
<1>2. CASE PumpConsole
  <2> DEFINE p == Pumped(escaped, SubSeq(typed, consumed + 1, Len(typed)))
  <2>1. /\ pc[0] = "pump" /\ consumed' = Len(typed) /\ escaped' = p.escaped /\ rx' = rx \o p.out
        /\ flags' = flags \cup (IF p.exit THEN {"HALT_REQUESTED"} ELSE {})
        /\ pc' = [pc EXCEPT ![0] = "check"] /\ typed' = typed
    BY <1>2 DEF PumpConsole, Goto
  <2>2. ~Exited(typed, consumed)
    BY <2>1 DEF KeysInv
  <2>3. PumpAt(p, typed, Len(typed), OutOf(typed, consumed))
    BY <2>2, PumpCall DEF KeysInv
  <2> HIDE DEF p
  <2>4. /\ p \in Pumps /\ (p.exit <=> Exited(typed, Len(typed)))
        /\ ~p.exit => (p.escaped <=> QuotedIn(typed, Len(typed) + 1))
        /\ OutOf(typed, Len(typed)) = OutOf(typed, consumed) \o p.out
    BY <2>3 DEF PumpAt
  <2>5. p.escaped \in BOOLEAN /\ p.out \in Seq(Keys)
    BY <2>4 DEF Pumps
  <2>6. rx' = OutOf(typed', consumed') /\ rx' \in Seq(Keys)
    BY <2>1, <2>4, <2>5 DEF KeysInv
  <2>7. typed' \in Seq(Keys) /\ consumed' \in 0 .. Len(typed') /\ escaped' \in BOOLEAN
    BY <2>1, <2>5 DEF KeysInv
  <2>8. Exited(typed', consumed') => "HALT_REQUESTED" \in flags' /\ pc'[0] = "check"
    BY <1>0, <2>1, <2>4
  <2>9. ~Exited(typed', consumed') => (escaped' <=> QuotedIn(typed', consumed' + 1))
    BY <2>1, <2>4
  <2> QED BY <2>6, <2>7, <2>8, <2>9 DEF KeysInv
<1>3. ASSUME UNCHANGED console, flags \subseteq flags', pc'[0] = pc[0] PROVE KeysInv'
  BY <1>3, KeysQuiet DEF KeysInv
<1>4. ASSUME UNCHANGED console, flags \subseteq flags',
             pc[0] \notin {"check", "request", "join", "done"}
      PROVE  KeysInv'
  BY <1>4, KeysQuiet DEF KeysInv
<1>5. ASSUME NEW w \in Workers, Worker(w) PROVE KeysInv'
  <2>1. UNCHANGED console /\ flags \subseteq flags'
    BY <1>5 DEF Worker, WaitForBoot, WaitStop, CheckStop, ExecuteBatch, SignalCode, SignalHalted
  <2>2. \E l : pc' = [pc EXCEPT ![w] = l]
    <3>1. w # 0
      BY <1>0
    <3> QED BY <1>5, <3>1 DEF Worker, WaitForBoot, WaitStop, CheckStop, ExecuteBatch, SignalCode,
                       SignalHalted, Goto
  <2>3. pc'[0] = pc[0]
    BY <1>0, <2>2
  <2> QED BY <2>1, <2>3, <1>3
<1>6. ASSUME NEW w \in Workers, StartWorker(w) PROVE KeysInv'
  <2>1. UNCHANGED console /\ flags \subseteq flags' /\ pc'[0] = pc[0]
    BY <1>0, <1>6 DEF StartWorker, Goto
  <2> QED BY <2>1, <1>3
<1>7. CASE EnterLoop \/ ExecuteBatch(0) \/ AllowWorkers \/ SignalCode(0) \/ SignalHalted(0)
           \/ PollDevices \/ PollVirtio \/ PollConsole
  <2>1. UNCHANGED console /\ flags \subseteq flags'
    BY <1>7 DEF EnterLoop, ExecuteBatch, AllowWorkers, SignalCode, SignalHalted, PollDevices,
                PollVirtio, PollConsole
  <2>2. pc[0] \notin {"check", "request", "join", "done"}
    BY <1>7 DEF EnterLoop, ExecuteBatch, AllowWorkers, SignalCode, SignalHalted, PollDevices,
                PollVirtio, PollConsole
  <2> QED BY <2>1, <2>2, <1>4
<1>8. CASE CheckStop(0)
  <2>1. UNCHANGED console /\ flags \subseteq flags'
    BY <1>8 DEF CheckStop
  <2>2. "HALT_REQUESTED" \in flags => pc'[0] = "request"
    BY <1>0, <1>8 DEF CheckStop, Goto, ShouldStop
  <2> QED BY <2>1, <2>2, KeysQuiet DEF KeysInv
<1>9. CASE RequestHalt \/ JoinWorkers
  <2>1. UNCHANGED console /\ flags \subseteq flags' /\ pc'[0] \in {"join", "done"}
    BY <1>0, <1>9 DEF RequestHalt, JoinWorkers, Goto
  <2> QED BY <2>1, KeysQuiet
<1>10. CASE GuiFrame \/ GuiJoin \/ CloseWindow \/ UNCHANGED vars
  <2>1. UNCHANGED console /\ flags \subseteq flags' /\ pc'[0] = pc[0]
    BY <1>10 DEF GuiFrame, GuiJoin, CloseWindow, vars, console
  <2> QED BY <2>1, <1>3
<1> QED BY <1>1, <1>2, <1>5, <1>6, <1>7, <1>8, <1>9, <1>10 DEF Next, Hart0

\* However the typed keys fall into calls of pump_console, the UART gets each of them in order,
\* but for the unescaped Ctrl-A, and none from Ctrl-A x on.
THEOREM InputStaysExact == Spec => []InputExact
<1>1. LifeInv => Shape
  BY DEF LifeInv
<1>2. KeysInv => InputExact
  BY InputExactIs DEF KeysInv
<1> QED BY <1>1, <1>2, KeysStart, KeysKept, LifeInvariant, PTL DEF Spec
=============================================================================
