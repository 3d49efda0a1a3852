------------------------------ MODULE NativeVm ------------------------------
(***************************************************************************)
(* The life of a native VM (vm/native.rs, main.rs): hart 0's run loop, the *)
(* worker threads of the other harts, the GUI loop, the user at the        *)
(* keyboard, and the SharedState atomics through which they start and stop *)
(* each other.                                                             *)
(*                                                                         *)
(* A batch of guest instructions is one step with the outcomes a batch can *)
(* have; what happens inside it is the subject of Clint.  Hart 0 counts    *)
(* the instructions its batches retire and polls the console and the       *)
(* devices when that count is a multiple of their intervals.               *)
(***************************************************************************)
EXTENDS Integers, Sequences

CONSTANTS
    Workers,          \* harts 1 .. num_harts - 1
    BatchSize,        \* BATCH_SIZE: iterations of one batch
    ConsoleInterval,  \* CONSOLE_POLL_INTERVAL
    VirtioInterval,   \* VIRTIO_POLL_INTERVAL
    BootSteps,        \* steps of hart 0 before workers may start
    Codes,            \* codes a guest shuts down with
    Fatal,            \* 0xDEAD
    NoCode,           \* 0, the initial halt_code
    GuestWfi,         \* the guest of hart 0 executes WFI
    HasGui,           \* the VM was started with a window
    MaxTyped          \* bound on the keys the user types

ASSUME NativeVmAssumption ==
    /\ 0 \notin Workers
    /\ BatchSize \in Nat \ {0}
    /\ ConsoleInterval \in Nat \ {0}
    /\ VirtioInterval \in Nat \ {0}
    /\ VirtioInterval % ConsoleInterval = 0
    /\ BatchSize <= VirtioInterval
    /\ BootSteps \in Nat
    /\ NoCode \notin Codes \cup {Fatal}
    /\ GuestWfi \in BOOLEAN
    /\ HasGui \in BOOLEAN
    /\ MaxTyped \in Nat

VARIABLES
    flags,      \* SharedState.flags
    haltCode,   \* SharedState.halt_code
    pc,         \* where each hart's thread is; hart 0 is the thread in run()
    reason,     \* halt_reason of each hart's last batch
    steps,      \* step_count, see Count
    typed,      \* every key the user typed
    consumed,   \* how many of them pump_console has taken
    escaped,    \* Ctrl-A was seen
    rx,         \* bytes handed to the UART
    gui         \* where the GUI thread is

vars == <<flags, haltCode, pc, reason, steps, typed, consumed, escaped, rx, gui>>
console == <<typed, consumed, escaped, rx>>

Threads == Workers \cup {0}
Reasons == Codes \cup {Fatal, NoCode}
Keys == {"ctrlA", "x", "other"}
Flags == {"HALT_REQUESTED", "HALTED", "WORKERS_CAN_START"}
Labels == {"unborn", "wait", "waitStop", "start", "check", "batch", "allow",
           "code", "flag", "poll", "virtio", "console", "pump", "request",
           "join", "done"}

Goto(t, label) == pc' = [pc EXCEPT ![t] = label]
ShouldStop == flags \cap {"HALT_REQUESTED", "HALTED"} # {}

\* step_count, kept below a bound by whole virtio intervals once it is past
\* the boot phase: every test run() makes of it has the same answer.
Count(n) == IF n >= BootSteps + VirtioInterval THEN n - VirtioInterval ELSE n

-----------------------------------------------------------------------------
Init ==
    /\ flags = {}
    /\ haltCode = NoCode
    /\ pc = [t \in Threads |-> IF t = 0 THEN "start" ELSE "unborn"]
    /\ reason = [t \in Threads |-> NoCode]
    /\ steps = 0
    /\ typed = <<>> /\ consumed = 0 /\ escaped = FALSE /\ rx = <<>>
    /\ gui = IF HasGui THEN "loop" ELSE "done"

\* start_workers, one thread after the other.
StartWorker(w) ==
    /\ pc[0] = "start"
    /\ pc[w] = "unborn"
    /\ Goto(w, "wait")
    /\ UNCHANGED <<flags, haltCode, reason, steps, console, gui>>

EnterLoop ==
    /\ pc[0] = "start"
    /\ \A w \in Workers : pc[w] # "unborn"
    /\ Goto(0, "check")
    /\ UNCHANGED <<flags, haltCode, reason, steps, console, gui>>

\* Mutant: a worker does not wait for hart 0 to boot.
WaitForBootSkipped(w) ==
    /\ pc[w] = "wait"
    /\ Goto(w, "check")
    /\ UNCHANGED <<flags, haltCode, reason, steps, console, gui>>

\* hart_thread: the two loads of its waiting loop.
WaitForBoot(w) ==
    /\ pc[w] = "wait"
    /\ Goto(w, IF "WORKERS_CAN_START" \in flags THEN "check" ELSE "waitStop")
    /\ UNCHANGED <<flags, haltCode, reason, steps, console, gui>>

\* Mutant: the waiting loop does not look at the halt flags.
WaitIgnoresStop(w) ==
    /\ pc[w] = "waitStop"
    /\ Goto(w, "wait")
    /\ UNCHANGED <<flags, haltCode, reason, steps, console, gui>>

WaitStop(w) ==
    /\ pc[w] = "waitStop"
    /\ Goto(w, IF ShouldStop THEN "done" ELSE "wait")
    /\ UNCHANGED <<flags, haltCode, reason, steps, console, gui>>

-----------------------------------------------------------------------------
(* The loop every hart runs.                                               *)

CheckStop(t) ==
    /\ pc[t] = "check"
    /\ Goto(t, IF ~ShouldStop THEN "batch"
               ELSE IF t = 0 THEN "request" ELSE "done")
    /\ UNCHANGED <<flags, haltCode, reason, steps, console, gui>>

\* A batch ends after BatchSize iterations, or early with a reason to halt.
\* An iteration that executes WFI is not counted.
ExecuteBatch(t) ==
    /\ pc[t] = "batch"
    /\ \E n \in 0 .. BatchSize, r \in Reasons :
          /\ r = NoCode => n = BatchSize \/ GuestWfi
          /\ r # NoCode => n < BatchSize
          /\ reason' = [reason EXCEPT ![t] = r]
          /\ IF t = 0
             THEN steps' = Count(steps + n) /\ Goto(0, "allow")
             ELSE /\ Goto(t, IF r = NoCode THEN "check" ELSE "code")
                  /\ UNCHANGED steps
    /\ UNCHANGED <<flags, haltCode, console, gui>>

\* Hart 0 lets the workers go once it has booted.
AllowWorkers ==
    /\ pc[0] = "allow"
    /\ flags' = flags \cup IF steps >= BootSteps THEN {"WORKERS_CAN_START"} ELSE {}
    /\ Goto(0, IF reason[0] = NoCode THEN "poll" ELSE "code")
    /\ UNCHANGED <<haltCode, reason, steps, console, gui>>

\* Mutant: signal_halted raises the flag before it stores the code.
SignalFlagFirst(t) ==
    /\ pc[t] = "code"
    /\ flags' = flags \cup {"HALTED"}
    /\ Goto(t, "flag")
    /\ UNCHANGED <<haltCode, reason, steps, console, gui>>

\* signal_halted: the code, then the flag.
SignalCode(t) ==
    /\ pc[t] = "code"
    /\ haltCode' = reason[t]
    /\ Goto(t, "flag")
    /\ UNCHANGED <<flags, reason, steps, console, gui>>

SignalHalted(t) ==
    /\ pc[t] = "flag"
    /\ flags' = flags \cup {"HALTED"}
    /\ reason' = [reason EXCEPT ![t] = NoCode]
    /\ Goto(t, IF t = 0 THEN "request" ELSE "done")
    /\ UNCHANGED <<haltCode, steps, console, gui>>

-----------------------------------------------------------------------------
(* Hart 0 polls.                                                           *)

\* Mutant: the count is compared as if it started at 1.
DueOffByOne(interval) == steps % interval = 1

Due(interval) == steps % interval = 0

PollDevices ==
    /\ pc[0] = "poll"
    /\ Goto(0, IF Due(VirtioInterval) THEN "virtio" ELSE "console")
    /\ UNCHANGED <<flags, haltCode, reason, steps, console, gui>>

\* poll_virtio and poll_network: nothing of this module's state.
PollVirtio ==
    /\ pc[0] = "virtio"
    /\ Goto(0, "console")
    /\ UNCHANGED <<flags, haltCode, reason, steps, console, gui>>

PollConsole ==
    /\ pc[0] = "console"
    /\ Goto(0, IF Due(ConsoleInterval) THEN "pump" ELSE "check")
    /\ UNCHANGED <<flags, haltCode, reason, steps, console, gui>>

\* The loop of pump_console over the available keys.
Pumped(esc, keys) ==
    LET after[i \in 0 .. Len(keys)] ==
            IF i = 0 THEN [escaped |-> esc, out |-> <<>>, exit |-> FALSE]
            ELSE LET p == after[i - 1]
                     k == keys[i]
                 IN  IF p.exit THEN p
                     ELSE IF p.escaped /\ k = "x" THEN [p EXCEPT !.exit = TRUE]
                     ELSE IF ~p.escaped /\ k = "ctrlA" THEN [p EXCEPT !.escaped = TRUE]
                     ELSE [p EXCEPT !.escaped = FALSE, !.out = Append(@, k)]
    IN  after[Len(keys)]

\* Mutant: the escape state is forgotten between two pumps.
PumpConsoleForgets ==
    LET p == Pumped(FALSE, SubSeq(typed, consumed + 1, Len(typed)))
    IN  /\ pc[0] = "pump"
        /\ consumed' = Len(typed)
        /\ escaped' = p.escaped
        /\ rx' = rx \o p.out
        /\ flags' = flags \cup IF p.exit THEN {"HALT_REQUESTED"} ELSE {}
        /\ Goto(0, "check")
        /\ UNCHANGED <<haltCode, reason, steps, typed, gui>>

PumpConsole ==
    LET p == Pumped(escaped, SubSeq(typed, consumed + 1, Len(typed)))
    IN  /\ pc[0] = "pump"
        /\ consumed' = Len(typed)
        /\ escaped' = p.escaped
        /\ rx' = rx \o p.out
        /\ flags' = flags \cup IF p.exit THEN {"HALT_REQUESTED"} ELSE {}
        /\ Goto(0, "check")
        /\ UNCHANGED <<haltCode, reason, steps, typed, gui>>

-----------------------------------------------------------------------------
(* Shutdown, the GUI and the user.                                         *)

RequestHalt ==
    /\ pc[0] = "request"
    /\ flags' = flags \cup {"HALT_REQUESTED"}
    /\ Goto(0, "join")
    /\ UNCHANGED <<haltCode, reason, steps, console, gui>>

\* Mutant: run() returns without joining the workers.
JoinSkipped ==
    /\ pc[0] = "join"
    /\ Goto(0, "done")
    /\ UNCHANGED <<flags, haltCode, reason, steps, console, gui>>

JoinWorkers ==
    /\ pc[0] = "join"
    /\ \A w \in Workers : pc[w] = "done"
    /\ Goto(0, "done")
    /\ UNCHANGED <<flags, haltCode, reason, steps, console, gui>>

\* The window is closed, by the user or because a frame saw HALTED.
CloseWindow ==
    /\ gui = "loop"
    /\ flags' = flags \cup {"HALT_REQUESTED"}
    /\ gui' = "join"
    /\ UNCHANGED <<haltCode, pc, reason, steps, console>>

GuiFrame == "HALTED" \in flags /\ CloseWindow

GuiJoin ==
    /\ gui = "join"
    /\ pc[0] = "done"
    /\ gui' = "done"
    /\ UNCHANGED <<flags, haltCode, pc, reason, steps, console>>

TypeKey(k) ==
    /\ Len(typed) < MaxTyped
    /\ pc[0] # "done"
    /\ typed' = Append(typed, k)
    /\ UNCHANGED <<flags, haltCode, pc, reason, steps, consumed, escaped, rx, gui>>

Ended == gui = "done" /\ \A t \in Threads : pc[t] = "done"

Hart0 ==
    \/ (\E w \in Workers : StartWorker(w)) \/ EnterLoop
    \/ CheckStop(0) \/ ExecuteBatch(0) \/ AllowWorkers
    \/ SignalCode(0) \/ SignalHalted(0)
    \/ PollDevices \/ PollVirtio \/ PollConsole \/ PumpConsole
    \/ RequestHalt \/ JoinWorkers

Worker(w) ==
    \/ WaitForBoot(w) \/ WaitStop(w)
    \/ CheckStop(w) \/ ExecuteBatch(w)
    \/ SignalCode(w) \/ SignalHalted(w)

Next ==
    \/ Hart0
    \/ \E w \in Workers : Worker(w)
    \/ GuiFrame \/ GuiJoin
    \/ CloseWindow
    \/ \E k \in Keys : TypeKey(k)
    \/ Ended /\ UNCHANGED vars

\* Threads are scheduled and a batch always ends: its sleeps are bounded.  The
\* user owes nothing.
Fairness ==
    /\ WF_vars(Hart0)
    /\ \A w \in Workers : WF_vars(Worker(w))
    /\ WF_vars(GuiFrame \/ GuiJoin)

Spec == Init /\ [][Next]_vars
FairSpec == Spec /\ Fairness

-----------------------------------------------------------------------------
\* The types of the shared atomics and of the loops' locals.
TypeOK ==
    /\ flags \subseteq Flags
    /\ haltCode \in Reasons
    /\ pc \in [Threads -> Labels]
    /\ reason \in [Threads -> Reasons]
    /\ steps \in 0 .. BootSteps + VirtioInterval - 1
    /\ typed \in Seq(Keys) /\ rx \in Seq(Keys)
    /\ consumed \in 0 .. Len(typed)
    /\ escaped \in BOOLEAN
    /\ gui \in {"loop", "join", "done"}

\* No secondary hart executes an instruction before hart 0 has run the boot
\* phase.
WorkersHeldBack ==
    \A w \in Workers :
        pc[w] \in {"check", "batch", "code", "flag"} => steps >= BootSteps

\* Whoever sees HALTED finds the code of a hart that halted, not the initial
\* 0 that main.rs would report: the code is stored first.
CodeBeforeHalted == "HALTED" \in flags => haltCode \in Codes \cup {Fatal}

\* Once run() has returned, the code main.rs reports does not change any more,
\* whichever harts were halting at the time.
FinalCode ==
    [][pc[0] = "done" => haltCode' = haltCode]_vars

\* A request to halt, from a hart, the user or the window, ends every thread,
\* also those that still wait for the boot phase.
HaltStops == ShouldStop ~> \A t \in Threads : pc[t] = "done"

\* Position i of the typed keys is escaped: an odd run of Ctrl-A precedes it.
Quoted(i) ==
    \E n \in 1 .. i - 1 :
        /\ n % 2 = 1
        /\ \A j \in i - n .. i - 1 : typed[j] = "ctrlA"
        /\ i - n > 1 => typed[i - n - 1] # "ctrlA"
ExitAt(i) == Quoted(i) /\ typed[i] = "x"
Kept(i) == /\ Quoted(i) \/ typed[i] # "ctrlA"
           /\ ~\E j \in 1 .. i : ExitAt(j)

\* However the keys are spread over calls of pump_console, the UART gets every
\* key the user typed, in order, except the unescaped Ctrl-A prefixes.
InputExact ==
    LET kept[i \in 0 .. consumed] ==
            IF i = 0 THEN <<>>
            ELSE IF Kept(i) THEN Append(kept[i - 1], typed[i]) ELSE kept[i - 1]
    IN  rx = kept[consumed]

\* Ctrl-A x ends the VM.  (For a guest that never executes WFI.)
ExitKeyEndsVm == (\E i \in 1 .. Len(typed) : ExitAt(i)) ~> pc[0] = "done"

\* The comment on CONSOLE_POLL_INTERVAL: the console is polled frequently.
ConsolePolled == []<>(pc[0] \in {"pump", "done"})
=============================================================================
