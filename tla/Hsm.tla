---------------------------------- MODULE Hsm ----------------------------------
(***************************************************************************)
(* SBI hart state management: the HART_STATES table, shared by all harts,  *)
(* which each call reads and stores one entry at a time (sbi/hsm.rs).  The *)
(* table is bookkeeping: no hart's thread waits for it, and START_PENDING  *)
(* never becomes STARTED.  The store to msip cannot fail, as every hart id *)
(* below MAX_HARTS has its msip word inside the CLINT.  hart_get_status    *)
(* only reads.                                                             *)
(***************************************************************************)

CONSTANT HsmHarts       \* the harts, below MAX_HARTS

VARIABLES
    hstate,     \* HART_STATES
    sbiCall,    \* the call a hart is in, or NoCall
    ipis,       \* history: harts whose msip was set since they were marked
    clean,      \* history: harts whose hart_start has met no stop of its target
    holds       \* history: harts started by a call that did not overlap a stop

hsmVars == <<hstate, sbiCall, ipis, clean, holds>>

NoCall == [fn |-> "none"]
Leaving == {"STOP_PENDING", "SUSPEND_PENDING"}

HsmInit ==
    /\ hstate = [h \in HsmHarts |-> "STOPPED"]
    /\ sbiCall = [h \in HsmHarts |-> NoCall]
    /\ ipis = {} /\ clean = {} /\ holds = {}

Return(h) == sbiCall' = [sbiCall EXCEPT ![h] = NoCall]

\* hart_start: the state is checked first; ALREADY_STARTED changes nothing.
HartStart(h, t) ==
    /\ sbiCall[h] = NoCall
    /\ hstate[t] \notin {"STARTED", "START_PENDING"}
    /\ sbiCall' = [sbiCall EXCEPT ![h] = [fn |-> "mark", to |-> t]]
    /\ UNCHANGED <<hstate, ipis, clean, holds>>

MarkStarting(h) ==
    /\ sbiCall[h].fn = "mark"
    /\ hstate' = [hstate EXCEPT ![sbiCall[h].to] = "START_PENDING"]
    /\ ipis' = ipis \ {sbiCall[h].to}
    /\ sbiCall' = [sbiCall EXCEPT ![h] = [fn |-> "wake", to |-> sbiCall[h].to]]
    /\ clean' = IF sbiCall[sbiCall[h].to].fn \in Leaving THEN clean \ {h} ELSE clean \cup {h}
    /\ UNCHANGED holds

\* Mutant: the target is marked and not woken.
ForgetWake(h) ==
    /\ sbiCall[h].fn = "wake"
    /\ Return(h)
    /\ holds' = IF h \in clean THEN holds \cup {sbiCall[h].to} ELSE holds
    /\ UNCHANGED <<hstate, ipis, clean>>

WakeTarget(h) ==
    /\ sbiCall[h].fn = "wake"
    /\ ipis' = ipis \cup {sbiCall[h].to}
    /\ Return(h)
    /\ holds' = IF h \in clean THEN holds \cup {sbiCall[h].to} ELSE holds
    /\ UNCHANGED <<hstate, clean>>

\* hart_stop and hart_suspend store two states and return: the hart goes on.
LeaveHart(h, pending) ==
    /\ sbiCall[h] = NoCall
    /\ hstate' = [hstate EXCEPT ![h] = pending]
    /\ sbiCall' = [sbiCall EXCEPT ![h] = [fn |-> pending]]
    /\ clean' = {g \in clean : ~(sbiCall[g].fn = "wake" /\ sbiCall[g].to = h)}
    /\ holds' = holds \ {h}
    /\ UNCHANGED ipis
HartStop(h) == LeaveHart(h, "STOP_PENDING")
HartSuspend(h) == LeaveHart(h, "SUSPEND_PENDING")
Left(h) ==
    /\ sbiCall[h].fn \in Leaving
    /\ hstate' = [hstate EXCEPT ![h] =
                    IF sbiCall[h].fn = "STOP_PENDING" THEN "STOPPED" ELSE "SUSPENDED"]
    /\ Return(h)
    /\ UNCHANGED <<ipis, clean, holds>>

HsmNext ==
    \E h \in HsmHarts :
        \/ MarkStarting(h) \/ WakeTarget(h) \/ HartStop(h) \/ HartSuspend(h) \/ Left(h)
        \/ \E t \in HsmHarts : HartStart(h, t)

HsmSpec == HsmInit /\ [][HsmNext]_hsmVars

-----------------------------------------------------------------------------
BeingMarked == {sbiCall[h].to : h \in {g \in HsmHarts : sbiCall[g].fn = "wake"}}

\* A start that was answered with success, and did not meet its target in the
\* middle of a stop or suspend, is not lost: until the target itself stops or
\* suspends, everybody reads START_PENDING, and the target's msip was set after
\* the mark (hart_start against hart_stop and concurrent hart_starts).
StartHolds ==
    \A t \in holds : hstate[t] = "START_PENDING" /\ (t \in ipis \/ t \in BeingMarked)

=============================================================================
