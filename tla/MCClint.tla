------------------------------- MODULE MCClint -------------------------------
(***************************************************************************)
(* Small instances of Clint for TLC, in one run.  `scenario' says which:    *)
(*   "timer" hart 0 programs deadlines and takes timer interrupts; there is *)
(*           no hart 1, and its part of the state keeps its first value;    *)
(*   "ipi"   both harts send IPIs and wait for interrupts.                  *)
(***************************************************************************)
EXTENDS Clint

VARIABLE scenario

MCHarts == {0, 1}
\* A deadline off the millisecond grid, one on it, and "never".
MCDeadlines == {1, 4, 99}
MCMmio == {3}
MCBoth == BOOLEAN

Solo == INSTANCE Clint WITH Harts <- {0}
Ipi == INSTANCE Clint WITH
    BatchSize <- 1, MaxSleepMs <- 1, MaxElapsed <- 1,
    Deadlines <- {}, MmioStores <- {}, MaskBits <- 2, ExtLevels <- {FALSE}

clintVars == <<scenario, vars>>

ClintInit == \/ scenario = "timer" /\ Init
             \/ scenario = "ipi" /\ Ipi!Init
ClintNext == /\ UNCHANGED scenario
             /\ \/ scenario = "timer" /\ Solo!Next
                \/ scenario = "ipi" /\ Ipi!Next

\* Clint's fairness: host threads are scheduled and the clock advances.
Scheduled(h) == /\ UNCHANGED scenario
                /\ \/ scenario = "timer" /\ h = 0 /\ (Solo!Guest(0) \/ Solo!Host(0))
                   \/ scenario = "ipi" /\ (Ipi!Guest(h) \/ Ipi!Host(h))
ClockAdvances == /\ UNCHANGED scenario
                 /\ \/ scenario = "timer" /\ Solo!Tick
                    \/ scenario = "ipi" /\ Ipi!Tick
ClintSpec == /\ ClintInit /\ [][ClintNext]_clintVars
             /\ \A h \in Harts : WF_clintVars(Scheduled(h))
             /\ WF_clintVars(ClockAdvances)
=============================================================================
