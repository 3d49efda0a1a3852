------------------------------ MODULE MCDevices ------------------------------
(***************************************************************************)
(* Safety of the devices, the memory and the SMP plumbing for TLC.         *)
(* `which' says what a behaviour is about; the variables of the other      *)
(* parts keep their initial values:                                        *)
(*   "p9"      the 9P protocol;             "console" UART and SBI console;*)
(*   "ring"    the shared UART rings;       "smp"     the WASM workers;    *)
(*   "bus"     address decoding;            "memory"  loads, stores, AMOs; *)
(*   "hsm"     SBI hart states.                                            *)
(***************************************************************************)
EXTENDS P9, Console, SharedUart, WasmSmp, Bus, MCMemory, Hsm

VARIABLE which

MCNameLists == {<<"f">>}
MCHaltCodes == {<<21845, 1>>}
MCIerValues == {{}, {"rx", "tx"}}
MCStrides == {-8, -4, -1, 0, 2, 4, 5}

BenchInit ==
    /\ which \in {"p9", "console", "ring", "smp", "bus", "memory", "hsm"}
    /\ P9Init /\ ConsoleInit /\ RingInit /\ SmpInit /\ HsmInit
    /\ BusInit /\ (which = "bus" \/ busConfig = [virtio |-> 0, d1 |-> FALSE, shared |-> FALSE])
    /\ MemInit /\ (which = "memory" \/ platform = "native")

BenchNext ==
    /\ UNCHANGED which
    /\ \/ /\ which = "p9" /\ P9Next
          /\ UNCHANGED <<uartVars, ringVars, smpVars, busVars, memVars, hsmVars>>
       \/ /\ which = "console" /\ ConsoleNext
          /\ UNCHANGED <<p9Vars, ringVars, smpVars, busVars, memVars, hsmVars>>
       \/ /\ which = "ring" /\ RingNext
          /\ UNCHANGED <<p9Vars, uartVars, smpVars, busVars, memVars, hsmVars>>
       \/ /\ which = "smp" /\ SmpNext
          /\ UNCHANGED <<p9Vars, uartVars, ringVars, busVars, memVars, hsmVars>>
       \/ /\ which = "bus" /\ BusNext
          /\ UNCHANGED <<p9Vars, uartVars, ringVars, smpVars, memVars, hsmVars>>
       \/ /\ which = "memory" /\ MemNext
          /\ UNCHANGED <<p9Vars, uartVars, ringVars, smpVars, busVars, hsmVars>>
       \/ /\ which = "hsm" /\ HsmNext
          /\ UNCHANGED <<p9Vars, uartVars, ringVars, smpVars, busVars, memVars>>

benchVars ==
    <<which, p9Vars, uartVars, ringVars, smpVars, busVars, memVars, hsmVars>>

BenchSpec == BenchInit /\ [][BenchNext]_benchVars
=============================================================================
