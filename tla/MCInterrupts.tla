-------------------------------- MODULE MCInterrupts ----------------------------
(***************************************************************************)
(* Liveness of the interrupt controller and of the VirtIO queues for TLC.    *)
(* `which' says what a behaviour is about, the other part does not move.     *)
(***************************************************************************)
EXTENDS Plic, VirtioQueue

VARIABLE which

MCModesS == {"S"}
MCIrq1 == <<1>>
\* A source is masked by its priority as well as by not being enabled.
MCSets1 == {{1}}

IrqInit ==
    /\ which \in {"plic", "queue"}
    /\ Init
    /\ QueueInit /\ (which = "queue" \/ virtio = "block")

IrqNext ==
    /\ UNCHANGED which
    /\ \/ which = "plic" /\ Next /\ UNCHANGED queueVars
       \/ which = "queue" /\ QueueNext /\ UNCHANGED vars

irqVars == <<which, vars, queueVars>>

(* The fairness of Plic and of VirtioQueue; of a queue's poll and a driver's *)
(* notification one of the two must be served.                               *)
IrqSpec ==
    /\ IrqInit /\ [][IrqNext]_irqVars
    /\ \A h \in Harts :
          /\ WF_irqVars(/\ UNCHANGED which
                        /\ \/ which = "plic" /\ Poll(h) /\ UNCHANGED queueVars
                           \/ which = "queue" /\ InCall /\ UNCHANGED vars)
          /\ SF_irqVars(/\ UNCHANGED which
                        /\ \/ which = "plic" /\ SetSourceLevel(h) /\ UNCHANGED queueVars
                           \/ which = "queue" /\ (QueuePoll \/ (owed /\ Notify)) /\ UNCHANGED vars)
===============================================================================
