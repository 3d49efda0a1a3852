----------------------------- MODULE MCPlicMoving -----------------------------
(***************************************************************************)
(* PlicFast for TLC, once more.  `which' says what a behaviour is about:   *)
(*   "two"     two devices whose sources compete;                          *)
(*   "moving"  one device, and a guest that moves its source's priority    *)
(*             and the threshold up and down while other harts check, and  *)
(*             leaves the other source's priority at 0.                    *)
(***************************************************************************)
EXTENDS MCPlicFast

VARIABLE which

Moving == INSTANCE PlicFast WITH
    Irq <- <<1>>, Priorities <- {1, 2}, Thresholds <- {0, 1}

FastInit == \/ which = "two" /\ FInit
            \/ which = "moving" /\ Moving!FInit
FastNext == /\ UNCHANGED which
            /\ \/ which = "two" /\ FNext
               \/ which = "moving" /\ Moving!FNext /\ priority'[2] = 0
FastSpec == FastInit /\ [][FastNext]_<<fvars, which>>
===============================================================================
