------------------------------ MODULE PlicFast ------------------------------
(***************************************************************************)
(* What is_interrupt_pending_for_fast promises, although it reads four     *)
(* caches one load at a time while other harts store to them.  Plic is     *)
(* observed by history variables, which no action of Plic reads.           *)
(***************************************************************************)
EXTENDS Plic

VARIABLES
    peak,    \* highest threshold the context had during the check
    kept,    \* sources reportable under `peak' at every moment of the check
    some     \* at every moment of the check some source was reportable

fvars == <<vars, peak, kept, some>>

Checking(h) == pc[h] \in {"pending", "enable", "threshold", "scan"}

\* What a reader that saw all caches at one moment would report.
Visible(c) ==
    {s \in Sources : /\ s \in cPending
                     /\ s \in cEnable[c]
                     /\ cPriority[s] > cThreshold[c]}

FInit ==
    /\ Init
    /\ peak = [h \in Harts |-> 0]
    /\ kept = [h \in Harts |-> {}]
    /\ some = [h \in Harts |-> FALSE]

\* The observer restarts when a check starts and forgets when it is over.
ObservePeak(h) ==
    LET now == cThreshold'[Ctx(h)']
    IN  IF ~Checking(h)' THEN 0
        ELSE IF pc'[h] = "pending" \/ now > peak[h] THEN now
        ELSE peak[h]

ObserveKept(h) ==
    {s \in Sources : /\ Checking(h)'
                     /\ s \in Visible(Ctx(h))' /\ cPriority'[s] > peak'[h]
                     /\ pc'[h] = "pending" \/ s \in kept[h]}

FNext ==
    /\ Next
    /\ peak' = [h \in Harts |-> ObservePeak(h)]
    /\ kept' = [h \in Harts |-> ObserveKept(h)]
    /\ some' = [h \in Harts |->
                   /\ Checking(h)'
                   /\ Visible(Ctx(h))' # {}
                   /\ pc'[h] = "pending" \/ some[h]]

FSpec == FInit /\ [][FNext]_fvars

-----------------------------------------------------------------------------
\* The check of a context ends in this step, and answers no.
AnswersNo(h) ==
    /\ Checking(h)
    /\ modes'[h] # modes[h]
    /\ Mode(h) \notin IF modes'[h] = {} THEN xip'[h] ELSE found'[h]

\* A source that stays pending, enabled and above every threshold its context
\* has during a check of is_interrupt_pending_for_fast is reported, whatever
\* other harts store in the meantime.  (To be above the threshold of the moment
\* is not enough: the scan compares the priority of its moment with the
\* threshold of an earlier one, and a guest may lower both in between.)
NoMissedSource ==
    [][\A h \in Harts : AnswersNo(h) => kept[h] = {}]_fvars

\* The comment on is_interrupt_pending_for_fast: no false negatives.  If some
\* source is reportable at every moment of a check, the check says so.
NoFalseNegative ==
    [][\A h \in Harts : AnswersNo(h) => ~some[h]]_fvars
=============================================================================
