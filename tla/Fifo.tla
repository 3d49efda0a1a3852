--------------------------------- MODULE Fifo ---------------------------------
(***************************************************************************)
(* A bounded queue of bytes, which are numbered as they are produced.      *)
(* Bytes that find no room are dropped before they enter.  SharedUart is   *)
(* shown to implement it.                                                  *)
(***************************************************************************)
EXTENDS Integers, Sequences

CONSTANTS Capacity      \* bytes the queue may hold

VARIABLES queue, taken  \* the bytes inside; every byte taken out, in order

fifoVars == <<queue, taken>>

LastIn == LET all == taken \o queue IN IF all = <<>> THEN 0 ELSE all[Len(all)]

FifoInit == queue = <<>> /\ taken = <<>>

\* Consecutive new bytes enter together.
Put ==
    /\ \E s \in {queue'} :
          /\ Len(s) \in Len(queue) + 1 .. Capacity
          /\ SubSeq(s, 1, Len(queue)) = queue
          /\ \A k \in Len(queue) + 1 .. Len(s) :
                IF k = Len(queue) + 1 THEN s[k] > LastIn ELSE s[k] = s[k - 1] + 1
    /\ UNCHANGED taken

Take ==
    \E n \in 1 .. Len(queue) :
        /\ taken' = taken \o SubSeq(queue, 1, n)
        /\ queue' = SubSeq(queue, n + 1, Len(queue))

FifoSpec == FifoInit /\ [][Put \/ Take]_fifoVars

=============================================================================
