------------------------------ MODULE SplitRing ------------------------------
(***************************************************************************)
(* The index arithmetic of the VirtIO split rings, which every device      *)
(* writes out for itself (devices/virtio/*.rs): free-running u16 indices,  *)
(* taken modulo the ring size to find an entry.                            *)
(***************************************************************************)
EXTENDS Integers

CONSTANTS
    QueueNum,    \* entries of a ring, queue.num
    IdxMod       \* ring indices are u16: 65536 in the code

ASSUME SplitRingAssumption ==
    /\ QueueNum \in Nat \ {0}
    /\ IdxMod \in Nat
    /\ IdxMod > QueueNum
    /\ IdxMod % QueueNum = 0

Slot(idx) == idx % QueueNum
Succ(idx) == (idx + 1) % IdxMod
Distance(from, to) == (to - from) % IdxMod

\* Chains, packets and events are numbered: an ascending sequence repeats and
\* reorders none.
Ascending(s) == \A i, j \in DOMAIN s : i < j => s[i] < s[j]
=============================================================================
