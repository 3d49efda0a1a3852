------------------------------ MODULE VirtioNet ------------------------------
(***************************************************************************)
(* The virtio network device (devices/virtio/net.rs): two split queues in  *)
(* guest memory, the device state behind one mutex, and the threads that   *)
(* meet there.  Any hart may post chains and notify; hart 0's thread polls *)
(* both queues from its run loop; the guest's driver, on any hart, takes   *)
(* used chains back when the device interrupts.                            *)
(*                                                                         *)
(* The mutex covers a whole call of process_tx_queue, process_rx_queue or  *)
(* poll, but the rings are plain memory: between two chains of such a call *)
(* the driver posts and takes chains.  A chain is known by the order of    *)
(* its posting, a packet by the order of its arrival.                      *)
(***************************************************************************)
EXTENDS SplitRing, Sequences

CONSTANTS
    TxKinds,     \* kinds of chain the guest posts for transmission
    RxKinds,     \* kinds of buffer the guest posts for reception
    MaxPosts,    \* bound on the chains posted to each queue after a reset
    MaxPackets,  \* bound on the packets that arrive
    MaxResets    \* bound on the driver's resets

Queues == {"tx", "rx"}

ASSUME VirtioNetAssumption ==
    /\ TxKinds \subseteq {"packet", "short", "fault"}
    /\ RxKinds \subseteq {"buffer", "unfit", "fault"}
    /\ MaxPosts \in [Queues -> Nat]
    /\ MaxPackets \in Nat
    /\ MaxResets \in Nat

VARIABLES
    ring, availIdx,        \* avail rings in guest memory: chains, index
    used, usedIdx,         \* used rings in guest memory: elements, index
    ready, lastAvail,      \* NetQueue.ready, NetQueue.last_avail_idx
    irq,                   \* bit 0 of interrupt_status
    job,                   \* what the holder of the mutex is doing
    polling,               \* it does so for poll()
    limit, last, any,      \* avail_idx, last_avail_idx, processed_any
    inbox,                 \* packets the backend has received
    offered,               \* TX chains passed to backend.send(), which may refuse
    seen, reaping,         \* the driver's used index; it is handling an interrupt
    posted,                \* history: kinds of the chains posted to a queue
    delivered,             \* history: packets put into the RX ring
    arrived, resets,       \* how many packets and resets there were
    faulted                \* a call ended with a MemoryError since the reset

memory == <<ring, availIdx, used, usedIdx>>
device == <<ready, lastAvail, irq>>
call == <<job, polling, limit, last, any>>
driver == <<seen, reaping>>
vars == <<memory, device, call, inbox, offered, driver, posted, delivered,
          arrived, resets, faulted>>

\* A transmit fault makes the device repeat itself: history ends there.
Record(history, id) == IF faulted THEN history ELSE Append(history, id)
Empty == [s \in 0 .. QueueNum - 1 |-> 0]

-----------------------------------------------------------------------------
Init ==
    /\ ring = [q \in Queues |-> Empty] /\ availIdx = [q \in Queues |-> 0]
    /\ used = [q \in Queues |-> Empty] /\ usedIdx = [q \in Queues |-> 0]
    /\ ready = [q \in Queues |-> FALSE]
    /\ lastAvail = [q \in Queues |-> 0]
    /\ irq = FALSE
    /\ job = "idle" /\ polling = FALSE /\ limit = 0 /\ last = 0 /\ any = FALSE
    /\ inbox = <<>> /\ offered = <<>>
    /\ seen = [q \in Queues |-> 0] /\ reaping = FALSE
    /\ posted = [q \in Queues |-> <<>>]
    /\ delivered = <<>>
    /\ arrived = 0 /\ resets = 0 /\ faulted = FALSE

\* The backend receives a packet from the network.
Arrive ==
    /\ arrived < MaxPackets
    /\ arrived' = arrived + 1
    /\ inbox' = Append(inbox, arrived + 1)
    /\ UNCHANGED <<memory, device, call, offered, driver, posted,
                   delivered, resets, faulted>>

-----------------------------------------------------------------------------
(* The driver.                                                             *)

\* QUEUE_PFN: last_avail_idx is not touched.
Configure(q) ==
    /\ job = "idle"
    /\ ~ready[q]
    /\ ready' = [ready EXCEPT ![q] = TRUE]
    /\ UNCHANGED <<memory, lastAvail, irq, call, inbox, offered, driver,
                   posted, delivered, arrived, resets, faulted>>

\* The driver has at most QueueNum chains out.
Post(q, kind) ==
    /\ ready[q]
    /\ Len(posted[q]) < MaxPosts[q]
    /\ Distance(seen[q], availIdx[q]) < QueueNum
    /\ posted' = [posted EXCEPT ![q] = Append(@, kind)]
    /\ ring' = [ring EXCEPT ![q][Slot(availIdx[q])] = Len(posted[q]) + 1]
    /\ availIdx' = [availIdx EXCEPT ![q] = Succ(@)]
    /\ UNCHANGED <<used, usedIdx, device, call, inbox, offered, driver,
                   delivered, arrived, resets, faulted>>

\* INTERRUPT_ACK, then the used rings.
Ack ==
    /\ job = "idle"
    /\ irq /\ ~reaping
    /\ irq' = FALSE
    /\ reaping' = TRUE
    /\ UNCHANGED <<memory, ready, lastAvail, call, inbox, offered, seen, posted, delivered, arrived, resets, faulted>>

Reap(q) ==
    /\ reaping
    /\ seen[q] # usedIdx[q]
    /\ seen' = [seen EXCEPT ![q] = Succ(@)]
    /\ UNCHANGED <<memory, device, call, inbox, offered, reaping, posted,
                   delivered, arrived, resets, faulted>>

ReapDone ==
    /\ reaping
    /\ seen = usedIdx
    /\ reaping' = FALSE
    /\ UNCHANGED <<memory, device, call, inbox, offered, seen,
                   posted, delivered, arrived, resets, faulted>>

\* The driver starts over with empty rings.
FreshRings ==
    /\ ring' = [q \in Queues |-> Empty] /\ availIdx' = [q \in Queues |-> 0]
    /\ used' = [q \in Queues |-> Empty] /\ usedIdx' = [q \in Queues |-> 0]
    /\ seen' = [q \in Queues |-> 0] /\ reaping' = FALSE
    /\ posted' = [q \in Queues |-> <<>>]
    /\ offered' = <<>>
    /\ delivered' = <<>>

\* STATUS = 0.
Reset ==
    /\ job = "idle"
    /\ resets < MaxResets
    /\ resets' = resets + 1
    /\ ready' = [q \in Queues |-> FALSE]
    /\ lastAvail' = [q \in Queues |-> 0]
    /\ irq' = FALSE
    /\ faulted' = FALSE
    /\ FreshRings
    /\ UNCHANGED <<call, inbox, arrived>>

-----------------------------------------------------------------------------
(* process_tx_queue.  avail_idx is read once, last_avail_idx is a local    *)
(* until the loop is over.                                                 *)

EnterTx(forPoll) ==
    /\ job = "idle"
    /\ ready["tx"]
    /\ job' = "tx"
    /\ polling' = forPoll
    /\ limit' = availIdx["tx"]
    /\ last' = lastAvail["tx"]
    /\ UNCHANGED <<memory, device, any, inbox, offered, driver, posted,
                   delivered, arrived, resets, faulted>>

EnterRx(forPoll) ==
    /\ job = "idle"
    /\ job' = "rx"
    /\ polling' = forPoll
    /\ UNCHANGED <<memory, device, limit, last, any, inbox, offered,
                   driver, posted, delivered, arrived, resets, faulted>>

\* Mutant: poll() looks at the receive queue only.
PollRxOnly == EnterRx(TRUE)

NotifyTx == EnterTx(FALSE)
NotifyRx == EnterRx(FALSE)
Poll == EnterTx(TRUE) \/ (~ready["tx"] /\ EnterRx(TRUE))

\* Element first, index second; the driver reads the element only after it.
PutUsed(q, e) ==
    /\ used' = [used EXCEPT ![q][Slot(usedIdx[q])] = e]
    /\ usedIdx' = [usedIdx EXCEPT ![q] = Succ(@)]

\* A MemoryError: the call returns at once and its locals are gone.
Abort ==
    /\ job' = "idle" /\ polling' = FALSE /\ limit' = 0 /\ last' = 0
    /\ any' = FALSE
    /\ faulted' = TRUE

TxChain ==
    LET id == ring["tx"][Slot(last)]
        kind == posted["tx"][id]
    IN  /\ job = "tx"
        /\ last # limit
        /\ kind # "fault"
        /\ \/ kind = "packet" /\ offered' = Record(offered, id)
           \/ kind = "short" /\ UNCHANGED offered
        /\ PutUsed("tx", id)
        /\ last' = Succ(last)
        /\ any' = TRUE
        /\ UNCHANGED <<ring, availIdx, device, job, polling, limit, inbox,
                       driver, posted, delivered, arrived, resets, faulted>>

TxFault ==
    /\ job = "tx"
    /\ last # limit
    /\ posted["tx"][ring["tx"][Slot(last)]] = "fault"
    /\ Abort
    /\ UNCHANGED <<memory, device, inbox, offered, driver, posted,
                   delivered, arrived, resets>>

\* Mutant: the end of the loop does not raise the interrupt.
TxEndSilent ==
    /\ job = "tx"
    /\ last = limit
    /\ lastAvail' = [lastAvail EXCEPT !["tx"] = last]
    /\ job' = IF polling THEN "rx" ELSE "idle"
    /\ limit' = 0 /\ last' = 0 /\ any' = FALSE
    /\ UNCHANGED <<memory, ready, irq, polling, inbox, offered, driver,
                   posted, delivered, arrived, resets, faulted>>

\* Mutant: last_avail_idx is set to the index the driver has reached by now.
TxEndSkips ==
    /\ job = "tx"
    /\ last = limit
    /\ lastAvail' = [lastAvail EXCEPT !["tx"] = availIdx["tx"]]
    /\ irq' = (irq \/ any)
    /\ job' = IF polling THEN "rx" ELSE "idle"
    /\ limit' = 0 /\ last' = 0 /\ any' = FALSE
    /\ UNCHANGED <<memory, ready, polling, inbox, offered, driver, posted,
                   delivered, arrived, resets, faulted>>

TxEnd ==
    /\ job = "tx"
    /\ last = limit
    /\ lastAvail' = [lastAvail EXCEPT !["tx"] = last]
    /\ irq' = (irq \/ any)
    /\ job' = IF polling THEN "rx" ELSE "idle"
    /\ limit' = 0 /\ last' = 0 /\ any' = FALSE
    /\ UNCHANGED <<memory, ready, polling, inbox, offered, driver, posted,
                   delivered, arrived, resets, faulted>>

-----------------------------------------------------------------------------
(* process_rx_queue.  avail_idx is read again for every packet, and        *)
(* last_avail_idx is stored back at once.                                  *)

NextBuffer == posted["rx"][ring["rx"][Slot(lastAvail["rx"])]]
HasBuffer == lastAvail["rx"] # availIdx["rx"]

\* Mutant: the packet stays in the backend.
RxTakePeeks ==
    /\ job = "rx"
    /\ ready["rx"]
    /\ inbox # <<>>
    /\ UNCHANGED <<inbox, ring, availIdx, offered, driver, posted, arrived,
                   resets>>

RxTake ==
    /\ job = "rx"
    /\ ready["rx"]
    /\ inbox # <<>>
    /\ inbox' = Tail(inbox)
    /\ UNCHANGED <<ring, availIdx, offered, driver, posted, arrived, resets>>

\* No buffer: the packet is dropped.
RxDrop ==
    /\ RxTake
    /\ ~HasBuffer
    /\ UNCHANGED <<used, usedIdx, device, call, delivered, faulted>>

\* A buffer that is not writable or too small is skipped, not returned.
RxSkip ==
    /\ RxTake
    /\ HasBuffer
    /\ NextBuffer = "unfit"
    /\ lastAvail' = [lastAvail EXCEPT !["rx"] = Succ(@)]
    /\ UNCHANGED <<used, usedIdx, ready, irq, call, delivered, faulted>>

RxDeliver ==
    /\ RxTake
    /\ HasBuffer
    /\ NextBuffer = "buffer"
    /\ PutUsed("rx", Head(inbox))
    /\ delivered' = Append(delivered, Head(inbox))
    /\ lastAvail' = [lastAvail EXCEPT !["rx"] = Succ(@)]
    /\ any' = TRUE
    /\ UNCHANGED <<ready, irq, job, polling, limit, last, faulted>>

RxFault ==
    /\ RxTake
    /\ HasBuffer
    /\ NextBuffer = "fault"
    /\ Abort
    /\ UNCHANGED <<used, usedIdx, device, delivered>>

\* Nothing to receive (or the backend's error), or the queue is not ready.
RxEnd ==
    /\ job = "rx"
    /\ irq' = (irq \/ any)
    /\ job' = "idle" /\ polling' = FALSE /\ any' = FALSE
    /\ UNCHANGED <<memory, ready, lastAvail, limit, last, inbox, offered,
                   driver, posted, delivered, arrived, resets, faulted>>

RxPacket == RxDrop \/ RxSkip \/ RxDeliver \/ RxFault
InCall == TxChain \/ TxFault \/ TxEnd \/ RxPacket \/ RxEnd

-----------------------------------------------------------------------------
Next ==
    \/ Arrive
    \/ \E q \in Queues : Configure(q) \/ Reap(q)
    \/ \E kind \in TxKinds : Post("tx", kind)
    \/ \E kind \in RxKinds : Post("rx", kind)
    \/ Ack \/ ReapDone \/ Reset
    \/ NotifyTx \/ NotifyRx \/ Poll
    \/ InCall

\* Hart 0 polls again and again and a call comes to its end; the backend's
\* recv() does not fail every time.  Nobody has to notify.
Fairness ==
    /\ WF_vars(InCall)
    /\ SF_vars(Poll)
    /\ SF_vars(RxPacket)

Spec == Init /\ [][Next]_vars
FairSpec == Spec /\ Fairness

-----------------------------------------------------------------------------
\* Indices are u16, locals are reset between calls.
TypeOK ==
    /\ ring \in [Queues -> [0 .. QueueNum - 1 -> Nat]]
    /\ used \in [Queues -> [0 .. QueueNum - 1 -> Nat]]
    /\ \A f \in {availIdx, usedIdx, lastAvail, seen} :
          f \in [Queues -> 0 .. IdxMod - 1]
    /\ ready \in [Queues -> BOOLEAN]
    /\ irq \in BOOLEAN /\ reaping \in BOOLEAN /\ faulted \in BOOLEAN
    /\ job \in {"idle", "tx", "rx"}
    /\ polling \in BOOLEAN /\ any \in BOOLEAN
    /\ limit \in 0 .. IdxMod - 1 /\ last \in 0 .. IdxMod - 1
    /\ posted["tx"] \in Seq(TxKinds) /\ posted["rx"] \in Seq(RxKinds)
    /\ arrived \in 0 .. MaxPackets /\ resets \in 0 .. MaxResets

\* TX chains processed since the queue was configured, from the u16 indices.
Done ==
    Len(posted["tx"])
        - Distance(IF job = "tx" THEN last ELSE lastAvail["tx"], availIdx["tx"])

\* What the device has returned and the driver has not taken yet.
Unreaped(q) ==
    [i \in 1 .. Distance(seen[q], usedIdx[q]) |->
        used[q][Slot(seen[q] + i - 1)]]

\* The last n elements of 1 .. m, as a sequence.
LastOf(m, n) == [i \in 1 .. n |-> m - n + i]

\* Every chain is processed once and in order, across ring wraps, resets and
\* chains posted during the loop: the backend was offered exactly the packets
\* among the chains processed, each once and in their order, and exactly these
\* chains are in the used ring until the driver takes them.
TxExact ==
    ready["tx"] /\ ~faulted =>
        /\ Unreaped("tx") = LastOf(Done, Distance(seen["tx"], usedIdx["tx"]))
        /\ Ascending(offered)
        /\ {offered[k] : k \in DOMAIN offered} = {i \in 1 .. Done : posted["tx"][i] = "packet"}

\* The driver finds in the used ring what the device delivered, each packet
\* once and in the order of arrival, also after a MemoryError.
RxExact ==
    LET n == Distance(seen["rx"], usedIdx["rx"])
        m == Len(delivered)
    IN  ready["rx"] =>
          /\ n <= m
          /\ Unreaped("rx") = SubSeq(delivered, m - n + 1, m)
          /\ Ascending(delivered)

\* Between calls a chain the driver has not taken back is announced: the
\* interrupt is pending or the driver is looking.
NoSilentCompletion ==
    job = "idle" /\ ~faulted /\ ~irq /\ ~reaping =>
        \A q \in Queues : ready[q] => seen[q] = usedIdx[q]

\* Without any notification, polling alone drains the transmit queue and the
\* backend's packets, unless a chain faults or the device is reset.
PollDrains ==
    /\ (ready["tx"] /\ lastAvail["tx"] # availIdx["tx"])
          ~> (lastAvail["tx"] = availIdx["tx"] \/ faulted \/ ~ready["tx"])
    /\ (ready["rx"] /\ inbox # <<>>) ~> (inbox = <<>> \/ faulted \/ ~ready["rx"])
=============================================================================
