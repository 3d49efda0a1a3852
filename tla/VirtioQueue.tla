----------------------------- MODULE VirtioQueue -----------------------------
(***************************************************************************)
(* The one-queue loops of the other virtio devices: block, rng and 9P take *)
(* requests from their queue when the guest notifies; input fills buffers  *)
(* with events, when it is notified and when hart 0 polls                  *)
(* (devices/virtio/block.rs, rng.rs, p9.rs, input.rs).                     *)
(*                                                                         *)
(* Unlike the transmit loop of the network device these store              *)
(* last_avail_idx after every chain.  As in VirtioNet the mutex covers a   *)
(* call, the rings are plain memory, and a chain is known by the order of  *)
(* its posting, an event by the order of its arrival.                      *)
(***************************************************************************)
EXTENDS SplitRing, Sequences, SequencesExt

CONSTANTS
    QueueDevices,     \* the devices to look at
    QueueSize,   \* device::QUEUE_SIZE, which rng uses instead of queue_num
    Kinds,       \* kinds of chain the guest posts
    Groups,      \* lengths of the event groups: 2 for a key, 3 for a move
    MaxPosts,    \* bound on the chains posted after a reset
    MaxEvents,   \* bound on the events pushed
    MaxResets    \* bound on the driver's resets

ASSUME VirtioQueueAssumption ==
    /\ QueueDevices \subseteq {"block", "rng", "p9", "input"}
    /\ QueueSize \in Nat
    /\ QueueSize >= QueueNum
    /\ Kinds \subseteq {"good", "unfit", "fault", "lateFault"}
    /\ Groups \subseteq Nat \ {0}
    /\ MaxPosts \in Nat /\ MaxEvents \in Nat /\ MaxResets \in Nat

VARIABLES
    virtio,             \* which device this is
    ring, availIdx,     \* avail ring in guest memory
    used, usedIdx,      \* used ring in guest memory
    ready, lastAvail,   \* queue_ready, last_avail_idx
    irq,                \* interrupt_status
    busy, limit, any,   \* a call holds the mutex; avail_idx, processed_any
    events,             \* event_queue of the input device
    seen, reaping,      \* the driver's used index; it is handling an interrupt
    owed,               \* the driver has posted and not notified yet
    posted,             \* history: kinds of the chains posted
    executed,           \* history: the request carried out last
    delivered, lost,    \* history: events in used buffers, events gone
    pushed, resets,     \* how many events and resets there were
    faulted             \* a call ended with a MemoryError since the reset

memory == <<ring, availIdx, used, usedIdx>>
device == <<ready, lastAvail, irq>>
call == <<busy, limit, any>>
driver == <<seen, reaping, owed>>
history == <<posted, executed, delivered, lost>>
queueVars == <<virtio, memory, device, call, events, driver, history, pushed, resets,
          faulted>>

\* rng.rs takes both ring slots modulo the constant.
RingSize == IF virtio = "rng" THEN QueueSize ELSE QueueNum
DeviceSlot(idx) == idx % RingSize
Empty == [s \in 0 .. QueueSize - 1 |-> 0]

-----------------------------------------------------------------------------
QueueInit ==
    /\ virtio \in QueueDevices
    /\ ring = Empty /\ availIdx = 0
    /\ used = Empty /\ usedIdx = 0
    /\ ready = FALSE /\ lastAvail = 0 /\ irq = FALSE
    /\ busy = FALSE /\ limit = 0 /\ any = FALSE
    /\ events = <<>>
    /\ seen = 0 /\ reaping = FALSE /\ owed = FALSE
    /\ posted = <<>> /\ executed = 0 /\ delivered = <<>> /\ lost = {}
    /\ pushed = 0 /\ resets = 0 /\ faulted = FALSE

\* push_key_event, push_mouse_move, push_mouse_button, from the host's window:
\* a group of events and its EV_SYN, under the mutex.
PushEvents(n) ==
    /\ virtio = "input"
    /\ ~busy
    /\ pushed + n <= MaxEvents
    /\ pushed' = pushed + n
    /\ events' = events \o [k \in 1 .. n |-> pushed + k]
    /\ UNCHANGED <<virtio, memory, device, call, driver, history, resets, faulted>>

-----------------------------------------------------------------------------
(* The driver.                                                             *)

\* QUEUE_PFN: last_avail_idx is not touched.
Configure ==
    /\ ~busy
    /\ ~ready
    /\ ready' = TRUE
    /\ UNCHANGED <<virtio, memory, lastAvail, irq, call, events, driver, history,
                   pushed, resets, faulted>>

Post(kind) ==
    /\ ready
    /\ Len(posted) < MaxPosts
    /\ Distance(seen, availIdx) < QueueNum
    /\ posted' = Append(posted, kind)
    /\ ring' = [ring EXCEPT ![Slot(availIdx)] = Len(posted) + 1]
    /\ availIdx' = Succ(availIdx)
    /\ owed' = TRUE
    /\ UNCHANGED <<virtio, used, usedIdx, device, call, events, seen, reaping,
                   executed, delivered, lost, pushed, resets, faulted>>

\* INTERRUPT_ACK, then the used ring.
Ack ==
    /\ ~busy
    /\ irq /\ ~reaping
    /\ irq' = FALSE
    /\ reaping' = TRUE
    /\ UNCHANGED <<virtio, memory, ready, lastAvail, call, events, seen, owed,
                   history, pushed, resets, faulted>>

Reap ==
    /\ reaping
    /\ seen # usedIdx
    /\ seen' = Succ(seen)
    /\ UNCHANGED <<virtio, memory, device, call, events, reaping, owed, history,
                   pushed, resets, faulted>>

ReapDone ==
    /\ reaping
    /\ seen = usedIdx
    /\ reaping' = FALSE
    /\ UNCHANGED <<virtio, memory, device, call, events, seen, owed, history,
                   pushed, resets, faulted>>

\* The driver starts over with empty rings; what it had not taken is gone.
FreshRings ==
    /\ ring' = Empty /\ availIdx' = 0 /\ used' = Empty /\ usedIdx' = 0
    /\ seen' = 0 /\ reaping' = FALSE /\ owed' = FALSE
    /\ posted' = <<>> /\ executed' = 0
    /\ delivered' = <<>> /\ lost' = lost \cup ToSet(delivered)

\* STATUS = 0: the events stay.
Reset ==
    /\ ~busy
    /\ resets < MaxResets
    /\ resets' = resets + 1
    /\ ready' = FALSE
    /\ lastAvail' = 0
    /\ irq' = FALSE
    /\ faulted' = FALSE
    /\ FreshRings
    /\ UNCHANGED <<virtio, call, events, pushed>>

-----------------------------------------------------------------------------
(* process_queue and deliver_events.                                       *)

\* avail_idx is read once.
Enter ==
    /\ busy' = TRUE
    /\ limit' = availIdx
    /\ UNCHANGED <<virtio, memory, device, any, events, seen, reaping, history,
                   pushed, resets, faulted>>

\* deliver_events returns at once when there is no event.
HasWork == virtio # "input" \/ events # <<>>

\* Mutant: a notification is dropped while a call is in progress.
NotifyTryLock ==
    /\ ready
    /\ owed' = FALSE
    /\ \/ ~busy /\ HasWork /\ Enter
       \/ (busy \/ ~HasWork)
          /\ UNCHANGED <<virtio, memory, device, call, events, seen, reaping,
                         history, pushed, resets, faulted>>

\* QUEUE_NOTIFY.  The driver notifies a queue it has set up, after posting and
\* whenever it likes.
Notify ==
    /\ ~busy
    /\ ready
    /\ owed' = FALSE
    /\ \/ HasWork /\ Enter
       \/ ~HasWork
          /\ UNCHANGED <<virtio, memory, device, call, events, seen, reaping,
                         history, pushed, resets, faulted>>

\* Only the input device has a poll() of its own.
QueuePoll ==
    /\ virtio = "input"
    /\ ~busy
    /\ ready
    /\ events # <<>>
    /\ Enter
    /\ UNCHANGED owed

AtChain == busy /\ lastAvail # limit /\ HasWork
Chain == ring[DeviceSlot(lastAvail)]

\* Element first, index second; the driver reads the element only after it.
PutUsed(e) ==
    /\ used' = [used EXCEPT ![DeviceSlot(usedIdx)] = e]
    /\ usedIdx' = Succ(usedIdx)

\* The request has been carried out; the chain goes back.
ReturnChain ==
    /\ executed' = Chain
    /\ PutUsed(Chain)
    /\ lastAvail' = Succ(lastAvail)
    /\ any' = TRUE
    /\ UNCHANGED <<virtio, ring, availIdx, ready, irq, busy, limit, events, driver,
                   posted, delivered, lost, pushed, resets, faulted>>

\* A read or write of the disk; one beyond its end is also answered with OK.
BlockRequest ==
    /\ AtChain
    /\ virtio = "block"
    /\ posted[Chain] = "good"
    /\ ReturnChain

\* A buffer that is not writable is left alone and returned.
RngRequest ==
    /\ AtChain
    /\ virtio = "rng"
    /\ posted[Chain] \in {"good", "unfit"}
    /\ ReturnChain

\* A message that makes no sense gets an error message for an answer.
P9Request ==
    /\ AtChain
    /\ virtio = "p9"
    /\ posted[Chain] \in {"good", "unfit"}
    /\ ReturnChain

\* Input: the oldest event goes into the buffer.
Deliver ==
    /\ AtChain
    /\ virtio = "input"
    /\ posted[Chain] = "good"
    /\ events' = Tail(events)
    /\ delivered' = Append(delivered, Head(events))
    /\ PutUsed(Head(events))
    /\ lastAvail' = Succ(lastAvail)
    /\ any' = TRUE
    /\ UNCHANGED <<virtio, ring, availIdx, ready, irq, busy, limit, driver, posted,
                   executed, lost, pushed, resets, faulted>>

PassOver ==
    /\ lastAvail' = Succ(lastAvail)
    /\ UNCHANGED <<virtio, memory, ready, irq, busy, limit, driver, history, pushed,
                   resets, faulted>>

\* A block header that is too short: not returned, but the guest is interrupted.
SkipHeader ==
    /\ AtChain
    /\ virtio = "block"
    /\ posted[Chain] = "unfit"
    /\ PassOver
    /\ any' = TRUE
    /\ UNCHANGED events

\* Mutant: the event is taken before the buffer is looked at.
SkipTakesEvent ==
    /\ AtChain
    /\ virtio = "input"
    /\ posted[Chain] = "unfit"
    /\ PassOver
    /\ events' = Tail(events)
    /\ UNCHANGED any

\* Mutant: processed_any tells of the last buffer only.
SkipForgets ==
    /\ AtChain
    /\ virtio = "input"
    /\ posted[Chain] = "unfit"
    /\ PassOver
    /\ any' = FALSE
    /\ UNCHANGED events

\* An input buffer that cannot hold an event is passed over, not returned.
SkipBuffer ==
    /\ AtChain
    /\ virtio = "input"
    /\ posted[Chain] = "unfit"
    /\ PassOver
    /\ UNCHANGED <<events, any>>

\* A MemoryError: the call returns, the chain stays at the front.
Abort ==
    /\ busy' = FALSE /\ limit' = 0 /\ any' = FALSE
    /\ faulted' = TRUE
    /\ UNCHANGED <<virtio, memory, device, driver, posted, delivered, pushed, resets>>

\* A bad descriptor: nothing has happened yet.
Fault ==
    /\ AtChain
    /\ posted[Chain] = "fault"
    /\ Abort
    /\ UNCHANGED <<events, executed, lost>>

\* Mutant: last_avail_idx falls back to where the call began, as far as the
\* driver still remembers.
LateFaultRewinds ==
    /\ AtChain
    /\ posted[Chain] = "lateFault"
    /\ busy' = FALSE /\ limit' = 0 /\ any' = FALSE
    /\ faulted' = TRUE
    /\ lastAvail' = seen
    /\ IF virtio = "input"
       THEN /\ events' = Tail(events)
            /\ lost' = lost \cup {Head(events)}
            /\ UNCHANGED executed
       ELSE executed' = Chain /\ UNCHANGED <<events, lost>>
    /\ UNCHANGED <<virtio, memory, ready, irq, driver, posted, delivered, pushed,
                   resets>>

\* A bad address for the status, the answer or the event: the request has been
\* carried out and will be again, the event has been taken and is gone.
LateFault ==
    /\ AtChain
    /\ posted[Chain] = "lateFault"
    /\ Abort
    /\ IF virtio = "input"
       THEN /\ events' = Tail(events)
            /\ lost' = lost \cup {Head(events)}
            /\ UNCHANGED executed
       ELSE executed' = Chain /\ UNCHANGED <<events, lost>>

End ==
    /\ busy
    /\ lastAvail = limit \/ ~HasWork
    /\ irq' = (irq \/ any)
    /\ busy' = FALSE /\ limit' = 0 /\ any' = FALSE
    /\ UNCHANGED <<virtio, memory, ready, lastAvail, events, driver, history,
                   pushed, resets, faulted>>

InCall ==
    \/ BlockRequest \/ RngRequest \/ P9Request \/ Deliver
    \/ SkipHeader \/ SkipBuffer \/ Fault \/ LateFault
    \/ End

-----------------------------------------------------------------------------
QueueNext ==
    \/ \E n \in Groups : PushEvents(n)
    \/ \E kind \in Kinds : Post(kind)
    \/ Configure \/ Ack \/ Reap \/ ReapDone \/ Reset
    \/ Notify \/ QueuePoll
    \/ InCall

\* The driver notifies after it has posted, hart 0 polls again and again, both
\* get the mutex, and a call comes to its end.
QueueFairness ==
    /\ WF_queueVars(InCall)
    /\ SF_queueVars(owed /\ Notify)
    /\ SF_queueVars(QueuePoll)

QueueSpec == QueueInit /\ [][QueueNext]_queueVars /\ QueueFairness

-----------------------------------------------------------------------------
\* Chains the device is past, from the u16 indices.
Done == Len(posted) - Distance(lastAvail, availIdx)

\* What the device has returned and the driver has not taken yet.
Unreaped ==
    [i \in 1 .. Distance(seen, usedIdx) |-> used[Slot(seen + i - 1)]]

\* Chain i is returned when the device is past it.
Returned(i) == posted[i] # "unfit" \/ virtio \in {"rng", "p9"}

\* Block, rng and 9P return each chain once and in order: the driver finds those
\* returned from some chain on, the ones before it has taken.  Only the chain at
\* the front can have been carried out without being returned, also when calls
\* end with a MemoryError: storing last_avail_idx for every chain means that
\* nothing before the faulting chain is repeated.  rng needs a full-size ring.
RequestsExact ==
    virtio # "input" /\ RingSize = QueueNum =>
        /\ Ascending(Unreaped)
        /\ \E first \in 1 .. Done + 1 : ToSet(Unreaped) = {i \in first .. Done : Returned(i)}
        /\ executed <= Done + 1
        /\ \A i \in executed + 1 .. Done : ~Returned(i)

\* The driver finds the events in the order of their arrival, groups unbroken,
\* each once; an event is missing only if a buffer's address was bad after it
\* had been taken, or it sat in a ring the driver gave up.
EventsExact ==
    LET n == Distance(seen, usedIdx)
        m == Len(delivered)
    IN  virtio = "input" =>
          /\ n <= m
          /\ Unreaped = SubSeq(delivered, m - n + 1, m)
          /\ ToSet(delivered \o events) = (1 .. pushed) \ lost
          /\ Ascending(delivered \o events)

\* Between calls a returned chain the driver has not taken back is announced:
\* the interrupt is pending or the driver is looking.  An acknowledgement does
\* not swallow the interrupt of a later call.
NoSilentReturn ==
    ~busy /\ ~faulted /\ ~irq /\ ~reaping => seen = usedIdx

\* A request that was posted during somebody else's call is served all the
\* same, and events find their way into free buffers by polling.
WorkServed ==
    (ready /\ HasWork /\ lastAvail # availIdx)
        ~> (lastAvail = availIdx \/ ~HasWork \/ faulted \/ ~ready)
=============================================================================
