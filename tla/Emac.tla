-------------------------------- MODULE Emac --------------------------------
(***************************************************************************)
(* The D1 Ethernet controller (devices/d1_emac.rs) and the polling that     *)
(* moves packets between its DMA rings in guest memory and the network      *)
(* backend: WasmVm::step in the browser and under Node.js (vm/wasm.rs), and *)
(* NativeVm::poll_network (vm/native.rs).  The guest's driver is external:  *)
(* it fills transmit descriptors and empties receive descriptors in ring    *)
(* order, and hands one over by its OWN bit.                                *)
(***************************************************************************)
EXTENDS Integers, Sequences

CONSTANTS Kinds,        \* the VMs considered: "browser", "node", "native"
          TxSlots,      \* descriptors of the transmit ring
          RxSlots,      \* descriptors of the receive ring
          MaxSubmitted, \* bound on the frames the guest submits
          MaxInjected   \* bound on the packets that come from the network

ASSUME EmacAssumption == TxSlots \in Nat \ {0} /\ RxSlots \in Nat \ {0}

VARIABLES vm,           \* the kind of VM
          linkUp,       \* the browser backend has a writer
          txOn, rxOn,   \* is_tx_enabled(), is_rx_enabled()
          txRing, txDesc,  \* descriptors in DRAM, and tx_dma_desc
          rxRing, rxDesc,
          txQueue, rxQ, \* the device's tx_queue and rx_queue
          inbound,      \* packets the backend holds for the VM
          outbound,     \* packets the backend was given
          refused,      \* packets its send() failed for
          eaten,        \* packets taken for an unusable receive descriptor
          driverTx, driverRx, \* the driver's places in the rings
          submitted, injected, received,
          rxComplete    \* bit 8 of int_sta

emacVars == <<vm, linkUp, txOn, rxOn, txRing, txDesc, rxRing, rxDesc, txQueue,
              rxQ, inbound, outbound, refused, eaten, driverTx, driverRx,
              submitted, injected, received, rxComplete>>
driverVars == <<driverTx, driverRx, submitted, received>>

Follow(slot, slots) == (slot + 1) % slots   \* the descriptor's next field

(* A descriptor: OWN, the frame in its buffer (0: none), and whether the       *)
(* buffer address and the size field can be used.                             *)
Desc(own, frame, fits) == [own |-> own, frame |-> frame, fits |-> fits]

EmacInit == /\ vm \in Kinds /\ linkUp = FALSE
            /\ txOn = FALSE /\ rxOn = FALSE
            /\ txRing = [s \in 0..(TxSlots - 1) |-> Desc(FALSE, 0, TRUE)]
            /\ rxRing = [s \in 0..(RxSlots - 1) |-> Desc(TRUE, 0, TRUE)]
            /\ txDesc = 0 /\ rxDesc = 0
            /\ txQueue = <<>> /\ rxQ = <<>>
            /\ inbound = <<>> /\ outbound = <<>> /\ refused = {} /\ eaten = {}
            /\ driverTx = 0 /\ driverRx = 0
            /\ submitted = <<>> /\ injected = 0 /\ received = <<>>
            /\ rxComplete = FALSE

-----------------------------------------------------------------------------
(* The guest's driver: mmio_write32 of the control registers, and its side of  *)
(* the rings.                                                                 *)
EnableTx ==
    /\ txOn' = ~txOn
    /\ UNCHANGED <<vm, linkUp, rxOn, txRing, txDesc, rxRing, rxDesc, txQueue, rxQ,
                   inbound, outbound, refused, eaten, driverVars, injected, rxComplete>>

EnableRx ==
    /\ rxOn' = ~rxOn
    /\ UNCHANGED <<vm, linkUp, txOn, txRing, txDesc, rxRing, rxDesc, txQueue, rxQ,
                   inbound, outbound, refused, eaten, driverVars, injected, rxComplete>>

(* int_sta is cleared by writing ones.                                         *)
ClearIntSta ==
    /\ rxComplete /\ rxComplete' = FALSE
    /\ UNCHANGED <<vm, linkUp, txOn, rxOn, txRing, txDesc, rxRing, rxDesc, txQueue,
                   rxQ, inbound, outbound, refused, eaten, driverVars, injected>>

(* `fits' is false for a length of zero or above 2048.                         *)
DriverSubmits(fits) ==
    /\ Len(submitted) < MaxSubmitted /\ ~txRing[driverTx].own
    /\ txRing' = [txRing EXCEPT ![driverTx] = Desc(TRUE, Len(submitted) + 1, fits)]
    /\ submitted' = Append(submitted, fits)
    /\ driverTx' = Follow(driverTx, TxSlots)
    /\ UNCHANGED <<vm, linkUp, txOn, rxOn, txDesc, rxRing, rxDesc, txQueue, rxQ,
                   inbound, outbound, refused, eaten, driverRx, received, injected,
                   rxComplete>>

(* The driver takes a filled descriptor's frame and gives the descriptor back; *)
(* `fits' is false when the buffer it names cannot be used.                   *)
DriverReceives(fits) ==
    /\ ~rxRing[driverRx].own
    /\ received' = Append(received, rxRing[driverRx].frame)
    /\ rxRing' = [rxRing EXCEPT ![driverRx] = Desc(TRUE, 0, fits)]
    /\ driverRx' = Follow(driverRx, RxSlots)
    /\ UNCHANGED <<vm, linkUp, txOn, rxOn, txRing, txDesc, rxDesc, txQueue, rxQ,
                   inbound, outbound, refused, eaten, driverTx, submitted, injected,
                   rxComplete>>

-----------------------------------------------------------------------------
(* The network side: inject_rx_packet or the receive loop of the WebTransport  *)
(* backend, and the connection coming and going.                              *)
PacketArrives ==
    /\ injected < MaxInjected /\ injected' = injected + 1
    /\ inbound' = Append(inbound, injected + 1)
    /\ UNCHANGED <<vm, linkUp, txOn, rxOn, txRing, txDesc, rxRing, rxDesc, txQueue,
                   rxQ, outbound, refused, eaten, driverVars, rxComplete>>

LinkChanges ==
    /\ vm = "browser" /\ linkUp' = ~linkUp
    /\ UNCHANGED <<vm, txOn, rxOn, txRing, txDesc, rxRing, rxDesc, txQueue, rxQ,
                   inbound, outbound, refused, eaten, driverVars, injected, rxComplete>>

(* backend.send per packet: the browser's fails without a writer and the       *)
(* packet is gone; queue_tx_packet and the native channel take every packet.   *)
Forward(packets) ==
    IF vm = "browser" /\ ~linkUp
    THEN /\ refused' = refused \cup {packets[i] : i \in DOMAIN packets}
         /\ UNCHANGED outbound
    ELSE outbound' = outbound \o packets /\ UNCHANGED refused

(* poll_dma, transmit half: at most one descriptor a poll.  A frame that        *)
(* cannot be read is dropped; the descriptor goes back either way.             *)
TxTakes == txOn /\ txRing[txDesc].own
TxFrame == IF TxTakes /\ txRing[txDesc].fits THEN <<txRing[txDesc].frame>> ELSE <<>>

(* Mutant: the descriptor goes back but the device stays on it. *)
PollTxStays ==
    IF TxTakes
    THEN txRing' = [txRing EXCEPT ![txDesc].own = FALSE] /\ UNCHANGED txDesc
    ELSE UNCHANGED <<txRing, txDesc>>
PollTx ==
    IF TxTakes
    THEN /\ txRing' = [txRing EXCEPT ![txDesc].own = FALSE]
         /\ txDesc' = Follow(txDesc, TxSlots)
    ELSE UNCHANGED <<txRing, txDesc>>

(* poll_dma, receive half: the packet leaves the queue only for a descriptor    *)
(* the device owns.  When the descriptor names no usable buffer the packet is   *)
(* gone all the same, and the descriptor stays with the device.                *)
PollRx(queue) ==
    LET takes == rxOn /\ rxRing[rxDesc].own /\ queue # <<>>
    IN /\ rxQ' = IF takes THEN Tail(queue) ELSE queue
       /\ IF takes /\ rxRing[rxDesc].fits
          THEN /\ rxRing' = [rxRing EXCEPT ![rxDesc] = Desc(FALSE, Head(queue), TRUE)]
               /\ rxDesc' = Follow(rxDesc, RxSlots)
               /\ rxComplete' = TRUE /\ UNCHANGED eaten
          ELSE /\ eaten' = IF takes THEN eaten \cup {Head(queue)} ELSE eaten
               /\ UNCHANGED <<rxRing, rxDesc, rxComplete>>

(* The periodic poll of WasmVm::step: packets in, poll_dma, packets out.        *)
WasmPoll ==
    /\ vm \in {"browser", "node"}
    /\ inbound' = <<>>
    /\ PollTx
    /\ PollRx(rxQ \o inbound)
    /\ Forward(txQueue \o TxFrame) /\ txQueue' = <<>>
    /\ UNCHANGED <<vm, linkUp, txOn, rxOn, driverVars, injected>>

(* NativeVm::poll_network moves the same packets and never calls poll_dma.      *)
PollNetwork ==
    /\ vm = "native"
    /\ rxQ' = rxQ \o inbound /\ inbound' = <<>>
    /\ Forward(txQueue) /\ txQueue' = <<>>
    /\ UNCHANGED <<vm, linkUp, txOn, rxOn, txRing, txDesc, rxRing, rxDesc,
                   eaten, driverVars, injected, rxComplete>>

EmacNext == \/ EnableTx \/ EnableRx \/ ClearIntSta
            \/ \E fits \in BOOLEAN : DriverSubmits(fits) \/ DriverReceives(fits)
            \/ PacketArrives \/ LinkChanges
            \/ WasmPoll \/ PollNetwork

(* The VM polls as long as it runs.                                           *)
EmacSpec == EmacInit /\ [][EmacNext]_emacVars /\ WF_emacVars(WasmPoll \/ PollNetwork)

-----------------------------------------------------------------------------
(* From a place in a ring: how many slots in a row satisfy `own' = b, and their *)
(* frames.                                                                      *)
RunFrom(r, slot, slots, b) ==
    CHOOSE n \in 0 .. slots :
        /\ \A i \in 0 .. n - 1 : r[(slot + i) % slots].own = b
        /\ n < slots => r[(slot + n) % slots].own # b
FramesFrom(r, slot, slots, b) ==
    [k \in 1 .. RunFrom(r, slot, slots, b) |-> r[(slot + k - 1) % slots].frame]

Members(s) == {s[k] : k \in DOMAIN s}
InOrder(s) == \A i, j \in DOMAIN s : i < j => s[i] < s[j]
Wanted(n) == n \notin refused /\ submitted[n]

TxExactSoFar ==
    LET waiting == FramesFrom(txRing, txDesc, TxSlots, TRUE)
    IN /\ InOrder(outbound \o waiting)
       /\ Members(outbound) \cup {n \in Members(waiting) : Wanted(n)}
            = {n \in 1 .. Len(submitted) : Wanted(n)}
RxExactSoFar ==
    LET packets == received \o FramesFrom(rxRing, driverRx, RxSlots, FALSE) \o rxQ \o inbound
    IN InOrder(packets) /\ Members(packets) = (1 .. injected) \ eaten

(* No packet is lost, repeated or overtaken between the rings and the backend,   *)
(* wherever the polls fall: what the backend was given, followed by what waits   *)
(* in the transmit ring from tx_dma_desc on, is every usable frame the driver    *)
(* submitted except those whose send() failed, in order; what the driver         *)
(* received, followed by the filled receive descriptors from its own place on,   *)
(* by rx_queue and by the backend's queue, is every packet that arrived except   *)
(* those taken for a descriptor without a usable buffer, in order.               *)
RingsExact == TxExactSoFar /\ RxExactSoFar

(* A frame the guest hands over to a transmitting device leaves the ring, as     *)
(* "Sets up the D1 EMAC device and WebTransport backend for network access"      *)
(* (vm/native.rs connect_webtransport) promises.                               *)
SubmittedIsSent == \A s \in 0..(TxSlots - 1) :
    ([](txOn) /\ txRing[s].own) ~> (~txRing[s].own)
=============================================================================
