---------------------------- MODULE WebTransport ----------------------------
(***************************************************************************)
(* The WebTransport network backend (net/webtransport.rs): the connection   *)
(* task that registers with the relay and connects again after every loss,  *)
(* the datagrams it sends for the guest, and the reassembly of the frames a  *)
(* peer sent in chunks.  Datagrams are unreliable: they are lost with their  *)
(* connection or by the network, overtake one another, and may come twice.   *)
(*                                                                          *)
(* `build' is the build: in the native one (native::WebTransportBackend) a   *)
(* thread owns the connection and a channel holds what the guest sends; in   *)
(* the wasm one the task runs between awaits, `send' writes to the stream    *)
(* directly, and the reassembly buffer outlives the connection.              *)
(***************************************************************************)
EXTENDS Integers, Sequences

CONSTANTS ChunkIds,    \* the number of chunk ids: 2^16 in the code
          Sizes,       \* chunks a frame needs; 1 is a frame sent unchunked
          MaxFrames,   \* bound on the frames the peer sends
          MaxSends,    \* bound on the frames the guest sends
          MaxFaults    \* bound on failures and duplicated datagrams

ASSUME WebTransportAssumption ==
    /\ ChunkIds \in Nat \ {0}
    /\ Sizes \subseteq Nat \ {0}
    /\ MaxFrames \in Nat /\ MaxSends \in Nat /\ MaxFaults \in Nat

VARIABLES build,       \* "native" or "wasm"
          task,        \* where the connection task is
          delay,       \* reconnect_delay of the native loop, in seconds
          registered,
          closed,      \* the backend was dropped: the native TX channel ended
          outgoing,    \* native: datagrams in the TX channel
          relayed,     \* datagrams handed to the relay, in order
          nextId,      \* chunk_id_counter of this backend
          sends,       \* frames the guest sent
          peerSent,    \* sizes of the frames the peer sent, in order
          peerId,      \* chunk_id_counter of the peer's backend
          air,         \* datagrams on their way to this backend
          chunkBuffer, \* chunk_id -> the chunks held, total, received count
          rxQueue,     \* frames waiting for recv()
          faults

wtVars == <<build, task, delay, registered, closed, outgoing, relayed, nextId,
            sends, peerSent, peerId, air, chunkBuffer, rxQueue, faults>>

INITIAL_RECONNECT_DELAY_SECS == 2
MAX_RECONNECT_DELAY_SECS == 30

NoBuffer == [id \in {} |-> <<>>]
Assigned == [type |-> "control"]

WtInit == /\ build \in {"native", "wasm"}
          /\ task = "start"
          /\ delay = INITIAL_RECONNECT_DELAY_SECS
          /\ registered = FALSE /\ closed = FALSE
          /\ outgoing = <<>> /\ relayed = <<>>
          /\ nextId = 0 /\ sends = 0
          /\ peerSent = <<>> /\ peerId = 0
          /\ air = {} /\ chunkBuffer = NoBuffer /\ rxQueue = <<>>
          /\ faults = 0

-----------------------------------------------------------------------------
(* encode_chunked_frame: chunk i of frame k carries the part <<k, i>>.  The   *)
(* count is capped at 255 and the index is a byte; an Ethernet frame is far    *)
(* below that many chunks.                                                    *)
EncodeChunkedFrame(k, size, id) ==
    [i \in 1..size |-> [type |-> "chunked", id |-> id, index |-> i,
                        total |-> size, payload |-> <<k, i>>]]

(* encode_frame_smart: a frame below the threshold travels whole and takes no *)
(* chunk id.                                                                  *)
EncodeFrameSmart(k, size, id) ==
    IF size = 1 THEN <<[type |-> "data", payload |-> <<k, 1>>]>>
                ELSE EncodeChunkedFrame(k, size, id)
IdAfter(size, id) == IF size = 1 THEN id ELSE (id + 1) % ChunkIds

-----------------------------------------------------------------------------
Fault == faults < MaxFaults /\ faults' = faults + 1

(* The top of the native loop, and start_connection of the wasm build: the    *)
(* registration of an earlier connection is forgotten.                        *)
StartConnection ==
    /\ task = "start"
    /\ task' = "connecting" /\ registered' = FALSE
    /\ UNCHANGED <<build, delay, closed, outgoing, relayed, nextId, sends,
                   peerSent, peerId, air, chunkBuffer, rxQueue, faults>>

(* The endpoint, the handshake or the stream writer failed.                   *)
ConnectFails ==
    /\ task = "connecting" /\ Fault
    /\ task' = "waiting"
    /\ UNCHANGED <<build, delay, registered, closed, outgoing, relayed, nextId,
                   sends, peerSent, peerId, air, chunkBuffer, rxQueue>>

ConnectSucceeds ==
    /\ task = "connecting"
    /\ task' = "registering" /\ delay' = INITIAL_RECONNECT_DELAY_SECS
    /\ UNCHANGED <<build, registered, closed, outgoing, relayed, nextId, sends,
                   peerSent, peerId, air, chunkBuffer, rxQueue, faults>>

(* The Register message is out; the relay (external) answers with Assigned.   *)
(* The native loop starts every connection with an empty reassembly buffer,   *)
(* the wasm state keeps the one it has.                                       *)
RegisterSent ==
    /\ task = "registering"
    /\ task' = "online" /\ air' = air \cup {Assigned}
    /\ chunkBuffer' = IF build = "native" THEN NoBuffer ELSE chunkBuffer
    /\ UNCHANGED <<build, delay, registered, closed, outgoing, relayed, nextId,
                   sends, peerSent, peerId, rxQueue, faults>>

(* Mutant: a failed registration ends the task without another attempt. *)
RegisterGivesUp ==
    /\ task = "registering" /\ Fault
    /\ task' = "stuck"
    /\ UNCHANGED <<build, delay, registered, closed, outgoing, relayed, nextId,
                   sends, peerSent, peerId, air, chunkBuffer, rxQueue>>
RegisterFails ==
    /\ task = "registering" /\ Fault
    /\ task' = "waiting"
    /\ UNCHANGED <<build, delay, registered, closed, outgoing, relayed, nextId,
                   sends, peerSent, peerId, air, chunkBuffer, rxQueue>>

(* A receive error, the end of the stream, or a heartbeat that could not be    *)
(* sent.  Only the wasm build takes `registered' back here; the native one     *)
(* does at its next attempt.  What was in flight on the connection is gone.    *)
ConnectionLost ==
    /\ task = "online" /\ Fault
    /\ task' = "waiting" /\ air' = {}
    /\ registered' = (registered /\ build = "native")
    /\ UNCHANGED <<build, delay, closed, outgoing, relayed, nextId, sends,
                   peerSent, peerId, chunkBuffer, rxQueue>>

(* The pause before the next attempt: sleep(reconnect_delay) and its doubling, *)
(* or the timer of schedule_reconnect.                                        *)
Reconnect ==
    /\ task = "waiting"
    /\ task' = "start"
    /\ delay' = IF build = "wasm" THEN delay
                ELSE IF delay * 2 < MAX_RECONNECT_DELAY_SECS THEN delay * 2
                ELSE MAX_RECONNECT_DELAY_SECS
    /\ UNCHANGED <<build, registered, closed, outgoing, relayed, nextId, sends,
                   peerSent, peerId, air, chunkBuffer, rxQueue, faults>>

-----------------------------------------------------------------------------
(* send(): the native backend queues the datagrams whatever the connection     *)
(* does, until the thread has ended; the wasm one writes them at once, and     *)
(* refuses the frame while there is no writer.                                *)
Send(size) ==
    /\ sends < MaxSends /\ ~closed
    /\ build = "wasm" => task = "online"
    /\ LET datagrams == EncodeFrameSmart(sends + 1, size, nextId)
       IN IF build = "native"
          THEN outgoing' = outgoing \o datagrams /\ UNCHANGED relayed
          ELSE relayed' = relayed \o datagrams /\ UNCHANGED outgoing
    /\ sends' = sends + 1 /\ nextId' = IdAfter(size, nextId)
    /\ UNCHANGED <<build, task, delay, registered, closed, peerSent, peerId,
                   air, chunkBuffer, rxQueue, faults>>

(* The send_check_interval branch of the native select: the channel is         *)
(* drained; the datagram whose send fails is gone, the rest stay queued for    *)
(* the next connection.                                                       *)
DrainStart ==
    /\ build = "native" /\ task = "online"
    /\ outgoing # <<>> \/ closed
    /\ task' = "draining"
    /\ UNCHANGED <<build, delay, registered, closed, outgoing, relayed, nextId,
                   sends, peerSent, peerId, air, chunkBuffer, rxQueue, faults>>

DrainOne ==
    /\ task = "draining" /\ outgoing # <<>>
    /\ relayed' = Append(relayed, Head(outgoing))
    /\ outgoing' = Tail(outgoing)
    /\ UNCHANGED <<build, task, delay, registered, closed, nextId, sends,
                   peerSent, peerId, air, chunkBuffer, rxQueue, faults>>

DrainFails ==
    /\ task = "draining" /\ outgoing # <<>> /\ Fault
    /\ outgoing' = Tail(outgoing)
    /\ task' = "waiting" /\ air' = {}
    /\ UNCHANGED <<build, delay, registered, closed, relayed, nextId, sends,
                   peerSent, peerId, chunkBuffer, rxQueue>>

DrainEnd ==
    /\ task = "draining" /\ outgoing = <<>>
    /\ task' = IF closed THEN "ended" ELSE "online"
    /\ UNCHANGED <<build, delay, registered, closed, outgoing, relayed, nextId,
                   sends, peerSent, peerId, air, chunkBuffer, rxQueue, faults>>

(* disconnect_network and the end of the VM drop the backend.  The wasm task   *)
(* holds its own references and goes on.                                      *)
DropBackend ==
    /\ ~closed /\ closed' = TRUE
    /\ UNCHANGED <<build, task, delay, registered, outgoing, relayed, nextId,
                   sends, peerSent, peerId, air, chunkBuffer, rxQueue, faults>>

-----------------------------------------------------------------------------
(* A peer's backend sends a frame and the relay forwards its datagrams to     *)
(* this connection (external).                                                *)
PeerSends(size) ==
    /\ task \in {"online", "draining"} /\ Len(peerSent) < MaxFrames
    /\ LET datagrams == EncodeFrameSmart(Len(peerSent) + 1, size, peerId)
       IN air' = air \cup {datagrams[i] : i \in DOMAIN datagrams}
    /\ peerSent' = Append(peerSent, size) /\ peerId' = IdAfter(size, peerId)
    /\ UNCHANGED <<build, task, delay, registered, closed, outgoing, relayed,
                   nextId, sends, chunkBuffer, rxQueue, faults>>

(* chunk_buffer.entry(..).or_insert_with(..) *)
EntryFor(d) ==
    IF d.id \in DOMAIN chunkBuffer THEN chunkBuffer[d.id]
    ELSE [parts |-> [i \in 1..d.total |-> <<>>], total |-> d.total, count |-> 0]
WithEntry(id, e) ==
    [i \in DOMAIN chunkBuffer \cup {id} |-> IF i = id THEN e ELSE chunkBuffer[i]]
WithoutEntry(id) == [i \in DOMAIN chunkBuffer \ {id} |-> chunkBuffer[i]]

(* Mutant: a chunk that came before is counted again. *)
AddChunkTwice(d) ==
    LET e == EntryFor(d)
        filled == [e EXCEPT !.parts[d.index] = d.payload, !.count = @ + 1]
    IN IF filled.count = filled.total
       THEN /\ rxQueue' = Append(rxQueue, filled.parts)
            /\ chunkBuffer' = WithoutEntry(d.id)
       ELSE /\ chunkBuffer' = WithEntry(d.id, filled)
            /\ UNCHANGED rxQueue
(* A chunk is stored once; the last missing one completes the frame.           *)
AddChunk(d) ==
    LET e == EntryFor(d)
        new == d.index \in DOMAIN e.parts /\ e.parts[d.index] = <<>>
        filled == IF new
                  THEN [e EXCEPT !.parts[d.index] = d.payload, !.count = @ + 1]
                  ELSE e
    IN IF new /\ filled.count = filled.total
       THEN /\ rxQueue' = Append(rxQueue, filled.parts)
            /\ chunkBuffer' = WithoutEntry(d.id)
       ELSE /\ chunkBuffer' = WithEntry(d.id, filled)
            /\ UNCHANGED rxQueue

(* One datagram out of the connection; `again' when the network delivers it     *)
(* once more later.                                                           *)
Receive(d, again) ==
    /\ task = "online" /\ d \in air
    /\ IF again THEN Fault /\ UNCHANGED air
                ELSE air' = air \ {d} /\ UNCHANGED faults
    /\ registered' = (registered \/ d = Assigned)
    /\ CASE d.type = "control" -> UNCHANGED <<chunkBuffer, rxQueue>>
         [] d.type = "chunked" -> AddChunk(d)
         [] d.type = "data" -> /\ rxQueue' = Append(rxQueue, <<d.payload>>)
                               /\ UNCHANGED chunkBuffer
    /\ UNCHANGED <<build, task, delay, closed, outgoing, relayed, nextId, sends,
                   peerSent, peerId>>

(* recv() *)
Recv ==
    /\ rxQueue # <<>> /\ rxQueue' = Tail(rxQueue)
    /\ UNCHANGED <<build, task, delay, registered, closed, outgoing, relayed,
                   nextId, sends, peerSent, peerId, air, chunkBuffer, faults>>

-----------------------------------------------------------------------------
Lifecycle == \/ StartConnection \/ ConnectSucceeds \/ RegisterSent \/ Reconnect
             \/ DrainStart \/ DrainOne \/ DrainEnd

WtNext == \/ Lifecycle
          \/ ConnectFails \/ RegisterFails \/ ConnectionLost \/ DrainFails
          \/ \E size \in Sizes : Send(size) \/ PeerSends(size)
          \/ \E d \in air, again \in BOOLEAN : Receive(d, again)
          \/ Recv \/ DropBackend

(* The task runs when its timer, its socket or its channel wakes it.  The       *)
(* Register message and the relay's answer are not lost while the connection   *)
(* stands: neither is ever sent again.                                        *)
WtFairness == /\ WF_wtVars(Lifecycle)
              /\ WF_wtVars(Assigned \in air /\ Receive(Assigned, FALSE))

WtSpec == WtInit /\ [][WtNext]_wtVars /\ WtFairness

-----------------------------------------------------------------------------
(* Every frame handed to the guest is a frame the peer sent, with all of its    *)
(* chunks in their order: loss, reordering, duplicates and a reconnection in    *)
(* the middle of a frame never make one of parts of two (the entry, is_none    *)
(* and received_count bookkeeping of the receive loop).  It needs one chunked   *)
(* sender and fewer than ChunkIds frames while a chunk is missing: the buffer   *)
(* is keyed by the chunk id alone.                                            *)
FramesWhole ==
    \A n \in DOMAIN rxQueue : \E k \in DOMAIN peerSent :
        rxQueue[n] = [i \in 1..peerSent[k] |-> <<k, i>>]

(* Once the task has begun to connect it comes to a registered connection, after  *)
(* whatever fails, unless the backend was dropped: no error path leaves the        *)
(* reconnection loop.                                                            *)
RegistersAgain ==
    (task # "start") ~> (\/ task \in {"online", "draining"} /\ registered
                         \/ task = "ended")
=============================================================================
