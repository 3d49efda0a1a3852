---------------------------- MODULE NetworkProofs ----------------------------
(***************************************************************************)
(* Machine-checked proofs about the network path: VirtioNet, for every     *)
(* ring size, index range and number of chains, packets and resets;        *)
(* WebTransport, for every number of frames and chunks; and Emac, for       *)
(* every size of its two rings and number of frames and packets.           *)
(***************************************************************************)
EXTENDS VirtioNet, WebTransport, Emac, SplitRingProofs, FiniteSetTheorems, TLAPS

-----------------------------------------------------------------------------
(* Type correctness.                                                       *)

\* A step of a free index.
LEMMA StepIndex ==
    ASSUME NEW f \in [Queues -> 0 .. IdxMod - 1], NEW q \in Queues
    PROVE  [f EXCEPT ![q] = Succ(@)] \in [Queues -> 0 .. IdxMod - 1]
<1>1. f[q] \in Nat
  BY SplitRingAssumption
<1>2. Succ(f[q]) \in 0 .. IdxMod - 1
  BY <1>1, SuccType
<1> QED
  BY <1>2

\* A store to one slot of one ring.
LEMMA StoreSlot ==
    ASSUME NEW r \in [Queues -> [0 .. QueueNum - 1 -> Nat]], NEW q \in Queues,
           NEW i \in Nat, NEW v \in Nat
    PROVE  [r EXCEPT ![q][Slot(i)] = v]
               \in [Queues -> [0 .. QueueNum - 1 -> Nat]]
  BY SlotType

\* The types of the parts of the state that a step may replace.
IndexTypes ==
    /\ availIdx \in [Queues -> 0 .. IdxMod - 1]
    /\ usedIdx \in [Queues -> 0 .. IdxMod - 1]
    /\ lastAvail \in [Queues -> 0 .. IdxMod - 1]
    /\ seen \in [Queues -> 0 .. IdxMod - 1]
    /\ limit \in 0 .. IdxMod - 1 /\ last \in 0 .. IdxMod - 1
RingTypes ==
    /\ ring \in [Queues -> [0 .. QueueNum - 1 -> Nat]]
    /\ used \in [Queues -> [0 .. QueueNum - 1 -> Nat]]
FlagTypes ==
    /\ ready \in [Queues -> BOOLEAN]
    /\ irq \in BOOLEAN /\ reaping \in BOOLEAN /\ faulted \in BOOLEAN
    /\ job \in {"idle", "tx", "rx"}
    /\ polling \in BOOLEAN /\ any \in BOOLEAN
    /\ arrived \in 0 .. MaxPackets /\ resets \in 0 .. MaxResets
\* The packets under way are those that have arrived.
DataTypes ==
    /\ posted["tx"] \in Seq(TxKinds) /\ posted["rx"] \in Seq(RxKinds)
    /\ DOMAIN posted = Queues
    /\ inbox \in Seq(Nat)
NetTypes == IndexTypes /\ RingTypes /\ FlagTypes /\ DataTypes

LEMMA IndexZero == 0 \in 0 .. IdxMod - 1
  BY SplitRingAssumption

LEMMA TypesStart == Init => NetTypes
<1> USE VirtioNetAssumption, SplitRingAssumption
<1> SUFFICES ASSUME Init PROVE NetTypes
  OBVIOUS
<1>1. IndexTypes
  BY IndexZero DEF Init, IndexTypes
<1>2. RingTypes
  BY DEF Init, RingTypes, Empty
<1>3. FlagTypes
  <2>1. arrived \in 0 .. MaxPackets /\ resets \in 0 .. MaxResets
    BY DEF Init
  <2>2. ready \in [Queues -> BOOLEAN]
    BY DEF Init
  <2> QED
    BY <2>1, <2>2, Zenon DEF Init, FlagTypes
<1>4. DataTypes
  <2>1. posted["tx"] = <<>> /\ posted["rx"] = <<>> /\ DOMAIN posted = Queues
    BY DEF Init, Queues
  <2>2. inbox = <<>>
    BY DEF Init
  <2> QED
    BY <2>1, <2>2 DEF DataTypes
<1> QED
  BY <1>1, <1>2, <1>3, <1>4 DEF NetTypes

LEMMA TypesKept == NetTypes /\ [Next]_vars => NetTypes'
<1> USE VirtioNetAssumption, SplitRingAssumption
<1> SUFFICES ASSUME NetTypes, [Next]_vars PROVE NetTypes'
  OBVIOUS
<1> USE IndexZero DEF memory, device, call, driver
<1>a. "tx" \in Queues /\ "rx" \in Queues
  BY DEF Queues
<1>1. CASE Arrive
  <2>1. DataTypes'
    BY <1>1 DEF Arrive, NetTypes, DataTypes, FlagTypes
  <2>2. arrived' \in 0 .. MaxPackets
    BY <1>1 DEF Arrive, NetTypes, FlagTypes
  <2>3. FlagTypes'
    BY <1>1, <2>2 DEF Arrive, NetTypes, FlagTypes
  <2> QED
    BY <1>1, <2>1, <2>3 DEF Arrive, NetTypes, IndexTypes, RingTypes
<1>2. ASSUME NEW q \in Queues, Configure(q) PROVE NetTypes'
  BY <1>2 DEF Configure, NetTypes, IndexTypes, RingTypes, FlagTypes, DataTypes
<1>3. ASSUME NEW q \in Queues, Reap(q) PROVE NetTypes'
  <2>1. IndexTypes'
    BY <1>3, StepIndex DEF Reap, NetTypes, IndexTypes
  <2> QED
    BY <1>3, <2>1 DEF Reap, NetTypes, RingTypes, FlagTypes, DataTypes
<1>4. ASSUME NEW q \in Queues, NEW kind, Post(q, kind),
             q = "tx" => kind \in TxKinds, q = "rx" => kind \in RxKinds
      PROVE  NetTypes'
  <2>1. IndexTypes'
    BY <1>4, StepIndex DEF Post, NetTypes, IndexTypes
  <2>2. posted[q] \in Seq(TxKinds) \/ posted[q] \in Seq(RxKinds)
    BY DEF NetTypes, DataTypes, Queues
  <2>3. Len(posted[q]) + 1 \in Nat /\ availIdx[q] \in Nat
    BY <2>2 DEF NetTypes, IndexTypes
  <2>4. RingTypes'
    BY <1>4, <2>3, StoreSlot DEF Post, NetTypes, RingTypes
  <2>5. DataTypes'
    <3>1. CASE q = "tx"
      BY <3>1, <1>4 DEF Post, NetTypes, DataTypes, Queues
    <3>2. CASE q = "rx"
      BY <3>2, <1>4 DEF Post, NetTypes, DataTypes, Queues
    <3> QED
      BY <3>1, <3>2 DEF Queues
  <2> QED
    BY <1>4, <2>1, <2>4, <2>5 DEF Post, NetTypes, FlagTypes
<1>5. CASE Ack
  BY <1>5 DEF Ack, NetTypes, IndexTypes, RingTypes, FlagTypes, DataTypes
<1>6. CASE ReapDone
  BY <1>6 DEF ReapDone, NetTypes, IndexTypes, RingTypes, FlagTypes, DataTypes
<1>7. CASE Reset
  <2>1. IndexTypes'
    BY <1>7 DEF Reset, FreshRings, NetTypes, IndexTypes
  <2>2. RingTypes'
    BY <1>7 DEF Reset, FreshRings, RingTypes, Empty
  <2>3. resets' \in 0 .. MaxResets
    BY <1>7 DEF Reset, NetTypes, FlagTypes
  <2>4. FlagTypes'
    BY <1>7, <2>3 DEF Reset, FreshRings, NetTypes, FlagTypes
  <2>5. DataTypes'
    BY <1>7 DEF Reset, FreshRings, NetTypes, DataTypes, Queues
  <2> QED
    BY <2>1, <2>2, <2>4, <2>5 DEF NetTypes
<1>8. CASE NotifyTx \/ NotifyRx \/ Poll
  <2>1. PICK p \in BOOLEAN : EnterTx(p) \/ EnterRx(p)
    BY <1>8 DEF NotifyTx, NotifyRx, Poll
  <2>2. IndexTypes'
    BY <2>1, <1>a DEF EnterTx, EnterRx, NetTypes, IndexTypes
  <2>3. FlagTypes'
    BY <2>1 DEF EnterTx, EnterRx, NetTypes, FlagTypes
  <2> QED
    BY <2>1, <2>2, <2>3 DEF EnterTx, EnterRx, NetTypes, RingTypes, DataTypes
<1>9. CASE TxChain
  <2>1. ring["tx"][Slot(last)] \in Nat
    <3>1. Slot(last) \in 0 .. QueueNum - 1
      BY SlotType DEF NetTypes, IndexTypes
    <3> QED
      BY <3>1, <1>a DEF NetTypes, RingTypes
  <2>2. IndexTypes'
    <3>1. Succ(last) \in 0 .. IdxMod - 1
      BY SuccType DEF NetTypes, IndexTypes
    <3> QED
      BY <1>9, <1>a, <3>1, StepIndex DEF TxChain, PutUsed, NetTypes, IndexTypes
  <2>3. RingTypes'
    <3>1. usedIdx["tx"] \in Nat
      BY <1>a DEF NetTypes, IndexTypes
    <3> QED
      BY <1>9, <1>a, <2>1, <3>1, StoreSlot DEF TxChain, PutUsed, NetTypes, RingTypes
  <2> QED
    BY <1>9, <2>2, <2>3 DEF TxChain, NetTypes, FlagTypes, DataTypes
<1>10. CASE TxFault
  BY <1>10 DEF TxFault, Abort, NetTypes, IndexTypes, RingTypes, FlagTypes,
               DataTypes
<1>11. CASE TxEnd
  BY <1>11, <1>a DEF TxEnd, NetTypes, IndexTypes, RingTypes, FlagTypes, DataTypes
<1>12. CASE RxPacket
  <2>0. DataTypes' /\ Head(inbox) \in Nat
    <3>1. RxTake
      BY <1>12 DEF RxPacket, RxDrop, RxSkip, RxDeliver, RxFault
    <3>2. inbox \in Seq(Nat) /\ inbox # <<>>
      BY <3>1 DEF RxTake, NetTypes, DataTypes
    <3>3. Tail(inbox) \in Seq(Nat) /\ Head(inbox) \in Nat
      BY <3>2
    <3> QED
      BY <3>1, <3>3 DEF RxTake, NetTypes, DataTypes
  <2>1. CASE RxDrop \/ RxFault
    <3>1. FlagTypes'
      BY <2>1 DEF RxDrop, RxFault, Abort, RxTake, NetTypes, FlagTypes
    <3>2. IndexTypes' /\ RingTypes'
      BY <2>1 DEF RxDrop, RxFault, Abort, RxTake, NetTypes, IndexTypes, RingTypes
    <3> QED
      BY <2>0, <3>1, <3>2 DEF NetTypes
  <2>2. CASE RxSkip
    <3>1. IndexTypes'
      BY <2>2, <1>a, StepIndex DEF RxSkip, RxTake, NetTypes, IndexTypes
    <3> QED
      BY <2>0, <2>2, <3>1 DEF RxSkip, RxTake, NetTypes, RingTypes, FlagTypes
  <2>3. CASE RxDeliver
    <3>1. IndexTypes'
      BY <2>3, <1>a, StepIndex DEF RxDeliver, PutUsed, RxTake, NetTypes, IndexTypes
    <3>2. Head(inbox) \in Nat /\ usedIdx["rx"] \in Nat
      BY <2>0, <1>a DEF NetTypes, IndexTypes
    <3>3. RingTypes'
      BY <2>3, <1>a, <3>2, StoreSlot DEF RxDeliver, PutUsed, RxTake, NetTypes,
                                         RingTypes
    <3> QED
      BY <2>0, <2>3, <3>1, <3>3 DEF RxDeliver, RxTake, NetTypes, FlagTypes
  <2> QED
    BY <1>12, <2>1, <2>2, <2>3 DEF RxPacket
<1>13. CASE RxEnd
  BY <1>13 DEF RxEnd, NetTypes, IndexTypes, RingTypes, FlagTypes, DataTypes
<1>14. CASE UNCHANGED vars
  BY <1>14 DEF vars, NetTypes, IndexTypes, RingTypes, FlagTypes, DataTypes
<1> QED
  BY <1>a, <1>1, <1>2, <1>3, <1>4, <1>5, <1>6, <1>7, <1>8, <1>9, <1>10,
     <1>11, <1>12, <1>13, <1>14 DEF Next, InCall

\* Every variable keeps the type of its Rust counterpart; the u16 indices stay
\* within their range.
THEOREM TypeCorrect == Spec => []TypeOK
<1>1. NetTypes => TypeOK
  BY DEF NetTypes, IndexTypes, RingTypes, FlagTypes, DataTypes, TypeOK
<1> QED
  BY <1>1, TypesStart, TypesKept, PTL DEF Spec

-----------------------------------------------------------------------------
(* No completion stays unannounced.  The invariant extends the property to *)
(* the inside of a call, where processed_any holds what the interrupt will *)
(* say, and drops the condition that the queue is ready, so that it holds  *)
(* when a queue becomes ready.                                             *)

AnnounceInv ==
    /\ job = "idle" => ~any
    /\ any \in BOOLEAN /\ irq \in BOOLEAN /\ reaping \in BOOLEAN
    /\ ~faulted /\ ~irq /\ ~reaping /\ ~any => seen = usedIdx

\* Whatever the driver has not taken back between two calls of the device is
\* announced by the interrupt, or the driver is already looking.
THEOREM Announced == Spec => []NoSilentCompletion
<1>1. Init => AnnounceInv
  BY DEF Init, AnnounceInv
<1>2. AnnounceInv /\ [Next]_vars => AnnounceInv'
  <2> SUFFICES ASSUME AnnounceInv, [Next]_vars PROVE AnnounceInv'
    OBVIOUS
  <2> USE DEF AnnounceInv, memory, device, call, driver
  <2>1. CASE Arrive
    BY <2>1 DEF Arrive
  <2>2. ASSUME NEW q \in Queues, Configure(q) PROVE AnnounceInv'
    BY <2>2 DEF Configure
  <2>3. ASSUME NEW q \in Queues, Reap(q) PROVE AnnounceInv'
    BY <2>3 DEF Reap
  <2>4. ASSUME NEW q, NEW kind, Post(q, kind) PROVE AnnounceInv'
    BY <2>4 DEF Post
  <2>5. CASE Ack
    BY <2>5 DEF Ack
  <2>6. CASE ReapDone
    BY <2>6 DEF ReapDone
  <2>7. CASE Reset
    BY <2>7 DEF Reset, FreshRings
  <2>8. CASE NotifyTx \/ NotifyRx \/ Poll
    BY <2>8 DEF NotifyTx, NotifyRx, Poll, EnterTx, EnterRx
  <2>9. CASE TxChain
    BY <2>9 DEF TxChain
  <2>10. CASE TxFault
    BY <2>10 DEF TxFault, Abort
  <2>11. CASE TxEnd
    BY <2>11 DEF TxEnd
  <2>12. CASE RxPacket
    <3>1. CASE RxDrop
      BY <3>1 DEF RxDrop, RxTake
    <3>2. CASE RxSkip
      BY <3>2 DEF RxSkip, RxTake
    <3>3. CASE RxDeliver
      BY <3>3 DEF RxDeliver, RxTake
    <3>4. CASE RxFault
      BY <3>4 DEF RxFault, RxTake, Abort
    <3> QED
      BY <2>12, <3>1, <3>2, <3>3, <3>4 DEF RxPacket
  <2>13. CASE RxEnd
    BY <2>13 DEF RxEnd
  <2>14. CASE UNCHANGED vars
    BY <2>14 DEF vars
  <2> QED
    BY <2>1, <2>2, <2>3, <2>4, <2>5, <2>6, <2>7, <2>8, <2>9, <2>10, <2>11,
       <2>12, <2>13, <2>14 DEF Next, InCall
<1>3. AnnounceInv => NoSilentCompletion
  BY DEF AnnounceInv, NoSilentCompletion
<1> QED
  BY <1>1, <1>2, <1>3, PTL DEF Spec

-----------------------------------------------------------------------------
(* The two rings.  TxExact and RxExact look at the used rings.  Besides it  *)
(* must be known that the indices are in order around each ring, so that no *)
(* entry is overwritten too early; that the avail ring holds the chains     *)
(* which are not processed yet; and that a packet in the inbox is younger   *)
(* than those delivered.                                                    *)

RxInv ==
    /\ Window(seen["rx"], usedIdx["rx"], lastAvail["rx"], availIdx["rx"])
    /\ Streams(delivered, inbox, arrived)
    /\ Holds(used["rx"], seen["rx"], usedIdx["rx"], delivered, Len(delivered))

\* The packets of the first n chains were offered.
Offers(off, chains, n) == Lists(off, {i \in 1 .. n : chains[i] = "packet"})

\* Every chain up to c is in the used ring or was taken from it, the rest is in
\* the avail ring.
TxRings(s, c, a, avail, cells, chains, off) ==
    /\ Holds(avail, c, a, Ids, Len(chains))
    /\ Holds(cells, s, c, Ids, Len(chains) - Distance(c, a))
    /\ Offers(off, chains, Len(chains) - Distance(c, a))

\* Where the transmit loop is.
Cur == IF job = "tx" THEN last ELSE lastAvail["tx"]
TxInv == ~faulted =>
    /\ usedIdx["tx"] = Cur
    /\ Window(seen["tx"], Cur, Cur, availIdx["tx"])
    /\ job = "tx" => Window(seen["tx"], last, limit, availIdx["tx"])
    /\ TxRings(seen["tx"], Cur, availIdx["tx"], ring["tx"], used["tx"], posted["tx"], offered)

NetInv == NetTypes /\ RxInv /\ TxInv

\* Where the loop is in the count of chains.
LEMMA TxCount ==
  ASSUME NEW s, NEW c \in Indices, NEW a \in Indices, NEW avail, NEW cells, NEW chains \in Seq(TxKinds),
         NEW off, TxRings(s, c, a, avail, cells, chains, off)
  PROVE  /\ Len(chains) \in Nat /\ Distance(c, a) \in Nat
         /\ Len(chains) - Distance(c, a) \in Nat
<1>1. Len(chains) \in Nat /\ Distance(c, a) \in Nat
  BY DistanceIs DEF Indices
<1>2. Distance(c, a) <= Len(chains)
  BY DEF TxRings, Holds
<1> QED BY <1>1, <1>2

LEMMA TxPosted ==
  ASSUME NEW s \in Indices, NEW c \in Indices, NEW a \in Indices,
         NEW avail \in [0 .. QueueNum - 1 -> Nat], NEW cells, NEW chains \in Seq(TxKinds), NEW off,
         NEW kind \in TxKinds,
         Window(s, c, c, a), Distance(s, a) < QueueNum,
         TxRings(s, c, a, avail, cells, chains, off)
  PROVE  TxRings(s, c, Succ(a), [avail EXCEPT ![Slot(a)] = Len(chains) + 1], cells,
                 Append(chains, kind), off)
<1> DEFINE m == Len(chains)
           n == m - Distance(c, a)
<1>1. m \in Nat /\ Distance(c, a) \in Nat /\ n \in Nat
  BY TxCount
<1>2. Distance(c, a) < QueueNum /\ Distance(c, Succ(a)) = Distance(c, a) + 1
  <2>1. Distance(c, a) = Distance(s, a) - Distance(s, c) /\ Distance(s, c) \in Nat /\ Distance(s, a) \in Nat
    BY Between, DistanceIs DEF Window, Indices
  <2>2. Distance(c, a) < QueueNum
    BY <2>1, Bounds
  <2> QED BY <2>2, StepAhead
<1>3. Len(Append(chains, kind)) = m + 1 /\ (m + 1) - Distance(c, Succ(a)) = n
  BY <1>1, <1>2
<1>4. Holds([avail EXCEPT ![Slot(a)] = m + 1], c, Succ(a), Ids, m + 1)
  <2>1. Holds(avail, c, a, Ids, m)
    BY DEF TxRings
  <2>2. Ids[m + 1] = m + 1
    BY <1>1, IdsAre
  <2>3. \A i \in 1 .. m : Ids[i] = Ids[i]
    OBVIOUS
  <2> HIDE DEF m
  <2> QED BY <1>1, <1>2, <2>1, <2>2, <2>3, ValueAdded
<1>5. Offers(off, Append(chains, kind), n)
  <2>1. \A i \in 1 .. n : Append(chains, kind)[i] = chains[i]
    <3>1. \A i \in 1 .. n : i \in 1 .. m
      BY <1>1
    <3> QED BY <3>1
  <2>2. Offers(off, chains, n)
    BY DEF TxRings
  <2> HIDE DEF n
  <2> QED BY <2>1, <2>2 DEF Offers
<1>6. Holds(cells, s, c, Ids, n)
  BY DEF TxRings
<1> HIDE DEF n
<1> QED BY <1>3, <1>4, <1>5, <1>6 DEF TxRings

LEMMA TxTaken ==
  ASSUME NEW s \in Indices, NEW c \in Indices, NEW a \in Indices,
         NEW avail, NEW cells, NEW chains \in Seq(TxKinds), NEW off,
         s # c, TxRings(s, c, a, avail, cells, chains, off)
  PROVE  TxRings(Succ(s), c, a, avail, cells, chains, off)
<1>1. Len(chains) - Distance(c, a) \in Nat
  BY TxCount
<1>2. Holds(cells, Succ(s), c, Ids, Len(chains) - Distance(c, a))
  BY <1>1, ValueTaken DEF TxRings
<1> QED BY <1>2 DEF TxRings

\* The backend is offered one more chain, or passes over it.
LEMMA Offered ==
  ASSUME NEW off, NEW chains, NEW n \in Nat, Offers(off, chains, n)
  PROVE  /\ chains[n + 1] = "packet" => Offers(Append(off, n + 1), chains, n + 1)
         /\ chains[n + 1] # "packet" => Offers(off, chains, n + 1)
<1> DEFINE S == {i \in 1 .. n : chains[i] = "packet"}
           S1 == {i \in 1 .. n + 1 : chains[i] = "packet"}
<1>1. 1 .. n + 1 = (1 .. n) \cup {n + 1}
  OBVIOUS
<1>2. chains[n + 1] # "packet" => S1 = S
  BY <1>1
<1>3. chains[n + 1] = "packet" => S1 = S \cup {n + 1}
  BY <1>1
<1>4. Lists(off, S) /\ S \subseteq 1 .. n
  BY DEF Offers
<1> HIDE DEF S, S1
<1>5. Lists(Append(off, n + 1), S \cup {n + 1})
  BY <1>4, ListGrows
<1> QED BY <1>2, <1>3, <1>4, <1>5 DEF Offers, S1

LEMMA TxServed ==
  ASSUME NEW s \in Indices, NEW c \in Indices, NEW a \in Indices, NEW avail,
         NEW cells \in [0 .. QueueNum - 1 -> Nat], NEW chains \in Seq(TxKinds), NEW off, NEW id,
         c # a, Window(s, c, c, a), TxRings(s, c, a, avail, cells, chains, off),
         id = avail[Slot(c)]
  PROVE  /\ chains[id] = "packet" =>
              TxRings(s, Succ(c), a, avail, [cells EXCEPT ![Slot(c)] = id], chains, Append(off, id))
         /\ chains[id] # "packet" =>
              TxRings(s, Succ(c), a, avail, [cells EXCEPT ![Slot(c)] = id], chains, off)
<1> DEFINE m == Len(chains)
           n == m - Distance(c, a)
<1>1. m \in Nat /\ Distance(c, a) \in Nat /\ n \in Nat
  BY TxCount
<1>2. Distance(Succ(c), a) = Distance(c, a) - 1
  BY StepBehind
<1>3. Holds(avail, c, a, Ids, m) /\ Holds(cells, s, c, Ids, n) /\ Offers(off, chains, n)
  BY DEF TxRings
<1>4. m - Distance(Succ(c), a) = n + 1 /\ n + 1 \in Nat
  BY <1>1, <1>2
<1> HIDE DEF n
<1>5. Holds(avail, Succ(c), a, Ids, m) /\ id = n + 1
  <2> HIDE DEF m
  <2>1. Holds(avail, Succ(c), a, Ids, m) /\ avail[Slot(c)] = Ids[(m - Distance(c, a)) + 1]
    BY <1>1, <1>3, ValueTaken
  <2> QED BY <1>4, <2>1, IdsAre DEF n
<1>6. Distance(s, c) < QueueNum
  BY WindowServed
<1>7. Holds([cells EXCEPT ![Slot(c)] = id], s, Succ(c), Ids, n + 1)
  <2>1. Ids[n + 1] = id
    BY <1>4, <1>5, IdsAre
  <2>2. \A i \in 1 .. n : Ids[i] = Ids[i]
    OBVIOUS
  <2> QED BY <1>1, <1>3, <1>6, <2>1, <2>2, ValueAdded
<1>8. /\ chains[id] = "packet" => Offers(Append(off, id), chains, n + 1)
      /\ chains[id] # "packet" => Offers(off, chains, n + 1)
  BY <1>1, <1>3, <1>5, Offered
<1> HIDE DEF m
<1> QED BY <1>4, <1>5, <1>7, <1>8 DEF TxRings, m

-----------------------------------------------------------------------------
(* The steps.                                                               *)

LEMMA Lines == "tx" \in Queues /\ "rx" \in Queues /\ Queues = {"tx", "rx"}
  BY DEF Queues

LEMMA IndexTypesAre ==
  ASSUME NetTypes
  PROVE  /\ \A q \in Queues : /\ availIdx[q] \in Indices /\ usedIdx[q] \in Indices
                              /\ lastAvail[q] \in Indices /\ seen[q] \in Indices
         /\ limit \in Indices /\ last \in Indices /\ Cur \in Indices
         /\ \A q \in Queues : /\ ring[q] \in [0 .. QueueNum - 1 -> Nat]
                              /\ used[q] \in [0 .. QueueNum - 1 -> Nat]
         /\ posted["tx"] \in Seq(TxKinds) /\ DOMAIN posted = Queues
         /\ DOMAIN availIdx = Queues /\ DOMAIN usedIdx = Queues /\ DOMAIN lastAvail = Queues
         /\ DOMAIN seen = Queues /\ DOMAIN ring = Queues /\ DOMAIN used = Queues
<1>1. Cur \in Indices
  BY Lines DEF NetTypes, IndexTypes, Cur, Indices
<1> QED BY <1>1 DEF NetTypes, IndexTypes, RingTypes, DataTypes, Indices

\* A step that leaves a queue's side alone.
RxSame ==
    /\ seen'["rx"] = seen["rx"] /\ usedIdx'["rx"] = usedIdx["rx"] /\ used'["rx"] = used["rx"]
    /\ lastAvail'["rx"] = lastAvail["rx"] /\ availIdx'["rx"] = availIdx["rx"]
    /\ UNCHANGED <<delivered, inbox, arrived>>
TxSame ==
    /\ seen'["tx"] = seen["tx"] /\ usedIdx'["tx"] = usedIdx["tx"] /\ used'["tx"] = used["tx"]
    /\ availIdx'["tx"] = availIdx["tx"] /\ ring'["tx"] = ring["tx"] /\ posted'["tx"] = posted["tx"]
    /\ Cur' = Cur /\ UNCHANGED offered
    /\ ~faulted' => ~faulted

LEMMA RxStays == ASSUME RxInv, RxSame PROVE RxInv'
  BY DEF RxInv, RxSame

LEMMA TxStays ==
  ASSUME TxInv, TxSame, job' = "tx" => job = "tx" /\ UNCHANGED <<last, limit>>
  PROVE  TxInv'
  BY DEF TxInv, TxSame

LEMMA BothStay ==
  ASSUME RxInv, TxInv, UNCHANGED <<memory, lastAvail, call, inbox, offered, seen, posted, delivered,
                                   arrived, faulted>>
  PROVE  RxInv' /\ TxInv'
<1>1. RxSame /\ TxSame /\ UNCHANGED <<job, last, limit>>
  BY DEF RxSame, TxSame, Cur, memory, call
<1> QED BY <1>1, RxStays, TxStays

LEMMA ArriveStep ==
  ASSUME NetInv, Arrive
  PROVE  RxInv' /\ TxInv'
<1>1. TxSame /\ UNCHANGED <<job, last, limit>>
  BY DEF Arrive, TxSame, Cur, memory, device, call, driver
<1>2. Streams(delivered, Append(inbox, arrived + 1), arrived + 1)
  BY StreamArrives DEF NetInv, RxInv
<1>3. RxInv'
  BY <1>2 DEF Arrive, RxInv, NetInv, memory, device, call, driver
<1> QED BY <1>1, <1>3, TxStays DEF NetInv

LEMMA PostTxStep ==
  ASSUME NetInv, NEW kind \in TxKinds, Post("tx", kind)
  PROVE  RxInv' /\ TxInv'
<1> USE Lines
<1> DEFINE s == seen["tx"]
           a == availIdx["tx"]
           c == posted["tx"]
<1>1. /\ s \in Indices /\ a \in Indices /\ Cur \in Indices /\ last \in Indices /\ limit \in Indices
      /\ ring["tx"] \in [0 .. QueueNum - 1 -> Nat] /\ c \in Seq(TxKinds)
  BY IndexTypesAre DEF NetInv
<1>2. /\ Distance(s, a) < QueueNum
      /\ posted'["tx"] = Append(c, kind)
      /\ ring'["tx"] = [ring["tx"] EXCEPT ![Slot(a)] = Len(c) + 1]
      /\ availIdx'["tx"] = Succ(a) /\ availIdx'["rx"] = availIdx["rx"]
      /\ UNCHANGED <<used, usedIdx, lastAvail, job, last, limit, seen, inbox, offered, delivered,
                     arrived, faulted>>
    BY IndexTypesAre DEF Post, device, call, driver, NetInv
<1>3. RxSame
  BY <1>2 DEF RxSame
<1>4. Cur' = Cur
  BY <1>2 DEF Cur
<1>5. CASE ~faulted
  <2>1. TxRings(s, Cur, Succ(a), ring'["tx"], used["tx"], Append(c, kind), offered)
    BY <1>1, <1>2, <1>5, TxPosted DEF NetInv, TxInv
  <2>2. Window(s, Cur, Cur, Succ(a))
    BY <1>1, <1>2, <1>5, WindowPosted DEF NetInv, TxInv
  <2>3. job = "tx" => Window(s, last, limit, Succ(a))
    BY <1>1, <1>2, <1>5, WindowPosted DEF NetInv, TxInv
  <2> QED BY <1>2, <1>3, <1>4, <1>5, <2>1, <2>2, <2>3, RxStays DEF NetInv, TxInv
<1>6. CASE faulted
  BY <1>2, <1>3, <1>6, RxStays DEF NetInv, TxInv
<1> QED BY <1>5, <1>6

LEMMA PostRxStep ==
  ASSUME NetInv, NEW kind \in RxKinds, Post("rx", kind)
  PROVE  RxInv' /\ TxInv'
<1> USE Lines
<1> DEFINE s == seen["rx"]
           a == availIdx["rx"]
<1>1. s \in Indices /\ a \in Indices /\ usedIdx["rx"] \in Indices /\ lastAvail["rx"] \in Indices
  BY IndexTypesAre DEF NetInv
<1>2. /\ Distance(s, a) < QueueNum
      /\ posted'["tx"] = posted["tx"] /\ ring'["tx"] = ring["tx"]
      /\ availIdx'["rx"] = Succ(a) /\ availIdx'["tx"] = availIdx["tx"]
      /\ UNCHANGED <<used, usedIdx, lastAvail, job, last, limit, seen, inbox, offered, delivered,
                     arrived, faulted>>
    BY IndexTypesAre DEF Post, device, call, driver, NetInv
<1>3. TxSame
  BY <1>2 DEF TxSame, Cur
<1>4. Window(s, usedIdx["rx"], lastAvail["rx"], Succ(a))
  BY <1>1, <1>2, WindowPosted DEF NetInv, RxInv
<1>5. RxInv'
  BY <1>2, <1>4 DEF NetInv, RxInv
<1> QED BY <1>2, <1>3, <1>5, TxStays DEF NetInv

LEMMA ReapStep ==
  ASSUME NetInv, NEW q \in Queues, Reap(q)
  PROVE  RxInv' /\ TxInv'
<1> USE Lines
<1> DEFINE s == seen[q]
<1>1. /\ seen'[q] = Succ(s) /\ s # usedIdx[q] /\ \A p \in Queues : p # q => seen'[p] = seen[p]
      /\ UNCHANGED <<ring, availIdx, used, usedIdx, lastAvail, job, last, limit, inbox, offered, posted,
                     delivered, arrived, faulted>>
  BY IndexTypesAre DEF Reap, memory, device, call, NetInv
<1>2. /\ s \in Indices /\ usedIdx[q] \in Indices /\ lastAvail[q] \in Indices
      /\ availIdx[q] \in Indices /\ Cur \in Indices /\ last \in Indices /\ limit \in Indices
      /\ posted["tx"] \in Seq(TxKinds)
  BY IndexTypesAre DEF NetInv
<1>3. Cur' = Cur
  BY <1>1 DEF Cur
<1>4. CASE q = "rx"
  <2>1. TxSame
    BY <1>1, <1>3, <1>4 DEF TxSame
  <2>2. Window(Succ(s), usedIdx["rx"], lastAvail["rx"], availIdx["rx"])
    BY <1>1, <1>2, <1>4, WindowTaken DEF NetInv, RxInv
  <2>3. Holds(used["rx"], Succ(s), usedIdx["rx"], delivered, Len(delivered))
    <3>1. Len(delivered) \in Nat
      BY DEF NetInv, RxInv, Streams
    <3> QED BY <1>1, <1>2, <1>4, <3>1, ValueTaken DEF NetInv, RxInv
  <2>4. RxInv'
    BY <1>1, <1>4, <2>2, <2>3 DEF NetInv, RxInv
  <2> QED BY <1>1, <2>1, <2>4, TxStays DEF NetInv
<1>5. CASE q = "tx"
  <2>1. RxSame
    BY <1>1, <1>5 DEF RxSame
  <2>2. CASE ~faulted
    <3>1. s # Cur
      BY <1>1, <1>5, <2>2 DEF NetInv, TxInv
    <3>2. Window(Succ(s), Cur, Cur, availIdx["tx"])
      BY <1>2, <1>5, <2>2, <3>1, WindowTaken DEF NetInv, TxInv
    <3>3. job = "tx" => Window(Succ(s), last, limit, availIdx["tx"])
      <4>1. job = "tx" => s # last
        BY <3>1 DEF Cur
      <4> QED BY <1>2, <1>5, <2>2, <4>1, WindowTaken DEF NetInv, TxInv
    <3>4. TxRings(Succ(s), Cur, availIdx["tx"], ring["tx"], used["tx"], posted["tx"], offered)
      BY <1>2, <1>5, <2>2, <3>1, TxTaken DEF NetInv, TxInv
    <3>5. TxInv'
      BY <1>1, <1>3, <1>5, <2>2, <3>2, <3>3, <3>4 DEF NetInv, TxInv
    <3> QED BY <2>1, <3>5, RxStays DEF NetInv
  <2>3. CASE faulted
    BY <1>1, <2>1, <2>3, RxStays DEF NetInv, TxInv
  <2> QED BY <2>2, <2>3
<1> QED BY <1>4, <1>5

\* Empty rings hold nothing.
LEMMA EmptyRings ==
  ASSUME NEW in, NEW n, Streams(<<>>, in, n), NEW u, NEW v
  PROVE  /\ Window(0, 0, 0, 0) /\ Holds(u, 0, 0, <<>>, Len(<<>>))
         /\ TxRings(0, 0, 0, v, u, <<>>, <<>>)
<1>1. 0 \in Indices /\ Distance(0, 0) = 0 /\ Len(<<>>) = 0 /\ 1 .. 0 = {}
  BY Bounds, SamePlace DEF Indices
<1>2. Window(0, 0, 0, 0)
  BY <1>1, Bounds DEF Window
<1>3. \A f : Holds(u, 0, 0, f, 0) /\ Holds(v, 0, 0, f, 0)
  BY <1>1 DEF Holds
<1>4. Offers(<<>>, <<>>, 0)
  BY <1>1 DEF Offers, Lists, Ascending
<1>5. Len(<<>>) - Distance(0, 0) = 0
  BY <1>1
<1> QED BY <1>1, <1>2, <1>3, <1>4, <1>5 DEF TxRings

LEMMA ResetStep ==
  ASSUME NetInv, Reset
  PROVE  RxInv' /\ TxInv'
<1> USE Lines
<1>1. \A q \in Queues : /\ availIdx'[q] = 0 /\ usedIdx'[q] = 0 /\ seen'[q] = 0 /\ lastAvail'[q] = 0
                        /\ posted'[q] = <<>>
  BY DEF Reset, FreshRings
<1>2. offered' = <<>> /\ delivered' = <<>> /\ job' = "idle" /\ UNCHANGED <<inbox, arrived>>
  BY DEF Reset, FreshRings, call
<1>3. Streams(<<>>, inbox, arrived)
  BY EmptyStream DEF NetInv, RxInv
<1>4. Cur' = 0
  BY <1>1, <1>2 DEF Cur
<1>5. /\ Window(0, 0, 0, 0) /\ Holds(used'["rx"], 0, 0, <<>>, Len(<<>>))
      /\ TxRings(0, 0, 0, ring'["tx"], used'["tx"], <<>>, <<>>)
  BY <1>3, EmptyRings
<1>6. RxInv'
  BY <1>1, <1>2, <1>3, <1>5 DEF RxInv
<1>7. TxInv'
  BY <1>1, <1>2, <1>4, <1>5 DEF TxInv
<1> QED BY <1>6, <1>7

LEMMA EnterStep ==
  ASSUME NetInv, NEW p \in BOOLEAN, EnterTx(p) \/ EnterRx(p)
  PROVE  RxInv' /\ TxInv'
<1> USE Lines
<1>1. RxSame
  BY DEF EnterTx, EnterRx, RxSame, memory, device, driver
<1>2. job = "idle" /\ Cur = lastAvail["tx"]
  BY DEF EnterTx, EnterRx, Cur
<1>3. TxSame
  BY <1>2 DEF EnterTx, EnterRx, TxSame, Cur, memory, device, driver
<1>4. CASE EnterRx(p)
  BY <1>1, <1>3, <1>4, RxStays, TxStays DEF EnterRx, NetInv
<1>5. CASE EnterTx(p)
  <2>1. last' = Cur /\ limit' = availIdx["tx"] /\ UNCHANGED <<seen, availIdx, faulted>>
    BY <1>2, <1>5 DEF EnterTx, memory, driver
  <2>2. ~faulted => Window(seen["tx"], Cur, availIdx["tx"], availIdx["tx"])
    <3>1. Distance(seen["tx"], availIdx["tx"]) \in Nat
      BY IndexTypesAre, DistanceIs DEF NetInv, Indices
    <3> QED BY <3>1 DEF NetInv, TxInv, Window
  <2>3. TxInv'
    BY <1>3, <2>1, <2>2 DEF NetInv, TxInv, TxSame
  <2> QED BY <1>1, <2>3, RxStays DEF NetInv
<1> QED BY <1>4, <1>5

LEMMA TxChainStep ==
  ASSUME NetInv, TxChain
  PROVE  RxInv' /\ TxInv'
<1> USE Lines
<1> DEFINE s == seen["tx"]
           a == availIdx["tx"]
           id == ring["tx"][Slot(last)]
<1>1. /\ s \in Indices /\ a \in Indices /\ last \in Indices /\ limit \in Indices
      /\ used["tx"] \in [0 .. QueueNum - 1 -> Nat] /\ posted["tx"] \in Seq(TxKinds)
  BY IndexTypesAre DEF NetInv
<1>2. /\ job = "tx" /\ job' = "tx" /\ last # limit /\ last' = Succ(last)
      /\ UNCHANGED <<seen, ring, availIdx, lastAvail, limit, inbox, posted, delivered, arrived, faulted>>
    BY DEF TxChain, device, driver
<1>3. /\ usedIdx'["tx"] = Succ(usedIdx["tx"]) /\ usedIdx'["rx"] = usedIdx["rx"]
      /\ used'["rx"] = used["rx"]
      /\ used'["tx"] = [used["tx"] EXCEPT ![Slot(usedIdx["tx"])] = id]
    BY IndexTypesAre DEF TxChain, PutUsed, NetInv
<1>4. RxSame
  BY <1>2, <1>3 DEF RxSame
<1>5. Cur = last /\ Cur' = Succ(last)
  BY <1>2 DEF Cur
<1>6. CASE ~faulted
  <2>1. usedIdx["tx"] = last /\ Window(s, last, last, a) /\ Window(s, last, limit, a)
        /\ TxRings(s, last, a, ring["tx"], used["tx"], posted["tx"], offered)
    BY <1>2, <1>5, <1>6 DEF NetInv, TxInv
  <2>2. last # a /\ Window(s, Succ(last), limit, a)
    <3>0. Distance(s, last) \in Indices /\ Distance(s, limit) \in Indices /\ Distance(s, a) \in Indices
      BY <1>1, DistanceIs
    <3>1. Distance(s, last) \in Int /\ Distance(s, limit) \in Int /\ Distance(s, a) \in Int
      BY <3>0 DEF Indices
    <3>2. Distance(s, last) # Distance(s, limit)
      BY <1>1, <1>2, <2>1, Between DEF Window
    <3>3. Distance(s, last) < QueueNum
      BY <2>1, <3>1, <3>2, Bounds DEF Window
    <3>4. Distance(s, Succ(last)) = Distance(s, last) + 1
      BY <1>1, <3>3, StepAhead
    <3>5. Distance(s, last) # Distance(s, a)
      BY <2>1, <3>1, <3>2 DEF Window
    <3> QED BY <2>1, <3>1, <3>2, <3>4, <3>5 DEF Window
  <2>3. Window(s, Succ(last), Succ(last), a)
    BY <1>1, <2>1, <2>2, WindowServed
  <2>4. \/ posted["tx"][id] = "packet" /\ offered' = Append(offered, id)
        \/ posted["tx"][id] # "packet" /\ offered' = offered
    BY <1>6 DEF TxChain, Record
  <2>5. TxRings(s, Succ(last), a, ring["tx"], used'["tx"], posted["tx"], offered')
    <3>0. id = ring["tx"][Slot(last)] /\ used'["tx"] = [used["tx"] EXCEPT ![Slot(last)] = id]
      BY <1>3, <2>1
    <3> HIDE DEF id, s, a
    <3> DEFINE put == [used["tx"] EXCEPT ![Slot(last)] = id]
    <3>1. /\ posted["tx"][id] = "packet" =>
               TxRings(s, Succ(last), a, ring["tx"], put, posted["tx"], Append(offered, id))
          /\ posted["tx"][id] # "packet" =>
               TxRings(s, Succ(last), a, ring["tx"], put, posted["tx"], offered)
      BY <1>1, <2>1, <2>2, <3>0, TxServed
    <3> QED BY <2>4, <3>0, <3>1
  <2>6. TxInv'
    BY <1>2, <1>3, <1>5, <2>1, <2>2, <2>3, <2>5 DEF TxInv
  <2> QED BY <1>4, <2>6, RxStays DEF NetInv
<1>7. CASE faulted
  BY <1>2, <1>4, <1>7, RxStays DEF NetInv, TxInv
<1> QED BY <1>6, <1>7

LEMMA AbortStep ==
  ASSUME NetInv, TxFault
  PROVE  RxInv' /\ TxInv'
<1>1. RxSame /\ faulted' = TRUE
  BY DEF TxFault, Abort, RxSame, memory, device, driver
<1> QED BY <1>1, RxStays DEF NetInv, TxInv

LEMMA TxEndStep ==
  ASSUME NetInv, TxEnd
  PROVE  RxInv' /\ TxInv'
<1> USE Lines
<1>1. /\ lastAvail'["tx"] = last /\ lastAvail'["rx"] = lastAvail["rx"] /\ job = "tx" /\ job' # "tx"
      /\ UNCHANGED <<memory, seen, inbox, offered, posted, delivered, arrived, faulted>>
  BY IndexTypesAre DEF TxEnd, driver, NetInv
<1>2. RxSame /\ TxSame
  BY <1>1 DEF RxSame, TxSame, Cur, memory
<1> QED BY <1>1, <1>2, RxStays, TxStays DEF NetInv

LEMMA RxPacketStep ==
  ASSUME NetInv, RxPacket
  PROVE  RxInv' /\ TxInv'
<1> USE Lines
<1> DEFINE s == seen["rx"]
           u == usedIdx["rx"]
           l == lastAvail["rx"]
           a == availIdx["rx"]
<1>1. /\ s \in Indices /\ u \in Indices /\ l \in Indices /\ a \in Indices
      /\ used["rx"] \in [0 .. QueueNum - 1 -> Nat]
  BY IndexTypesAre DEF NetInv
<1>2. /\ job = "rx" /\ inbox # <<>> /\ inbox' = Tail(inbox)
      /\ UNCHANGED <<ring, availIdx, offered, seen, posted, arrived>>
  BY DEF RxPacket, RxDrop, RxSkip, RxDeliver, RxFault, RxTake, driver
<1>3. Streams(delivered, inbox', arrived) /\ Streams(Append(delivered, Head(inbox)), inbox', arrived)
  BY <1>2, StreamDropped, StreamDelivered DEF NetInv, RxInv
<1>4. CASE RxDrop \/ RxFault
  <2>1. /\ UNCHANGED <<used, usedIdx, lastAvail, delivered>> /\ job' # "tx"
        /\ (faulted' = faulted \/ faulted' = TRUE)
    BY <1>2, <1>4 DEF RxDrop, RxFault, Abort, device, call
  <2>2. RxInv'
    BY <1>2, <1>3, <2>1 DEF NetInv, RxInv
  <2>3. TxSame \/ faulted' = TRUE
    BY <1>2, <2>1 DEF TxSame, Cur
  <2> QED BY <2>1, <2>2, <2>3, TxStays DEF NetInv, TxInv
<1>5. CASE RxSkip
  <2>1. /\ lastAvail'["rx"] = Succ(l) /\ lastAvail'["tx"] = lastAvail["tx"] /\ l # a
        /\ UNCHANGED <<used, usedIdx, job, delivered, faulted>>
    BY <1>5, IndexTypesAre DEF RxSkip, HasBuffer, call, NetInv
  <2>2. Window(s, u, Succ(l), a)
    BY <1>1, <2>1, WindowServed DEF NetInv, RxInv
  <2>3. RxInv'
    BY <1>2, <1>3, <2>1, <2>2 DEF NetInv, RxInv
  <2>4. TxSame /\ job' # "tx"
    BY <1>2, <2>1 DEF TxSame, Cur
  <2> QED BY <2>3, <2>4, TxStays DEF NetInv
<1>6. CASE RxDeliver
  <2> DEFINE x == Head(inbox)
  <2>1. /\ lastAvail'["rx"] = Succ(l) /\ lastAvail'["tx"] = lastAvail["tx"] /\ l # a
        /\ delivered' = Append(delivered, x)
        /\ UNCHANGED <<job, faulted>>
    BY <1>6, IndexTypesAre DEF RxDeliver, HasBuffer, NetInv
  <2>2. /\ used'["rx"] = [used["rx"] EXCEPT ![Slot(u)] = x] /\ used'["tx"] = used["tx"]
        /\ usedIdx'["rx"] = Succ(u) /\ usedIdx'["tx"] = usedIdx["tx"]
    BY <1>6, IndexTypesAre DEF RxDeliver, PutUsed, NetInv
  <2>3. Window(s, Succ(u), Succ(l), a) /\ Distance(s, u) < QueueNum
    BY <1>1, <2>1, WindowServed DEF NetInv, RxInv
  <2>4. delivered \in Seq(Nat) /\ x \in Nat /\ Len(delivered) \in Nat
    <3>1. inbox \in Seq(Nat) /\ delivered \in Seq(Nat)
      BY DEF NetInv, RxInv, Streams
    <3> QED BY <1>2, <3>1
  <2>5. /\ Len(delivered') = Len(delivered) + 1 /\ delivered'[Len(delivered) + 1] = x
        /\ \A i \in 1 .. Len(delivered) : delivered'[i] = delivered[i]
    <3> HIDE DEF x
    <3> QED BY <2>1, <2>4
  <2>6. Holds(used'["rx"], s, Succ(u), delivered', Len(delivered) + 1)
    <3>1. Holds(used["rx"], s, u, delivered, Len(delivered))
      BY DEF NetInv, RxInv
    <3> HIDE DEF x, s, u
    <3>2. Holds([used["rx"] EXCEPT ![Slot(u)] = x], s, Succ(u), delivered', Len(delivered) + 1)
      BY <1>1, <2>3, <2>4, <2>5, <3>1, ValueAdded
    <3> QED BY <2>2, <3>2
  <2>7. RxInv'
    BY <1>2, <1>3, <2>1, <2>2, <2>3, <2>5, <2>6 DEF RxInv
  <2>8. TxSame /\ job' # "tx"
    BY <1>2, <2>1, <2>2 DEF TxSame, Cur
  <2> QED BY <2>7, <2>8, TxStays DEF NetInv
<1> QED BY <1>4, <1>5, <1>6 DEF RxPacket

LEMMA RingsStart == Init => NetInv
<1> SUFFICES ASSUME Init PROVE NetInv
  OBVIOUS
<1> USE Lines
<1>1. \A q \in Queues : /\ availIdx[q] = 0 /\ usedIdx[q] = 0 /\ seen[q] = 0 /\ lastAvail[q] = 0
                        /\ posted[q] = <<>>
  BY DEF Init
<1>2. offered = <<>> /\ delivered = <<>> /\ job = "idle" /\ inbox = <<>> /\ arrived = 0
  BY DEF Init
<1>3. Streams(<<>>, <<>>, 0)
  BY DEF Streams, Ascending
<1>4. Cur = 0
  BY <1>1, <1>2 DEF Cur
<1>5. /\ Window(0, 0, 0, 0) /\ Holds(used["rx"], 0, 0, <<>>, Len(<<>>))
      /\ TxRings(0, 0, 0, ring["tx"], used["tx"], <<>>, <<>>)
  BY <1>3, EmptyRings
<1>6. RxInv
  BY <1>1, <1>2, <1>3, <1>5 DEF RxInv
<1>7. TxInv
  BY <1>1, <1>2, <1>4, <1>5 DEF TxInv
<1> QED BY <1>6, <1>7, TypesStart DEF NetInv

LEMMA RingsKept == NetInv /\ [Next]_vars => NetInv'
<1> SUFFICES ASSUME NetInv, [Next]_vars PROVE NetInv'
  OBVIOUS
<1>0. NetTypes'
  BY TypesKept DEF NetInv
<1> SUFFICES RxInv' /\ TxInv'
  BY <1>0 DEF NetInv
<1>1. CASE Arrive
  BY <1>1, ArriveStep
<1>2. ASSUME NEW q \in Queues, Configure(q) PROVE RxInv' /\ TxInv'
  BY <1>2, BothStay DEF Configure, memory, call, driver, NetInv
<1>3. ASSUME NEW q \in Queues, Reap(q) PROVE RxInv' /\ TxInv'
  BY <1>3, ReapStep
<1>4. ASSUME NEW kind \in TxKinds, Post("tx", kind) PROVE RxInv' /\ TxInv'
  BY <1>4, PostTxStep
<1>5. ASSUME NEW kind \in RxKinds, Post("rx", kind) PROVE RxInv' /\ TxInv'
  BY <1>5, PostRxStep
<1>6. CASE Ack \/ ReapDone
  BY <1>6, BothStay DEF Ack, ReapDone, memory, device, call, driver, NetInv
<1>7. CASE Reset
  BY <1>7, ResetStep
<1>8. CASE NotifyTx \/ NotifyRx \/ Poll
  <2>1. PICK p \in BOOLEAN : EnterTx(p) \/ EnterRx(p)
    BY <1>8 DEF NotifyTx, NotifyRx, Poll
  <2> QED BY <2>1, EnterStep
<1>9. CASE InCall
  <2>1. CASE RxEnd
    <3>1. RxSame /\ TxSame /\ job' # "tx"
      BY <2>1 DEF RxEnd, RxSame, TxSame, Cur, memory, driver
    <3> QED BY <3>1, RxStays, TxStays DEF NetInv
  <2> QED BY <1>9, <2>1, TxChainStep, AbortStep, TxEndStep, RxPacketStep DEF InCall
<1>10. CASE UNCHANGED vars
  BY <1>10, BothStay DEF vars, memory, device, call, driver, NetInv
<1> QED BY <1>1, <1>2, <1>3, <1>4, <1>5, <1>6, <1>7, <1>8, <1>9, <1>10 DEF Next

\* Transmit chains are processed once and in order and returned so, for rings of
\* every size, across wraps of the u16 indices and resets (process_tx_queue).
THEOREM TransmitsExactly == Spec => []TxExact
<1>1. NetInv => TxExact
  <2> SUFFICES ASSUME NetInv, ready["tx"], ~faulted
               PROVE  /\ Unreaped("tx") = LastOf(Done, Distance(seen["tx"], usedIdx["tx"]))
                      /\ Ascending(offered)
                      /\ {offered[k] : k \in DOMAIN offered}
                           = {i \in 1 .. Done : posted["tx"][i] = "packet"}
    BY DEF TxExact
  <2> DEFINE n == Distance(seen["tx"], usedIdx["tx"])
  <2>1. Done = Len(posted["tx"]) - Distance(Cur, availIdx["tx"])
    BY DEF Done, Cur
  <2>2. Holds(used["tx"], seen["tx"], usedIdx["tx"], Ids, Done) /\ Offers(offered, posted["tx"], Done)
    BY <2>1 DEF NetInv, TxInv, TxRings
  <2>3. Done \in Nat /\ n \in Nat /\ n <= Done
    <3>1. Done \in Nat
      BY <2>1, IndexTypesAre, TxCount, Lines DEF NetInv, TxInv
    <3>2. n \in Nat
      BY IndexTypesAre, DistanceIs, Lines DEF NetInv, Indices
    <3> QED BY <2>2, <3>1, <3>2 DEF Holds
  <2>4. seen["tx"] \in Nat
    BY IndexTypesAre, Lines DEF NetInv, Indices
  <2>5. \A i \in 1 .. n : used["tx"][Slot(seen["tx"] + i - 1)] = Done - n + i
    <3> SUFFICES ASSUME NEW i \in 1 .. n
                 PROVE  used["tx"][Slot(seen["tx"] + i - 1)] = Done - n + i
      OBVIOUS
    <3>1. used["tx"][Slot(seen["tx"] + (i - 1))] = Ids[(Done - n) + i]
      BY <2>2 DEF Holds
    <3> HIDE DEF n, Done
    <3>2. seen["tx"] + (i - 1) = seen["tx"] + i - 1 /\ (Done - n) + i \in Nat
      BY <2>3, <2>4
    <3>3. Ids[(Done - n) + i] = (Done - n) + i
      BY <3>2, IdsAre
    <3> QED BY <3>1, <3>2, <3>3
  <2>6. Unreaped("tx") = LastOf(Done, n)
    BY <2>5 DEF Unreaped, LastOf
  <2> QED BY <2>2, <2>6 DEF Offers, Lists
<1> QED BY <1>1, RingsStart, RingsKept, PTL DEF Spec

\* The driver finds what was received, each packet once and in order, for rings
\* of every size, also after a MemoryError in the other queue or in this one
\* (process_rx_queue).
THEOREM ReceivesExactly == Spec => []RxExact
<1>1. NetInv => RxExact
  <2> SUFFICES ASSUME NetInv PROVE RxExact
    OBVIOUS
  <2>1. /\ Holds(used["rx"], seen["rx"], usedIdx["rx"], delivered, Len(delivered))
        /\ delivered \in Seq(Nat) /\ Ascending(delivered)
    BY DEF NetInv, RxInv, Streams
  <2>2. seen["rx"] \in Indices /\ usedIdx["rx"] \in Indices
    BY IndexTypesAre, Lines DEF NetInv
  <2> DEFINE n == Distance(seen["rx"], usedIdx["rx"])
             m == Len(delivered)
  <2>3. n <= m /\ Shown(used["rx"], seen["rx"], usedIdx["rx"]) = EndOf(delivered, n)
    BY <2>1, <2>2, HeldEnd
  <2> QED BY <2>1, <2>3 DEF RxExact, Unreaped, Shown, EndOf
<1> QED BY <1>1, RingsStart, RingsKept, PTL DEF Spec

-----------------------------------------------------------------------------
(* The reassembly of frames from chunks.                                   *)

Part == {<<>>} \cup (Nat \X Nat)
Whole(k, n) == [i \in 1 .. n |-> <<k, i>>]

\* A buffer entry with chunks of frame k, which has n, and of no other.
Filled(e) == {i \in DOMAIN e.parts : e.parts[i] # <<>>}
EntryOf(e, k, n) ==
    /\ e \in [parts : [1 .. n -> Part], total : {n}, count : Nat]
    /\ \A i \in 1 .. n : e.parts[i] \in {<<>>, <<k, i>>}
    /\ e.count = Cardinality(Filled(e))

LEMMA FreshEntry ==
  ASSUME NEW k, NEW n \in Nat
  PROVE  EntryOf([parts |-> [i \in 1 .. n |-> <<>>], total |-> n, count |-> 0], k, n)
<1> DEFINE e == [parts |-> [i \in 1 .. n |-> <<>>], total |-> n, count |-> 0]
<1>1. Filled(e) = {}
  BY DEF Filled
<1>2. Cardinality(Filled(e)) = 0
  BY <1>1, FS_EmptySet
<1>3. e \in [parts : [1 .. n -> Part], total : {n}, count : Nat]
  BY DEF Part
<1>4. \A i \in 1 .. n : e.parts[i] = <<>>
  OBVIOUS
<1>5. e.count = 0
  OBVIOUS
<1> QED BY <1>2, <1>3, <1>4, <1>5 DEF EntryOf

Stored(e, i, x) == [e EXCEPT !.parts[i] = x, !.count = @ + 1]

LEMMA Fields ==
  ASSUME NEW n \in Nat, NEW p \in [1 .. n -> Part], NEW c \in Nat, NEW f,
         f = [parts |-> p, total |-> n, count |-> c]
  PROVE  /\ f.parts = p /\ f.count = c /\ f.total = n
         /\ f \in [parts : [1 .. n -> Part], total : {n}, count : Nat]
  OBVIOUS

\* A missing chunk is added; when the count reaches the total none is missing.
LEMMA ChunkAdded ==
  ASSUME NEW k \in Nat, NEW n \in Nat, NEW e, EntryOf(e, k, n), NEW i \in 1 .. n, e.parts[i] = <<>>,
         NEW f, f = Stored(e, i, <<k, i>>)
  PROVE  EntryOf(f, k, n) /\ (f.count = f.total => f.parts = Whole(k, n))
<1>1. e \in [parts : [1 .. n -> Part], total : {n}, count : Nat]
  BY DEF EntryOf
<1>2. /\ f.parts = [e.parts EXCEPT ![i] = <<k, i>>] /\ f.count = e.count + 1 /\ f.total = n
      /\ f \in [parts : [1 .. n -> Part], total : {n}, count : Nat]
  <2>1. <<k, i>> \in Part
    BY DEF Part
  <2> DEFINE p == [e.parts EXCEPT ![i] = <<k, i>>]
             c == e.count + 1
  <2>2. p \in [1 .. n -> Part] /\ c \in Nat
    BY <1>1, <2>1
  <2>3. f = [parts |-> p, total |-> n, count |-> c]
    BY <1>1, <2>1 DEF Stored
  <2> HIDE DEF p, c
  <2>4. /\ f.parts = p /\ f.count = c /\ f.total = n
        /\ f \in [parts : [1 .. n -> Part], total : {n}, count : Nat]
    BY <2>2, <2>3, Fields
  <2> QED BY <2>4 DEF p, c
<1>3. DOMAIN f.parts = 1 .. n /\ DOMAIN e.parts = 1 .. n
  BY <1>1, <1>2
<1>4. f.parts[i] = <<k, i>> /\ \A j \in 1 .. n : j # i => f.parts[j] = e.parts[j]
  BY <1>1, <1>2
<1>5. <<k, i>> # <<>>
  OBVIOUS
<1>6. \A j \in 1 .. n : f.parts[j] \in {<<>>, <<k, j>>}
  BY <1>4 DEF EntryOf
<1>7. Filled(f) = Filled(e) \cup {i} /\ i \notin Filled(e) /\ Filled(e) \subseteq 1 .. n
  BY <1>3, <1>4, <1>5 DEF Filled
<1>8. IsFiniteSet(1 .. n) /\ Cardinality(1 .. n) = n
  <2>1. 1 \in Int /\ n \in Int
    OBVIOUS
  <2>2. /\ IsFiniteSet(1 .. n)
        /\ Cardinality(1 .. n) = IF 1 > n THEN 0 ELSE n - 1 + 1
    BY <2>1, FS_Interval
  <2> QED BY <2>2
<1>9. IsFiniteSet(Filled(e))
  BY <1>7, <1>8, FS_Subset
<1>10. Cardinality(Filled(f)) = Cardinality(Filled(e)) + 1
  BY <1>7, <1>9, FS_AddElement
<1>11. EntryOf(f, k, n)
  BY <1>2, <1>6, <1>10 DEF EntryOf
<1>12. ASSUME f.count = f.total PROVE f.parts = Whole(k, n)
  <2>1. Cardinality(Filled(f)) = Cardinality(1 .. n)
    BY <1>2, <1>8, <1>11, <1>12 DEF EntryOf
  <2>2. Filled(f) \subseteq 1 .. n
    BY <1>7
  <2>3. Filled(f) = 1 .. n
    BY <1>8, <2>1, <2>2, FS_Subset
  <2>4. \A j \in 1 .. n : f.parts[j] = <<k, j>>
    BY <1>6, <2>3 DEF Filled
  <2> QED BY <1>2, <2>4 DEF Whole
<1> QED BY <1>11, <1>12

-----------------------------------------------------------------------------
(* The inductive invariant: there is one frame for every chunk id in the   *)
(* network and in the buffer, and the next id is not among them as long as *)
(* the peer has frames to send.                                            *)

Frames == {Whole(k, n) : k \in Nat, n \in Nat}

ChunkOf(d, k) ==
    /\ k \in DOMAIN peerSent /\ d.total = peerSent[k]
    /\ d.index \in 1 .. peerSent[k] /\ d.payload = <<k, d.index>>

Owned(own) ==
    /\ \A d \in air : d.type = "chunked" => d.id \in Nat /\ ChunkOf(d, own[d.id])
    /\ \A id \in DOMAIN chunkBuffer :
          /\ id \in Nat /\ own[id] \in DOMAIN peerSent
          /\ EntryOf(chunkBuffer[id], own[id], peerSent[own[id]])
    /\ Len(peerSent) < MaxFrames =>
          /\ \A d \in air : d.type = "chunked" => d.id < peerId
          /\ \A id \in DOMAIN chunkBuffer : id < peerId

AirOk ==
    \A d \in air :
        /\ d.type \in {"control", "chunked", "data"}
        /\ d.type = "data" => \E k \in DOMAIN peerSent : peerSent[k] = 1 /\ d.payload = <<k, 1>>

PeerOk ==
    /\ peerSent \in Seq(Nat \ {0}) /\ peerId \in Nat
    /\ Len(peerSent) < ChunkIds => peerId <= Len(peerSent)

WtInv ==
    /\ PeerOk /\ AirOk
    /\ \E own \in [Nat -> Nat] : Owned(own)
    /\ rxQueue \in Seq(Frames) /\ FramesWhole

LEMMA WtStart == WtInit => WtInv
<1> SUFFICES ASSUME WtInit PROVE WtInv
  OBVIOUS
<1>1. PeerOk /\ AirOk
  BY DEF WtInit, PeerOk, AirOk
<1>2. [i \in Nat |-> 0] \in [Nat -> Nat] /\ Owned([i \in Nat |-> 0])
  BY DEF WtInit, Owned, NoBuffer
<1>3. rxQueue \in Seq(Frames) /\ FramesWhole
  BY DEF WtInit, FramesWhole
<1> QED BY <1>1, <1>2, <1>3 DEF WtInv

\* Datagrams may be lost at any time, and the relay may answer.
LEMMA QuietLink ==
  ASSUME WtInv, air' \subseteq air \cup {Assigned},
         chunkBuffer' = chunkBuffer \/ chunkBuffer' = NoBuffer,
         UNCHANGED <<peerSent, peerId, rxQueue>>
  PROVE  WtInv'
<1>1. PICK own \in [Nat -> Nat] : Owned(own)
  BY DEF WtInv
<1>2. Assigned.type = "control"
  BY DEF Assigned
<1>3. DOMAIN NoBuffer = {}
  BY DEF NoBuffer
<1>4. Owned(own)'
  <2>1. \A d \in air' : d.type = "chunked" => d.id \in Nat /\ ChunkOf(d, own[d.id])'
    BY <1>1, <1>2 DEF Owned, ChunkOf
  <2>2. \A id \in DOMAIN chunkBuffer' : id \in DOMAIN chunkBuffer /\ chunkBuffer'[id] = chunkBuffer[id]
    BY <1>3
  <2>3. \A id \in DOMAIN chunkBuffer' :
          /\ id \in Nat /\ own[id] \in DOMAIN peerSent'
          /\ EntryOf(chunkBuffer'[id], own[id], peerSent'[own[id]])
    BY <1>1, <2>2 DEF Owned
  <2>4. Len(peerSent) < MaxFrames =>
          /\ \A d \in air' : d.type = "chunked" => d.id < peerId
          /\ \A id \in DOMAIN chunkBuffer' : id < peerId
    BY <1>1, <1>2, <2>2 DEF Owned
  <2> QED BY <2>1, <2>3, <2>4 DEF Owned
<1>5. PeerOk' /\ AirOk'
  BY <1>2 DEF WtInv, PeerOk, AirOk
<1>6. rxQueue' \in Seq(Frames) /\ FramesWhole'
  BY DEF WtInv, FramesWhole
<1> QED BY <1>4, <1>5, <1>6 DEF WtInv

LEMMA NoWrap == ASSUME NEW a \in Nat, NEW m \in Nat \ {0}, a < m PROVE a % m = a
  OBVIOUS

LEMMA StillLess == ASSUME NEW a, NEW b \in Nat, a = b \/ (a \in Nat /\ a < b) PROVE a < b + 1
  OBVIOUS

\* A frame with one chunk takes no id; another takes the next one, which no
\* chunk in flight and no buffer entry has.
LEMMA PeerStep ==
  ASSUME WtInv, MaxFrames <= ChunkIds, NEW size \in Sizes, PeerSends(size)
  PROVE  WtInv'
<1> DEFINE k == Len(peerSent) + 1
           sent == EncodeFrameSmart(k, size, peerId)
<1>1. /\ Len(peerSent) < MaxFrames /\ air' = air \cup {sent[i] : i \in DOMAIN sent}
      /\ peerSent' = Append(peerSent, size) /\ peerId' = IdAfter(size, peerId)
      /\ UNCHANGED <<chunkBuffer, rxQueue>>
  BY DEF PeerSends
<1> HIDE DEF sent
<1>2. /\ size \in Nat \ {0} /\ ChunkIds \in Nat \ {0} /\ MaxFrames \in Nat
      /\ peerSent \in Seq(Nat \ {0}) /\ peerId \in Nat /\ Len(peerSent) \in Nat
  BY WebTransportAssumption DEF WtInv, PeerOk
<1>3. peerId <= Len(peerSent) /\ peerId < ChunkIds
  <2>1. Len(peerSent) < ChunkIds
    BY <1>1, <1>2
  <2> QED BY <1>2, <2>1 DEF WtInv, PeerOk
<1>4. /\ k \in Nat /\ DOMAIN peerSent = 1 .. Len(peerSent) /\ DOMAIN peerSent' = 1 .. k
      /\ peerSent'[k] = size /\ (\A j \in DOMAIN peerSent : j \in DOMAIN peerSent' /\ peerSent'[j] = peerSent[j])
      /\ peerSent' \in Seq(Nat \ {0}) /\ Len(peerSent') = k /\ k \in DOMAIN peerSent'
  BY <1>1, <1>2
<1>5. PeerOk'
  <2>1. CASE size = 1
    BY <1>1, <1>2, <1>3, <1>4, <2>1 DEF PeerOk, IdAfter
  <2>2. CASE size # 1
    <3>1. peerId' = (peerId + 1) % ChunkIds
      BY <1>1, <2>2 DEF IdAfter
    <3>2. (peerId + 1) % ChunkIds \in Nat /\ (peerId + 1) % ChunkIds <= peerId + 1
      <4>1. CASE peerId + 1 < ChunkIds
        BY <1>2, <4>1
      <4>2. CASE peerId + 1 = ChunkIds
        <5>1. ChunkIds % ChunkIds = 0
          BY <1>2
        <5> QED BY <1>2, <4>2, <5>1
      <4> QED BY <1>2, <1>3, <4>1, <4>2
    <3>3. peerId' \in Nat /\ peerId' <= k
      BY <1>2, <1>3, <3>1, <3>2
    <3> QED BY <1>4, <3>3 DEF PeerOk
  <2> QED BY <2>1, <2>2
<1>6. FramesWhole' /\ rxQueue' \in Seq(Frames)
  <2>1. \A n \in DOMAIN rxQueue : \E j \in DOMAIN peerSent :
           rxQueue[n] = [i \in 1 .. peerSent[j] |-> <<j, i>>]
    BY DEF WtInv, FramesWhole
  <2>2. ASSUME NEW n \in DOMAIN rxQueue
        PROVE  \E j \in DOMAIN peerSent' : rxQueue[n] = [i \in 1 .. peerSent'[j] |-> <<j, i>>]
    <3>1. PICK j \in DOMAIN peerSent : rxQueue[n] = [i \in 1 .. peerSent[j] |-> <<j, i>>]
      BY <2>1
    <3>2. j \in DOMAIN peerSent' /\ peerSent'[j] = peerSent[j]
      BY <1>4
    <3> QED BY <3>1, <3>2
  <2> QED BY <1>1, <2>2 DEF WtInv, FramesWhole
<1> HIDE DEF k
<1>7. PICK own \in [Nat -> Nat] : Owned(own)
  BY DEF WtInv
\* What was in flight and in the buffer, with the frames it belongs to.
<1>8. /\ \A d \in air : d.type = "chunked" => d.id \in Nat /\ d.id < peerId /\ ChunkOf(d, own[d.id])'
      /\ \A id \in DOMAIN chunkBuffer :
            /\ id \in Nat /\ id < peerId /\ own[id] \in DOMAIN peerSent'
            /\ EntryOf(chunkBuffer[id], own[id], peerSent'[own[id]])
  BY <1>1, <1>4, <1>7 DEF Owned, ChunkOf
<1>9. CASE size = 1
  <2>1. sent = <<[type |-> "data", payload |-> <<k, 1>>]>> /\ peerId' = peerId
    BY <1>1, <1>9 DEF EncodeFrameSmart, IdAfter, sent
  <2> DEFINE d1 == [type |-> "data", payload |-> <<k, 1>>]
  <2>2. d1.type = "data" /\ d1.payload = <<k, 1>> /\ sent = <<d1>>
    BY <2>1
  <2> HIDE DEF d1
  <2>20. air' = air \cup {d1}
    <3>1. DOMAIN sent = {1} /\ sent[1] = d1
      BY <2>2
    <3> QED BY <1>1, <3>1
  <2>3. AirOk'
    <3> SUFFICES ASSUME NEW d \in air'
                 PROVE  /\ d.type \in {"control", "chunked", "data"}
                        /\ d.type = "data" => \E j \in DOMAIN peerSent' :
                              peerSent'[j] = 1 /\ d.payload = <<j, 1>>
      BY DEF AirOk
    <3>1. CASE d = d1
      BY <1>4, <1>9, <2>2, <2>20, <3>1
    <3>2. CASE d \in air
      BY <1>4, <3>2 DEF WtInv, AirOk
    <3> QED BY <2>20, <3>1, <3>2
  <2>4. \A d \in air' : d.type = "chunked" => d \in air
    BY <2>2, <2>20
  <2>5. Owned(own)'
    BY <1>1, <1>8, <2>1, <2>4 DEF Owned
  <2> QED BY <1>5, <1>6, <2>3, <2>5 DEF WtInv
<1>10. CASE size # 1
  <2>1. /\ DOMAIN sent = 1 .. size
        /\ \A i \in 1 .. size : sent[i] = [type |-> "chunked", id |-> peerId, index |-> i, total |-> size,
                                           payload |-> <<k, i>>]
    BY <1>10 DEF EncodeFrameSmart, EncodeChunkedFrame, sent
  <2>2. ASSUME NEW d \in air', d \notin air
        PROVE  /\ d.type = "chunked" /\ d.id = peerId /\ d.index \in 1 .. size /\ d.total = size
               /\ d.payload = <<k, d.index>>
    <3>1. PICK i \in 1 .. size :
             d = [type |-> "chunked", id |-> peerId, index |-> i, total |-> size, payload |-> <<k, i>>]
      BY <1>1, <2>1, <2>2
    <3> QED BY <3>1
  <2>3. AirOk'
    <3> SUFFICES ASSUME NEW d \in air'
                 PROVE  /\ d.type \in {"control", "chunked", "data"}
                        /\ d.type = "data" => \E j \in DOMAIN peerSent' :
                              peerSent'[j] = 1 /\ d.payload = <<j, 1>>
      BY DEF AirOk
    <3>1. CASE d \notin air
      BY <2>2, <3>1
    <3>2. CASE d \in air
      BY <1>4, <3>2 DEF WtInv, AirOk
    <3> QED BY <3>1, <3>2
  <2>4. PICK new \in [Nat -> Nat] :
           new[peerId] = k /\ \A id \in Nat : id < peerId => new[id] = own[id]
    <3> DEFINE upd == [own EXCEPT ![peerId] = k]
    <3>1. peerId \in Nat /\ k \in Nat /\ \A id \in Nat : id < peerId => id # peerId
      BY <1>2, <1>4
    <3>2. upd \in [Nat -> Nat] /\ upd[peerId] = k /\ \A id \in Nat : id < peerId => upd[id] = own[id]
      BY <3>1
    <3> QED BY <3>2
  <2>5. \A d \in air' : d.type = "chunked" => d.id \in Nat /\ ChunkOf(d, new[d.id])'
    <3> SUFFICES ASSUME NEW d \in air', d.type = "chunked" PROVE d.id \in Nat /\ ChunkOf(d, new[d.id])'
      OBVIOUS
    <3>1. CASE d \in air
      BY <1>8, <2>4, <3>1
    <3>2. CASE d \notin air
      BY <1>2, <1>4, <2>2, <2>4, <3>2 DEF ChunkOf
    <3> QED BY <3>1, <3>2
  <2>6. \A id \in DOMAIN chunkBuffer' :
          /\ id \in Nat /\ new[id] \in DOMAIN peerSent'
          /\ EntryOf(chunkBuffer'[id], new[id], peerSent'[new[id]])
    BY <1>1, <1>8, <2>4
  <2>7. Len(peerSent') < MaxFrames =>
          /\ \A d \in air' : d.type = "chunked" => d.id < peerId'
          /\ \A id \in DOMAIN chunkBuffer' : id < peerId'
    <3> SUFFICES ASSUME k < MaxFrames
                 PROVE  /\ \A d \in air' : d.type = "chunked" => d.id < peerId'
                        /\ \A id \in DOMAIN chunkBuffer' : id < peerId'
      BY <1>4
    <3>1. peerId' = peerId + 1
      <4>1. peerId + 1 < ChunkIds
        BY <1>2, <1>3 DEF k
      <4>3. peerId + 1 \in Nat /\ ChunkIds \in Nat \ {0}
        BY <1>2, WebTransportAssumption
      <4>2. (peerId + 1) % ChunkIds = peerId + 1
        BY <4>1, <4>3, NoWrap
      <4> QED BY <1>1, <1>10, <4>2 DEF IdAfter
    <3>2. \A d \in air' : d.type = "chunked" => d.id < peerId + 1
      <4> SUFFICES ASSUME NEW d \in air', d.type = "chunked" PROVE d.id < peerId + 1
        OBVIOUS
      <4>1. d.id = peerId \/ (d.id \in Nat /\ d.id < peerId)
        BY <1>8, <2>2
      <4> QED BY <1>2, <4>1, StillLess
    <3>3. \A id \in DOMAIN chunkBuffer : id < peerId + 1
      BY <1>2, <1>8
    <3> QED BY <1>1, <3>1, <3>2, <3>3
  <2>8. Owned(new)'
    BY <2>5, <2>6, <2>7 DEF Owned
  <2> QED BY <1>5, <1>6, <2>3, <2>4, <2>8 DEF WtInv
<1> QED BY <1>9, <1>10

\* The guest gets one more frame.
LEMMA FrameIn ==
  ASSUME rxQueue \in Seq(Frames), FramesWhole, NEW k \in DOMAIN peerSent, peerSent \in Seq(Nat \ {0}),
         rxQueue' = Append(rxQueue, Whole(k, peerSent[k])), peerSent' = peerSent
  PROVE  rxQueue' \in Seq(Frames) /\ FramesWhole'
<1> DEFINE w == Whole(k, peerSent[k])
<1>1. w \in Frames /\ k \in Nat
  BY DEF Frames
<1>2. w = [i \in 1 .. peerSent[k] |-> <<k, i>>]
  BY DEF Whole
<1> HIDE DEF w
<1>3. /\ rxQueue' \in Seq(Frames) /\ DOMAIN rxQueue' = 1 .. Len(rxQueue) + 1 /\ Len(rxQueue) \in Nat
      /\ \A n \in 1 .. Len(rxQueue) : rxQueue'[n] = rxQueue[n]
      /\ rxQueue'[Len(rxQueue) + 1] = w /\ DOMAIN rxQueue = 1 .. Len(rxQueue)
  BY <1>1 DEF w
<1>5. \A n \in 1 .. Len(rxQueue) + 1 : n \in 1 .. Len(rxQueue) \/ n = Len(rxQueue) + 1
  BY <1>3
<1>4. ASSUME NEW n \in DOMAIN rxQueue'
      PROVE  \E j \in DOMAIN peerSent : rxQueue'[n] = [i \in 1 .. peerSent[j] |-> <<j, i>>]
  <2>1. CASE n \in 1 .. Len(rxQueue)
    BY <1>3, <2>1 DEF FramesWhole
  <2>2. CASE n = Len(rxQueue) + 1
    BY <1>2, <1>3, <2>2
  <2> QED BY <1>3, <1>5, <2>1, <2>2
<1> QED BY <1>3, <1>4 DEF FramesWhole

LEMMA ReceiveStep ==
  ASSUME WtInv, NEW d \in air, NEW again \in BOOLEAN, Receive(d, again)
  PROVE  WtInv'
<1>1. air' \subseteq air /\ UNCHANGED <<peerSent, peerId>>
  BY DEF Receive
<1>2. d.type \in {"control", "chunked", "data"}
  BY DEF WtInv, AirOk
<1>3. PeerOk' /\ AirOk' /\ peerSent \in Seq(Nat \ {0})
  BY <1>1 DEF WtInv, PeerOk, AirOk
<1>8. \A j \in DOMAIN peerSent : j \in Nat /\ peerSent[j] \in Nat
  BY <1>3
<1>4. PICK own \in [Nat -> Nat] : Owned(own)
  BY DEF WtInv
<1>5. CASE d.type = "control"
  <2>1. UNCHANGED <<chunkBuffer, rxQueue>>
    BY <1>5 DEF Receive
  <2> QED BY <1>1, <2>1, QuietLink
<1>6. CASE d.type = "data"
  <2>1. rxQueue' = Append(rxQueue, <<d.payload>>) /\ chunkBuffer' = chunkBuffer
    BY <1>6 DEF Receive
  <2>2. PICK k \in DOMAIN peerSent : peerSent[k] = 1 /\ d.payload = <<k, 1>>
    BY <1>6 DEF WtInv, AirOk
  <2>3. <<d.payload>> = Whole(k, peerSent[k])
    <3>1. <<d.payload>> = [i \in 1 .. 1 |-> <<k, 1>>]
      BY <2>2
    <3>2. \A i \in 1 .. 1 : i = 1
      OBVIOUS
    <3>3. Whole(k, 1) = [i \in 1 .. 1 |-> <<k, 1>>]
      BY <3>2 DEF Whole
    <3> QED BY <2>2, <3>1, <3>3
  <2>4. rxQueue' \in Seq(Frames) /\ FramesWhole'
    BY <1>1, <1>3, <2>1, <2>3, FrameIn DEF WtInv
  <2>5. Owned(own)'
    BY <1>1, <1>4, <2>1 DEF Owned, ChunkOf
  <2> QED BY <1>3, <2>4, <2>5 DEF WtInv
<1>7. CASE d.type = "chunked"
  <2> DEFINE k == own[d.id]
             n == peerSent[k]
             e == EntryFor(d)
             f == Stored(e, d.index, d.payload)
  <2>1. d.id \in Nat /\ k \in DOMAIN peerSent /\ k \in Nat /\ n \in Nat /\ d.total = n
        /\ d.index \in 1 .. n /\ d.payload = <<k, d.index>>
        /\ (Len(peerSent) < MaxFrames => d.id < peerId)
    <3>1. /\ d.id \in Nat /\ k \in DOMAIN peerSent /\ d.total = n /\ d.index \in 1 .. n
          /\ d.payload = <<k, d.index>> /\ (Len(peerSent) < MaxFrames => d.id < peerId)
      BY <1>4, <1>7 DEF Owned, ChunkOf
    <3>2. k \in Nat /\ n \in Nat
      BY <1>8, <3>1
    <3> QED BY <3>1, <3>2
  <2>2. EntryOf(e, k, n)
    <3>1. CASE d.id \in DOMAIN chunkBuffer
      BY <1>4, <3>1 DEF Owned, EntryFor
    <3>2. CASE d.id \notin DOMAIN chunkBuffer
      <4>1. e = [parts |-> [i \in 1 .. n |-> <<>>], total |-> n, count |-> 0]
        BY <2>1, <3>2 DEF EntryFor
      <4>2. EntryOf([parts |-> [i \in 1 .. n |-> <<>>], total |-> n, count |-> 0], k, n)
        BY <2>1, FreshEntry
      <4> QED BY <4>1, <4>2
    <3> QED BY <3>1, <3>2
  <2>3. AddChunk(d)
    BY <1>7 DEF Receive
  <2>4. DOMAIN e.parts = 1 .. n
    BY <2>2 DEF EntryOf
  <2>5. CASE e.parts[d.index] = <<>>
    <3>1. EntryOf(f, k, n) /\ (f.count = f.total => f.parts = Whole(k, n))
      <4> DEFINE i == d.index
      <4>1. f = Stored(e, i, <<k, i>>)
        BY <2>1
      <4>2. k \in Nat /\ n \in Nat /\ i \in 1 .. n /\ e.parts[i] = <<>>
        BY <2>1, <2>5
      <4> HIDE DEF k, n, e, f, i
      <4> QED BY <2>2, <4>1, <4>2, ChunkAdded
    <3>2. \/ /\ f.count = f.total /\ rxQueue' = Append(rxQueue, f.parts)
             /\ chunkBuffer' = WithoutEntry(d.id)
          \/ chunkBuffer' = WithEntry(d.id, f) /\ rxQueue' = rxQueue
      BY <2>1, <2>3, <2>4, <2>5 DEF AddChunk, Stored
    <3> HIDE DEF f, e
    <3>3. CASE /\ f.count = f.total /\ rxQueue' = Append(rxQueue, f.parts)
               /\ chunkBuffer' = WithoutEntry(d.id)
      <4>1. rxQueue' \in Seq(Frames) /\ FramesWhole'
        BY <1>1, <1>3, <2>1, <3>1, <3>3, FrameIn DEF WtInv
      <4>2. \A id \in DOMAIN chunkBuffer' : id \in DOMAIN chunkBuffer /\ chunkBuffer'[id] = chunkBuffer[id]
        BY <3>3 DEF WithoutEntry
      <4>3. Owned(own)'
        BY <1>1, <1>4, <4>2 DEF Owned, ChunkOf
      <4> QED BY <1>3, <4>1, <4>3 DEF WtInv
    <3>4. CASE chunkBuffer' = WithEntry(d.id, f) /\ rxQueue' = rxQueue
      <4>1. rxQueue' \in Seq(Frames) /\ FramesWhole'
        BY <1>1, <3>4 DEF WtInv, FramesWhole
      <4>2. /\ chunkBuffer'[d.id] = f /\ DOMAIN chunkBuffer' = DOMAIN chunkBuffer \cup {d.id}
            /\ \A id \in DOMAIN chunkBuffer : id # d.id => chunkBuffer'[id] = chunkBuffer[id]
        BY <3>4 DEF WithEntry
      <4>3. Owned(own)'
        BY <1>1, <1>4, <2>1, <3>1, <4>2 DEF Owned, ChunkOf
      <4> QED BY <1>3, <4>1, <4>3 DEF WtInv
    <3> QED BY <3>2, <3>3, <3>4
  <2>6. CASE e.parts[d.index] # <<>>
    <3>1. chunkBuffer' = WithEntry(d.id, e) /\ rxQueue' = rxQueue
      BY <2>3, <2>6 DEF AddChunk
    <3> HIDE DEF e
    <3>2. rxQueue' \in Seq(Frames) /\ FramesWhole'
      BY <1>1, <3>1 DEF WtInv, FramesWhole
    <3>3. /\ chunkBuffer'[d.id] = e /\ DOMAIN chunkBuffer' = DOMAIN chunkBuffer \cup {d.id}
          /\ \A id \in DOMAIN chunkBuffer : id # d.id => chunkBuffer'[id] = chunkBuffer[id]
      BY <3>1 DEF WithEntry
    <3>4. Owned(own)'
      BY <1>1, <1>4, <2>1, <2>2, <3>3 DEF Owned, ChunkOf
    <3> QED BY <1>3, <3>2, <3>4 DEF WtInv
  <2> QED BY <2>5, <2>6
<1> QED BY <1>2, <1>5, <1>6, <1>7

LEMMA RecvStep ==
  ASSUME WtInv, Recv
  PROVE  WtInv'
<1>1. /\ rxQueue # <<>> /\ rxQueue' = Tail(rxQueue)
      /\ UNCHANGED <<peerSent, peerId, air, chunkBuffer>>
  BY DEF Recv
<1>2. PICK own \in [Nat -> Nat] : Owned(own)
  BY DEF WtInv
<1>3. Owned(own)' /\ PeerOk' /\ AirOk'
  BY <1>1, <1>2 DEF WtInv, Owned, ChunkOf, PeerOk, AirOk
<1>4. /\ rxQueue' \in Seq(Frames) /\ DOMAIN rxQueue' = 1 .. Len(rxQueue) - 1
      /\ \A n \in 1 .. Len(rxQueue) - 1 : rxQueue'[n] = rxQueue[n + 1] /\ n + 1 \in DOMAIN rxQueue
  BY <1>1 DEF WtInv
<1>5. FramesWhole'
  <2>1. \A n \in DOMAIN rxQueue' : n + 1 \in DOMAIN rxQueue /\ rxQueue'[n] = rxQueue[n + 1]
    BY <1>4
  <2> SUFFICES ASSUME NEW n \in DOMAIN rxQueue'
               PROVE  \E k \in DOMAIN peerSent : rxQueue'[n] = [i \in 1 .. peerSent[k] |-> <<k, i>>]
    BY <1>1 DEF FramesWhole
  <2>2. PICK k \in DOMAIN peerSent : rxQueue[n + 1] = [i \in 1 .. peerSent[k] |-> <<k, i>>]
    BY <2>1 DEF WtInv, FramesWhole
  <2> QED BY <2>1, <2>2
<1> QED BY <1>3, <1>4, <1>5 DEF WtInv

LEMMA WtKept == ASSUME MaxFrames <= ChunkIds PROVE WtInv /\ [WtNext]_wtVars => WtInv'
<1> SUFFICES ASSUME WtInv, [WtNext]_wtVars PROVE WtInv'
  OBVIOUS
<1>1. CASE Lifecycle
  <2>1. /\ air' \subseteq air \cup {Assigned} /\ UNCHANGED <<peerSent, peerId, rxQueue>>
        /\ chunkBuffer' = chunkBuffer \/ chunkBuffer' = NoBuffer
    BY <1>1 DEF Lifecycle, StartConnection, ConnectSucceeds, RegisterSent, Reconnect, DrainStart,
                DrainOne, DrainEnd
  <2> QED BY <2>1, QuietLink
<1>2. CASE ConnectFails \/ RegisterFails \/ ConnectionLost \/ DrainFails \/ DropBackend
           \/ UNCHANGED wtVars
  <2>1. air' \subseteq air \cup {Assigned} /\ UNCHANGED <<peerSent, peerId, rxQueue, chunkBuffer>>
    BY <1>2 DEF ConnectFails, RegisterFails, ConnectionLost, DrainFails, DropBackend, wtVars
  <2> QED BY <2>1, QuietLink
<1>3. ASSUME NEW size \in Sizes, Send(size) PROVE WtInv'
  <2>1. UNCHANGED <<air, peerSent, peerId, rxQueue, chunkBuffer>>
    BY <1>3 DEF Send
  <2> QED BY <2>1, QuietLink
<1>4. ASSUME NEW size \in Sizes, PeerSends(size) PROVE WtInv'
  BY <1>4, PeerStep
<1>5. ASSUME NEW d \in air, NEW again \in BOOLEAN, Receive(d, again) PROVE WtInv'
  BY <1>5, ReceiveStep
<1>6. CASE Recv
  BY <1>6, RecvStep
<1> QED BY <1>1, <1>2, <1>3, <1>4, <1>5, <1>6 DEF WtNext

\* Frames reach the guest whole, however many chunks they need and whatever is
\* lost, overtaken, repeated or cut off by a reconnection (the chunk_buffer of
\* the receive loops), as long as chunk ids are not used again.
THEOREM FramesStayWhole ==
  ASSUME MaxFrames <= ChunkIds
  PROVE  WtSpec => []FramesWhole
<1>1. WtInv /\ [WtNext]_wtVars => WtInv'
  BY WtKept
<1>2. WtInv => FramesWhole
  BY DEF WtInv
<1> QED BY <1>1, <1>2, WtStart, PTL DEF WtSpec

-----------------------------------------------------------------------------
(* The D1 EMAC.  In either ring the slots that wait are a run from a known  *)
(* place, and the frames of that run follow on what has left the ring.      *)

LEMMA AddTwice ==
  ASSUME NEW n \in Nat \ {0}, NEW a \in Nat, NEW b \in Nat
  PROVE  ((a % n) + b) % n = (a + b) % n
<1>0. a \in Int
  OBVIOUS
<1>1. PICK k \in Int, r \in 0 .. n - 1 : a = (k * n) + r /\ r = a % n
  BY <1>0, Divided
<1>2. r + b \in Int
  OBVIOUS
<1>3. PICK j \in Int, s \in 0 .. n - 1 : r + b = (j * n) + s /\ s = (r + b) % n
  BY <1>2, Divided
<1>4. a + b = ((k + j) * n) + s /\ k + j \in Int
  BY <1>1, <1>3
<1>5. (((k + j) * n) + s) % n = s
  BY <1>4, Remainder
<1> QED BY <1>1, <1>3, <1>4, <1>5

LEMMA WrapsRound ==
  ASSUME NEW n \in Nat \ {0}, NEW s \in 0 .. n - 1
  PROVE  s % n = s /\ (s + n) % n = s
<1>1. (0 * n) + s = s /\ (1 * n) + s = s + n
  OBVIOUS
<1>2. ((0 * n) + s) % n = s /\ ((1 * n) + s) % n = s
  BY Remainder
<1> QED BY <1>1, <1>2

LEMMA PlaceIn ==
  ASSUME NEW n \in Nat \ {0}, NEW a \in Nat
  PROVE  a % n \in 0 .. n - 1
  OBVIOUS

LEMMA PlacesApart ==
  ASSUME NEW n \in Nat \ {0}, NEW s \in Nat, NEW i \in 0 .. n - 1, NEW j \in 0 .. n - 1, i # j
  PROVE  (s + i) % n # (s + j) % n
<1>1. CASE i < j
  <2>1. s + i \in Int /\ s + j \in Int /\ s + i < s + j /\ s + j < (s + i) + n
    BY <1>1
  <2> QED BY <2>1, LessThanATurn
<1>2. CASE j < i
  <2>1. s + i \in Int /\ s + j \in Int /\ s + j < s + i /\ s + i < (s + j) + n
    BY <1>2
  <2> QED BY <2>1, LessThanATurn
<1> QED BY <1>1, <1>2

Descs == [own : BOOLEAN, frame : Nat, fits : BOOLEAN]

\* A ring of n slots in which the c slots from place s on have own = b, no other.
RunOf(r, s, n, b, c) ==
    /\ r \in [0 .. n - 1 -> Descs]
    /\ s \in 0 .. n - 1 /\ c \in 0 .. n
    /\ \A i \in 0 .. n - 1 : (r[(s + i) % n].own = b) <=> (i < c)

LEMMA RunIs ==
  ASSUME NEW n \in Nat \ {0}, NEW r, NEW s, NEW b, NEW c, RunOf(r, s, n, b, c)
  PROVE  RunFrom(r, s, n, b) = c
<1> DEFINE P(m) == /\ \A i \in 0 .. m - 1 : r[(s + i) % n].own = b
                   /\ m < n => r[(s + m) % n].own # b
<1>1. c \in 0 .. n /\ s \in Nat
  BY DEF RunOf
<1>2. P(c)
  <2>1. \A i \in 0 .. c - 1 : i \in 0 .. n - 1 /\ i < c
    BY <1>1
  <2>2. c < n => c \in 0 .. n - 1 /\ ~(c < c)
    BY <1>1
  <2> QED BY <2>1, <2>2 DEF RunOf
<1>3. ASSUME NEW m \in 0 .. n, P(m) PROVE m = c
  <2>1. CASE m < c
    <3>1. m \in 0 .. n - 1
      BY <1>1, <2>1
    <3>2. r[(s + m) % n].own = b
      BY <3>1, <2>1 DEF RunOf
    <3> QED BY <3>1, <3>2, <1>3
  <2>2. CASE c < m
    <3>1. c \in 0 .. m - 1 /\ c \in 0 .. n - 1 /\ ~(c < c)
      BY <1>1, <2>2
    <3>2. r[(s + c) % n].own # b
      BY <3>1 DEF RunOf
    <3> QED BY <3>1, <3>2, <1>3
  <2> QED BY <1>1, <2>1, <2>2
<1>4. RunFrom(r, s, n, b) = CHOOSE m \in 0 .. n : P(m)
  BY DEF RunFrom
<1> HIDE DEF P
<1> QED BY <1>1, <1>2, <1>3, <1>4

\* c slots of one ring in a row are those of another.
Alike(q, t, r, s, n, c) == \A i \in 0 .. c - 1 : q[(t + i) % n] = r[(s + i) % n]

Put(r, t, d) == [r EXCEPT ![t] = d]

\* The first slot of a run leaves it; the slot after a run joins it.
LEMMA RunLoses ==
  ASSUME NEW n \in Nat \ {0}, NEW r, NEW s, NEW b, NEW c, RunOf(r, s, n, b, c),
         c > 0, NEW d \in Descs, d.own # b,
         NEW q, q = Put(r, s, d)
  PROVE  /\ RunOf(q, (s + 1) % n, n, b, c - 1)
         /\ Alike(q, (s + 1) % n, r, s + 1, n, c - 1)
<1> USE DEF Put
<1>1. /\ s \in 0 .. n - 1 /\ s \in Nat /\ c \in 0 .. n /\ n \in Nat
      /\ r \in [0 .. n - 1 -> Descs]
  BY DEF RunOf
<1>2. (s + 1) % n \in 0 .. n - 1 /\ s + 1 \in Nat
  <2>1. s + 1 \in Nat
    BY <1>1
  <2> QED BY <2>1, PlaceIn
<1>3. q \in [0 .. n - 1 -> Descs]
  BY <1>1
<1>4. ASSUME NEW i \in 0 .. n - 1
      PROVE  /\ (((s + 1) % n) + i) % n = (s + (i + 1)) % n
             /\ i = n - 1 => (s + (i + 1)) % n = s
             /\ i < n - 1 => (s + (i + 1)) % n # s /\ (s + (i + 1)) % n \in 0 .. n - 1
  <2>1. (((s + 1) % n) + i) % n = ((s + 1) + i) % n
    <3>1. i \in Nat
      OBVIOUS
    <3> QED BY <3>1, <1>2, AddTwice
  <2>2. (s + 1) + i = s + (i + 1)
    BY <1>1
  <2>3. i = n - 1 => s + (i + 1) = s + n
    BY <1>1
  <2>4. (s + n) % n = s /\ s % n = s
    BY <1>1, WrapsRound
  <2>5. ASSUME i < n - 1 PROVE (s + (i + 1)) % n # s /\ (s + (i + 1)) % n \in 0 .. n - 1
    <3>1. i + 1 \in 0 .. n - 1 /\ 0 \in 0 .. n - 1 /\ i + 1 # 0
      BY <2>5
    <3>2. (s + (i + 1)) % n # (s + 0) % n
      BY <3>1, <1>1, PlacesApart
    <3>3. s + 0 = s /\ s + (i + 1) \in Nat
      BY <1>1
    <3> QED BY <3>2, <3>3, <2>4, PlaceIn
  <2> QED BY <2>1, <2>2, <2>3, <2>4, <2>5
<1>5. ASSUME NEW i \in 0 .. n - 1
      PROVE  (q[(((s + 1) % n) + i) % n].own = b) <=> (i < c - 1)
  <2>1. CASE i = n - 1
    <3>1. (((s + 1) % n) + i) % n = s
      BY <1>4, <2>1
    <3>2. q[s] = d
      BY <1>1
    <3> QED BY <3>1, <3>2, <2>1, <1>1
  <2>2. CASE i < n - 1
    <3> DEFINE t == (s + (i + 1)) % n
    <3>1. (((s + 1) % n) + i) % n = t /\ t # s /\ t \in 0 .. n - 1
      BY <1>4, <2>2
    <3>2. i + 1 \in 0 .. n - 1
      BY <2>2
    <3>3. (r[t].own = b) <=> (i + 1 < c)
      BY <3>2 DEF RunOf
    <3> HIDE DEF t
    <3>4. q[t] = r[t]
      BY <3>1, <1>1
    <3>5. (i + 1 < c) <=> (i < c - 1)
      BY <1>1
    <3>6. (q[t].own = b) <=> (i < c - 1)
      BY <3>3, <3>4, <3>5
    <3> QED BY <3>1, <3>6
  <2> QED BY <2>1, <2>2
<1>6. ASSUME NEW i \in 0 .. (c - 1) - 1
      PROVE  q[(((s + 1) % n) + i) % n] = r[((s + 1) + i) % n]
  <2> DEFINE t == (s + (i + 1)) % n
  <2>1. i \in 0 .. n - 1 /\ i < n - 1
    BY <1>1
  <2>2. (((s + 1) % n) + i) % n = t /\ t # s /\ t \in 0 .. n - 1
    BY <1>4, <2>1
  <2>3. (s + 1) + i = s + (i + 1)
    BY <1>1
  <2>4. t = ((s + 1) + i) % n
    BY <2>3
  <2> HIDE DEF t
  <2> QED BY <2>2, <2>4, <1>1
<1>7. c - 1 \in 0 .. n
  BY <1>1
<1> QED BY <1>2, <1>3, <1>5, <1>6, <1>7 DEF RunOf, Alike

LEMMA RunGains ==
  ASSUME NEW n \in Nat \ {0}, NEW r, NEW s, NEW b, NEW c, RunOf(r, s, n, b, c),
         r[(s + c) % n].own # b,
         NEW d \in Descs, d.own = b,
         NEW q, q = Put(r, (s + c) % n, d)
  PROVE  /\ c < n /\ RunOf(q, s, n, b, c + 1)
         /\ Alike(q, s, r, s, n, c)
         /\ q[(s + c) % n] = d
<1> USE DEF Put
<1>1. /\ s \in 0 .. n - 1 /\ s \in Nat /\ c \in 0 .. n /\ n \in Nat /\ s + c \in Nat
      /\ r \in [0 .. n - 1 -> Descs]
  BY DEF RunOf
<1>2. c < n
  <2>1. SUFFICES ASSUME c = n PROVE FALSE
    BY <1>1
  <2>2. (s + c) % n = s /\ s % n = s /\ s + 0 = s
    BY <1>1, <2>1, WrapsRound
  <2>3. 0 \in 0 .. n - 1 /\ 0 < c
    BY <2>1
  <2>4. r[(s + 0) % n].own = b
    BY <2>3 DEF RunOf
  <2> QED BY <2>2, <2>4
<1> DEFINE t == (s + c) % n
<1>0. q = [r EXCEPT ![t] = d]
  OBVIOUS
<1>3. t \in 0 .. n - 1
  BY <1>1, PlaceIn
<1>4. \A i \in 0 .. n - 1 : i # c => (s + i) % n # t /\ (s + i) % n \in 0 .. n - 1
  <2>1. ASSUME NEW i \in 0 .. n - 1, i # c PROVE (s + i) % n # t /\ (s + i) % n \in 0 .. n - 1
    <3>1. c \in 0 .. n - 1 /\ s + i \in Nat
      BY <1>1, <1>2
    <3> QED BY <2>1, <3>1, <1>1, PlacesApart, PlaceIn
  <2> QED BY <2>1
<1>5. ASSUME NEW i \in 0 .. n - 1 PROVE (q[(s + i) % n].own = b) <=> (i < c + 1)
  <2>1. (r[(s + i) % n].own = b) <=> (i < c)
    BY DEF RunOf
  <2>2. CASE i = c
    <3>1. (s + i) % n = t
      BY <2>2
    <3> HIDE DEF t
    <3>2. q[t] = d
      BY <1>0, <1>3, <1>1
    <3> QED BY <3>1, <3>2, <2>2, <1>1
  <2>3. CASE i # c
    <3> DEFINE u == (s + i) % n
    <3>1. u # t /\ u \in 0 .. n - 1
      BY <1>4, <2>3
    <3>2. (r[u].own = b) <=> (i < c)
      BY <2>1
    <3> HIDE DEF t, u
    <3>3. q[u] = r[u]
      BY <1>0, <3>1, <1>1
    <3>4. (q[u].own = b) <=> (i < c + 1)
      BY <3>2, <3>3, <2>3, <1>1
    <3> QED BY <3>4 DEF u
  <2> QED BY <2>2, <2>3
<1>6. ASSUME NEW i \in 0 .. c - 1 PROVE q[(s + i) % n] = r[(s + i) % n]
  <2> DEFINE u == (s + i) % n
  <2>1. i \in 0 .. n - 1 /\ i # c
    BY <1>1
  <2>2. u # t /\ u \in 0 .. n - 1
    BY <1>4, <2>1
  <2> HIDE DEF t, u
  <2>3. q[u] = r[u]
    BY <1>0, <2>2, <1>1
  <2> QED BY <2>3 DEF u
<1>7. q[t] = d /\ q \in [0 .. n - 1 -> Descs]
  <2> HIDE DEF t
  <2> QED BY <1>0, <1>3, <1>1
<1>8. c + 1 \in 0 .. n
  BY <1>1, <1>2
<1> QED BY <1>1, <1>2, <1>5, <1>6, <1>7, <1>8 DEF RunOf, Alike

\* The frames of a run.
Held(r, s, n, c) == [k \in 1 .. c |-> r[(s + k - 1) % n].frame]

LEMMA HeldIs ==
  ASSUME NEW n \in Nat \ {0}, NEW r, NEW s, NEW b, NEW c, RunOf(r, s, n, b, c)
  PROVE  /\ FramesFrom(r, s, n, b) = Held(r, s, n, c)
         /\ Held(r, s, n, c) \in Seq(Nat) /\ Len(Held(r, s, n, c)) = c
<1>1. FramesFrom(r, s, n, b) = Held(r, s, n, c)
  BY RunIs DEF FramesFrom, Held
<1>2. /\ c \in Nat /\ s \in Nat
      /\ r \in [0 .. n - 1 -> Descs]
  BY DEF RunOf
<1>3. ASSUME NEW k \in 1 .. c PROVE r[(s + k - 1) % n].frame \in Nat
  <2>1. s + k - 1 \in Nat
    BY <1>2
  <2>2. (s + k - 1) % n \in 0 .. n - 1
    BY <2>1, PlaceIn
  <2> QED BY <2>2, <1>2 DEF Descs
<1> QED BY <1>1, <1>2, <1>3 DEF Held

LEMMA HeldLoses ==
  ASSUME NEW n \in Nat \ {0}, NEW r, NEW s, NEW b, NEW c, RunOf(r, s, n, b, c),
         c > 0, NEW d \in Descs, d.own # b,
         NEW q, q = Put(r, s, d)
  PROVE  /\ Held(r, s, n, c) # <<>> /\ Head(Held(r, s, n, c)) = r[s].frame
         /\ Held(q, (s + 1) % n, n, c - 1) = Tail(Held(r, s, n, c))
<1> DEFINE old == Held(r, s, n, c)
           new == Held(q, (s + 1) % n, n, c - 1)
<1>1. c \in Nat /\ s \in Nat /\ s \in 0 .. n - 1
  BY DEF RunOf
<1>2. old \in Seq(Nat) /\ Len(old) = c
  BY HeldIs, Zenon
<1>3. old[1] = r[s].frame
  <2>1. s + 1 - 1 = s /\ s % n = s /\ 1 \in 1 .. c
    BY <1>1, WrapsRound
  <2> QED BY <2>1 DEF Held
<1>4. /\ RunOf(q, (s + 1) % n, n, b, c - 1)
      /\ Alike(q, (s + 1) % n, r, s + 1, n, c - 1)
  <2> HIDE DEF old, new
  <2> QED BY RunLoses
<1>5. new \in Seq(Nat) /\ Len(new) = c - 1
  BY <1>4, HeldIs, Zenon
<1>6. ASSUME NEW k \in 1 .. c - 1 PROVE new[k] = old[k + 1]
  <2>1. k - 1 \in 0 .. (c - 1) - 1 /\ k + 1 \in 1 .. c
    BY <1>1
  <2>2. q[(((s + 1) % n) + (k - 1)) % n] = r[((s + 1) + (k - 1)) % n]
    BY <1>4, <2>1 DEF Alike
  <2>3. (s + 1) + (k - 1) = s + (k + 1) - 1
    BY <1>1
  <2>4. (s + 1) % n \in 0 .. n - 1 /\ ((s + 1) % n) + (k - 1) = ((s + 1) % n) + k - 1
    <3>1. s + 1 \in Nat
      BY <1>1
    <3>2. (s + 1) % n \in 0 .. n - 1
      BY <3>1, PlaceIn
    <3> QED BY <3>2
  <2>5. new[k] = q[(((s + 1) % n) + k - 1) % n].frame
    BY DEF Held
  <2>6. old[k + 1] = r[(s + (k + 1) - 1) % n].frame
    BY <2>1 DEF Held
  <2> QED BY <2>2, <2>3, <2>4, <2>5, <2>6
<1> HIDE DEF old, new
<1>7. new = Tail(old)
  <2>1. /\ Tail(old) \in Seq(Nat) /\ Len(Tail(old)) = c - 1
        /\ \A k \in 1 .. c - 1 : Tail(old)[k] = old[k + 1]
    BY <1>1, <1>2
  <2> QED BY <1>5, <1>6, <2>1
<1>8. old # <<>> /\ Head(old) = old[1]
  BY <1>1, <1>2
<1> QED BY <1>3, <1>7, <1>8 DEF old, new

LEMMA HeldGains ==
  ASSUME NEW n \in Nat \ {0}, NEW r, NEW s, NEW b, NEW c, RunOf(r, s, n, b, c),
         r[(s + c) % n].own # b,
         NEW d \in Descs, d.own = b,
         NEW q, q = Put(r, (s + c) % n, d)
  PROVE  Held(q, s, n, c + 1) = Append(Held(r, s, n, c), d.frame)
<1> DEFINE old == Held(r, s, n, c)
           new == Held(q, s, n, c + 1)
<1>1. c \in Nat /\ s \in Nat
  BY DEF RunOf
<1>2. old \in Seq(Nat) /\ Len(old) = c
  BY HeldIs, Zenon
<1>3. /\ c < n /\ RunOf(q, s, n, b, c + 1)
      /\ Alike(q, s, r, s, n, c)
      /\ q[(s + c) % n] = d
  BY RunGains
<1>4. new \in Seq(Nat) /\ Len(new) = c + 1
  BY <1>3, HeldIs, Zenon
<1>5. ASSUME NEW k \in 1 .. c PROVE new[k] = old[k]
  <2>1. k - 1 \in 0 .. c - 1 /\ k \in 1 .. c + 1 /\ s + (k - 1) = s + k - 1
    BY <1>1
  <2>2. q[(s + (k - 1)) % n] = r[(s + (k - 1)) % n]
    BY <2>1, <1>3 DEF Alike
  <2> QED BY <2>1, <2>2 DEF Held
<1>6. new[c + 1] = d.frame
  <2>1. c + 1 \in 1 .. c + 1 /\ s + (c + 1) - 1 = s + c
    BY <1>1
  <2>2. q[(s + c) % n] = d
    BY <1>3, Zenon
  <2> QED BY <2>1, <2>2 DEF Held
<1> HIDE DEF old, new
<1>7. new = Append(old, d.frame)
  BY <1>1, <1>2, <1>4, <1>5, <1>6
<1> QED BY <1>7 DEF old, new

-----------------------------------------------------------------------------
Before(A, B) == \A x \in A, y \in B : x < y

LEMMA JoinIn ==
  ASSUME NEW a \in Seq(Nat), NEW b \in Seq(Nat)
  PROVE  /\ a \o b \in Seq(Nat) /\ Members(a \o b) = Members(a) \cup Members(b)
         /\ InOrder(a) /\ InOrder(b) /\ Before(Members(a), Members(b)) => InOrder(a \o b)
<1>1. /\ a \o b \in Seq(Nat) /\ Len(a \o b) = Len(a) + Len(b)
      /\ \A i \in 1 .. Len(a) : (a \o b)[i] = a[i]
      /\ \A i \in Len(a) + 1 .. Len(a) + Len(b) : (a \o b)[i] = b[i - Len(a)]
  OBVIOUS
<1>2. Members(a \o b) = Members(a) \cup Members(b)
  <2>1. ASSUME NEW x \in Members(a \o b) PROVE x \in Members(a) \cup Members(b)
    <3>1. PICK i \in 1 .. Len(a) + Len(b) : x = (a \o b)[i]
      BY <1>1, <2>1 DEF Members
    <3>2. CASE i <= Len(a)
      BY <1>1, <3>1, <3>2 DEF Members
    <3>3. CASE i > Len(a)
      <4>1. i - Len(a) \in DOMAIN b /\ x = b[i - Len(a)]
        BY <1>1, <3>1, <3>3
      <4> QED BY <4>1 DEF Members
    <3> QED BY <3>1, <3>2, <3>3
  <2>2. ASSUME NEW x \in Members(a) PROVE x \in Members(a \o b)
    <3>1. PICK i \in 1 .. Len(a) : x = a[i]
      BY <2>2 DEF Members
    <3>2. i \in DOMAIN (a \o b) /\ x = (a \o b)[i]
      BY <1>1, <3>1
    <3> QED BY <3>2 DEF Members
  <2>3. ASSUME NEW x \in Members(b) PROVE x \in Members(a \o b)
    <3>1. PICK i \in 1 .. Len(b) : x = b[i]
      BY <2>3 DEF Members
    <3>2. i + Len(a) \in DOMAIN (a \o b) /\ x = (a \o b)[i + Len(a)]
      <4>1. i + Len(a) \in Len(a) + 1 .. Len(a) + Len(b) /\ (i + Len(a)) - Len(a) = i
        OBVIOUS
      <4> QED BY <1>1, <3>1, <4>1
    <3> QED BY <3>2 DEF Members
  <2> QED BY <2>1, <2>2, <2>3
<1>3. ASSUME InOrder(a), InOrder(b), Before(Members(a), Members(b)) PROVE InOrder(a \o b)
  <2>1. SUFFICES ASSUME NEW i \in 1 .. Len(a) + Len(b), NEW j \in 1 .. Len(a) + Len(b), i < j
        PROVE  (a \o b)[i] < (a \o b)[j]
    <3>1. DOMAIN (a \o b) = 1 .. Len(a) + Len(b)
      BY <1>1
    <3> QED BY <3>1 DEF InOrder
  <2>2. CASE j <= Len(a)
    <3>1. i \in DOMAIN a /\ j \in DOMAIN a /\ i \in 1 .. Len(a) /\ j \in 1 .. Len(a)
      BY <2>1, <2>2
    <3> QED BY <1>1, <1>3, <2>1, <3>1 DEF InOrder
  <2>3. CASE i > Len(a)
    <3>1. i - Len(a) \in DOMAIN b /\ j - Len(a) \in DOMAIN b /\ i - Len(a) < j - Len(a)
      BY <2>1, <2>3
    <3>2. (a \o b)[i] = b[i - Len(a)] /\ (a \o b)[j] = b[j - Len(a)]
      BY <1>1, <2>1, <2>3
    <3> QED BY <1>3, <3>1, <3>2 DEF InOrder
  <2>4. CASE i <= Len(a) /\ j > Len(a)
    <3>1. i \in DOMAIN a /\ j - Len(a) \in DOMAIN b
      BY <2>1, <2>4
    <3>2. (a \o b)[i] = a[i] /\ (a \o b)[j] = b[j - Len(a)]
      BY <1>1, <2>1, <2>4
    <3> QED BY <1>3, <3>1, <3>2 DEF Before, Members
  <2> QED BY <2>1, <2>2, <2>3, <2>4
<1> QED BY <1>1, <1>2, <1>3

LEMMA TailIn ==
  ASSUME NEW a \in Seq(Nat), a # <<>>
  PROVE  /\ Tail(a) \in Seq(Nat) /\ Head(a) \in Nat
         /\ Members(a) = {Head(a)} \cup Members(Tail(a))
         /\ InOrder(a) => InOrder(Tail(a)) /\ Before({Head(a)}, Members(Tail(a)))
<1>1. /\ Len(a) \in Nat \ {0} /\ Head(a) = a[1] /\ Tail(a) \in Seq(Nat) /\ Len(Tail(a)) = Len(a) - 1
      /\ \A i \in 1 .. Len(a) - 1 : Tail(a)[i] = a[i + 1]
      /\ DOMAIN a = 1 .. Len(a) /\ DOMAIN Tail(a) = 1 .. Len(a) - 1 /\ a[1] \in Nat
  OBVIOUS
<1>2. Members(a) = {Head(a)} \cup Members(Tail(a))
  <2>1. ASSUME NEW x \in Members(a) PROVE x \in {Head(a)} \cup Members(Tail(a))
    <3>1. PICK i \in 1 .. Len(a) : x = a[i]
      BY <2>1 DEF Members
    <3>2. CASE i > 1
      <4>1. i - 1 \in DOMAIN Tail(a) /\ x = Tail(a)[i - 1]
        BY <1>1, <3>1, <3>2
      <4> QED BY <4>1 DEF Members
    <3> QED BY <1>1, <3>1, <3>2
  <2>2. ASSUME NEW x \in Members(Tail(a)) PROVE x \in Members(a)
    <3>1. PICK i \in 1 .. Len(a) - 1 : x = Tail(a)[i]
      BY <1>1, <2>2 DEF Members
    <3>2. i + 1 \in DOMAIN a /\ x = a[i + 1]
      BY <1>1, <3>1
    <3> QED BY <3>2 DEF Members
  <2>3. Head(a) \in Members(a)
    BY <1>1 DEF Members
  <2> QED BY <2>1, <2>2, <2>3
<1>3. ASSUME InOrder(a) PROVE InOrder(Tail(a)) /\ Before({Head(a)}, Members(Tail(a)))
  <2>1. \A i, j \in 1 .. Len(a) : i < j => a[i] < a[j]
    BY <1>1, <1>3 DEF InOrder
  <2>2. InOrder(Tail(a))
    <3>1. SUFFICES ASSUME NEW i \in 1 .. Len(a) - 1, NEW j \in 1 .. Len(a) - 1, i < j
          PROVE  Tail(a)[i] < Tail(a)[j]
      BY <1>1 DEF InOrder
    <3>2. i + 1 \in 1 .. Len(a) /\ j + 1 \in 1 .. Len(a) /\ i + 1 < j + 1
      BY <3>1, <1>1
    <3> QED BY <3>2, <2>1, <1>1
  <2>3. Before({Head(a)}, Members(Tail(a)))
    <3>1. ASSUME NEW i \in 1 .. Len(a) - 1 PROVE a[1] < Tail(a)[i]
      <4>1. i + 1 \in 1 .. Len(a) /\ 1 \in 1 .. Len(a) /\ 1 < i + 1
        BY <1>1
      <4> QED BY <4>1, <2>1, <1>1
    <3> QED BY <3>1, <1>1 DEF Before, Members
  <2> QED BY <2>2, <2>3
<1> QED BY <1>1, <1>2, <1>3

LEMMA AppendIn ==
  ASSUME NEW a \in Seq(Nat), NEW x \in Nat
  PROVE  /\ Append(a, x) \in Seq(Nat) /\ Members(Append(a, x)) = Members(a) \cup {x}
         /\ InOrder(a) /\ Before(Members(a), {x}) => InOrder(Append(a, x))
<1>1. Append(a, x) = a \o <<x>> /\ <<x>> \in Seq(Nat)
  OBVIOUS
<1>2. Members(<<x>>) = {x} /\ InOrder(<<x>>)
  BY DEF Members, InOrder
<1> QED BY <1>1, <1>2, JoinIn

-----------------------------------------------------------------------------
\* Transmit: the p slots from tx_dma_desc on hold the last p frames submitted;
\* what was submitted before them was sent, refused or unusable.
TxHolds(p) ==
    /\ RunOf(txRing, txDesc, TxSlots, TRUE, p)
    /\ driverTx = (txDesc + p) % TxSlots
    /\ submitted \in Seq(BOOLEAN) /\ p \in 0 .. Len(submitted)
    /\ \A i \in 0 .. p - 1 :
          LET d == txRing[(txDesc + i) % TxSlots]
          IN /\ d.frame = (Len(submitted) - p) + i + 1
             /\ d.fits = submitted[(Len(submitted) - p) + i + 1]
    /\ refused \subseteq 1 .. Len(submitted) - p
    /\ outbound \in Seq(Nat) /\ InOrder(outbound)
    /\ Members(outbound) = {n \in 1 .. Len(submitted) - p : Wanted(n)}

\* Receive: the q slots before rx_dma_desc are filled.  Packets are in order
\* from what the driver received to what waits in the backend.
RxHolds(q) ==
    /\ RunOf(rxRing, driverRx, RxSlots, FALSE, q)
    /\ rxDesc = (driverRx + q) % RxSlots
    /\ received \in Seq(Nat) /\ rxQ \in Seq(Nat) /\ inbound \in Seq(Nat)
    /\ InOrder(received) /\ InOrder(Held(rxRing, driverRx, RxSlots, q))
    /\ InOrder(rxQ) /\ InOrder(inbound)
    /\ LET filled == Members(Held(rxRing, driverRx, RxSlots, q))
       IN /\ Before(Members(received), filled)
          /\ Before(Members(received) \cup filled, Members(rxQ))
          /\ Before(Members(received) \cup filled \cup Members(rxQ), Members(inbound))
          /\ Members(received) \cup filled \cup Members(rxQ) \cup Members(inbound)
               = (1 .. injected) \ eaten
    /\ injected \in Nat /\ eaten \subseteq 1 .. injected

EmacInv ==
    /\ txQueue = <<>>
    /\ \E p \in 0 .. TxSlots : TxHolds(p)
    /\ \E q \in 0 .. RxSlots : RxHolds(q)

LEMMA TxHoldsExact ==
  ASSUME NEW p \in 0 .. TxSlots, TxHolds(p)
  PROVE  TxExactSoFar
<1> DEFINE waiting == Held(txRing, txDesc, TxSlots, p)
           n == Len(submitted)
<1>0. TxSlots \in Nat \ {0} /\ p \in Nat /\ n \in Nat /\ p <= n /\ txDesc \in Nat
  BY EmacAssumption DEF TxHolds, RunOf
<1>1. FramesFrom(txRing, txDesc, TxSlots, TRUE) = waiting /\ waiting \in Seq(Nat) /\ Len(waiting) = p
  BY <1>0, HeldIs DEF TxHolds
<1>2. ASSUME NEW k \in 1 .. p PROVE waiting[k] = (n - p) + k
  <2>1. k - 1 \in 0 .. p - 1 /\ txDesc + (k - 1) = txDesc + k - 1 /\ (n - p) + (k - 1) + 1 = (n - p) + k
    BY <1>0
  <2>2. txRing[(txDesc + (k - 1)) % TxSlots].frame = (n - p) + (k - 1) + 1
    BY <2>1 DEF TxHolds
  <2> QED BY <2>1, <2>2 DEF Held
<1> HIDE DEF waiting
<1>3. Members(waiting) = (n - p) + 1 .. n
  <2>1. ASSUME NEW x \in (n - p) + 1 .. n PROVE x \in Members(waiting)
    <3> DEFINE k == x - (n - p)
    <3>1. k \in 1 .. p /\ (n - p) + k = x
      BY <1>0
    <3> HIDE DEF k
    <3>2. k \in DOMAIN waiting /\ waiting[k] = x
      BY <3>1, <1>1, <1>2
    <3> QED BY <3>2 DEF Members
  <2>2. ASSUME NEW x \in Members(waiting) PROVE x \in (n - p) + 1 .. n
    <3>1. PICK k \in 1 .. p : x = waiting[k]
      BY <1>1 DEF Members
    <3> QED BY <3>1, <1>2, <1>0
  <2> QED BY <2>1, <2>2
<1>4. InOrder(waiting)
  <2>1. ASSUME NEW i \in 1 .. p, NEW j \in 1 .. p, i < j PROVE waiting[i] < waiting[j]
    BY <1>0, <1>2, <2>1
  <2> QED BY <2>1, <1>1 DEF InOrder
<1>5. Before(Members(outbound), Members(waiting))
  BY <1>3, <1>0 DEF Before, TxHolds
<1>6. InOrder(outbound \o waiting)
  BY <1>1, <1>4, <1>5, JoinIn DEF TxHolds
<1>7. Members(outbound) \cup {m \in Members(waiting) : Wanted(m)} = {m \in 1 .. n : Wanted(m)}
  <2>1. 1 .. n = (1 .. n - p) \cup ((n - p) + 1 .. n)
    BY <1>0
  <2>2. Members(outbound) = {m \in 1 .. n - p : Wanted(m)}
    BY DEF TxHolds
  <2> HIDE DEF n
  <2> QED BY <2>1, <2>2, <1>3
<1> QED BY <1>1, <1>6, <1>7 DEF TxExactSoFar

LEMMA RxHoldsExact ==
  ASSUME NEW q \in 0 .. RxSlots, RxHolds(q)
  PROVE  RxExactSoFar
<1> DEFINE filled == Held(rxRing, driverRx, RxSlots, q)
<1>0. RxSlots \in Nat \ {0}
  BY EmacAssumption
<1>1. FramesFrom(rxRing, driverRx, RxSlots, FALSE) = filled /\ filled \in Seq(Nat)
  <2>1. RunOf(rxRing, driverRx, RxSlots, FALSE, q)
    BY DEF RxHolds
  <2> DEFINE b == FALSE
  <2>2. RunOf(rxRing, driverRx, RxSlots, b, q)
    BY <2>1
  <2> HIDE DEF b
  <2>3. FramesFrom(rxRing, driverRx, RxSlots, b) = Held(rxRing, driverRx, RxSlots, q)
        /\ Held(rxRing, driverRx, RxSlots, q) \in Seq(Nat)
    BY <2>2, <1>0, HeldIs
  <2> QED BY <2>3 DEF b
<1>2. /\ received \in Seq(Nat) /\ rxQ \in Seq(Nat) /\ inbound \in Seq(Nat)
      /\ InOrder(received) /\ InOrder(filled) /\ InOrder(rxQ) /\ InOrder(inbound)
      /\ Before(Members(received), Members(filled))
      /\ Before(Members(received) \cup Members(filled), Members(rxQ))
      /\ Before(Members(received) \cup Members(filled) \cup Members(rxQ), Members(inbound))
      /\ Members(received) \cup Members(filled) \cup Members(rxQ) \cup Members(inbound)
           = (1 .. injected) \ eaten
  BY DEF RxHolds
<1> HIDE DEF filled
<1>3. /\ received \o filled \in Seq(Nat) /\ InOrder(received \o filled)
      /\ Members(received \o filled) = Members(received) \cup Members(filled)
  BY <1>1, <1>2, JoinIn
<1>4. /\ received \o filled \o rxQ \in Seq(Nat) /\ InOrder(received \o filled \o rxQ)
      /\ Members(received \o filled \o rxQ) = Members(received) \cup Members(filled) \cup Members(rxQ)
  <2> DEFINE a == received \o filled
  <2>1. a \in Seq(Nat) /\ InOrder(a) /\ Members(a) = Members(received) \cup Members(filled)
    BY <1>3
  <2> HIDE DEF a
  <2>2. a \o rxQ \in Seq(Nat) /\ InOrder(a \o rxQ) /\ Members(a \o rxQ) = Members(a) \cup Members(rxQ)
    BY <2>1, <1>2, JoinIn
  <2> QED BY <2>1, <2>2 DEF a
<1>5. /\ InOrder(received \o filled \o rxQ \o inbound)
      /\ Members(received \o filled \o rxQ \o inbound)
           = Members(received) \cup Members(filled) \cup Members(rxQ) \cup Members(inbound)
  <2> DEFINE a == received \o filled \o rxQ
  <2>1. a \in Seq(Nat) /\ InOrder(a) /\ Members(a) = Members(received) \cup Members(filled) \cup Members(rxQ)
    BY <1>4
  <2> HIDE DEF a
  <2>2. InOrder(a \o inbound) /\ Members(a \o inbound) = Members(a) \cup Members(inbound)
    BY <2>1, <1>2, JoinIn
  <2> QED BY <2>1, <2>2 DEF a
<1> QED BY <1>1, <1>2, <1>5 DEF RxExactSoFar

LEMMA EmacStart == EmacInit => EmacInv
<1> SUFFICES ASSUME EmacInit PROVE EmacInv
  OBVIOUS
<1>0. TxSlots \in Nat \ {0} /\ RxSlots \in Nat \ {0}
  BY EmacAssumption
<1>1. RunOf(txRing, txDesc, TxSlots, TRUE, 0)
  <2>1. ASSUME NEW i \in 0 .. TxSlots - 1 PROVE txRing[(0 + i) % TxSlots].own = FALSE
    <3>1. (0 + i) % TxSlots \in 0 .. TxSlots - 1
      BY <1>0, PlaceIn
    <3> QED BY <3>1 DEF EmacInit, Desc
  <2>2. txRing \in [0 .. TxSlots - 1 -> Descs] /\ txDesc = 0
    BY DEF EmacInit, Descs, Desc
  <2>3. txDesc \in 0 .. TxSlots - 1 /\ 0 \in 0 .. TxSlots
    BY <2>2, <1>0
  <2>4. ASSUME NEW i \in 0 .. TxSlots - 1
        PROVE  (txRing[(txDesc + i) % TxSlots].own = TRUE) <=> (i < 0)
    <3>1. ~(i < 0)
      OBVIOUS
    <3>2. txRing[(txDesc + i) % TxSlots].own = FALSE
      BY <2>1, <2>2, Zenon
    <3> QED BY <3>1, <3>2, Zenon
  <2> QED BY <2>2, <2>3, <2>4 DEF RunOf
<1>2. RunOf(rxRing, driverRx, RxSlots, FALSE, 0)
  <2>1. ASSUME NEW i \in 0 .. RxSlots - 1 PROVE rxRing[(0 + i) % RxSlots].own = TRUE
    <3>1. (0 + i) % RxSlots \in 0 .. RxSlots - 1
      BY <1>0, PlaceIn
    <3> QED BY <3>1 DEF EmacInit, Desc
  <2>2. rxRing \in [0 .. RxSlots - 1 -> Descs] /\ driverRx = 0
    BY DEF EmacInit, Descs, Desc
  <2>3. driverRx \in 0 .. RxSlots - 1 /\ 0 \in 0 .. RxSlots
    BY <2>2, <1>0
  <2>4. ASSUME NEW i \in 0 .. RxSlots - 1
        PROVE  (rxRing[(driverRx + i) % RxSlots].own = FALSE) <=> (i < 0)
    <3>1. ~(i < 0)
      OBVIOUS
    <3>2. rxRing[(driverRx + i) % RxSlots].own = TRUE
      BY <2>1, <2>2, Zenon
    <3> QED BY <3>1, <3>2, Zenon
  <2> QED BY <2>2, <2>3, <2>4 DEF RunOf
<1>3. 0 % TxSlots = 0 /\ 0 % RxSlots = 0 /\ 0 \in 0 .. TxSlots /\ 0 \in 0 .. RxSlots
  BY <1>0, WrapsRound
<1>4. Members(<<>>) = {} /\ InOrder(<<>>)
  BY DEF Members, InOrder
<1>5. TxHolds(0)
  <2>1. submitted = <<>> /\ Len(submitted) = 0 /\ outbound = <<>> /\ refused = {}
    BY DEF EmacInit
  <2>2. driverTx = (txDesc + 0) % TxSlots
    BY <1>3 DEF EmacInit
  <2>3. submitted \in Seq(BOOLEAN) /\ outbound \in Seq(Nat) /\ 0 \in 0 .. Len(submitted)
    BY <2>1
  <2>4. 1 .. Len(submitted) - 0 = {} /\ 0 .. 0 - 1 = {}
    BY <2>1
  <2>5. InOrder(outbound) /\ Members(outbound) = {}
    BY <2>1, <1>4
  <2> QED BY <2>1, <2>2, <2>3, <2>4, <2>5, <1>1 DEF TxHolds
<1>6. Held(rxRing, driverRx, RxSlots, 0) = <<>>
  BY DEF Held
<1>7. RxHolds(0)
  <2>1. /\ received = <<>> /\ rxQ = <<>> /\ inbound = <<>> /\ injected = 0 /\ eaten = {}
        /\ <<>> \in Seq(Nat)
    BY DEF EmacInit
  <2>2. rxDesc = (driverRx + 0) % RxSlots
    BY <1>3 DEF EmacInit
  <2>3. (1 .. injected) \ eaten = {}
    BY <2>1
  <2>4. \A A : Before({}, A) /\ Before(A, {})
    BY DEF Before
  <2>5. injected \in Nat /\ eaten \subseteq 1 .. injected
    BY <2>1
  <2> QED BY <2>1, <2>2, <2>3, <2>4, <2>5, <1>2, <1>4, <1>6 DEF RxHolds
<1> QED BY <1>3, <1>5, <1>7 DEF EmacInv, EmacInit

TxSide == <<txRing, txDesc, driverTx, submitted, outbound, refused>>
RxSide == <<rxRing, rxDesc, driverRx, received, rxQ, inbound, injected, eaten>>

LEMMA TxSideSame ==
  ASSUME NEW p, TxHolds(p), UNCHANGED TxSide
  PROVE  TxHolds(p)'
  BY DEF TxHolds, TxSide, Wanted

LEMMA RxSideSame ==
  ASSUME NEW q, RxHolds(q), UNCHANGED RxSide
  PROVE  RxHolds(q)'
  BY DEF RxHolds, RxSide

LEMMA EmacSubmits ==
  ASSUME NEW p \in 0 .. TxSlots, TxHolds(p), NEW fits \in BOOLEAN, DriverSubmits(fits)
  PROVE  p + 1 \in 0 .. TxSlots /\ TxHolds(p + 1)'
<1> DEFINE n == Len(submitted)
           d == Desc(TRUE, n + 1, fits)
           t == TRUE
<1>0. TxSlots \in Nat \ {0} /\ p \in Nat /\ n \in Nat /\ p <= n /\ txDesc \in Nat
  BY EmacAssumption DEF TxHolds, RunOf
<1>1. /\ driverTx = (txDesc + p) % TxSlots
      /\ RunOf(txRing, txDesc, TxSlots, t, p)
      /\ submitted \in Seq(BOOLEAN)
  BY DEF TxHolds
<1>2. /\ txRing[(txDesc + p) % TxSlots].own # t
      /\ txRing' = Put(txRing, (txDesc + p) % TxSlots, d)
  BY <1>1 DEF DriverSubmits, Put
<1>3. d \in Descs /\ d.own = t /\ d.frame = n + 1 /\ d.fits = fits
  BY <1>0 DEF Desc, Descs
<1> HIDE DEF d, t
<1>4. /\ p < TxSlots /\ RunOf(txRing', txDesc, TxSlots, t, p + 1)
      /\ Alike(txRing', txDesc, txRing, txDesc, TxSlots, p)
      /\ txRing'[(txDesc + p) % TxSlots] = d
  <2>1. TxSlots \in Nat \ {0} /\ RunOf(txRing, txDesc, TxSlots, t, p)
    BY <1>0, <1>1
  <2>2. d \in Descs /\ d.own = t
    BY <1>3
  <2> HIDE DEF n
  <2> QED BY <1>2, <2>1, <2>2, RunGains
<1>5. p + 1 \in 0 .. TxSlots
  BY <1>0, <1>4
<1>6. /\ submitted' = Append(submitted, fits) /\ txDesc' = txDesc
      /\ driverTx' = (driverTx + 1) % TxSlots
      /\ outbound' = outbound /\ refused' = refused
  BY DEF DriverSubmits, Follow
<1>7. /\ submitted' \in Seq(BOOLEAN) /\ Len(submitted') = n + 1
      /\ \A i \in 1 .. n : submitted'[i] = submitted[i]
      /\ submitted'[n + 1] = fits
  BY <1>1, <1>6
<1>8. driverTx' = (txDesc + (p + 1)) % TxSlots
  <2>1. ((((txDesc + p) % TxSlots) + 1) % TxSlots) = ((txDesc + p) + 1) % TxSlots
    <3>1. txDesc + p \in Nat /\ 1 \in Nat
      BY <1>0
    <3> QED BY <3>1, <1>0, AddTwice
  <2>2. (txDesc + p) + 1 = txDesc + (p + 1)
    BY <1>0
  <2> QED BY <2>1, <2>2, <1>1, <1>6
<1>9. (n + 1) - (p + 1) = n - p /\ p + 1 \in 0 .. n + 1
  BY <1>0
<1>10. ASSUME NEW i \in 0 .. (p + 1) - 1
       PROVE  /\ txRing'[(txDesc + i) % TxSlots].frame = (n - p) + i + 1
              /\ txRing'[(txDesc + i) % TxSlots].fits = submitted'[(n - p) + i + 1]
  <2>1. CASE i = p
    <3>1. (n - p) + i + 1 = n + 1
      BY <2>1, <1>0
    <3> QED BY <2>1, <3>1, <1>3, <1>4, <1>7
  <2>2. CASE i < p
    <3>1. i \in 0 .. p - 1 /\ (n - p) + i + 1 \in 1 .. n
      BY <2>2, <1>0
    <3>2. txRing'[(txDesc + i) % TxSlots] = txRing[(txDesc + i) % TxSlots]
      BY <3>1, <1>4 DEF Alike
    <3>3. /\ txRing[(txDesc + i) % TxSlots].frame = (n - p) + i + 1
          /\ txRing[(txDesc + i) % TxSlots].fits = submitted[(n - p) + i + 1]
      BY <3>1 DEF TxHolds
    <3> QED BY <3>1, <3>2, <3>3, <1>7
  <2> QED BY <2>1, <2>2, <1>0
<1>11. {m \in 1 .. n - p : Wanted(m)'} = {m \in 1 .. n - p : Wanted(m)}
  <2>1. 1 .. n - p \subseteq 1 .. n
    BY <1>0
  <2> QED BY <2>1, <1>6, <1>7 DEF Wanted
<1>12. /\ refused' \subseteq 1 .. n - p
       /\ outbound' \in Seq(Nat) /\ InOrder(outbound')
       /\ Members(outbound') = {m \in 1 .. n - p : Wanted(m)'}
  BY <1>6, <1>11 DEF TxHolds
<1>13. RunOf(txRing', txDesc', TxSlots, TRUE, p + 1)
  BY <1>4, <1>6 DEF t
<1> HIDE DEF n
<1> QED BY <1>5, <1>6, <1>7, <1>8, <1>9, <1>10, <1>12, <1>13 DEF TxHolds

\* What a poll makes of the device's next transmit descriptor.
LEMMA EmacTakes ==
  ASSUME NEW p \in 0 .. TxSlots, TxHolds(p), TxTakes, PollTx, Forward(TxFrame),
         UNCHANGED <<driverTx, submitted>>
  PROVE  p - 1 \in 0 .. TxSlots /\ TxHolds(p - 1)'
<1> DEFINE n == Len(submitted)
           old == txRing[txDesc]
           d == [old EXCEPT !.own = FALSE]
           t == TRUE
           x == (n - p) + 1
<1>0. TxSlots \in Nat \ {0} /\ p \in Nat /\ n \in Nat /\ p <= n /\ txDesc \in 0 .. TxSlots - 1
  BY EmacAssumption DEF TxHolds, RunOf
<1>1. RunOf(txRing, txDesc, TxSlots, t, p) /\ driverTx = (txDesc + p) % TxSlots
  BY DEF TxHolds
<1>2. (txDesc + 0) % TxSlots = txDesc /\ txDesc + 0 = txDesc /\ 0 \in 0 .. TxSlots - 1
  BY <1>0, WrapsRound
<1>3. p > 0
  <2>1. (txRing[(txDesc + 0) % TxSlots].own = t) <=> (0 < p)
    BY <1>1, <1>2 DEF RunOf
  <2>2. txRing[txDesc].own = t
    BY <1>1, <1>2, <1>0 DEF TxTakes, RunOf, Descs
  <2> QED BY <2>1, <2>2, <1>2, <1>0
<1>4. old \in Descs /\ d \in Descs /\ d.own # t
  BY <1>0, <1>1 DEF RunOf, Descs
<1>5. old.frame = x /\ old.fits = submitted[x] /\ x \in 1 .. n
  <2>1. 0 \in 0 .. p - 1 /\ (n - p) + 0 + 1 = x
    BY <1>3, <1>0
  <2>2. /\ txRing[(txDesc + 0) % TxSlots].frame = (n - p) + 0 + 1
        /\ txRing[(txDesc + 0) % TxSlots].fits = submitted[(n - p) + 0 + 1]
    BY <2>1 DEF TxHolds
  <2> QED BY <2>1, <2>2, <1>2, <1>0, <1>3
<1>6. txRing' = Put(txRing, txDesc, d) /\ txDesc' = (txDesc + 1) % TxSlots
  BY DEF PollTx, Put, Follow
<1> HIDE DEF d, t
<1>7. /\ RunOf(txRing', txDesc', TxSlots, t, p - 1)
      /\ Alike(txRing', txDesc', txRing, txDesc + 1, TxSlots, p - 1)
  BY <1>0, <1>1, <1>3, <1>4, <1>6, RunLoses
<1>8. p - 1 \in 0 .. TxSlots /\ p - 1 \in 0 .. n /\ n - (p - 1) = x
  BY <1>0, <1>3
<1>9. driverTx' = (txDesc' + (p - 1)) % TxSlots
  <2>1. txDesc + 1 \in Nat /\ p - 1 \in Nat /\ (txDesc + 1) + (p - 1) = txDesc + p
    BY <1>0, <1>3
  <2>2. (((txDesc + 1) % TxSlots) + (p - 1)) % TxSlots = ((txDesc + 1) + (p - 1)) % TxSlots
    BY <2>1, <1>0, AddTwice
  <2> QED BY <2>1, <2>2, <1>1, <1>6
<1>10. ASSUME NEW i \in 0 .. (p - 1) - 1
       PROVE  /\ txRing'[(txDesc' + i) % TxSlots].frame = x + i + 1
              /\ txRing'[(txDesc' + i) % TxSlots].fits = submitted[x + i + 1]
  <2>1. i + 1 \in 0 .. p - 1 /\ (n - p) + (i + 1) + 1 = x + i + 1 /\ (txDesc + 1) + i = txDesc + (i + 1)
    BY <1>0, <1>3
  <2>2. txRing'[(txDesc' + i) % TxSlots] = txRing[((txDesc + 1) + i) % TxSlots]
    BY <1>7 DEF Alike
  <2>3. /\ txRing[(txDesc + (i + 1)) % TxSlots].frame = (n - p) + (i + 1) + 1
        /\ txRing[(txDesc + (i + 1)) % TxSlots].fits = submitted[(n - p) + (i + 1) + 1]
    BY <2>1 DEF TxHolds
  <2> QED BY <2>1, <2>2, <2>3
<1>11. TxFrame = IF submitted[x] THEN <<x>> ELSE <<>>
  BY <1>5 DEF TxFrame
<1>12. /\ refused \subseteq 1 .. x - 1 /\ outbound \in Seq(Nat) /\ InOrder(outbound)
       /\ Members(outbound) = {m \in 1 .. x - 1 : m \notin refused /\ submitted[m]}
       /\ 1 .. x = (1 .. x - 1) \cup {x} /\ x \notin 1 .. x - 1 /\ x \in Nat
       /\ submitted \in Seq(BOOLEAN) /\ submitted[x] \in BOOLEAN
  <2>1. x - 1 = n - p
    BY <1>0
  <2>2. submitted \in Seq(BOOLEAN)
    BY DEF TxHolds
  <2>3. submitted[x] \in BOOLEAN
    BY <2>2, <1>5
  <2>4. /\ refused \subseteq 1 .. x - 1 /\ outbound \in Seq(Nat) /\ InOrder(outbound)
        /\ Members(outbound) = {m \in 1 .. x - 1 : m \notin refused /\ submitted[m]}
    BY <2>1 DEF TxHolds, Wanted
  <2>5. 1 .. x = (1 .. x - 1) \cup {x} /\ x \notin 1 .. x - 1 /\ x \in Nat
    BY <1>5, <1>0
  <2> QED BY <2>2, <2>3, <2>4, <2>5
<1> HIDE DEF x, n, old
<1>13. /\ refused' \subseteq 1 .. x
       /\ outbound' \in Seq(Nat) /\ InOrder(outbound')
       /\ Members(outbound') = {m \in 1 .. x : m \notin refused' /\ submitted[m]}
  <2>1. CASE submitted[x] /\ vm = "browser" /\ ~linkUp
    <3>1. refused' = refused \cup {x} /\ outbound' = outbound
      <4>1. {<<x>>[i] : i \in DOMAIN <<x>>} = {x}
        OBVIOUS
      <4> QED BY <4>1, <2>1, <1>11 DEF Forward
    <3> QED BY <3>1, <1>12
  <2>2. CASE submitted[x] /\ ~(vm = "browser" /\ ~linkUp)
    <3>1. refused' = refused /\ outbound' = Append(outbound, x)
      <4>1. outbound \o <<x>> = Append(outbound, x)
        BY <1>12
      <4> QED BY <4>1, <2>2, <1>11 DEF Forward
    <3>2. Before(Members(outbound), {x})
      BY <1>12 DEF Before
    <3>3. /\ outbound' \in Seq(Nat) /\ InOrder(outbound')
          /\ Members(outbound') = Members(outbound) \cup {x}
      BY <3>1, <3>2, <1>12, AppendIn
    <3>4. x \notin refused
      BY <1>12
    <3> QED BY <3>1, <3>3, <3>4, <2>2, <1>12
  <2>3. CASE ~submitted[x]
    <3>1. TxFrame = <<>>
      BY <2>3, <1>11
    <3>2. refused' = refused /\ outbound' = outbound
      <4>1. {<<>>[i] : i \in DOMAIN <<>>} = {} /\ outbound \o <<>> = outbound
        BY <1>12
      <4> QED BY <4>1, <3>1 DEF Forward
    <3> QED BY <3>2, <2>3, <1>12
  <2> QED BY <2>1, <2>2, <2>3
<1>14. /\ submitted' = submitted /\ Len(submitted') = n
       /\ RunOf(txRing', txDesc', TxSlots, TRUE, p - 1)
  BY <1>7 DEF t, n
<1>15. Members(outbound') = {m \in 1 .. x : Wanted(m)'}
  BY <1>13, <1>14 DEF Wanted
<1> QED BY <1>8, <1>9, <1>10, <1>12, <1>13, <1>14, <1>15 DEF TxHolds

\* The order of what was received (A), is filled (B), queued (C) and in the backend (D).
Ranks(A, B, C, D) ==
    Before(A, B) /\ Before(A \cup B, C) /\ Before(A \cup B \cup C, D)

LEMMA EmacReceives ==
  ASSUME NEW q \in 0 .. RxSlots, RxHolds(q), NEW fits \in BOOLEAN, DriverReceives(fits)
  PROVE  q - 1 \in 0 .. RxSlots /\ RxHolds(q - 1)'
<1> DEFINE d == Desc(TRUE, 0, fits)
           f == FALSE
           filled == Held(rxRing, driverRx, RxSlots, q)
           h == rxRing[driverRx].frame
<1>0. RxSlots \in Nat \ {0} /\ q \in Nat /\ driverRx \in 0 .. RxSlots - 1 /\ driverRx \in Nat
  BY EmacAssumption DEF RxHolds, RunOf
<1>1. RunOf(rxRing, driverRx, RxSlots, f, q) /\ rxDesc = (driverRx + q) % RxSlots
  BY DEF RxHolds
<1>2. (driverRx + 0) % RxSlots = driverRx /\ driverRx + 0 = driverRx /\ 0 \in 0 .. RxSlots - 1
  BY <1>0, WrapsRound
<1>3. q > 0
  <2>1. (rxRing[(driverRx + 0) % RxSlots].own = f) <=> (0 < q)
    BY <1>1, <1>2 DEF RunOf
  <2>2. rxRing[driverRx].own = f
    BY <1>1, <1>2, <1>0 DEF DriverReceives, RunOf, Descs
  <2> QED BY <2>1, <2>2, <1>2, <1>0
<1>4. d \in Descs /\ d.own # f
  BY DEF Desc, Descs
<1>5. rxRing' = Put(rxRing, driverRx, d) /\ driverRx' = (driverRx + 1) % RxSlots
  BY DEF DriverReceives, Put, Follow
<1> HIDE DEF d, f
<1>6. RunOf(rxRing', driverRx', RxSlots, f, q - 1)
  BY <1>0, <1>1, <1>3, <1>4, <1>5, RunLoses
<1>7. /\ filled # <<>> /\ Head(filled) = h
      /\ Held(rxRing', driverRx', RxSlots, q - 1) = Tail(filled)
  BY <1>0, <1>1, <1>3, <1>4, <1>5, HeldLoses
<1>8. filled \in Seq(Nat)
  BY <1>0, <1>1, HeldIs
<1>9. /\ received' = Append(received, h) /\ rxQ' = rxQ /\ inbound' = inbound /\ rxDesc' = rxDesc
      /\ injected' = injected /\ eaten' = eaten
  BY DEF DriverReceives
<1>10. /\ received \in Seq(Nat) /\ rxQ \in Seq(Nat) /\ inbound \in Seq(Nat)
       /\ InOrder(received) /\ InOrder(filled) /\ InOrder(rxQ) /\ InOrder(inbound)
       /\ Ranks(Members(received), Members(filled), Members(rxQ), Members(inbound))
       /\ Members(received) \cup Members(filled) \cup Members(rxQ) \cup Members(inbound)
            = (1 .. injected) \ eaten
       /\ injected \in Nat /\ eaten \subseteq 1 .. injected
  BY DEF RxHolds, Ranks
<1> HIDE DEF filled, h
<1>11. /\ Tail(filled) \in Seq(Nat) /\ h \in Nat /\ InOrder(Tail(filled))
       /\ Members(filled) = {h} \cup Members(Tail(filled)) /\ Before({h}, Members(Tail(filled)))
  BY <1>7, <1>8, <1>10, TailIn
<1>12. /\ Append(received, h) \in Seq(Nat) /\ InOrder(Append(received, h))
       /\ Members(Append(received, h)) = Members(received) \cup {h}
  <2>1. Before(Members(received), {h})
    BY <1>10, <1>11 DEF Ranks, Before
  <2> QED BY <2>1, <1>10, <1>11, AppendIn
<1>13. Ranks(Members(Append(received, h)), Members(Tail(filled)), Members(rxQ), Members(inbound))
  BY <1>10, <1>11, <1>12 DEF Ranks, Before
<1>14. rxDesc' = (driverRx' + (q - 1)) % RxSlots
  <2>1. driverRx + 1 \in Nat /\ q - 1 \in Nat /\ (driverRx + 1) + (q - 1) = driverRx + q
    BY <1>0, <1>3
  <2>2. (((driverRx + 1) % RxSlots) + (q - 1)) % RxSlots = ((driverRx + 1) + (q - 1)) % RxSlots
    BY <2>1, <1>0, AddTwice
  <2> QED BY <2>1, <2>2, <1>1, <1>5, <1>9
<1>15. q - 1 \in 0 .. RxSlots
  BY <1>0, <1>3
<1>16. Members(Append(received, h)) \cup Members(Tail(filled)) \cup Members(rxQ) \cup Members(inbound)
         = (1 .. injected) \ eaten
  BY <1>10, <1>11, <1>12
<1>17. RunOf(rxRing', driverRx', RxSlots, FALSE, q - 1)
  BY <1>6 DEF f
<1> QED BY <1>7, <1>9, <1>10, <1>11, <1>12, <1>13, <1>14, <1>15, <1>16, <1>17 DEF RxHolds, Ranks

LEMMA EmacArrives ==
  ASSUME NEW q \in 0 .. RxSlots, RxHolds(q), PacketArrives
  PROVE  RxHolds(q)'
<1> DEFINE filled == Held(rxRing, driverRx, RxSlots, q)
           x == injected + 1
<1>1. /\ injected \in Nat /\ eaten \subseteq 1 .. injected /\ x \in Nat
      /\ inbound \in Seq(Nat) /\ InOrder(inbound)
      /\ Members(received) \cup Members(filled) \cup Members(rxQ) \cup Members(inbound)
           = (1 .. injected) \ eaten
      /\ Ranks(Members(received), Members(filled), Members(rxQ), Members(inbound))
  BY DEF RxHolds, Ranks
<1>2. /\ injected' = x /\ inbound' = Append(inbound, x) /\ eaten' = eaten
      /\ UNCHANGED <<rxRing, driverRx, rxDesc, received, rxQ>>
  BY DEF PacketArrives, driverVars
<1>3. 1 .. x = (1 .. injected) \cup {x} /\ \A m \in 1 .. injected : m < x
  BY <1>1
<1> HIDE DEF x, filled
<1>4. Before(Members(received) \cup Members(filled) \cup Members(rxQ) \cup Members(inbound), {x})
  BY <1>1, <1>3 DEF Before
<1>5. /\ Append(inbound, x) \in Seq(Nat) /\ InOrder(Append(inbound, x))
      /\ Members(Append(inbound, x)) = Members(inbound) \cup {x}
  <2>1. Before(Members(inbound), {x})
    BY <1>4 DEF Before
  <2> QED BY <2>1, <1>1, AppendIn
<1>6. Ranks(Members(received), Members(filled), Members(rxQ), Members(Append(inbound, x)))
  BY <1>1, <1>4, <1>5 DEF Ranks, Before
<1>7. /\ Members(received) \cup Members(filled) \cup Members(rxQ) \cup Members(Append(inbound, x))
           = (1 .. x) \ eaten
      /\ eaten \subseteq 1 .. x
  <2>1. x \notin eaten
    BY <1>1, <1>3 DEF x
  <2> QED BY <2>1, <1>1, <1>3, <1>5
<1>8. filled' = filled
  BY <1>2 DEF filled
<1> QED BY <1>1, <1>2, <1>5, <1>6, <1>7, <1>8 DEF RxHolds, Ranks, filled

-----------------------------------------------------------------------------
\* The backend's packets join the device's queue.
LEMMA Joined ==
  ASSUME NEW q \in 0 .. RxSlots, RxHolds(q)
  PROVE  /\ rxQ \o inbound \in Seq(Nat) /\ InOrder(rxQ \o inbound)
         /\ Before(Members(received) \cup Members(Held(rxRing, driverRx, RxSlots, q)),
                   Members(rxQ \o inbound))
         /\ Members(received) \cup Members(Held(rxRing, driverRx, RxSlots, q))
              \cup Members(rxQ \o inbound) = (1 .. injected) \ eaten
<1> DEFINE filled == Members(Held(rxRing, driverRx, RxSlots, q))
<1>1. /\ rxQ \in Seq(Nat) /\ inbound \in Seq(Nat) /\ InOrder(rxQ) /\ InOrder(inbound)
      /\ Before(Members(received) \cup filled, Members(rxQ))
      /\ Before(Members(received) \cup filled \cup Members(rxQ), Members(inbound))
      /\ Members(received) \cup filled \cup Members(rxQ) \cup Members(inbound)
           = (1 .. injected) \ eaten
  BY DEF RxHolds
<1> HIDE DEF filled
<1>2. Before(Members(rxQ), Members(inbound))
  BY <1>1 DEF Before
<1>3. /\ rxQ \o inbound \in Seq(Nat) /\ InOrder(rxQ \o inbound)
      /\ Members(rxQ \o inbound) = Members(rxQ) \cup Members(inbound)
  BY <1>1, <1>2, JoinIn
<1>4. Before(Members(received) \cup filled, Members(rxQ \o inbound))
  BY <1>1, <1>3 DEF Before
<1>5. Members(received) \cup filled \cup Members(rxQ \o inbound) = (1 .. injected) \ eaten
  BY <1>1, <1>3
<1> QED BY <1>3, <1>4, <1>5 DEF filled

LEMMA JoinStep ==
  ASSUME NEW q \in 0 .. RxSlots, RxHolds(q), rxQ' = rxQ \o inbound, inbound' = <<>>,
         UNCHANGED <<rxRing, rxDesc, driverRx, received, injected, eaten>>
  PROVE  RxHolds(q)'
<1> DEFINE filled == Held(rxRing, driverRx, RxSlots, q)
<1>1. /\ rxQ \o inbound \in Seq(Nat) /\ InOrder(rxQ \o inbound)
      /\ Before(Members(received) \cup Members(filled), Members(rxQ \o inbound))
      /\ Members(received) \cup Members(filled) \cup Members(rxQ \o inbound)
           = (1 .. injected) \ eaten
  BY Joined
<1>2. /\ RunOf(rxRing, driverRx, RxSlots, FALSE, q) /\ rxDesc = (driverRx + q) % RxSlots
      /\ received \in Seq(Nat) /\ InOrder(received) /\ InOrder(filled)
      /\ Before(Members(received), Members(filled))
      /\ injected \in Nat /\ eaten \subseteq 1 .. injected
  BY DEF RxHolds
<1>3. filled' = filled
  OBVIOUS
<1>4. inbound' \in Seq(Nat) /\ InOrder(inbound') /\ Members(inbound') = {}
  BY DEF InOrder, Members
<1>5. \A A : Before(A, {})
  BY DEF Before
<1> HIDE DEF filled
<1> QED BY <1>1, <1>2, <1>3, <1>4, <1>5 DEF RxHolds, filled

LEMMA EmacPollsRx ==
  ASSUME NEW q \in 0 .. RxSlots, RxHolds(q), PollRx(rxQ \o inbound), inbound' = <<>>,
         UNCHANGED <<driverRx, received, injected>>
  PROVE  \E m \in 0 .. RxSlots : RxHolds(m)'
<1> DEFINE filled == Held(rxRing, driverRx, RxSlots, q)
           queue == rxQ \o inbound
           h == Head(queue)
           takes == rxOn /\ rxRing[rxDesc].own /\ queue # <<>>
           d == Desc(FALSE, h, TRUE)
           f == FALSE
<1>0. RxSlots \in Nat \ {0} /\ q \in Nat /\ driverRx \in Nat
  BY EmacAssumption DEF RxHolds, RunOf
<1>1. /\ queue \in Seq(Nat) /\ InOrder(queue)
      /\ Before(Members(received) \cup Members(filled), Members(queue))
      /\ Members(received) \cup Members(filled) \cup Members(queue) = (1 .. injected) \ eaten
  BY Joined
<1>2. /\ RunOf(rxRing, driverRx, RxSlots, f, q) /\ rxDesc = (driverRx + q) % RxSlots
      /\ received \in Seq(Nat) /\ InOrder(received) /\ InOrder(filled)
      /\ Before(Members(received), Members(filled))
      /\ injected \in Nat /\ eaten \subseteq 1 .. injected
  BY DEF RxHolds
<1>3. filled \in Seq(Nat)
  <2> HIDE DEF f
  <2> QED BY <1>0, <1>2, HeldIs
<1>4. /\ rxQ' = IF takes THEN Tail(queue) ELSE queue
      /\ IF takes /\ rxRing[rxDesc].fits
         THEN rxRing' = Put(rxRing, rxDesc, d) /\ rxDesc' = (rxDesc + 1) % RxSlots /\ eaten' = eaten
         ELSE /\ eaten' = IF takes THEN eaten \cup {h} ELSE eaten
              /\ rxRing' = rxRing /\ rxDesc' = rxDesc
  BY DEF PollRx, Put, Follow
<1>5. ASSUME takes
      PROVE  /\ Tail(queue) \in Seq(Nat) /\ h \in Nat /\ InOrder(Tail(queue))
             /\ Members(queue) = {h} \cup Members(Tail(queue))
             /\ Before({h}, Members(Tail(queue)))
             /\ h \notin Members(Tail(queue))
             /\ h \notin Members(received) \cup Members(filled)
             /\ Before(Members(received) \cup Members(filled), {h})
             /\ h \in 1 .. injected
  <2>1. queue # <<>>
    BY <1>5
  <2> HIDE DEF queue, filled
  <2>2. /\ Tail(queue) \in Seq(Nat) /\ h \in Nat /\ InOrder(Tail(queue))
        /\ Members(queue) = {h} \cup Members(Tail(queue))
        /\ Before({h}, Members(Tail(queue)))
    BY <1>1, <2>1, TailIn
  <2>3. ~(h < h)
    BY <2>2
  <2> HIDE DEF h
  <2> QED BY <1>1, <2>2, <2>3 DEF Before
<1>6. CASE ~takes
  <2>1. rxQ' = queue /\ UNCHANGED <<rxRing, rxDesc, eaten>>
    BY <1>4, <1>6
  <2>2. RxHolds(q)'
    BY <2>1, JoinStep
  <2> QED BY <2>2
<1>7. CASE takes /\ ~rxRing[rxDesc].fits
  <2>1. /\ rxQ' = Tail(queue) /\ eaten' = eaten \cup {h}
        /\ UNCHANGED <<rxRing, rxDesc, driverRx, received, injected>>
    BY <1>4, <1>7
  <2>2. filled' = filled
    BY <2>1
  <2>3. /\ inbound' \in Seq(Nat) /\ InOrder(inbound') /\ Members(inbound') = {}
        /\ \A A : Before(A, {})
    BY DEF InOrder, Members, Before
  <2>4. takes
    BY <1>7
  <2> HIDE DEF filled, queue, h, takes
  <2>5. Before(Members(received) \cup Members(filled), Members(Tail(queue)))
    BY <1>1, <1>5, <2>4 DEF Before
  <2>6. Members(received) \cup Members(filled) \cup Members(Tail(queue))
          = (1 .. injected) \ (eaten \cup {h})
    BY <1>1, <1>5, <2>4
  <2>7. eaten \cup {h} \subseteq 1 .. injected
    BY <1>2, <1>5, <2>4
  <2>8. RxHolds(q)'
    BY <1>2, <1>5, <2>1, <2>2, <2>3, <2>4, <2>5, <2>6, <2>7 DEF RxHolds, filled, f
  <2> QED BY <2>8
<1>8. CASE takes /\ rxRing[rxDesc].fits
  <2>1. /\ rxQ' = Tail(queue) /\ eaten' = eaten
        /\ rxRing' = Put(rxRing, (driverRx + q) % RxSlots, d)
        /\ rxDesc' = (rxDesc + 1) % RxSlots
        /\ UNCHANGED <<driverRx, received, injected>>
    BY <1>2, <1>4, <1>8
  <2>2. takes /\ rxRing[(driverRx + q) % RxSlots].own # f
    BY <1>2, <1>8
  <2>3. d \in Descs /\ d.own = f /\ d.frame = h
    BY <1>5, <2>2 DEF Desc, Descs
  <2> HIDE DEF d, f, h, queue, takes
  <2>0. /\ RunOf(rxRing, driverRx, RxSlots, f, q) /\ rxRing[(driverRx + q) % RxSlots].own # f
        /\ rxRing' = Put(rxRing, (driverRx + q) % RxSlots, d)
    BY <1>2, <2>1, <2>2
  <2>4. /\ q < RxSlots /\ RunOf(rxRing', driverRx, RxSlots, f, q + 1)
        /\ Alike(rxRing', driverRx, rxRing, driverRx, RxSlots, q)
        /\ rxRing'[(driverRx + q) % RxSlots] = d
    BY <1>0, <2>0, <2>3, RunGains
  <2>5. Held(rxRing', driverRx, RxSlots, q + 1) = Append(filled, h)
    <3>1. Held(rxRing', driverRx, RxSlots, q + 1) = Append(Held(rxRing, driverRx, RxSlots, q), d.frame)
      BY <1>0, <2>0, <2>3, HeldGains, SMTT(60)
    <3> QED BY <3>1, <2>3 DEF filled
  <2>6. q + 1 \in 0 .. RxSlots
    BY <1>0, <2>4
  <2>7. rxDesc' = (driverRx + (q + 1)) % RxSlots
    <3>1. driverRx + q \in Nat /\ 1 \in Nat /\ (driverRx + q) + 1 = driverRx + (q + 1)
      BY <1>0
    <3>2. (((driverRx + q) % RxSlots) + 1) % RxSlots = ((driverRx + q) + 1) % RxSlots
      BY <3>1, <1>0, AddTwice
    <3> QED BY <3>1, <3>2, <2>1, <1>2
  <2> HIDE DEF filled
  <2>8. /\ Append(filled, h) \in Seq(Nat) /\ InOrder(Append(filled, h))
        /\ Members(Append(filled, h)) = Members(filled) \cup {h}
    <3>1. Before(Members(filled), {h})
      BY <1>5, <2>2 DEF Before
    <3> QED BY <3>1, <1>2, <1>3, <1>5, <2>2, AppendIn
  <2>9. Before(Members(received), Members(Append(filled, h)))
    BY <1>2, <1>5, <2>2, <2>8 DEF Before
  <2>10. Before(Members(received) \cup Members(Append(filled, h)), Members(Tail(queue)))
    BY <1>1, <1>5, <2>2, <2>8 DEF Before
  <2>11. Members(received) \cup Members(Append(filled, h)) \cup Members(Tail(queue))
           = (1 .. injected) \ eaten
    BY <1>1, <1>5, <2>2, <2>8
  <2>12. /\ inbound' \in Seq(Nat) /\ InOrder(inbound') /\ Members(inbound') = {}
         /\ \A A : Before(A, {})
    BY DEF InOrder, Members, Before
  <2>13. RunOf(rxRing', driverRx', RxSlots, FALSE, q + 1)
    BY <2>1, <2>4 DEF f
  <2>14. Held(rxRing, driverRx, RxSlots, q + 1)' = Append(filled, h)
    BY <2>1, <2>5 DEF Held
  <2>15. RxHolds(q + 1)'
    BY <1>2, <1>5, <2>1, <2>2, <2>7, <2>8, <2>9, <2>10, <2>11, <2>12, <2>13, <2>14 DEF RxHolds
  <2> QED BY <2>6, <2>15
<1> QED BY <1>6, <1>7, <1>8

\* A poll forwards what it took: nothing of the queue, which is empty.
LEMMA ForwardNone ==
  ASSUME outbound \in Seq(Nat), Forward(<<>>)
  PROVE  outbound' = outbound /\ refused' = refused
<1>1. {<<>>[i] : i \in DOMAIN <<>>} = {} /\ outbound \o <<>> = outbound
  OBVIOUS
<1> QED BY <1>1 DEF Forward

LEMMA EmacPollsTx ==
  ASSUME NEW p \in 0 .. TxSlots, TxHolds(p), PollTx, Forward(TxFrame),
         UNCHANGED <<driverTx, submitted>>
  PROVE  \E m \in 0 .. TxSlots : TxHolds(m)'
<1>1. CASE TxTakes
  <2>1. p - 1 \in 0 .. TxSlots /\ TxHolds(p - 1)'
    BY <1>1, EmacTakes
  <2> QED BY <2>1
<1>2. CASE ~TxTakes
  <2>1. TxFrame = <<>> /\ outbound \in Seq(Nat)
    BY <1>2 DEF TxFrame, TxHolds
  <2>2. outbound' = outbound /\ refused' = refused
    BY <2>1, ForwardNone
  <2>3. UNCHANGED TxSide
    BY <1>2, <2>2 DEF PollTx, TxSide
  <2>4. TxHolds(p)'
    BY <2>3, TxSideSame
  <2> QED BY <2>4
<1> QED BY <1>1, <1>2

LEMMA EmacStep == EmacInv /\ [EmacNext]_emacVars => EmacInv'
<1> SUFFICES ASSUME EmacInv, [EmacNext]_emacVars PROVE EmacInv'
  OBVIOUS
<1>1. PICK p \in 0 .. TxSlots : TxHolds(p)
  BY DEF EmacInv
<1>2. PICK q \in 0 .. RxSlots : RxHolds(q)
  BY DEF EmacInv
<1>3. txQueue = <<>>
  BY DEF EmacInv
<1>4. ASSUME UNCHANGED TxSide, UNCHANGED RxSide, txQueue' = txQueue PROVE EmacInv'
  BY <1>1, <1>2, <1>3, <1>4, TxSideSame, RxSideSame DEF EmacInv
<1>5. CASE EnableTx \/ EnableRx \/ ClearIntSta \/ LinkChanges \/ UNCHANGED emacVars
  <2>1. UNCHANGED TxSide /\ UNCHANGED RxSide /\ txQueue' = txQueue
    BY <1>5 DEF EnableTx, EnableRx, ClearIntSta, LinkChanges, emacVars, driverVars, TxSide, RxSide
  <2> QED BY <2>1, <1>4
<1>6. ASSUME NEW fits \in BOOLEAN, DriverSubmits(fits) PROVE EmacInv'
  <2>1. p + 1 \in 0 .. TxSlots /\ TxHolds(p + 1)'
    BY <1>1, <1>6, EmacSubmits
  <2>2. UNCHANGED RxSide /\ txQueue' = <<>>
    BY <1>3, <1>6 DEF DriverSubmits, RxSide
  <2>3. RxHolds(q)'
    BY <1>2, <2>2, RxSideSame
  <2> QED BY <2>1, <2>2, <2>3 DEF EmacInv
<1>7. ASSUME NEW fits \in BOOLEAN, DriverReceives(fits) PROVE EmacInv'
  <2>1. q - 1 \in 0 .. RxSlots /\ RxHolds(q - 1)'
    BY <1>2, <1>7, EmacReceives
  <2>2. UNCHANGED TxSide /\ txQueue' = <<>>
    BY <1>3, <1>7 DEF DriverReceives, TxSide
  <2>3. TxHolds(p)'
    BY <1>1, <2>2, TxSideSame
  <2> QED BY <2>1, <2>2, <2>3 DEF EmacInv
<1>8. CASE PacketArrives
  <2>1. RxHolds(q)'
    BY <1>2, <1>8, EmacArrives
  <2>2. UNCHANGED TxSide /\ txQueue' = <<>>
    BY <1>3, <1>8 DEF PacketArrives, driverVars, TxSide
  <2>3. TxHolds(p)'
    BY <1>1, <2>2, TxSideSame
  <2> QED BY <2>1, <2>2, <2>3 DEF EmacInv
<1>9. CASE WasmPoll
  <2>1. PollTx /\ PollRx(rxQ \o inbound) /\ inbound' = <<>> /\ txQueue' = <<>>
        /\ Forward(txQueue \o TxFrame)
        /\ UNCHANGED <<driverTx, driverRx, submitted, received, injected>>
    BY <1>9 DEF WasmPoll, driverVars
  <2>2. txQueue \o TxFrame = TxFrame
    <3>1. TxFrame = <<>> \/ TxFrame = <<txRing[txDesc].frame>>
      BY DEF TxFrame
    <3> QED BY <3>1, <1>3
  <2>3. Forward(TxFrame)
    BY <2>1, <2>2
  <2>4. \E m \in 0 .. TxSlots : TxHolds(m)'
    BY <1>1, <2>1, <2>3, EmacPollsTx
  <2>5. \E m \in 0 .. RxSlots : RxHolds(m)'
    BY <1>2, <2>1, EmacPollsRx
  <2> QED BY <2>1, <2>4, <2>5 DEF EmacInv
<1>10. CASE PollNetwork
  <2>1. /\ rxQ' = rxQ \o inbound /\ inbound' = <<>> /\ Forward(txQueue) /\ txQueue' = <<>>
        /\ UNCHANGED <<txRing, txDesc, rxRing, rxDesc, eaten, driverTx, driverRx, submitted,
                       received, injected>>
    BY <1>10 DEF PollNetwork, driverVars
  <2>2. Forward(<<>>) /\ outbound \in Seq(Nat)
    BY <1>1, <1>3, <2>1 DEF TxHolds
  <2>3. UNCHANGED TxSide
    BY <2>1, <2>2, ForwardNone DEF TxSide
  <2>4. TxHolds(p)'
    BY <1>1, <2>3, TxSideSame
  <2>5. RxHolds(q)'
    BY <1>2, <2>1, JoinStep
  <2> QED BY <2>1, <2>4, <2>5 DEF EmacInv
<1> QED BY <1>5, <1>6, <1>7, <1>8, <1>9, <1>10 DEF EmacNext

\* Whatever the sizes of the rings and wherever the polls, the driver's moves, lost links and
\* unusable descriptors fall, no packet between d1_emac.rs's rings and the backend is lost,
\* repeated or overtaken (poll_dma, WasmVm::step, NativeVm::poll_network).
THEOREM RingsKeepFrames == EmacSpec => []RingsExact
<1>1. EmacInv => RingsExact
  BY TxHoldsExact, RxHoldsExact DEF EmacInv, RingsExact
<1> QED BY EmacStart, EmacStep, <1>1, PTL DEF EmacSpec

=============================================================================
