--------------------------- MODULE SplitRingProofs ---------------------------
(***************************************************************************)
(* What the index arithmetic of a split ring guarantees, for every ring    *)
(* size and index range: lemmas for the proofs about the VirtIO devices.   *)
(***************************************************************************)
EXTENDS SplitRing, SequenceTheorems, TLAPS

\* wrapping_add stays within the index range.
LEMMA SuccType ==
    ASSUME NEW i \in Nat
    PROVE  Succ(i) \in 0 .. IdxMod - 1
<1>1. IdxMod \in Nat \ {0}
  BY SplitRingAssumption
<1> QED
  BY <1>1 DEF Succ

\* A ring slot is one of the queue's entries.
LEMMA SlotType ==
    ASSUME NEW i \in Nat
    PROVE  Slot(i) \in 0 .. QueueNum - 1
  BY SplitRingAssumption DEF Slot

-----------------------------------------------------------------------------
(* The rings.  Indices are u16 and slots are taken modulo the ring size;    *)
(* distances from the driver's index put them in an order again.            *)

LEMMA Divided ==
  ASSUME NEW a \in Int, NEW n \in Nat \ {0}
  PROVE  \E k \in Int, r \in 0 .. n - 1 : a = (k * n) + r /\ r = a % n
  OBVIOUS

LEMMA Remainder ==
  ASSUME NEW n \in Nat \ {0}, NEW r \in 0 .. n - 1, NEW k \in Int
  PROVE  ((k * n) + r) % n = r
  OBVIOUS

LEMMA WholeTurns ==
  ASSUME NEW n \in Nat \ {0}, NEW m \in Nat, NEW x \in Nat, m % n = 0
  PROVE  (m + x) % n = x % n
<1>1. x \in Int /\ m \in Int
  OBVIOUS
<1>2. PICK k \in Int : m = k * n
  BY <1>1, Divided
<1>3. PICK j \in Int, r \in 0 .. n - 1 : x = (j * n) + r /\ r = x % n
  BY <1>1, Divided
<1>4. m + x = ((k + j) * n) + r
  BY <1>2, <1>3
<1>5. (((k + j) * n) + r) % n = r
  <2>1. k + j \in Int
    OBVIOUS
  <2> QED BY <2>1, Remainder
<1> QED BY <1>3, <1>4, <1>5

LEMMA LessThanATurn ==
  ASSUME NEW n \in Nat \ {0}, NEW x \in Int, NEW y \in Int, x < y, y < x + n
  PROVE  x % n # y % n
<1> SUFFICES ASSUME x % n = y % n PROVE FALSE
  OBVIOUS
<1>1. PICK k \in Int, s \in 0 .. n - 1 : x = (k * n) + s /\ s = x % n
  BY Divided
<1>2. PICK j \in Int, r \in 0 .. n - 1 : y = (j * n) + r /\ r = y % n
  BY Divided
<1>3. y - x = (j - k) * n
  BY <1>1, <1>2
<1>4. CASE j - k > 0
  <2>1. (j - k) * n >= n
    BY <1>4
  <2> QED BY <1>3, <2>1
<1>5. CASE j - k <= 0
  <2>1. (j - k) * n <= 0
    BY <1>5
  <2> QED BY <1>3, <2>1
<1> QED BY <1>4, <1>5

Indices == 0 .. IdxMod - 1

LEMMA Bounds == IdxMod \in Nat \ {0} /\ QueueNum \in Nat \ {0} /\ IdxMod > QueueNum
  BY SplitRingAssumption

\* Distances and successors, without the modulus.
LEMMA DistanceIs ==
  ASSUME NEW a \in Indices, NEW b \in Indices
  PROVE  /\ Distance(a, b) = (IF b >= a THEN b - a ELSE b - a + IdxMod)
         /\ Distance(a, b) \in Indices
  BY Bounds DEF Indices, Distance

LEMMA SuccIs ==
  ASSUME NEW a \in Indices
  PROVE  Succ(a) = (IF a = IdxMod - 1 THEN 0 ELSE a + 1) /\ Succ(a) \in Indices
  BY Bounds DEF Indices, Succ

\* What a step of an index does to the distances.
LEMMA StepAhead ==
  ASSUME NEW a \in Indices, NEW b \in Indices, Distance(a, b) < QueueNum
  PROVE  Distance(a, Succ(b)) = Distance(a, b) + 1
<1>1. Succ(b) = (IF b = IdxMod - 1 THEN 0 ELSE b + 1) /\ Succ(b) \in Indices
  BY SuccIs
<1>2. Distance(a, b) = (IF b >= a THEN b - a ELSE b - a + IdxMod)
  BY DistanceIs
<1>3. Distance(a, Succ(b)) = (IF Succ(b) >= a THEN Succ(b) - a ELSE Succ(b) - a + IdxMod)
  BY <1>1, DistanceIs
<1>4. a \in 0 .. IdxMod - 1 /\ b \in 0 .. IdxMod - 1
  BY DEF Indices
<1> QED BY <1>1, <1>2, <1>3, <1>4, Bounds

LEMMA StepBehind ==
  ASSUME NEW a \in Indices, NEW b \in Indices, a # b
  PROVE  Distance(Succ(a), b) = Distance(a, b) - 1 /\ Distance(a, b) > 0
<1>1. Succ(a) = (IF a = IdxMod - 1 THEN 0 ELSE a + 1) /\ Succ(a) \in Indices
  BY SuccIs
<1>2. Distance(a, b) = (IF b >= a THEN b - a ELSE b - a + IdxMod)
  BY DistanceIs
<1>3. Distance(Succ(a), b) = (IF b >= Succ(a) THEN b - Succ(a) ELSE b - Succ(a) + IdxMod)
  BY <1>1, DistanceIs
<1>4. a \in 0 .. IdxMod - 1 /\ b \in 0 .. IdxMod - 1
  BY DEF Indices
<1> QED BY <1>1, <1>2, <1>3, <1>4, Bounds

LEMMA SamePlace ==
  ASSUME NEW a \in Indices
  PROVE  Distance(a, a) = 0
  BY DistanceIs, Bounds DEF Indices

LEMMA Between ==
  ASSUME NEW a \in Indices, NEW b \in Indices, NEW c \in Indices, Distance(a, b) <= Distance(a, c)
  PROVE  /\ Distance(b, c) = Distance(a, c) - Distance(a, b)
         /\ Distance(a, b) = Distance(a, c) => b = c
<1>1. Distance(a, b) = (IF b >= a THEN b - a ELSE b - a + IdxMod)
  BY DistanceIs
<1>2. Distance(a, c) = (IF c >= a THEN c - a ELSE c - a + IdxMod)
  BY DistanceIs
<1>3. Distance(b, c) = (IF c >= b THEN c - b ELSE c - b + IdxMod)
  BY DistanceIs
<1>4. a \in 0 .. IdxMod - 1 /\ b \in 0 .. IdxMod - 1 /\ c \in 0 .. IdxMod - 1
  BY DEF Indices
<1> QED BY <1>1, <1>2, <1>3, <1>4, Bounds

\* Slots: on from the successor, at a distance, and two at once.
LEMMA SlotOn ==
  ASSUME NEW a \in Indices, NEW k \in Nat
  PROVE  Slot(Succ(a) + k) = Slot(a + (k + 1))
<1>1. a \in Nat /\ IdxMod % QueueNum = 0
  BY SplitRingAssumption DEF Indices
<1>2. CASE a = IdxMod - 1
  <2>1. Succ(a) = 0
    BY <1>2, SuccIs
  <2>2. a + (k + 1) = IdxMod + k /\ 0 + k = k
    BY <1>2, Bounds
  <2>3. (IdxMod + k) % QueueNum = k % QueueNum
    BY <1>1, Bounds, WholeTurns
  <2> QED BY <2>1, <2>2, <2>3 DEF Slot
<1>3. CASE a # IdxMod - 1
  <2>1. Succ(a) = a + 1
    BY <1>3, SuccIs
  <2>2. (a + 1) + k = a + (k + 1)
    BY <1>1
  <2> QED BY <2>1, <2>2 DEF Slot
<1> QED BY <1>2, <1>3

LEMMA SlotAt ==
  ASSUME NEW a \in Indices, NEW b \in Indices
  PROVE  Slot(b) = Slot(a + Distance(a, b))
<1>1. a \in Nat /\ b \in Nat /\ IdxMod % QueueNum = 0
  BY SplitRingAssumption DEF Indices
<1>2. CASE b >= a
  <2>1. a + Distance(a, b) = b
    BY <1>1, <1>2, DistanceIs
  <2> QED BY <2>1
<1>3. CASE b < a
  <2>1. a + Distance(a, b) = IdxMod + b
    BY <1>1, <1>3, DistanceIs, Bounds
  <2>2. (IdxMod + b) % QueueNum = b % QueueNum
    BY <1>1, Bounds, WholeTurns
  <2> QED BY <2>1, <2>2 DEF Slot
<1> QED BY <1>1, <1>2, <1>3

LEMMA SlotsApart ==
  ASSUME NEW a \in Nat, NEW j \in Nat, NEW k \in Nat, j < k, k < QueueNum
  PROVE  Slot(a + j) # Slot(a + k)
<1>1. a + j \in Int /\ a + k \in Int /\ a + j < a + k /\ a + k < (a + j) + QueueNum
  BY Bounds
<1> QED BY <1>1, Bounds, LessThanATurn DEF Slot

\* The slots from index s up to index e hold the last of the m first values of f.
Holds(u, s, e, f, m) ==
    /\ Distance(s, e) <= m
    /\ \A i \in 1 .. Distance(s, e) : u[Slot(s + (i - 1))] = f[(m - Distance(s, e)) + i]

\* One value is added at e.
LEMMA ValueAdded ==
  ASSUME NEW u, 0 .. QueueNum - 1 \subseteq DOMAIN u, NEW s \in Indices, NEW e \in Indices,
         NEW f, NEW g, NEW m \in Nat, NEW x, Distance(s, e) < QueueNum, Holds(u, s, e, f, m),
         \A i \in 1 .. m : g[i] = f[i], g[m + 1] = x
  PROVE  Holds([u EXCEPT ![Slot(e)] = x], s, Succ(e), g, m + 1)
<1> DEFINE n == Distance(s, e)
<1>1. n \in Nat /\ n < QueueNum /\ n <= m /\ s \in Nat /\ e \in Nat
  BY DistanceIs, Bounds DEF Holds, Indices
<1>2. Distance(s, Succ(e)) = n + 1
  BY StepAhead
<1>3. Slot(e) = Slot(s + n) /\ Slot(e) \in 0 .. QueueNum - 1
  BY <1>1, SlotAt, SlotType
<1>4. \A i \in 1 .. n : u[Slot(s + (i - 1))] = f[(m - n) + i]
  BY DEF Holds
<1> HIDE DEF n
<1>5. ASSUME NEW i \in 1 .. n + 1
      PROVE  [u EXCEPT ![Slot(e)] = x][Slot(s + (i - 1))] = g[((m + 1) - (n + 1)) + i]
  <2>1. i - 1 \in Nat /\ (m + 1) - (n + 1) = m - n /\ s + (i - 1) \in Nat
    BY <1>1
  <2>2. Slot(s + (i - 1)) \in 0 .. QueueNum - 1
    BY <2>1, SlotType
  <2>3. CASE i = n + 1
    <3>1. i - 1 = n /\ (m - n) + i = m + 1
      BY <1>1, <2>3
    <3> QED BY <1>3, <2>1, <3>1
  <2>4. CASE i # n + 1
    <3>1. i \in 1 .. n /\ i - 1 < n /\ (m - n) + i \in 1 .. m
      BY <1>1, <2>4
    <3>2. Slot(s + (i - 1)) # Slot(s + n)
      BY <1>1, <2>1, <3>1, SlotsApart
    <3> QED BY <1>3, <1>4, <2>1, <2>2, <3>1, <3>2
  <2> QED BY <2>3, <2>4
<1> QED BY <1>1, <1>2, <1>5 DEF Holds

\* The value at s is taken.
LEMMA ValueTaken ==
  ASSUME NEW u, NEW s \in Indices, NEW e \in Indices, NEW f, NEW m \in Nat,
         s # e, Holds(u, s, e, f, m)
  PROVE  Holds(u, Succ(s), e, f, m) /\ u[Slot(s)] = f[(m - Distance(s, e)) + 1]
<1> DEFINE n == Distance(s, e)
<1>1. n \in Nat /\ n > 0 /\ n <= m /\ s \in Nat /\ Distance(Succ(s), e) = n - 1
  BY DistanceIs, StepBehind, Bounds DEF Holds, Indices
<1>2. \A i \in 1 .. n : u[Slot(s + (i - 1))] = f[(m - n) + i]
  BY DEF Holds
<1> HIDE DEF n
<1>3. ASSUME NEW i \in 1 .. n - 1
      PROVE  u[Slot(Succ(s) + (i - 1))] = f[(m - (n - 1)) + i]
  <2>1. i - 1 \in Nat /\ i + 1 \in 1 .. n /\ (i - 1) + 1 = (i + 1) - 1
        /\ (m - (n - 1)) + i = (m - n) + (i + 1)
    BY <1>1
  <2>2. Slot(Succ(s) + (i - 1)) = Slot(s + ((i + 1) - 1))
    BY <2>1, SlotOn
  <2> QED BY <1>2, <2>1, <2>2
<1>4. u[Slot(s)] = f[(m - n) + 1]
  <2>1. 1 \in 1 .. n /\ s + (1 - 1) = s
    BY <1>1
  <2> QED BY <1>2, <2>1
<1>5. n - 1 <= m
  BY <1>1
<1> QED BY <1>1, <1>3, <1>4, <1>5 DEF Holds, n

Ids == [i \in Nat |-> i]

LEMMA IdsAre == \A i \in Nat : Ids[i] = i
  BY DEF Ids

\* The sequence the driver would read, which is the end of f.
Shown(u, s, e) == [i \in 1 .. Distance(s, e) |-> u[Slot(s + i - 1)]]
EndOf(f, n) == SubSeq(f, Len(f) - n + 1, Len(f))

LEMMA HeldEnd ==
  ASSUME NEW u, NEW s \in Indices, NEW e \in Indices, NEW f \in Seq(Nat),
         Holds(u, s, e, f, Len(f))
  PROVE  /\ Distance(s, e) \in Nat /\ Distance(s, e) <= Len(f)
         /\ Shown(u, s, e) = EndOf(f, Distance(s, e))
<1> DEFINE n == Distance(s, e)
           m == Len(f)
           p == m - n + 1
           sub == SubSeq(f, p, m)
<1>1. m \in Nat /\ n \in Nat /\ n <= m /\ s \in Nat
  BY DistanceIs DEF Holds, Indices
<1>2. \A i \in 1 .. n : u[Slot(s + (i - 1))] = f[(m - n) + i]
  BY DEF Holds
<1>3. \A i \in 1 .. m : f[i] \in Nat
  OBVIOUS
<1> HIDE DEF n, m
<1>4. ASSUME NEW i \in 1 .. n PROVE u[Slot(s + i - 1)] = f[(m - n) + i]
  <2>1. s + (i - 1) = s + i - 1
    BY <1>1
  <2> QED BY <1>2, <2>1
<1>5. p \in Int /\ m \in Int /\ m - p + 1 = n /\ (p <= m <=> n > 0)
      /\ (\A i \in p .. m : i \in 1 .. m) /\ \A i \in 1 .. n : p + i - 1 = (m - n) + i
  BY <1>1
<1>6. \A i \in p .. m : f[i] \in Nat
  BY <1>3, <1>5
<1> HIDE DEF p
<1>7. /\ sub \in Seq(Nat) /\ Len(sub) = (IF p <= m THEN m - p + 1 ELSE 0)
      /\ \A i \in 1 .. m - p + 1 : sub[i] = f[p + i - 1]
  BY <1>5, <1>6, SubSeqProperties
<1> HIDE DEF sub
<1>8. Len(sub) = n
  BY <1>1, <1>5, <1>7
<1>9. \A i \in 1 .. n : sub[i] = f[(m - n) + i]
  BY <1>5, <1>7
<1>10. [i \in 1 .. n |-> u[Slot(s + i - 1)]] = sub
  BY <1>4, <1>7, <1>8, <1>9
<1> QED BY <1>1, <1>10 DEF Shown, EndOf, sub, p, n, m

-----------------------------------------------------------------------------
(* A queue has its driver's index s, its used index u, the device's index l *)
(* and the driver's avail index a, in this order around the ring.           *)

Window(s, u, l, a) ==
    /\ Distance(s, u) <= Distance(s, l)
    /\ Distance(s, l) <= Distance(s, a)
    /\ Distance(s, a) <= QueueNum

LEMMA WindowTaken ==
  ASSUME NEW s \in Indices, NEW u \in Indices, NEW l \in Indices, NEW a \in Indices,
         Window(s, u, l, a), s # u
  PROVE  Window(Succ(s), u, l, a)
<1>1. /\ Distance(s, u) \in Int /\ Distance(s, l) \in Int /\ Distance(s, a) \in Int
      /\ Distance(s, s) = 0
  BY DistanceIs, SamePlace DEF Indices
<1>2. Distance(s, u) > 0 /\ Distance(Succ(s), u) = Distance(s, u) - 1
  BY StepBehind
<1>3. Distance(s, l) > 0 /\ Distance(s, a) > 0
  BY <1>1, <1>2 DEF Window
<1>4. s # l /\ s # a
  BY <1>1, <1>3
<1>5. Distance(Succ(s), l) = Distance(s, l) - 1 /\ Distance(Succ(s), a) = Distance(s, a) - 1
  BY <1>4, StepBehind
<1> QED BY <1>1, <1>2, <1>5, Bounds DEF Window

LEMMA WindowPosted ==
  ASSUME NEW s \in Indices, NEW u \in Indices, NEW l \in Indices, NEW a \in Indices,
         Window(s, u, l, a), Distance(s, a) < QueueNum
  PROVE  Window(s, u, l, Succ(a))
<1>1. Distance(s, u) \in Int /\ Distance(s, l) \in Int /\ Distance(s, a) \in Int
  BY DistanceIs DEF Indices
<1>2. Distance(s, Succ(a)) = Distance(s, a) + 1
  BY StepAhead
<1> QED BY <1>1, <1>2, Bounds DEF Window

\* The device goes on, and returns the chain or not.
LEMMA WindowServed ==
  ASSUME NEW s \in Indices, NEW u \in Indices, NEW l \in Indices, NEW a \in Indices,
         Window(s, u, l, a), l # a
  PROVE  /\ Window(s, u, Succ(l), a) /\ Window(s, Succ(u), Succ(l), a)
         /\ Distance(s, u) < QueueNum /\ Distance(s, l) < QueueNum
<1>1. Distance(s, u) \in Int /\ Distance(s, l) \in Int /\ Distance(s, a) \in Int
  BY DistanceIs DEF Indices
<1>2. Distance(s, l) # Distance(s, a)
  BY Between DEF Window
<1>3. Distance(s, u) < QueueNum /\ Distance(s, l) < QueueNum
  BY <1>1, <1>2, Bounds DEF Window
<1>4. Distance(s, Succ(l)) = Distance(s, l) + 1 /\ Distance(s, Succ(u)) = Distance(s, u) + 1
  BY <1>3, StepAhead
<1> QED BY <1>1, <1>2, <1>3, <1>4, Bounds DEF Window

\* A call goes on through the chains it has seen, up to index e.
LEMMA WindowInside ==
  ASSUME NEW s \in Indices, NEW l \in Indices, NEW e \in Indices, NEW a \in Indices,
         Window(s, l, e, a), l # e
  PROVE  l # a /\ Window(s, Succ(l), e, a)
<1>0. Distance(s, l) \in Indices /\ Distance(s, e) \in Indices /\ Distance(s, a) \in Indices
  BY DistanceIs
<1>1. Distance(s, l) \in Int /\ Distance(s, e) \in Int /\ Distance(s, a) \in Int
  BY <1>0 DEF Indices
<1>2. Distance(s, l) # Distance(s, e)
  BY Between DEF Window
<1>3. Distance(s, l) < Distance(s, e) /\ Distance(s, l) < Distance(s, a) /\ Distance(s, l) < QueueNum
  BY <1>1, <1>2, Bounds DEF Window
<1>4. Distance(s, Succ(l)) = Distance(s, l) + 1
  BY <1>3, StepAhead
<1> QED BY <1>1, <1>3, <1>4 DEF Window

-----------------------------------------------------------------------------
(* Numbered things in their order.                                          *)

\* Packets in their order: d in the ring or taken from it, in waiting, of 1 .. n.
Streams(d, in, n) ==
    /\ d \in Seq(Nat) /\ in \in Seq(Nat) /\ n \in Nat
    /\ Ascending(d) /\ Ascending(in)
    /\ \A i \in 1 .. Len(d), j \in 1 .. Len(in) : d[i] < in[j]
    /\ \A i \in 1 .. Len(d) : d[i] <= n
    /\ \A j \in 1 .. Len(in) : in[j] <= n

LEMMA StreamArrives ==
  ASSUME NEW d, NEW in, NEW n, Streams(d, in, n)
  PROVE  Streams(d, Append(in, n + 1), n + 1)
<1> DEFINE b == Append(in, n + 1)
<1>1. /\ d \in Seq(Nat) /\ in \in Seq(Nat) /\ n \in Nat /\ Len(in) \in Nat /\ n + 1 \in Nat
      /\ Len(d) \in Nat /\ DOMAIN in = 1 .. Len(in)
  BY DEF Streams
<1>2. /\ b \in Seq(Nat) /\ Len(b) = Len(in) + 1 /\ DOMAIN b = 1 .. Len(in) + 1
      /\ \A k \in 1 .. Len(in) : b[k] = in[k]
      /\ b[Len(in) + 1] = n + 1
  BY <1>1
<1> HIDE DEF b
<1>3. \A k \in 1 .. Len(in) + 1 : k \in 1 .. Len(in) \/ k = Len(in) + 1
  BY <1>1
<1>4. \A k \in 1 .. Len(in) : in[k] \in Nat /\ in[k] <= n
  BY <1>1 DEF Streams
<1>5. \A k \in 1 .. Len(d) : d[k] \in Nat /\ d[k] <= n
  BY <1>1 DEF Streams
<1>6. Ascending(b)
  <2> SUFFICES ASSUME NEW i \in 1 .. Len(in) + 1, NEW j \in 1 .. Len(in) + 1, i < j PROVE b[i] < b[j]
    BY <1>2 DEF Ascending
  <2>1. i \in 1 .. Len(in)
    BY <1>1
  <2>2. CASE j \in 1 .. Len(in)
    BY <1>1, <1>2, <2>1, <2>2 DEF Streams, Ascending
  <2>3. CASE j = Len(in) + 1
    <3>1. b[i] \in Nat /\ b[i] <= n /\ b[j] = n + 1
      BY <1>2, <1>4, <2>1, <2>3
    <3> QED BY <1>1, <3>1
  <2> QED BY <1>3, <2>2, <2>3
<1>7. \A j \in 1 .. Len(b) : b[j] <= n + 1
  <2> SUFFICES ASSUME NEW j \in 1 .. Len(in) + 1 PROVE b[j] <= n + 1
    BY <1>2
  <2>1. CASE j \in 1 .. Len(in)
    <3>1. b[j] \in Nat /\ b[j] <= n
      BY <1>2, <1>4, <2>1
    <3> QED BY <1>1, <3>1
  <2>2. CASE j = Len(in) + 1
    BY <1>1, <1>2, <2>2
  <2> QED BY <1>3, <2>1, <2>2
<1>8. \A i \in 1 .. Len(d), j \in 1 .. Len(b) : d[i] < b[j]
  <2> SUFFICES ASSUME NEW i \in 1 .. Len(d), NEW j \in 1 .. Len(in) + 1 PROVE d[i] < b[j]
    BY <1>2
  <2>1. CASE j \in 1 .. Len(in)
    BY <1>2, <2>1 DEF Streams
  <2>2. CASE j = Len(in) + 1
    <3>1. d[i] \in Nat /\ d[i] <= n /\ b[j] = n + 1
      BY <1>2, <1>5, <2>2
    <3> QED BY <1>1, <3>1
  <2> QED BY <1>3, <2>1, <2>2
<1>9. \A i \in 1 .. Len(d) : d[i] <= n + 1
  BY <1>1, <1>5
<1> QED BY <1>1, <1>2, <1>6, <1>7, <1>8, <1>9 DEF Streams, b

LEMMA StreamDropped ==
  ASSUME NEW d, NEW in, NEW n, Streams(d, in, n), in # <<>>
  PROVE  Streams(d, Tail(in), n)
<1>1. /\ d \in Seq(Nat) /\ in \in Seq(Nat) /\ n \in Nat /\ Len(in) \in Nat /\ Len(in) > 0
      /\ DOMAIN in = 1 .. Len(in)
  BY DEF Streams
<1>2. /\ Tail(in) \in Seq(Nat) /\ Len(Tail(in)) = Len(in) - 1 /\ DOMAIN Tail(in) = 1 .. Len(in) - 1
      /\ \A k \in 1 .. Len(in) - 1 : Tail(in)[k] = in[k + 1]
  BY <1>1
<1>3. \A k \in 1 .. Len(in) - 1 : k + 1 \in 1 .. Len(in)
  BY <1>1
<1>4. Ascending(Tail(in))
  <2> SUFFICES ASSUME NEW i \in 1 .. Len(in) - 1, NEW j \in 1 .. Len(in) - 1, i < j
               PROVE  Tail(in)[i] < Tail(in)[j]
    BY <1>2 DEF Ascending
  <2>1. i + 1 \in DOMAIN in /\ j + 1 \in DOMAIN in /\ i + 1 < j + 1
    BY <1>1, <1>3
  <2> QED BY <1>2, <2>1 DEF Streams, Ascending
<1> QED BY <1>1, <1>2, <1>3, <1>4 DEF Streams

LEMMA StreamDelivered ==
  ASSUME NEW d, NEW in, NEW n, Streams(d, in, n), in # <<>>
  PROVE  Streams(Append(d, Head(in)), Tail(in), n)
<1> DEFINE e == Append(d, Head(in))
<1>1. /\ d \in Seq(Nat) /\ in \in Seq(Nat) /\ n \in Nat /\ Len(in) \in Nat /\ Len(in) > 0
      /\ Head(in) = in[1] /\ Len(d) \in Nat /\ in[1] \in Nat
      /\ DOMAIN in = 1 .. Len(in) /\ DOMAIN d = 1 .. Len(d)
  BY DEF Streams
<1>2. /\ Tail(in) \in Seq(Nat) /\ Len(Tail(in)) = Len(in) - 1
      /\ \A k \in 1 .. Len(in) - 1 : Tail(in)[k] = in[k + 1]
  BY <1>1
<1>3. /\ e \in Seq(Nat) /\ Len(e) = Len(d) + 1 /\ DOMAIN e = 1 .. Len(d) + 1
      /\ \A k \in 1 .. Len(d) : e[k] = d[k]
      /\ e[Len(d) + 1] = in[1]
  BY <1>1
<1> HIDE DEF e
<1>4. \A k \in 1 .. Len(d) + 1 : k \in 1 .. Len(d) \/ k = Len(d) + 1
  BY <1>1
<1>5. 1 \in 1 .. Len(in) /\ \A k \in 1 .. Len(in) - 1 : k + 1 \in 1 .. Len(in) /\ 1 < k + 1
  BY <1>1
<1>6. Ascending(e)
  <2> SUFFICES ASSUME NEW i \in 1 .. Len(d) + 1, NEW j \in 1 .. Len(d) + 1, i < j PROVE e[i] < e[j]
    BY <1>3 DEF Ascending
  <2>1. i \in 1 .. Len(d)
    BY <1>1
  <2>2. CASE j \in 1 .. Len(d)
    BY <1>1, <1>3, <2>1, <2>2 DEF Streams, Ascending
  <2>3. CASE j = Len(d) + 1
    BY <1>3, <1>5, <2>1, <2>3 DEF Streams
  <2> QED BY <1>4, <2>2, <2>3
<1>7. \A i \in 1 .. Len(e), j \in 1 .. Len(in) - 1 : e[i] < in[j + 1]
  <2> SUFFICES ASSUME NEW i \in 1 .. Len(d) + 1, NEW j \in 1 .. Len(in) - 1 PROVE e[i] < in[j + 1]
    BY <1>3
  <2>1. CASE i \in 1 .. Len(d)
    BY <1>3, <1>5, <2>1 DEF Streams
  <2>2. CASE i = Len(d) + 1
    BY <1>1, <1>3, <1>5, <2>2 DEF Streams, Ascending
  <2> QED BY <1>4, <2>1, <2>2
<1>8. \A i \in 1 .. Len(e) : e[i] <= n
  <2> SUFFICES ASSUME NEW i \in 1 .. Len(d) + 1 PROVE e[i] <= n
    BY <1>3
  <2>1. CASE i \in 1 .. Len(d)
    BY <1>3, <2>1 DEF Streams
  <2>2. CASE i = Len(d) + 1
    BY <1>3, <1>5, <2>2 DEF Streams
  <2> QED BY <1>4, <2>1, <2>2
<1>9. Streams(d, Tail(in), n)
  BY StreamDropped
<1>10. \A i \in 1 .. Len(e), j \in 1 .. Len(Tail(in)) : e[i] < Tail(in)[j]
  BY <1>2, <1>7
<1> QED BY <1>3, <1>6, <1>8, <1>9, <1>10 DEF Streams, e

\* A group arrives.
LEMMA StreamGrows ==
  ASSUME NEW d, NEW in, NEW n, Streams(d, in, n), NEW g \in Seq(Nat),
         \A k \in 1 .. Len(g) : g[k] = n + k
  PROVE  Streams(d, in \o g, n + Len(g))
<1> DEFINE b == in \o g
           l == Len(in)
<1>1. /\ d \in Seq(Nat) /\ in \in Seq(Nat) /\ n \in Nat /\ l \in Nat /\ Len(g) \in Nat
      /\ Len(d) \in Nat /\ DOMAIN in = 1 .. l /\ n + Len(g) \in Nat
  BY DEF Streams
<1>2. /\ b \in Seq(Nat) /\ Len(b) = l + Len(g) /\ DOMAIN b = 1 .. l + Len(g)
      /\ \A k \in 1 .. l + Len(g) : b[k] = IF k <= l THEN in[k] ELSE g[k - l]
  BY <1>1
<1> HIDE DEF b, l
<1>3. ASSUME NEW k \in 1 .. l + Len(g)
      PROVE  \/ k \in 1 .. l /\ b[k] = in[k]
             \/ k > l /\ b[k] = n + (k - l)
  <2>1. CASE k <= l
    BY <1>1, <1>2, <2>1
  <2>2. CASE k > l
    <3>1. k - l \in 1 .. Len(g)
      BY <1>1, <2>2
    <3>2. g[k - l] = n + (k - l) /\ ~(k <= l)
      BY <1>1, <2>2, <3>1
    <3> QED BY <1>2, <2>2, <3>2
  <2> QED BY <1>1, <2>1, <2>2
<1>4. \A k \in 1 .. l : in[k] \in Nat /\ in[k] <= n
  BY <1>1 DEF Streams, l
<1>5. \A k \in 1 .. Len(d) : d[k] \in Nat /\ d[k] <= n
  BY <1>1 DEF Streams
<1>6. Ascending(b)
  <2> SUFFICES ASSUME NEW i \in 1 .. l + Len(g), NEW j \in 1 .. l + Len(g), i < j PROVE b[i] < b[j]
    BY <1>2 DEF Ascending
  <2>1. CASE j \in 1 .. l
    <3>1. i \in DOMAIN in /\ j \in DOMAIN in /\ b[i] = in[i] /\ b[j] = in[j]
      BY <1>1, <1>3, <2>1
    <3> QED BY <3>1 DEF Streams, Ascending
  <2>2. CASE j > l
    <3>1. b[j] = n + (j - l)
      BY <1>1, <1>3, <2>2
    <3>2. CASE i \in 1 .. l
      <4>1. b[i] \in Nat /\ b[i] <= n
        BY <1>1, <1>3, <1>4, <3>2
      <4> QED BY <1>1, <2>2, <3>1, <4>1
    <3>3. CASE i > l
      <4>1. b[i] = n + (i - l)
        BY <1>1, <1>3, <3>3
      <4> QED BY <1>1, <3>1, <4>1
    <3> QED BY <1>1, <3>2, <3>3
  <2> QED BY <1>1, <2>1, <2>2
<1>7. \A j \in 1 .. Len(b) : b[j] <= n + Len(g)
  <2> SUFFICES ASSUME NEW j \in 1 .. l + Len(g) PROVE b[j] <= n + Len(g)
    BY <1>2
  <2>1. CASE j \in 1 .. l /\ b[j] = in[j]
    BY <1>1, <1>4, <2>1
  <2>2. CASE j > l /\ b[j] = n + (j - l)
    BY <1>1, <2>2
  <2> QED BY <1>3, <2>1, <2>2
<1>8. \A i \in 1 .. Len(d), j \in 1 .. Len(b) : d[i] < b[j]
  <2> SUFFICES ASSUME NEW i \in 1 .. Len(d), NEW j \in 1 .. l + Len(g) PROVE d[i] < b[j]
    BY <1>2
  <2>1. CASE j \in 1 .. l /\ b[j] = in[j]
    BY <2>1 DEF Streams, l
  <2>2. CASE j > l /\ b[j] = n + (j - l)
    BY <1>1, <1>5, <2>2
  <2> QED BY <1>3, <2>1, <2>2
<1>9. \A i \in 1 .. Len(d) : d[i] <= n + Len(g)
  BY <1>1, <1>5
<1> QED BY <1>1, <1>2, <1>6, <1>7, <1>8, <1>9 DEF Streams, b

LEMMA EmptyStream ==
  ASSUME NEW d, NEW in, NEW n, Streams(d, in, n)
  PROVE  Streams(<<>>, in, n)
  BY DEF Streams, Ascending

\* An ascending sequence of the members of S.
Lists(f, S) == f \in Seq(Nat) /\ Ascending(f) /\ {f[k] : k \in DOMAIN f} = S

LEMMA ListGrows ==
  ASSUME NEW f, NEW n \in Nat, NEW S, S \subseteq 1 .. n, Lists(f, S)
  PROVE  Lists(Append(f, n + 1), S \cup {n + 1})
<1> DEFINE b == Append(f, n + 1)
<1>1. f \in Seq(Nat) /\ Len(f) \in Nat /\ DOMAIN f = 1 .. Len(f) /\ n + 1 \in Nat
  BY DEF Lists
<1>2. /\ b \in Seq(Nat) /\ DOMAIN b = 1 .. Len(f) + 1
      /\ \A k \in 1 .. Len(f) : b[k] = f[k]
      /\ b[Len(f) + 1] = n + 1
  BY <1>1
<1> HIDE DEF b
<1>3. \A k \in 1 .. Len(f) + 1 : k \in 1 .. Len(f) \/ k = Len(f) + 1
  BY <1>1
<1>4. Len(f) + 1 \in 1 .. Len(f) + 1 /\ \A k \in 1 .. Len(f) : k \in 1 .. Len(f) + 1
  BY <1>1
<1>5. {b[k] : k \in DOMAIN b} = S \cup {n + 1}
  BY <1>1, <1>2, <1>3, <1>4 DEF Lists
<1>6. \A k \in 1 .. Len(f) : f[k] \in 1 .. n
  BY <1>1 DEF Lists
<1>7. Ascending(b)
  <2> SUFFICES ASSUME NEW i \in 1 .. Len(f) + 1, NEW j \in 1 .. Len(f) + 1, i < j PROVE b[i] < b[j]
    BY <1>2 DEF Ascending
  <2>1. i \in 1 .. Len(f)
    BY <1>1
  <2>2. CASE j \in 1 .. Len(f)
    BY <1>1, <1>2, <2>1, <2>2 DEF Lists, Ascending
  <2>3. CASE j = Len(f) + 1
    <3>1. b[i] \in 1 .. n /\ b[j] = n + 1
      BY <1>2, <1>6, <2>1, <2>3
    <3> QED BY <3>1
  <2> QED BY <1>3, <2>2, <2>3
<1> QED BY <1>2, <1>5, <1>7 DEF Lists, b

\* f ends with g.
EndsWith(f, g) ==
    /\ g \in Seq(Nat) /\ Len(g) <= Len(f)
    /\ \A k \in 1 .. Len(g) : g[k] = f[(Len(f) - Len(g)) + k]
Values(g) == {g[k] : k \in DOMAIN g}
From(S, first) == {i \in S : i >= first}

\* The end of an ascending list is what the set has from some number on.
LEMMA ListEnd ==
  ASSUME NEW f, NEW N \in Nat, NEW S, S \subseteq 1 .. N, Lists(f, S), NEW g, EndsWith(f, g)
  PROVE  /\ Ascending(g)
         /\ \E first \in 1 .. N + 1 : Values(g) = From(S, first)
<1> DEFINE m == Len(f)
           n == Len(g)
<1>1. f \in Seq(Nat) /\ m \in Nat /\ n \in Nat /\ n <= m /\ DOMAIN f = 1 .. m /\ DOMAIN g = 1 .. n
  BY DEF Lists, EndsWith
<1>2. /\ \A k \in 1 .. n : g[k] = f[(m - n) + k]
      /\ \A i, j \in 1 .. m : i < j => f[i] < f[j]
      /\ {f[k] : k \in 1 .. m} = S
  BY <1>1 DEF Lists, Ascending, EndsWith
<1> HIDE DEF m, n
<1>3. \A k \in 1 .. n : (m - n) + k \in 1 .. m
  BY <1>1
<1>4. Ascending(g)
  <2> SUFFICES ASSUME NEW i \in 1 .. n, NEW j \in 1 .. n, i < j PROVE g[i] < g[j]
    BY <1>1 DEF Ascending
  <2>1. (m - n) + i \in 1 .. m /\ (m - n) + j \in 1 .. m /\ (m - n) + i < (m - n) + j
    BY <1>1, <1>3
  <2> QED BY <1>2, <2>1
<1>5. \A k \in 1 .. m : f[k] \in 1 .. N
  BY <1>2
<1>6. CASE n = 0
  <2>1. {g[k] : k \in DOMAIN g} = {}
    BY <1>1, <1>6
  <2>2. {i \in S : i >= N + 1} = {}
    <3>1. \A i \in S : ~(i >= N + 1)
      OBVIOUS
    <3> QED BY <3>1
  <2>3. N + 1 \in 1 .. N + 1
    OBVIOUS
  <2> QED BY <1>4, <2>1, <2>2, <2>3 DEF Values, From
<1>7. CASE n > 0
  <2> DEFINE first == f[(m - n) + 1]
  <2>1. (m - n) + 1 \in 1 .. m /\ first \in 1 .. N
    BY <1>1, <1>5, <1>7
  <2>2. ASSUME NEW x \in {g[k] : k \in DOMAIN g} PROVE x \in {i \in S : i >= first}
    <3>1. PICK k \in 1 .. n : x = f[(m - n) + k] /\ (m - n) + k \in 1 .. m
      BY <1>1, <1>2, <1>3, <2>2
    <3>2. x \in S /\ x \in Nat
      BY <1>2, <1>5, <3>1
    <3>3. CASE k = 1
      BY <2>1, <3>1, <3>2, <3>3
    <3>4. CASE k > 1
      <4>1. (m - n) + 1 < (m - n) + k
        BY <1>1, <3>4
      <4>2. first < x
        BY <1>2, <2>1, <3>1, <4>1
      <4> QED BY <2>1, <3>2, <4>2
    <3> QED BY <3>3, <3>4
  <2>3. ASSUME NEW x \in {i \in S : i >= first} PROVE x \in {g[k] : k \in DOMAIN g}
    <3>1. PICK j \in 1 .. m : x = f[j]
      BY <1>2, <2>3
    <3>2. x \in Nat /\ x >= first
      BY <1>5, <2>3, <3>1
    <3>3. j >= (m - n) + 1
      <4> SUFFICES ASSUME j < (m - n) + 1 PROVE FALSE
        BY <1>1, <3>1
      <4>1. x < first
        BY <1>2, <2>1, <3>1
      <4> QED BY <2>1, <3>2, <4>1
    <3>4. j - (m - n) \in 1 .. n /\ (m - n) + (j - (m - n)) = j
      BY <1>1, <3>1, <3>3
    <3>5. g[j - (m - n)] = x
      BY <1>2, <3>1, <3>4
    <3> QED BY <1>1, <3>4, <3>5
  <2>4. first \in 1 .. N + 1
    BY <2>1
  <2> HIDE DEF first
  <2>5. Values(g) = From(S, first)
    BY <2>2, <2>3 DEF Values, From
  <2> QED BY <1>4, <2>4, <2>5
<1>8. n = 0 \/ n > 0
  BY <1>1
<1> QED BY <1>6, <1>7, <1>8
=============================================================================
