---------------------------- MODULE ServiceProofs ----------------------------
(***************************************************************************)
(* Proofs about what the machine serves to its guest: a start that         *)
(* succeeds is not lost (Hsm), the console loses and invents nothing       *)
(* (Console), and files are stored as they were written (P9), for any      *)
(* number of harts and fids.                                               *)
(***************************************************************************)
EXTENDS Hsm, Console, P9, TLAPS

-----------------------------------------------------------------------------
(* Hart states.  StartHolds is not inductive: what a hart in the middle of *)
(* hart_start has still to do, and that a hart which was started is not in *)
(* the middle of its own stop, must be known as well.                      *)


States == {"STARTED", "STOPPED", "START_PENDING", "STOP_PENDING", "SUSPENDED", "SUSPEND_PENDING"}
Calls ==
    {NoCall} \cup [fn : {"mark"}, to : HsmHarts]
        \cup [fn : {"wake"}, to : HsmHarts] \cup [fn : Leaving]

Typed ==
    /\ hstate \in [HsmHarts -> States]
    /\ sbiCall \in [HsmHarts -> Calls]
    /\ ipis \subseteq HsmHarts
    /\ clean \subseteq HsmHarts
    /\ holds \subseteq HsmHarts

\* t was marked after its last stop, and is not stopping.
Marked(t) == hstate[t] = "START_PENDING" /\ sbiCall[t].fn \notin Leaving

\* A start that has not met a stop so far has marked its target.
CleanStarts ==
    \A h \in clean : sbiCall[h].fn = "wake" => Marked(sbiCall[h].to)

\* A hart whose start holds is marked, and woken or about to be.
Woken(t) == t \in ipis \/ \E h \in HsmHarts : sbiCall[h].fn = "wake" /\ sbiCall[h].to = t
HeldStarts == \A t \in holds : Marked(t) /\ Woken(t)

HsmInv == Typed /\ CleanStarts /\ HeldStarts

-----------------------------------------------------------------------------
LEMMA InitHolds == HsmInit => HsmInv
  BY DEF HsmInit, HsmInv, States, Typed, CleanStarts, HeldStarts, Calls, NoCall

\* What a hart in a call knows about it.
LEMMA CallShape ==
  ASSUME Typed, NEW h \in HsmHarts
  PROVE  /\ sbiCall[h] \in Calls
         /\ sbiCall[h].fn = "mark" => sbiCall[h] \in [fn : {"mark"}, to : HsmHarts]
         /\ sbiCall[h].fn = "wake" =>
              sbiCall[h] \in [fn : {"wake"}, to : HsmHarts]
  BY DEF Typed, Calls, NoCall, Leaving

LEMMA StartStep ==
  ASSUME HsmInv, NEW h \in HsmHarts, NEW t \in HsmHarts, HartStart(h, t)
  PROVE  HsmInv'
<1> USE DEF HsmInv, Marked, Woken, States
<1>1. sbiCall' \in [HsmHarts -> Calls]
  BY DEF HartStart, Typed, Calls
<1>2. \A g \in HsmHarts : g # h => sbiCall'[g] = sbiCall[g]
  BY DEF HartStart, Typed
<1>3. sbiCall'[h].fn = "mark" /\ sbiCall[h].fn = "none"
  BY DEF HartStart, Typed, NoCall
<1>4. Typed'
  BY <1>1 DEF HartStart, Typed
<1>5. \A u \in HsmHarts : Marked(u) => Marked(u)'
  BY <1>2, <1>3 DEF HartStart, Marked, Leaving
<1>6. CleanStarts'
  BY <1>2, <1>3, <1>5, CallShape DEF CleanStarts, HartStart, Typed
<1>7. HeldStarts'
  BY <1>2, <1>3, <1>5 DEF HeldStarts, HartStart, Typed, Woken
<1> QED BY <1>4, <1>6, <1>7

LEMMA MarkStep ==
  ASSUME HsmInv, NEW h \in HsmHarts, MarkStarting(h)
  PROVE  HsmInv'
<1> USE DEF HsmInv, Marked, Woken, States
<1> DEFINE t == sbiCall[h].to
<1>1. t \in HsmHarts
  BY CallShape DEF MarkStarting
<1>2. /\ sbiCall'[h] = [fn |-> "wake", to |-> t]
      /\ \A g \in HsmHarts : g # h => sbiCall'[g] = sbiCall[g]
      /\ hstate'[t] = "START_PENDING"
      /\ \A g \in HsmHarts : g # t => hstate'[g] = hstate[g]
  BY <1>1 DEF MarkStarting, Typed
<1>3. sbiCall[h].fn = "mark"
  BY DEF MarkStarting
<1>4. Typed'
  <2>1. sbiCall'[h] \in Calls
    BY <1>1, <1>2 DEF Calls
  <2> QED BY <2>1, <1>1 DEF MarkStarting, Typed
<1>5. \A u \in HsmHarts : Marked(u) => Marked(u)'
  BY <1>1, <1>2 DEF Marked, Leaving
<1>6. h \in clean' => Marked(t)'
  BY <1>1, <1>2, <1>3 DEF Marked, Leaving, MarkStarting
<1>7. CleanStarts'
  <2> SUFFICES ASSUME NEW g \in clean', sbiCall'[g].fn = "wake"
               PROVE  Marked(sbiCall[g].to)'
    BY DEF CleanStarts
  <2>1. CASE g = h
    BY <1>2, <1>6, <2>1
  <2>2. CASE g # h
    BY <1>2, <1>5, <2>2, CallShape DEF CleanStarts, MarkStarting, Typed
  <2> QED BY <2>1, <2>2
<1>8. HeldStarts'
  <2> SUFFICES ASSUME NEW u \in holds PROVE Marked(u)' /\ Woken(u)'
    BY DEF HeldStarts, MarkStarting
  <2>1. Marked(u)'
    BY <1>5 DEF HeldStarts, Typed
  <2>2. CASE u = t
    BY <1>2, <2>1, <2>2
  <2>3. CASE u # t
    BY <1>2, <1>3, <2>1, <2>3 DEF HeldStarts, MarkStarting
  <2> QED BY <2>1, <2>2, <2>3
<1> QED BY <1>4, <1>7, <1>8

LEMMA WakeStep ==
  ASSUME HsmInv, NEW h \in HsmHarts, WakeTarget(h)
  PROVE  HsmInv'
<1> USE DEF HsmInv, Marked, Woken, States
<1> DEFINE t == sbiCall[h].to
<1>1. t \in HsmHarts /\ sbiCall[h].fn = "wake"
  BY CallShape DEF WakeTarget
<1>2. /\ sbiCall'[h].fn = "none"
      /\ \A g \in HsmHarts : g # h => sbiCall'[g] = sbiCall[g]
  BY DEF WakeTarget, Return, NoCall, Typed
<1>3. Typed'
  BY <1>1 DEF WakeTarget, Return, Typed, Calls
<1>4. \A u \in HsmHarts : Marked(u) => Marked(u)'
  BY <1>2 DEF Marked, Leaving, WakeTarget
<1>5. CleanStarts'
  BY <1>2, <1>4, CallShape DEF CleanStarts, WakeTarget, Typed
<1>6. HeldStarts'
  <2> SUFFICES ASSUME NEW u \in holds' PROVE Marked(u)' /\ Woken(u)'
    BY DEF HeldStarts
  <2>1. u \in holds \/ (u = t /\ h \in clean)
    BY DEF WakeTarget
  <2>2. u \in HsmHarts /\ Marked(u)
    BY <1>1, <2>1 DEF CleanStarts, HeldStarts, Typed
  <2>3. CASE u = t
    BY <1>4, <2>2, <2>3 DEF WakeTarget
  <2>4. CASE u # t
    BY <1>2, <1>4, <2>1, <2>2, <2>4 DEF HeldStarts, WakeTarget
  <2> QED BY <1>4, <2>2, <2>3, <2>4
<1> QED BY <1>3, <1>5, <1>6

LEMMA LeaveStep ==
  ASSUME HsmInv, NEW h \in HsmHarts, NEW p \in Leaving, LeaveHart(h, p)
  PROVE  HsmInv'
<1> USE DEF HsmInv, Marked, Woken, States
<1>1. /\ sbiCall[h].fn = "none" /\ sbiCall'[h].fn = p
      /\ \A g \in HsmHarts : g # h => hstate'[g] = hstate[g] /\ sbiCall'[g] = sbiCall[g]
  BY DEF LeaveHart, NoCall, Typed
<1>2. Typed'
  <2>1. [fn |-> p] \in Calls /\ p \in States
    BY DEF Calls, Leaving
  <2>2. hstate' \in [HsmHarts -> States] /\ sbiCall' \in [HsmHarts -> Calls]
    BY <2>1 DEF LeaveHart, Typed
  <2> QED BY <2>2 DEF LeaveHart, Typed
<1>3. \A u \in HsmHarts : u # h /\ Marked(u) => Marked(u)'
  BY <1>1 DEF Marked
<1>4. CleanStarts'
  <2> SUFFICES ASSUME NEW g \in clean', sbiCall'[g].fn = "wake"
               PROVE  Marked(sbiCall[g].to)'
    BY DEF CleanStarts
  <2>1. g \in clean /\ g \in HsmHarts /\ g # h
    BY <1>1 DEF LeaveHart, Typed, Leaving
  <2>2. sbiCall'[g] = sbiCall[g] /\ sbiCall[g].to # h
    BY <1>1, <2>1 DEF LeaveHart
  <2>3. sbiCall[g].to \in HsmHarts /\ Marked(sbiCall[g].to)
    BY <2>1, <2>2, CallShape DEF CleanStarts
  <2> QED BY <1>3, <2>2, <2>3
<1>5. HeldStarts'
  <2> SUFFICES ASSUME NEW u \in holds \ {h} PROVE Marked(u)' /\ Woken(u)'
    BY DEF HeldStarts, LeaveHart
  <2>1. u \in HsmHarts /\ Marked(u) /\ Woken(u)
    BY DEF HeldStarts, Typed
  <2>2. Woken(u)'
    BY <1>1, <2>1 DEF Woken, LeaveHart
  <2> QED BY <1>3, <2>1, <2>2
<1> QED BY <1>2, <1>4, <1>5

LEMMA LeftStep ==
  ASSUME HsmInv, NEW h \in HsmHarts, Left(h)
  PROVE  HsmInv'
<1> USE DEF HsmInv, Marked, Woken, States
<1>1. /\ sbiCall[h].fn \in Leaving /\ sbiCall'[h].fn = "none"
      /\ \A g \in HsmHarts : g # h => sbiCall'[g] = sbiCall[g] /\ hstate'[g] = hstate[g]
  BY DEF Left, Return, NoCall, Typed
<1>2. Typed'
  BY DEF Left, Return, Typed, Calls
<1>3. \A u \in HsmHarts : Marked(u) => u # h /\ Marked(u)'
  BY <1>1 DEF Marked
<1>4. CleanStarts'
  BY <1>1, <1>3, CallShape DEF CleanStarts, Left, Typed
<1>5. HeldStarts'
  <2> SUFFICES ASSUME NEW u \in holds PROVE Marked(u)' /\ Woken(u)'
    BY DEF HeldStarts, Left
  <2>1. Marked(u)'
    BY <1>3 DEF HeldStarts, Typed
  <2>2. Woken(u)'
    BY <1>1 DEF HeldStarts, Woken, Left, Leaving
  <2> QED BY <2>1, <2>2
<1> QED BY <1>2, <1>4, <1>5

-----------------------------------------------------------------------------
\* A start answered with success is not undone by concurrent starts, stops and
\* suspends of any number of harts (hart_start, hart_stop, hart_suspend).
THEOREM StartsHold == HsmSpec => []StartHolds
<1>1. HsmInv /\ [HsmNext]_hsmVars => HsmInv'
  <2> SUFFICES ASSUME HsmInv, [HsmNext]_hsmVars PROVE HsmInv'
    OBVIOUS
  <2>1. CASE UNCHANGED hsmVars
    BY <2>1 DEF hsmVars, HsmInv, Typed, CleanStarts, HeldStarts, Marked, Woken
  <2>2. CASE HsmNext
    <3> PICK h \in HsmHarts :
              \/ MarkStarting(h) \/ WakeTarget(h) \/ HartStop(h) \/ HartSuspend(h) \/ Left(h)
              \/ \E t \in HsmHarts : HartStart(h, t)
      BY <2>2 DEF HsmNext
    <3>1. HartStop(h) => LeaveHart(h, "STOP_PENDING")
      BY DEF HartStop
    <3>2. HartSuspend(h) => LeaveHart(h, "SUSPEND_PENDING")
      BY DEF HartSuspend
    <3>3. "STOP_PENDING" \in Leaving /\ "SUSPEND_PENDING" \in Leaving
      BY DEF Leaving
    <3> QED BY <3>1, <3>2, <3>3, StartStep, MarkStep, WakeStep, LeaveStep, LeftStep
  <2> QED BY <2>1, <2>2
<1>2. HsmInv => StartHolds
  BY DEF HsmInv, Typed, HeldStarts, Woken, Marked, StartHolds, BeingMarked
<1> QED BY InitHolds, <1>1, <1>2, PTL DEF HsmSpec

-----------------------------------------------------------------------------
(* The console.  ConsoleExact is not inductive: that a hart which saw LSR   *)
(* data ready finds it, unless another access came between, must be added.  *)

Flags == dataReady \in BOOLEAN /\ thre \in BOOLEAN /\ phantom \in BOOLEAN
SbiTyped == sbi \in [ConsoleHarts -> {Inactive} \cup [at : {"lsr", "rbr", "thr"}, left : Int]]

\* A hart between LSR and RBR has a key to take if nobody intruded.
DataWaits == \A h \in ConsoleHarts : sbi[h].at = "rbr" /\ h \notin intruded => rx # <<>>

\* One FIFO s behind what has left it: all in order, all of 1 .. n, with what was
\* dropped.
Exact(done, s, dropped, n) == Increasing(done \o s) /\ Fifo(done \o s) \cup dropped = 1 .. n

Input == rx \in Seq(Nat) /\ got \in Seq(Nat) /\ keys \in Nat /\ Exact(got, rx, lostKeys, keys)
Output == tx \in Seq(Nat) /\ shown \in Seq(Nat) /\ sent \in Nat /\ Exact(shown, tx, cleared, sent)

ConsoleInv == Flags /\ SbiTyped /\ DataWaits /\ Input /\ Output /\ ~phantom /\ SignalsExact

\* An element of done \o s is one of done or one of s.
LEMMA Joined ==
  ASSUME NEW s \in Seq(Nat), NEW t \in Seq(Nat)
  PROVE  /\ Len(s \o t) = Len(s) + Len(t) /\ s \o t \in Seq(Nat)
         /\ \A k \in 1 .. Len(s) : (s \o t)[k] = s[k]
         /\ \A k \in 1 .. Len(t) : (s \o t)[Len(s) + k] = t[k]
         /\ DOMAIN (s \o t) = 1 .. Len(s) + Len(t)
         /\ Fifo(s \o t) = Fifo(s) \cup Fifo(t)
<1>1. /\ Len(s \o t) = Len(s) + Len(t) /\ s \o t \in Seq(Nat)
      /\ DOMAIN (s \o t) = 1 .. Len(s) + Len(t)
      /\ Len(s) \in Nat /\ Len(t) \in Nat
      /\ DOMAIN s = 1 .. Len(s) /\ DOMAIN t = 1 .. Len(t)
  OBVIOUS
<1>2. \A k \in 1 .. Len(s) : (s \o t)[k] = s[k]
  OBVIOUS
<1>3. \A k \in 1 .. Len(t) : (s \o t)[Len(s) + k] = t[k]
  OBVIOUS
<1>4. ASSUME NEW x \in Fifo(s \o t) PROVE x \in Fifo(s) \cup Fifo(t)
  <2>1. PICK k \in 1 .. Len(s) + Len(t) : x = (s \o t)[k]
    BY <1>1 DEF Fifo
  <2>2. CASE k <= Len(s)
    BY <1>1, <1>2, <2>1, <2>2 DEF Fifo
  <2>3. CASE k > Len(s)
    <3>1. k - Len(s) \in 1 .. Len(t) /\ Len(s) + (k - Len(s)) = k
      BY <1>1, <2>3
    <3> QED BY <1>1, <1>3, <2>1, <3>1 DEF Fifo
  <2> QED BY <1>1, <2>2, <2>3
<1>5. ASSUME NEW x \in Fifo(s) PROVE x \in Fifo(s \o t)
  <2>1. PICK k \in 1 .. Len(s) : x = s[k]
    BY <1>1 DEF Fifo
  <2>2. k \in 1 .. Len(s) + Len(t)
    BY <1>1
  <2> QED BY <1>1, <1>2, <2>1, <2>2 DEF Fifo
<1>6. ASSUME NEW x \in Fifo(t) PROVE x \in Fifo(s \o t)
  <2>1. PICK k \in 1 .. Len(t) : x = t[k]
    BY <1>1 DEF Fifo
  <2>2. Len(s) + k \in 1 .. Len(s) + Len(t)
    BY <1>1
  <2> QED BY <1>1, <1>3, <2>1, <2>2 DEF Fifo
<1> QED BY <1>1, <1>2, <1>3, <1>4, <1>5, <1>6

LEMMA FifoOf ==
  ASSUME NEW t \in Seq(Nat)
  PROVE  /\ \A n \in Nat : Append(t, n) \in Seq(Nat) /\ Fifo(Append(t, n)) = Fifo(t) \cup {n}
         /\ t # <<>> => /\ Tail(t) \in Seq(Nat) /\ Head(t) \in Nat
                        /\ Fifo(t) = {Head(t)} \cup Fifo(Tail(t))
         /\ Fifo(<<>>) = {}
<1>1. ASSUME NEW n \in Nat
      PROVE  Append(t, n) \in Seq(Nat) /\ Fifo(Append(t, n)) = Fifo(t) \cup {n}
  <2>1. /\ Append(t, n) \in Seq(Nat) /\ DOMAIN Append(t, n) = 1 .. Len(t) + 1
        /\ DOMAIN t = 1 .. Len(t) /\ Len(t) \in Nat
        /\ \A k \in 1 .. Len(t) : Append(t, n)[k] = t[k]
        /\ Append(t, n)[Len(t) + 1] = n
    OBVIOUS
  <2>2. \A k \in 1 .. Len(t) + 1 : k \in 1 .. Len(t) \/ k = Len(t) + 1
    BY <2>1
  <2>3. Len(t) + 1 \in 1 .. Len(t) + 1 /\ \A k \in 1 .. Len(t) : k \in 1 .. Len(t) + 1
    BY <2>1
  <2> QED BY <2>1, <2>2, <2>3 DEF Fifo
<1>2. ASSUME t # <<>>
      PROVE  /\ Tail(t) \in Seq(Nat) /\ Head(t) \in Nat
             /\ Fifo(t) = {Head(t)} \cup Fifo(Tail(t))
  <2>1. /\ Tail(t) \in Seq(Nat) /\ Head(t) = t[1] /\ Head(t) \in Nat
        /\ DOMAIN t = 1 .. Len(t) /\ Len(t) \in Nat /\ Len(t) > 0
        /\ DOMAIN Tail(t) = 1 .. Len(t) - 1
        /\ \A k \in 1 .. Len(t) - 1 : Tail(t)[k] = t[k + 1]
    BY <1>2
  <2>2. ASSUME NEW k \in 1 .. Len(t), k # 1 PROVE t[k] \in Fifo(Tail(t))
    <3>1. k - 1 \in 1 .. Len(t) - 1 /\ (k - 1) + 1 = k
      BY <2>1, <2>2
    <3> QED BY <2>1, <3>1 DEF Fifo
  <2>3. ASSUME NEW k \in 1 .. Len(t) - 1 PROVE Tail(t)[k] \in Fifo(t)
    <3>1. k + 1 \in 1 .. Len(t)
      BY <2>1
    <3> QED BY <2>1, <3>1 DEF Fifo
  <2>4. 1 \in 1 .. Len(t)
    BY <2>1
  <2> QED BY <2>1, <2>2, <2>3, <2>4 DEF Fifo
<1>3. Fifo(<<>>) = {}
  BY DEF Fifo
<1> QED BY <1>1, <1>2, <1>3

\* What the operations on a FIFO do to its exactness.
LEMMA Delivered ==
  ASSUME NEW s \in Seq(Nat), NEW t \in Seq(Nat), t # <<>>
  PROVE  Append(s, Head(t)) \o Tail(t) = s \o t
<1> DEFINE a == Append(s, Head(t))
<1>1. /\ a \in Seq(Nat) /\ Len(a) = Len(s) + 1 /\ Tail(t) \in Seq(Nat)
      /\ Len(Tail(t)) = Len(t) - 1 /\ Len(s) \in Nat /\ Len(t) \in Nat /\ Len(t) > 0
      /\ \A k \in 1 .. Len(s) : a[k] = s[k]
      /\ a[Len(s) + 1] = t[1]
      /\ \A k \in 1 .. Len(t) - 1 : Tail(t)[k] = t[k + 1]
  OBVIOUS
<1> HIDE DEF a
<1>2. /\ a \o Tail(t) \in Seq(Nat) /\ Len(a \o Tail(t)) = Len(s) + Len(t)
      /\ s \o t \in Seq(Nat) /\ Len(s \o t) = Len(s) + Len(t)
  <2>1. Len(a) + Len(Tail(t)) = Len(s) + Len(t)
    BY <1>1
  <2>2. a \o Tail(t) \in Seq(Nat) /\ Len(a \o Tail(t)) = Len(a) + Len(Tail(t))
    BY <1>1, Joined
  <2>3. s \o t \in Seq(Nat) /\ Len(s \o t) = Len(s) + Len(t)
    BY Joined
  <2> QED BY <2>1, <2>2, <2>3
<1>3. ASSUME NEW k \in 1 .. Len(s) + Len(t)
      PROVE  (a \o Tail(t))[k] = (s \o t)[k]
  <2>1. CASE k \in 1 .. Len(s)
    <3>1. k \in 1 .. Len(a)
      BY <1>1, <2>1
    <3> QED BY <1>1, <2>1, <3>1, Joined
  <2>2. CASE k = Len(s) + 1
    <3>1. k \in 1 .. Len(a) /\ 1 \in 1 .. Len(t)
      BY <1>1, <2>2
    <3> QED BY <1>1, <2>2, <3>1, Joined
  <2>3. CASE k > Len(s) + 1
    <3> DEFINE j == k - (Len(s) + 1)
    <3>1. /\ j \in 1 .. Len(Tail(t)) /\ j \in 1 .. Len(t) - 1 /\ j + 1 \in 1 .. Len(t)
          /\ k = Len(a) + j /\ k = Len(s) + (j + 1)
      BY <1>1, <2>3
    <3> HIDE DEF j
    <3>2. (a \o Tail(t))[k] = Tail(t)[j]
      BY <1>1, <3>1, Joined
    <3>3. (s \o t)[k] = t[j + 1]
      BY <1>1, <3>1, Joined
    <3> QED BY <1>1, <3>1, <3>2, <3>3
  <2> QED BY <1>1, <2>1, <2>2, <2>3
<1> QED BY <1>1, <1>2, <1>3 DEF a

LEMMA Pushed ==
  ASSUME NEW s \in Seq(Nat), NEW t \in Seq(Nat), NEW dropped, NEW n \in Nat, Exact(s, t, dropped, n)
  PROVE  Exact(s, Append(t, n + 1), dropped, n + 1)
<1> DEFINE u == Append(t, n + 1)
<1>1. /\ u \in Seq(Nat) /\ Len(u) = Len(t) + 1 /\ Len(t) \in Nat /\ Len(s) \in Nat
      /\ \A k \in 1 .. Len(t) : u[k] = t[k]
      /\ u[Len(t) + 1] = n + 1
  OBVIOUS
<1>2. Fifo(u) = Fifo(t) \cup {n + 1}
  BY FifoOf
<1> HIDE DEF u
<1>3. Fifo(s \o u) \cup dropped = 1 .. n + 1
  <2>1. Fifo(s \o u) = Fifo(s \o t) \cup {n + 1}
    BY <1>1, <1>2, Joined
  <2>2. 1 .. n + 1 = (1 .. n) \cup {n + 1}
    OBVIOUS
  <2> QED BY <2>1, <2>2 DEF Exact
<1>4. ASSUME NEW k \in 1 .. Len(s) + Len(t)
      PROVE  (s \o u)[k] = (s \o t)[k] /\ (s \o t)[k] \in 1 .. n
  <2>1. (s \o t)[k] \in 1 .. n
    BY Joined DEF Exact, Fifo
  <2>2. CASE k \in 1 .. Len(s)
    BY <1>1, <2>1, <2>2, Joined
  <2>3. CASE k > Len(s)
    <3>1. k - Len(s) \in 1 .. Len(t) /\ Len(s) + (k - Len(s)) = k /\ k - Len(s) \in 1 .. Len(u)
      BY <1>1, <2>3
    <3>2. (s \o u)[k] = u[k - Len(s)] /\ (s \o t)[k] = t[k - Len(s)]
      BY <1>1, <3>1, Joined
    <3>3. u[k - Len(s)] = t[k - Len(s)]
      BY <1>1, <3>1
    <3> QED BY <2>1, <3>2, <3>3, Zenon
  <2>4. k \in 1 .. Len(s) \/ k > Len(s)
    <3>1. Len(s) \in Nat /\ k \in Int /\ 1 <= k
      BY <1>1
    <3> QED BY <3>1
  <2> QED BY <2>2, <2>3, <2>4, Zenon
<1>5. (s \o u)[Len(s) + Len(t) + 1] = n + 1
  <2>1. Len(t) + 1 \in 1 .. Len(u) /\ Len(s) + (Len(t) + 1) = Len(s) + Len(t) + 1
    BY <1>1
  <2> QED BY <1>1, <2>1, Joined
<1>6. Increasing(s \o u)
  <2>1. DOMAIN (s \o u) = 1 .. Len(s) + Len(t) + 1 /\ DOMAIN (s \o t) = 1 .. Len(s) + Len(t)
    <3>1. Len(s) + Len(u) = Len(s) + Len(t) + 1
      BY <1>1
    <3> QED BY <1>1, <3>1, Joined
  <2> SUFFICES ASSUME NEW i \in 1 .. Len(s) + Len(t) + 1, NEW j \in 1 .. Len(s) + Len(t) + 1, i < j
               PROVE  (s \o u)[i] < (s \o u)[j]
    BY <2>1 DEF Increasing
  <2>2. i \in 1 .. Len(s) + Len(t)
    BY <1>1
  <2>3. CASE j \in 1 .. Len(s) + Len(t)
    BY <1>4, <2>1, <2>2, <2>3 DEF Exact, Increasing
  <2>4. CASE j = Len(s) + Len(t) + 1
    <3>1. (s \o u)[i] \in 1 .. n
      BY <1>4, <2>2
    <3>2. (s \o u)[j] = n + 1
      BY <1>5, <2>4
    <3>3. \A x \in 1 .. n : x < n + 1
      OBVIOUS
    <3> QED BY <3>1, <3>2, <3>3
  <2>5. j \in 1 .. Len(s) + Len(t) \/ j = Len(s) + Len(t) + 1
    <3>1. Len(s) + Len(t) \in Nat
      BY <1>1
    <3>2. \A m \in Nat : \A x \in 1 .. m + 1 : x \in 1 .. m \/ x = m + 1
      OBVIOUS
    <3> QED BY <3>1, <3>2
  <2> QED BY <2>3, <2>4, <2>5
<1> QED BY <1>3, <1>6 DEF Exact, u

LEMMA Dropped ==
  ASSUME NEW s \in Seq(Nat), NEW t \in Seq(Nat), NEW dropped, NEW n \in Nat,
         Exact(s, t, dropped, n), t # <<>>
  PROVE  Exact(s, Tail(t), dropped \cup {Head(t)}, n)
<1>1. /\ Tail(t) \in Seq(Nat) /\ Len(Tail(t)) = Len(t) - 1 /\ Len(s) \in Nat /\ Len(t) \in Nat
      /\ Len(t) > 0
      /\ \A k \in 1 .. Len(t) - 1 : Tail(t)[k] = t[k + 1]
  OBVIOUS
<1>2. Fifo(s \o Tail(t)) \cup (dropped \cup {Head(t)}) = 1 .. n
  <2>1. Fifo(s \o t) = Fifo(s) \cup Fifo(t) /\ Fifo(s \o Tail(t)) = Fifo(s) \cup Fifo(Tail(t))
    BY <1>1, Joined
  <2>2. Fifo(t) = {Head(t)} \cup Fifo(Tail(t))
    BY FifoOf
  <2> QED BY <2>1, <2>2 DEF Exact
<1> DEFINE Old(k) == IF k <= Len(s) THEN k ELSE k + 1
<1>3. ASSUME NEW k \in 1 .. Len(s) + Len(t) - 1
      PROVE  Old(k) \in 1 .. Len(s) + Len(t) /\ (s \o Tail(t))[k] = (s \o t)[Old(k)]
  <2>1. CASE k \in 1 .. Len(s)
    <3>1. Old(k) = k /\ k \in 1 .. Len(s) + Len(t)
      BY <1>1, <2>1
    <3> QED BY <1>1, <2>1, <3>1, Joined
  <2>2. CASE k > Len(s)
    <3> DEFINE j == k - Len(s)
    <3>1. /\ j \in 1 .. Len(Tail(t)) /\ j \in 1 .. Len(t) - 1 /\ j + 1 \in 1 .. Len(t)
          /\ k = Len(s) + j /\ Old(k) = Len(s) + (j + 1) /\ Old(k) \in 1 .. Len(s) + Len(t)
      BY <1>1, <2>2
    <3> HIDE DEF j, Old
    <3>2. (s \o Tail(t))[k] = Tail(t)[j]
      BY <1>1, <3>1, Joined
    <3>3. (s \o t)[Old(k)] = t[j + 1]
      BY <1>1, <3>1, Joined
    <3> QED BY <1>1, <3>1, <3>2, <3>3
  <2> QED BY <1>1, <2>1, <2>2
<1>4. Increasing(s \o Tail(t))
  <2>1. DOMAIN (s \o Tail(t)) = 1 .. Len(s) + Len(t) - 1 /\ DOMAIN (s \o t) = 1 .. Len(s) + Len(t)
    <3>1. Len(s) + Len(Tail(t)) = Len(s) + Len(t) - 1
      BY <1>1
    <3> QED BY <1>1, <3>1, Joined
  <2> SUFFICES ASSUME NEW i \in 1 .. Len(s) + Len(t) - 1, NEW j \in 1 .. Len(s) + Len(t) - 1, i < j
               PROVE  (s \o Tail(t))[i] < (s \o Tail(t))[j]
    BY <2>1 DEF Increasing
  <2>2. Old(i) < Old(j)
    BY <1>1
  <2> HIDE DEF Old
  <2> QED BY <1>3, <2>1, <2>2 DEF Exact, Increasing
<1> QED BY <1>2, <1>4 DEF Exact

LEMMA Emptied ==
  ASSUME NEW s \in Seq(Nat), NEW t \in Seq(Nat), NEW dropped, NEW n \in Nat, Exact(s, t, dropped, n)
  PROVE  Exact(s, <<>>, dropped \cup Fifo(t), n)
<1>1. /\ <<>> \in Seq(Nat) /\ Len(s) \in Nat /\ Len(t) \in Nat /\ Len(s) + 0 = Len(s)
      /\ s \o <<>> = s /\ DOMAIN s = 1 .. Len(s)
  OBVIOUS
<1>2. Fifo(s \o <<>>) \cup (dropped \cup Fifo(t)) = 1 .. n
  BY <1>1, Joined DEF Exact
<1>3. Increasing(s)
  <2> SUFFICES ASSUME NEW i \in 1 .. Len(s), NEW j \in 1 .. Len(s), i < j
               PROVE  s[i] < s[j]
    BY <1>1 DEF Increasing
  <2>1. i \in 1 .. Len(s) + Len(t) /\ j \in 1 .. Len(s) + Len(t)
    BY <1>1
  <2>2. (s \o t)[i] < (s \o t)[j]
    BY <2>1, Joined DEF Exact, Increasing
  <2> QED BY <2>2, Joined
<1> QED BY <1>1, <1>2, <1>3 DEF Exact

LEMMA ConsoleParts ==
  ConsoleInv => ConsoleExact
BY DEF ConsoleInv, ConsoleExact, StreamsExact, Input, Output, Exact

\* Recomputed interrupts are right whatever was left over from before.
LEMMA Computed ==
  ASSUME UpdateInterrupts, dataReady' \in BOOLEAN, thre' \in BOOLEAN, dataReady' <=> rx' # <<>>
  PROVE  SignalsExact'
BY DEF UpdateInterrupts, SignalsExact, Cause

\* Reading RBR, by the guest or by console_read or console_getchar.
LEMMA RbrRead ==
  ASSUME ConsoleInv, NEW h \in ConsoleHarts, NEW delivered \in BOOLEAN, ReadRbr(h, delivered),
         sbi[h] = Inactive \/ sbi[h].at = "rbr", UNCHANGED keys
  PROVE  /\ Flags' /\ Input' /\ ~phantom' /\ SignalsExact'
         /\ \A g \in ConsoleHarts \ {h} : sbi[g].at = "rbr" /\ g \notin intruded' => rx' # <<>>
<1> USE DEF ConsoleInv
<1>1. CASE dlab
  BY <1>1 DEF ReadRbr, Flags, Input, SignalsExact, Cause, DataWaits
<1>2. CASE ~dlab
  <2>1. ~phantom' /\ phantom' \in BOOLEAN
    <3>1. rx = <<>> /\ sbi[h] # Inactive => h \in intruded
      BY DEF DataWaits
    <3> QED BY <1>2, <3>1 DEF ReadRbr, Flags
  <2>2. Flags' /\ (dataReady' <=> rx' # <<>>)
    BY <1>2, <2>1 DEF ReadRbr, Pop, Flags, SignalsExact
  <2>3. SignalsExact'
    BY <1>2, <2>2, Computed DEF ReadRbr, Flags
  <2>4. \A g \in ConsoleHarts \ {h} : ~(sbi[g].at = "rbr" /\ g \notin intruded')
    BY <1>2 DEF ReadRbr, Pop, Reading
  <2>5. Input'
    <3>1. CASE rx = <<>>
      BY <1>2, <3>1 DEF ReadRbr, Pop, Input
    <3>2. CASE rx # <<>> /\ delivered
      <4>1. rx' = Tail(rx) /\ got' = Append(got, Head(rx)) /\ lostKeys' = lostKeys
        BY <1>2, <3>2 DEF ReadRbr, Pop
      <4>2. got' \o rx' = got \o rx
        BY <3>2, <4>1, Delivered DEF Input
      <4>3. rx' \in Seq(Nat) /\ got' \in Seq(Nat)
        BY <3>2, <4>1 DEF Input
      <4> QED BY <4>1, <4>2, <4>3 DEF Input, Exact
    <3>3. CASE rx # <<>> /\ ~delivered
      <4>1. rx' = Tail(rx) /\ got' = got /\ lostKeys' = lostKeys \cup {Head(rx)}
        BY <1>2, <3>3 DEF ReadRbr, Pop
      <4>2. Exact(got, Tail(rx), lostKeys \cup {Head(rx)}, keys)
        BY <3>3, Dropped DEF Input
      <4> QED BY <3>3, <4>1, <4>2 DEF Input
    <3> QED BY <3>1, <3>2, <3>3
  <2> QED BY <2>1, <2>2, <2>3, <2>4, <2>5
<1> QED BY <1>1, <1>2

\* Writing THR, by the guest or by a call.
LEMMA ThrWritten ==
  ASSUME ConsoleInv, Transmit
  PROVE  Flags' /\ Input' /\ Output' /\ ~phantom' /\ SignalsExact' /\ UNCHANGED <<rx, intruded>>
<1> USE DEF ConsoleInv
<1>1. CASE dlab
  BY <1>1 DEF Transmit, hostSide, Flags, Input, Output, SignalsExact, Cause
<1>2. CASE ~dlab
  <2>1. /\ Flags' /\ UNCHANGED <<rx, dataReady, got, lostKeys, keys, phantom, intruded>>
        /\ UpdateInterrupts
    BY <1>2 DEF Transmit, hostSide, Flags
  <2>2. SignalsExact'
    BY <2>1, Computed DEF Flags, SignalsExact
  <2>3. tx' = Append(tx, sent + 1) /\ sent' = sent + 1 /\ UNCHANGED <<shown, cleared>>
    BY <1>2 DEF Transmit, hostSide
  <2>4. Exact(shown, Append(tx, sent + 1), cleared, sent + 1)
    BY Pushed DEF Output
  <2>5. Append(tx, sent + 1) \in Seq(Nat) /\ sent + 1 \in Nat
    BY DEF Output
  <2> QED BY <2>1, <2>2, <2>3, <2>4, <2>5 DEF Input, Output
<1> QED BY <1>1, <1>2

\* A call that has not reached RBR may begin, go on or end at any time.
LEMMA CallMoves ==
  ASSUME ConsoleInv, NEW h \in ConsoleHarts, NEW c \in {Inactive} \cup [at : {"lsr", "rbr", "thr"}, left : Int],
         sbi' = [sbi EXCEPT ![h] = c],
         \A g \in ConsoleHarts \ {h} : sbi[g].at = "rbr" /\ g \notin intruded' => rx' # <<>>,
         c.at = "rbr" => rx' # <<>>
  PROVE  SbiTyped' /\ DataWaits'
<1>1. SbiTyped'
  BY DEF ConsoleInv, SbiTyped
<1>2. \A g \in ConsoleHarts : sbi'[g] = IF g = h THEN c ELSE sbi[g]
  BY DEF ConsoleInv, SbiTyped
<1>3. DataWaits'
  BY <1>2 DEF DataWaits
<1> QED BY <1>1, <1>3

ConsoleQuiet == UNCHANGED <<rx, tx, dataReady, thre, ier, uartIrq, flushed, keys, sent, got, lostKeys,
                            shown, cleared, phantom>>
LEMMA QuietKept ==
  ASSUME ConsoleInv, ConsoleQuiet
  PROVE  Flags' /\ Input' /\ Output' /\ ~phantom' /\ SignalsExact'
BY DEF ConsoleInv, ConsoleQuiet, Flags, Input, Output, SignalsExact, Cause

LEMMA RegisterSteps ==
  ASSUME ConsoleInv, NEW h \in ConsoleHarts,
         \/ GuestReadsRbr(h) \/ GuestReadsIir(h) \/ Putchar(h) \/ WriteLcr(h)
         \/ \E set \in IerValues : WriteIer(h, set)
  PROVE  ConsoleInv'
<1>1. CASE GuestReadsRbr(h)
  <2>1. ReadRbr(h, TRUE) /\ UNCHANGED <<tx, sbi, sent, cleared, keys, shown>> /\ sbi[h] = Inactive
    BY <1>1 DEF GuestReadsRbr, hostSide
  <2>2. /\ Flags' /\ Input' /\ ~phantom' /\ SignalsExact'
        /\ \A g \in ConsoleHarts \ {h} : sbi[g].at = "rbr" /\ g \notin intruded' => rx' # <<>>
    BY <2>1, RbrRead
  <2>3. DataWaits'
    BY <2>1, <2>2 DEF DataWaits, Inactive
  <2> QED BY <2>1, <2>2, <2>3 DEF ConsoleInv, SbiTyped, Output
<1>2. CASE GuestReadsIir(h) \/ \E set \in IerValues : WriteIer(h, set)
  <2>1. /\ UNCHANGED <<rx, tx, dataReady, sbi, sent, got, lostKeys, cleared, phantom, intruded, keys, shown>>
        /\ UpdateInterrupts /\ Flags'
    BY <1>2 DEF GuestReadsIir, WriteIer, fifos, hostSide, ConsoleInv, Flags
  <2>2. SignalsExact'
    BY <2>1, Computed DEF ConsoleInv, Flags, SignalsExact
  <2> QED BY <2>1, <2>2 DEF ConsoleInv, SbiTyped, DataWaits, Input, Output
<1>3. CASE Putchar(h)
  <2>1. Transmit /\ UNCHANGED sbi
    BY <1>3 DEF Putchar
  <2>2. Flags' /\ Input' /\ Output' /\ ~phantom' /\ SignalsExact' /\ UNCHANGED <<rx, intruded>>
    BY <2>1, ThrWritten
  <2> QED BY <2>1, <2>2 DEF ConsoleInv, SbiTyped, DataWaits
<1>4. CASE WriteLcr(h)
  <2>1. ConsoleQuiet /\ UNCHANGED <<sbi, intruded>>
    BY <1>4 DEF WriteLcr, fifos, hostSide, ConsoleQuiet
  <2>2. DataWaits' /\ SbiTyped'
    BY <2>1 DEF ConsoleQuiet, ConsoleInv, SbiTyped, DataWaits
  <2> QED BY <2>1, <2>2, QuietKept DEF ConsoleInv
<1> QED BY <1>1, <1>2, <1>3, <1>4

LEMMA FcrStep ==
  ASSUME ConsoleInv, NEW h \in ConsoleHarts, WriteFcr(h, TRUE, FALSE) \/ WriteFcr(h, FALSE, TRUE)
  PROVE  ConsoleInv'
<1>1. CASE WriteFcr(h, TRUE, FALSE)
  <2>1. /\ rx' = <<>> /\ ~dataReady' /\ dataReady' \in BOOLEAN /\ lostKeys' = lostKeys \cup Fifo(rx)
        /\ flushed' = TRUE /\ intruded' = Reading
        /\ UNCHANGED <<tx, cleared, thre, ier, uartIrq, sbi, sent, got, phantom, keys, shown>>
    BY <1>1 DEF WriteFcr, hostSide, ConsoleInv, Flags
  <2>2. Input'
    <3>1. Exact(got, <<>>, lostKeys \cup Fifo(rx), keys)
      BY Emptied DEF ConsoleInv, Input
    <3>2. <<>> \in Seq(Nat)
      OBVIOUS
    <3> QED BY <2>1, <3>1, <3>2 DEF ConsoleInv, Input
  <2>3. SignalsExact'
    BY <2>1 DEF ConsoleInv, SignalsExact, Cause
  <2>4. DataWaits'
    BY <2>1 DEF DataWaits, Reading
  <2> QED BY <2>1, <2>2, <2>3, <2>4 DEF ConsoleInv, Flags, SbiTyped, Output
<1>2. CASE WriteFcr(h, FALSE, TRUE)
  <2>1. /\ tx' = <<>> /\ cleared' = cleared \cup Fifo(tx) /\ (dataReady' <=> dataReady)
        /\ dataReady' \in BOOLEAN /\ (flushed' <=> flushed)
        /\ UNCHANGED <<rx, lostKeys, intruded, thre, ier, uartIrq, sbi, sent, got, phantom, keys, shown>>
    BY <1>2 DEF WriteFcr, hostSide, ConsoleInv, Flags
  <2>2. Output'
    <3>1. Exact(shown, <<>>, cleared \cup Fifo(tx), sent)
      BY Emptied DEF ConsoleInv, Output
    <3>2. <<>> \in Seq(Nat)
      OBVIOUS
    <3> QED BY <2>1, <3>1, <3>2 DEF ConsoleInv, Output
  <2>3. SignalsExact'
    BY <2>1 DEF ConsoleInv, SignalsExact, Cause
  <2> QED BY <2>1, <2>2, <2>3 DEF ConsoleInv, Flags, SbiTyped, Input, DataWaits
<1> QED BY <1>1, <1>2

LEMMA CallSteps ==
  ASSUME ConsoleInv, NEW h \in ConsoleHarts,
         \/ \E n \in {0, 2} : ConsoleRead(h, n)
         \/ CheckLsr(h) \/ TakeByte(h) \/ ConsoleWrite(h, 2) \/ WriteByte(h)
  PROVE  ConsoleInv'
<1> DEFINE Call == {Inactive} \cup [at : {"lsr", "rbr", "thr"}, left : Int]
<1>1. CASE (\E n \in {0, 2} : ConsoleRead(h, n)) \/ ConsoleWrite(h, 2)
  <2>1. ConsoleQuiet /\ UNCHANGED intruded
    BY <1>1 DEF ConsoleRead, ConsoleWrite, Registers, fifos, hostSide, ConsoleQuiet
  <2>2. PICK c \in Call : sbi' = [sbi EXCEPT ![h] = c] /\ c.at # "rbr"
    <3>1. ASSUME NEW n \in {0, 2}, NEW a \in {"lsr", "thr"}
          PROVE  [at |-> a, left |-> n] \in Call /\ [at |-> a, left |-> n].at # "rbr"
      OBVIOUS
    <3>2. PICK n \in {0, 2}, a \in {"lsr", "thr"} : sbi' = [sbi EXCEPT ![h] = [at |-> a, left |-> n]]
      BY <1>1 DEF ConsoleRead, ConsoleWrite
    <3> QED BY <3>1, <3>2
  <2>3. \A g \in ConsoleHarts \ {h} : sbi[g].at = "rbr" /\ g \notin intruded' => rx' # <<>>
    BY <2>1 DEF ConsoleQuiet, ConsoleInv, DataWaits
  <2>4. SbiTyped' /\ DataWaits'
    BY <2>2, <2>3, CallMoves
  <2> QED BY <2>1, <2>4, QuietKept DEF ConsoleInv
<1>2. CASE CheckLsr(h)
  <2>1. ConsoleQuiet /\ intruded' = intruded \ {h}
    BY <1>2 DEF CheckLsr, Registers, fifos, hostSide, ConsoleQuiet
  <2>2. sbi[h] \in Call
    BY DEF ConsoleInv, SbiTyped
  <2>3. PICK c \in Call : sbi' = [sbi EXCEPT ![h] = c] /\ (c.at = "rbr" => rx' # <<>>)
    <3>1. CASE dataReady
      <4>1. sbi' = [sbi EXCEPT ![h] = [sbi[h] EXCEPT !.at = "rbr"]]
        BY <1>2, <3>1 DEF CheckLsr
      <4>2. [sbi[h] EXCEPT !.at = "rbr"] \in Call
        BY <1>2, <2>2 DEF CheckLsr, Inactive
      <4>3. rx' # <<>>
        BY <2>1, <3>1 DEF ConsoleQuiet, ConsoleInv, SignalsExact
      <4> QED BY <4>1, <4>2, <4>3
    <3>2. CASE ~dataReady
      <4>1. sbi' = [sbi EXCEPT ![h] = Inactive] /\ Inactive.at # "rbr"
        BY <1>2, <3>2 DEF CheckLsr, Inactive
      <4> QED BY <4>1
    <3> QED BY <3>1, <3>2
  <2>4. \A g \in ConsoleHarts \ {h} : sbi[g].at = "rbr" /\ g \notin intruded' => rx' # <<>>
    BY <2>1 DEF ConsoleQuiet, ConsoleInv, DataWaits
  <2>5. SbiTyped' /\ DataWaits'
    BY <2>3, <2>4, CallMoves
  <2> QED BY <2>1, <2>5, QuietKept DEF ConsoleInv
<1>3. CASE TakeByte(h)
  <2>1. UNCHANGED <<tx, sent, cleared, keys, shown>> /\ sbi[h].at = "rbr" /\ sbi[h] \in Call
    BY <1>3 DEF TakeByte, hostSide, ConsoleInv, SbiTyped
  <2>2. sbi[h].left \in Int
    BY <2>1 DEF Inactive
  <2>3. PICK d \in BOOLEAN : ReadRbr(h, d)
    BY <1>3 DEF TakeByte
  <2>4. PICK c \in Call : sbi' = [sbi EXCEPT ![h] = c] /\ c.at # "rbr"
    <3>1. Inactive.at # "rbr"
      BY DEF Inactive
    <3>2. [at |-> "lsr", left |-> sbi[h].left - 1] \in Call
      BY <2>2
    <3> QED BY <1>3, <3>1, <3>2 DEF TakeByte
  <2>5. /\ Flags' /\ Input' /\ ~phantom' /\ SignalsExact'
        /\ \A g \in ConsoleHarts \ {h} : sbi[g].at = "rbr" /\ g \notin intruded' => rx' # <<>>
    BY <2>1, <2>3, RbrRead
  <2>6. SbiTyped' /\ DataWaits'
    BY <2>4, <2>5, CallMoves
  <2> QED BY <2>1, <2>5, <2>6 DEF ConsoleInv, Output
<1>4. CASE WriteByte(h)
  <2>1. sbi[h].at = "thr" /\ sbi[h] \in Call
    BY <1>4 DEF WriteByte, ConsoleInv, SbiTyped
  <2>2. PICK c \in Call : sbi' = [sbi EXCEPT ![h] = c] /\ c.at # "rbr"
    <3>1. Inactive.at # "rbr"
      BY DEF Inactive
    <3>2. [sbi[h] EXCEPT !.left = @ - 1] \in Call /\ [sbi[h] EXCEPT !.left = @ - 1].at # "rbr"
      BY <2>1 DEF Inactive
    <3> QED BY <1>4, <3>1, <3>2 DEF WriteByte
  <2>3. Flags' /\ Input' /\ Output' /\ ~phantom' /\ SignalsExact' /\ UNCHANGED <<rx, intruded>>
    <3>1. CASE Transmit
      BY <3>1, ThrWritten
    <3>2. CASE ~Transmit
      <4>1. ConsoleQuiet /\ UNCHANGED intruded
        BY <1>4, <3>2 DEF WriteByte, Registers, fifos, hostSide, ConsoleQuiet
      <4> QED BY <4>1, QuietKept DEF ConsoleQuiet
    <3> QED BY <3>1, <3>2
  <2>4. \A g \in ConsoleHarts \ {h} : sbi[g].at = "rbr" /\ g \notin intruded' => rx' # <<>>
    BY <2>3 DEF ConsoleInv, DataWaits
  <2>5. SbiTyped' /\ DataWaits'
    BY <2>2, <2>4, CallMoves
  <2> QED BY <2>3, <2>5 DEF ConsoleInv
<1> QED BY <1>1, <1>2, <1>3, <1>4

LEMMA HostSteps ==
  ASSUME ConsoleInv, PushInput \/ PopOutput
  PROVE  ConsoleInv'
<1>1. CASE PushInput
  <2>1. /\ keys' = keys + 1 /\ rx' = Append(rx, keys + 1) /\ dataReady' = TRUE /\ UpdateInterrupts
        /\ UNCHANGED <<tx, thre, ier, sbi, sent, got, lostKeys, shown, cleared, phantom, intruded>>
    BY <1>1 DEF PushInput
  <2>2. Append(rx, keys + 1) \in Seq(Nat) /\ Append(rx, keys + 1) # <<>> /\ keys + 1 \in Nat
    <3>1. rx \in Seq(Nat) /\ keys \in Nat
      BY DEF ConsoleInv, Input
    <3>2. keys + 1 \in Nat
      BY <3>1
    <3>3. ASSUME NEW x \in Nat PROVE Append(rx, x) \in Seq(Nat) /\ Append(rx, x) # <<>>
      <4>1. Len(Append(rx, x)) = Len(rx) + 1 /\ Len(rx) \in Nat /\ Append(rx, x) \in Seq(Nat)
        BY <3>1
      <4>2. Len(<<>>) = 0
        OBVIOUS
      <4>3. Len(rx) + 1 # 0
        BY <4>1
      <4> QED BY <4>1, <4>2, <4>3
    <3> QED BY <3>2, <3>3
  <2>3. Exact(got, Append(rx, keys + 1), lostKeys, keys + 1)
    BY Pushed DEF ConsoleInv, Input
  <2>4. SignalsExact'
    BY <2>1, <2>2, Computed DEF ConsoleInv, Flags
  <2> QED BY <2>1, <2>2, <2>3, <2>4 DEF ConsoleInv, Flags, SbiTyped, DataWaits, Input, Output
<1>2. CASE PopOutput
  <2>1. /\ tx # <<>> /\ tx' = Tail(tx) /\ shown' = Append(shown, Head(tx))
        /\ UNCHANGED <<rx, dataReady, thre, ier, uartIrq, sbi, keys, sent, got, lostKeys,
                       cleared, phantom, intruded, flushed>>
    BY <1>2 DEF PopOutput
  <2>2. shown' \o tx' = shown \o tx
    BY <2>1, Delivered DEF ConsoleInv, Output
  <2>3. tx' \in Seq(Nat) /\ shown' \in Seq(Nat)
    BY <2>1 DEF ConsoleInv, Output
  <2>4. Output'
    BY <2>1, <2>2, <2>3 DEF ConsoleInv, Output, Exact
  <2> QED BY <2>1, <2>4 DEF ConsoleInv, Flags, SbiTyped, DataWaits, Input, SignalsExact, Cause
<1> QED BY <1>1, <1>2

LEMMA ConsoleStart ==
  ConsoleInit => ConsoleInv
<1> SUFFICES ASSUME ConsoleInit PROVE ConsoleInv
  OBVIOUS
<1>1. Input /\ Output
  <2>1. <<>> \in Seq(Nat) /\ <<>> \o <<>> = <<>> /\ DOMAIN <<>> = {} /\ 1 .. 0 = {}
    OBVIOUS
  <2> QED BY <2>1 DEF ConsoleInit, Input, Output, Exact, Increasing, Fifo
<1>2. DataWaits /\ SbiTyped
  BY DEF ConsoleInit, DataWaits, SbiTyped, Inactive
<1> QED BY <1>1, <1>2 DEF ConsoleInit, ConsoleInv, Flags, SignalsExact, Cause

LEMMA ConsoleKept ==
  ConsoleInv /\ [ConsoleNext]_uartVars => ConsoleInv'
<1> SUFFICES ASSUME ConsoleInv, [ConsoleNext]_uartVars PROVE ConsoleInv'
  OBVIOUS
<1>1. CASE UNCHANGED uartVars
  <2>1. ConsoleQuiet /\ UNCHANGED <<sbi, intruded>>
    BY <1>1 DEF uartVars, ConsoleQuiet
  <2>2. DataWaits' /\ SbiTyped'
    BY <2>1 DEF ConsoleQuiet, ConsoleInv, SbiTyped, DataWaits
  <2> QED BY <2>1, <2>2, QuietKept DEF ConsoleInv
<1>2. CASE PushInput \/ PopOutput
  BY <1>2, HostSteps
<1>3. ASSUME NEW h \in ConsoleHarts,
             \/ GuestReadsRbr(h) \/ GuestReadsIir(h) \/ Putchar(h) \/ WriteLcr(h)
             \/ \E set \in IerValues : WriteIer(h, set)
      PROVE  ConsoleInv'
  BY <1>3, RegisterSteps
<1>4. ASSUME NEW h \in ConsoleHarts, WriteFcr(h, TRUE, FALSE) \/ WriteFcr(h, FALSE, TRUE)
      PROVE  ConsoleInv'
  BY <1>4, FcrStep
<1>5. ASSUME NEW h \in ConsoleHarts,
             \/ \E n \in {0, 2} : ConsoleRead(h, n)
             \/ CheckLsr(h) \/ TakeByte(h) \/ ConsoleWrite(h, 2) \/ WriteByte(h)
      PROVE  ConsoleInv'
  BY <1>5, CallSteps
<1> QED BY <1>1, <1>2, <1>3, <1>4, <1>5 DEF ConsoleNext

\* The console loses, invents, repeats and reorders no byte in either direction
\* and no interrupt, for any number of harts in console_read, console_write and
\* register accesses at once, and any number of keys (uart.rs, sbi/console.rs).
THEOREM ConsoleStaysExact == ConsoleSpec => []ConsoleExact
BY ConsoleStart, ConsoleKept, ConsoleParts, PTL DEF ConsoleSpec

-----------------------------------------------------------------------------
(* The 9P server.  StoredAsWritten speaks of finished sessions.  The         *)
(* invariant adds what a session under way has done in both builds, as long  *)
(* as no other fid names its file.                                           *)

IsEntry(e) ==
    /\ DOMAIN e = {"path", "dir", "mode", "data", "buf"}
    /\ e.data.on \in BOOLEAN
    /\ e.dir <=> e.path = <<>>
    /\ e.mode # "closed" => ~(Len(e.path) > 1)
IsSession(s) ==
    /\ s.on \in BOOLEAN
    /\ s.on => DOMAIN s = {"on", "path", "chunks", "plain"} /\ s.chunks \in Seq(Nat)

P9Typed ==
    /\ DOMAIN host = Builds /\ DOMAIN fids = Builds /\ DOMAIN session = Fids /\ writes \in Nat
    /\ \A b \in Builds : DOMAIN fids[b] \subseteq Fids /\ \A f \in DOMAIN fids[b] : IsEntry(fids[b][f])
    /\ \A f \in Fids : IsSession(session[f])

\* No fid but f names the file.
OnlyFid(table, f, path) ==
    \A g \in Fids \ {f} : \A b \in Builds : g \in DOMAIN table[b] => table[b][g].path # path

\* A plain session has its chunks in the native file and in the WASM buffer.
Under(f, s) ==
    /\ \A b \in Builds : Bound(b, f) /\ fids[b][f].path = s.path /\ s.path \in DOMAIN host[b]
    /\ fids[Native][f].mode = "w" /\ host[Native][s.path] = s.chunks
    /\ ~fids[Wasm][f].dir /\ fids[Wasm][f].buf = s.chunks
    /\ OnlyFid(fids, f, s.path)
Plain(s) == s.on /\ s.plain
Sessions == \A f \in Fids : Plain(session[f]) => Under(f, session[f])

\* Nobody has touched what was stored, and every copy is a copy of that.
StoredFiles == \A p \in DOMAIN stored : \A b \in Builds : p \in DOMAIN host[b] /\ host[b][p] = stored[p]
Copies ==
    \A f \in DOMAIN fids[Wasm] :
        fids[Wasm][f].data.on /\ fids[Wasm][f].path \in DOMAIN stored =>
            fids[Wasm][f].data.bytes = stored[fids[Wasm][f].path]

P9Inv == P9Typed /\ Sessions /\ StoredFiles /\ Copies

-----------------------------------------------------------------------------
LEMMA TwoBuilds == Native \in Builds /\ Wasm \in Builds /\ Native # Wasm /\ Builds = {Native, Wasm}
  BY DEF Builds, Native, Wasm

LEMMA FreshEntry == ASSUME NEW path PROVE IsEntry(Entry(path)) /\ ~Entry(path).data.on
<1> DEFINE e == Entry(path)
<1>1. /\ DOMAIN e = {"path", "dir", "mode", "data", "buf"} /\ e.mode = "closed" /\ e.path = path
      /\ e.data = NoData
  BY DEF Entry
<1>2. e.dir = (path \in Dirs)
  BY DEF Entry
<1>3. e.dir <=> path = <<>>
  <2>1. path \in Dirs <=> path = <<>>
    BY DEF Dirs
  <2>2. e.dir <=> path \in Dirs
    BY <1>2, Zenon
  <2> QED BY <2>1, <2>2, Zenon
<1>4. e.data.on = FALSE
  BY <1>1 DEF NoData
<1> HIDE DEF e
<1>5. IsEntry(e) /\ ~e.data.on
  BY <1>1, <1>3, <1>4 DEF IsEntry
<1> QED BY <1>5 DEF e

LEMMA NoneOpen == IsSession(NoSession) /\ ~NoSession.on
  BY DEF IsSession, NoSession

\* A chunk written at the end is appended.
LEMMA PutAtEnd ==
  ASSUME NEW s \in Seq(Nat), NEW c \in Nat
  PROVE  Put(s, Len(s), c) = Append(s, c)
<1>1. Len(s) \in Nat
  OBVIOUS
<1>2. Put(s, Len(s), c) = [k \in 1 .. Len(s) + 1 |-> IF k = Len(s) + 1 THEN c ELSE IF k <= Len(s) THEN s[k] ELSE 0]
  BY <1>1 DEF Put
<1>3. Append(s, c) \in [1 .. Len(s) + 1 -> Nat]
  <2> DEFINE t == Append(s, c)
  <2>1. t \in Seq(Nat) /\ Len(t) = Len(s) + 1
    OBVIOUS
  <2> HIDE DEF t
  <2>2. t \in [1 .. Len(t) -> Nat]
    BY <2>1
  <2>3. t \in [1 .. Len(s) + 1 -> Nat]
    BY <2>1, <2>2
  <2> QED BY <2>3 DEF t
<1>4. \A k \in 1 .. Len(s) + 1 :
        Append(s, c)[k] = IF k = Len(s) + 1 THEN c ELSE IF k <= Len(s) THEN s[k] ELSE 0
  BY <1>1
<1> QED BY <1>2, <1>3, <1>4

\* What Alone leaves of the sessions.
Others(s, t) ==
    /\ DOMAIN t = Fids
    /\ \A f \in Fids :
          /\ IsSession(t[f]) /\ t[f].on = s[f].on
          /\ t[f].on => t[f].path = s[f].path /\ t[f].chunks = s[f].chunks
          /\ Plain(t[f]) => Plain(s[f]) /\ OnlyFid(fids', f, s[f].path)

LEMMA AloneKeeps ==
  ASSUME NEW s, \A f \in Fids : IsSession(s[f]), NEW t, t = Alone(s)
  PROVE  Others(s, t)
<1>1. DOMAIN t = Fids
  BY DEF Alone
<1>2. ASSUME NEW f \in Fids
      PROVE  /\ IsSession(t[f]) /\ t[f].on = s[f].on
             /\ t[f].on => t[f].path = s[f].path /\ t[f].chunks = s[f].chunks
             /\ Plain(t[f]) => Plain(s[f]) /\ OnlyFid(fids', f, s[f].path)
  <2> DEFINE more == \E g \in Fids \ {f} : \E b \in Builds :
                        g \in DOMAIN fids'[b] /\ fids'[b][g].path = s[f].path
  <2>1. t[f] = IF s[f].on /\ more THEN [s[f] EXCEPT !.plain = FALSE] ELSE s[f]
    BY <1>2 DEF Alone
  <2>2. ~more => OnlyFid(fids', f, s[f].path)
    BY DEF OnlyFid, Bound
  <2> HIDE DEF more
  <2>3. CASE s[f].on /\ more
    BY <2>1, <2>3 DEF IsSession, Plain
  <2>4. CASE ~(s[f].on /\ more)
    BY <2>1, <2>2, <2>4 DEF IsSession, Plain
  <2> QED BY <2>3, <2>4
<1> QED BY <1>1, <1>2 DEF Others

\* A session whose fid and file stay is still under way.
LEMMA UnderNext ==
  ASSUME NEW g \in Fids, NEW s, Under(g, s), OnlyFid(fids', g, s.path),
         \A b \in Builds : g \in DOMAIN fids'[b] /\ fids'[b][g] = fids[b][g],
         \A b \in Builds : s.path \in DOMAIN host'[b],
         host'[Native][s.path] = host[Native][s.path],
         session'[g].path = s.path, session'[g].chunks = s.chunks
  PROVE  Under(g, session[g])'
<1>1. fids'[Native][g] = fids[Native][g] /\ fids'[Wasm][g] = fids[Wasm][g]
  BY TwoBuilds
<1>2. OnlyFid(fids', g, session'[g].path)
  OBVIOUS
<1> QED BY <1>1, <1>2 DEF Under, Bound

-----------------------------------------------------------------------------
(* The requests.                                                            *)

\* Fids of f are made anew; other fids and the files stay.
Renamed(f) ==
    /\ UNCHANGED <<host, stored, writes>> /\ DOMAIN fids' = Builds
    /\ \A b \in Builds :
          \/ fids'[b] = fids[b]
          \/ \E path : fids'[b] = Bind(fids[b], f, Entry(path))

LEMMA RenameStep ==
  ASSUME P9Inv, NEW f \in Fids, Renamed(f), NEW s, \A g \in Fids : IsSession(s[g]),
         \A g \in Fids : Plain(s[g]) => s[g] = session[g] /\ (g # f \/ fids' = fids),
         session' = Alone(s)
  PROVE  P9Inv'
<1>1. Others(s, session')
  BY AloneKeeps
<1>2. \A b \in Builds :
        /\ DOMAIN fids'[b] \subseteq Fids /\ DOMAIN fids[b] \subseteq DOMAIN fids'[b]
        /\ \A g \in DOMAIN fids'[b] :
              IF g # f THEN g \in DOMAIN fids[b] /\ fids'[b][g] = fids[b][g]
              ELSE \/ IsEntry(fids'[b][g]) /\ ~fids'[b][g].data.on
                   \/ fids'[b] = fids[b]
  <2> SUFFICES ASSUME NEW b \in Builds
               PROVE  /\ DOMAIN fids'[b] \subseteq Fids /\ DOMAIN fids[b] \subseteq DOMAIN fids'[b]
                      /\ \A g \in DOMAIN fids'[b] :
                            IF g # f THEN g \in DOMAIN fids[b] /\ fids'[b][g] = fids[b][g]
                            ELSE \/ IsEntry(fids'[b][g]) /\ ~fids'[b][g].data.on
                                 \/ fids'[b] = fids[b]
    OBVIOUS
  <2>1. DOMAIN fids[b] \subseteq Fids
    BY DEF P9Inv, P9Typed
  <2>2. CASE fids'[b] = fids[b]
    BY <2>1, <2>2
  <2>3. ASSUME NEW path, fids'[b] = Bind(fids[b], f, Entry(path))
        PROVE  /\ DOMAIN fids'[b] \subseteq Fids /\ DOMAIN fids[b] \subseteq DOMAIN fids'[b]
               /\ fids'[b][f] = Entry(path)
               /\ \A g \in DOMAIN fids'[b] : g # f => g \in DOMAIN fids[b] /\ fids'[b][g] = fids[b][g]
    BY <2>1, <2>3 DEF Bind
  <2> QED BY <2>2, <2>3, FreshEntry DEF Renamed
<1>3. P9Typed'
  BY <1>1, <1>2 DEF Renamed, Others, P9Inv, P9Typed
<1>4. Sessions'
  <2> SUFFICES ASSUME NEW g \in Fids, Plain(session'[g]) PROVE Under(g, session[g])'
    BY DEF Sessions
  <2>1. /\ Plain(s[g]) /\ s[g] = session[g] /\ OnlyFid(fids', g, s[g].path) /\ (g # f \/ fids' = fids)
        /\ session'[g].path = session[g].path /\ session'[g].chunks = session[g].chunks
    BY <1>1 DEF Others, Plain
  <2>2. Under(g, session[g])
    BY <2>1 DEF P9Inv, Sessions
  <2>3. \A b \in Builds : g \in DOMAIN fids'[b] /\ fids'[b][g] = fids[b][g]
    BY <1>2, <2>1, <2>2 DEF Under, Bound
  <2> QED BY <2>1, <2>2, <2>3, TwoBuilds DEF Under, Bound, Renamed
<1>5. StoredFiles'
  BY DEF P9Inv, StoredFiles, Renamed
<1>6. Copies'
  BY <1>2, TwoBuilds DEF P9Inv, Copies, Renamed
<1> QED BY <1>3, <1>4, <1>5, <1>6 DEF P9Inv

LEMMA DropStep ==
  ASSUME P9Inv, NEW f \in Fids, Renamed(f), session' = Alone(Drop(f))
  PROVE  P9Inv'
<1> DEFINE s == Drop(f)
<1>1. \A g \in Fids : s[g] = IF g = f THEN NoSession ELSE session[g]
  BY DEF Drop, P9Inv, P9Typed
<1>2. \A g \in Fids : IsSession(s[g])
  BY <1>1, NoneOpen DEF P9Inv, P9Typed
<1>3. \A g \in Fids : Plain(s[g]) => s[g] = session[g] /\ g # f
  BY <1>1, NoneOpen DEF Plain
<1> HIDE DEF s
<1>4. session' = Alone(s)
  BY DEF s
<1> QED BY <1>2, <1>3, <1>4, RenameStep

LEMMA AttachStep == ASSUME P9Inv, NEW f \in Fids, Attach(f) PROVE P9Inv'
<1>1. Renamed(f) /\ session' = Alone(Drop(f))
  BY DEF Attach, Renamed
<1> QED BY <1>1, DropStep

LEMMA WalkStep ==
  ASSUME P9Inv, NEW f \in Fids, NEW new \in Fids, NEW names, Walk(f, new, names)
  PROVE  P9Inv'
<1>1. Renamed(new)
  <2>1. ASSUME NEW b \in Builds
        PROVE  fids'[b] = fids[b] \/ \E path : fids'[b] = Bind(fids[b], new, Entry(path))
    <3> DEFINE w == WalkTo(b, fids[b][f].path, names)
    <3>1. fids'[b] = IF w.made THEN Bind(fids[b], new, Entry(w.path)) ELSE fids[b]
      BY <2>1 DEF Walk
    <3> HIDE DEF w
    <3> QED BY <3>1
  <2> QED BY <2>1 DEF Walk, Renamed
<1>2. CASE fids' = fids
  <2>1. session' = Alone(session)
    BY <1>2 DEF Walk
  <2>2. \A g \in Fids : IsSession(session[g])
    BY DEF P9Inv, P9Typed
  <2> QED BY <1>1, <1>2, <2>1, <2>2, RenameStep
<1>3. CASE fids' # fids
  <2>1. session' = Alone(Drop(new))
    BY <1>3 DEF Walk
  <2> QED BY <1>1, <2>1, DropStep
<1> QED BY <1>2, <1>3

LEMMA ResetStep == ASSUME P9Inv, P9Reset PROVE P9Inv'
<1>1. /\ UNCHANGED <<host, stored, writes>> /\ DOMAIN fids' = Builds
      /\ fids'[Wasm] = fids[Wasm] /\ DOMAIN fids'[Native] = {}
      /\ DOMAIN session' = Fids /\ \A f \in Fids : session'[f] = NoSession
  BY TwoBuilds DEF P9Reset, P9Inv, P9Typed
<1>2. P9Typed'
  BY <1>1, NoneOpen, TwoBuilds DEF P9Inv, P9Typed
<1>3. Sessions'
  BY <1>1, NoneOpen DEF Sessions, Plain
<1> QED BY <1>1, <1>2, <1>3 DEF P9Inv, StoredFiles, Copies

\* Tlopen: what it does to the fid and the file in either build.
LEMMA OpenedNative ==
  ASSUME NEW e, IsEntry(e), NEW flags \in {"r", "w", "rw"}, NEW n, n = OpenNative(e, flags)
  PROVE  /\ IsEntry(n.entry) /\ n.entry.path = e.path
         /\ n.host = host[Native] \/ (flags # "r" /\ n.host = Bind(host[Native], e.path, <<>>))
         /\ flags = "w" /\ ~e.dir /\ n.entry.mode = "w" => n.host = Bind(host[Native], e.path, <<>>)
<1>1. CASE e.dir \/ Len(e.path) > 1 \/ (flags = "r" /\ e.path \notin DOMAIN host[Native])
  <2>1. n = [host |-> host[Native], entry |-> e]
    BY <1>1 DEF OpenNative
  <2> QED BY <1>1, <2>1 DEF IsEntry
<1>2. CASE ~(e.dir \/ Len(e.path) > 1 \/ (flags = "r" /\ e.path \notin DOMAIN host[Native]))
  <2> DEFINE h == IF flags = "w" \/ e.path \notin DOMAIN host[Native]
                  THEN Bind(host[Native], e.path, <<>>) ELSE host[Native]
             x == [e EXCEPT !.mode = flags]
  <2>1. n = [host |-> h, entry |-> x]
    BY <1>2 DEF OpenNative
  <2>2. IsEntry(x) /\ x.path = e.path
    BY <1>2 DEF IsEntry
  <2>3. h = host[Native] \/ (flags # "r" /\ h = Bind(host[Native], e.path, <<>>))
    BY <1>2
  <2>4. flags = "w" => h = Bind(host[Native], e.path, <<>>)
    OBVIOUS
  <2>5. n.host = h /\ n.entry = x
    BY <2>1
  <2> HIDE DEF h, x
  <2> QED BY <2>2, <2>3, <2>4, <2>5
<1> QED BY <1>1, <1>2

LEMMA OpenedWasm ==
  ASSUME NEW e, IsEntry(e), NEW flags, NEW x, x = OpenWasm(e, flags)
  PROVE  /\ IsEntry(x) /\ x.path = e.path /\ x.buf = e.buf /\ (x.dir <=> e.dir)
         /\ \/ x = e
            \/ flags = "r" /\ e.path \in DOMAIN host[Wasm] /\ x.data.bytes = host[Wasm][e.path]
<1>1. CASE x = e
  BY <1>1
<1>2. CASE /\ flags = "r" /\ e.path \in DOMAIN host[Wasm]
           /\ x = [e EXCEPT !.data = [on |-> TRUE, bytes |-> host[Wasm][e.path]]]
  <2> DEFINE c == [on |-> TRUE, bytes |-> host[Wasm][e.path]]
  <2>1. c.on = TRUE /\ c.bytes = host[Wasm][e.path]
    OBVIOUS
  <2>2. x = [e EXCEPT !.data = c]
    BY <1>2
  <2> HIDE DEF c
  <2> QED BY <1>2, <2>1, <2>2 DEF IsEntry
<1> QED BY <1>1, <1>2 DEF OpenWasm

LEMMA LopenStep ==
  ASSUME P9Inv, NEW f \in Fids, NEW flags \in {"r", "w", "rw"}, Lopen(f, flags)
  PROVE  P9Inv'
<1> DEFINE e == fids[Native][f]
           w == fids[Wasm][f]
           n == OpenNative(e, flags)
           x == OpenWasm(w, flags)
           opens == flags = "w" /\ ~e.dir /\ n.entry.mode = "w"
           fresh == [on |-> TRUE, path |-> e.path, chunks |-> <<>>,
                     plain |-> ~session[f].on /\ w.buf = <<>> /\ w.path = e.path
                               /\ e.path \in DOMAIN host[Wasm]]
           mine == IF opens THEN fresh
                   ELSE IF session[f].on THEN [session[f] EXCEPT !.plain = FALSE] ELSE session[f]
           s == [session EXCEPT ![f] = mine]
<1>1. /\ f \in DOMAIN fids[Native] /\ f \in DOMAIN fids[Wasm] /\ IsEntry(e) /\ IsEntry(w)
  BY TwoBuilds DEF Lopen, Bound, P9Inv, P9Typed
<1>2. /\ host' = [host EXCEPT ![Native] = n.host]
      /\ fids' = [fids EXCEPT ![Native][f] = n.entry, ![Wasm][f] = x]
      /\ stored' = IF flags = "r" THEN stored ELSE Unbind(stored, e.path)
      /\ UNCHANGED writes /\ session' = Alone(s)
  BY TwoBuilds DEF Lopen
<1>3. /\ IsEntry(n.entry) /\ n.entry.path = e.path
      /\ n.host = host[Native] \/ (flags # "r" /\ n.host = Bind(host[Native], e.path, <<>>))
      /\ opens => n.host = Bind(host[Native], e.path, <<>>)
  BY <1>1, OpenedNative
<1>4. /\ IsEntry(x) /\ x.path = w.path /\ x.buf = w.buf /\ (x.dir <=> w.dir)
      /\ x = w \/ (flags = "r" /\ w.path \in DOMAIN host[Wasm] /\ x.data.bytes = host[Wasm][w.path])
  BY <1>1, OpenedWasm
<1>5. /\ DOMAIN s = Fids /\ \A g \in Fids : s[g] = IF g = f THEN mine ELSE session[g]
  BY DEF P9Inv, P9Typed
<1>6. /\ IsSession(mine)
      /\ Plain(mine) => /\ opens /\ mine.path = e.path /\ mine.chunks = <<>>
                        /\ w.buf = <<>> /\ w.path = e.path /\ e.path \in DOMAIN host[Wasm]
  <2>1. CASE opens
    <3>1. mine = fresh
      BY <2>1
    <3>2. IsSession(fresh) /\ fresh.path = e.path /\ fresh.chunks = <<>>
      BY DEF IsSession
    <3>3. fresh.plain = (~session[f].on /\ w.buf = <<>> /\ w.path = e.path
                               /\ e.path \in DOMAIN host[Wasm])
      BY DEF fresh
    <3>4. fresh.plain => w.buf = <<>> /\ w.path = e.path /\ e.path \in DOMAIN host[Wasm]
      BY <3>3, Zenon
    <3> HIDE DEF fresh, opens, mine
    <3> QED BY <2>1, <3>1, <3>2, <3>4 DEF Plain
  <2>2. CASE ~opens
    <3>1. IsSession(session[f]) /\ mine = IF session[f].on THEN [session[f] EXCEPT !.plain = FALSE] ELSE session[f]
      BY <2>2 DEF P9Inv, P9Typed
    <3> HIDE DEF mine
    <3> QED BY <3>1 DEF IsSession, Plain
  <2> QED BY <2>1, <2>2
<1>7. opens => ~e.dir
  OBVIOUS
<1> HIDE DEF n, x, opens, fresh, mine, s
<1>8. /\ DOMAIN fids' = Builds /\ DOMAIN host' = Builds /\ host'[Wasm] = host[Wasm] /\ host'[Native] = n.host
      /\ DOMAIN fids'[Native] = DOMAIN fids[Native] /\ DOMAIN fids'[Wasm] = DOMAIN fids[Wasm]
      /\ fids'[Native][f] = n.entry /\ fids'[Wasm][f] = x
      /\ \A b \in Builds : \A g \in DOMAIN fids[b] : g # f => fids'[b][g] = fids[b][g]
  BY <1>1, <1>2, TwoBuilds DEF P9Inv, P9Typed
<1> HIDE DEF e, w
<1>9. Others(s, session')
  <2>1. \A g \in Fids : IsSession(s[g])
    BY <1>5, <1>6 DEF P9Inv, P9Typed
  <2> QED BY <1>2, <2>1, AloneKeeps
<1>10. P9Typed'
  <2>1. \A b \in Builds : DOMAIN fids'[b] \subseteq Fids /\ \A g \in DOMAIN fids'[b] : IsEntry(fids'[b][g])
    BY <1>3, <1>4, <1>8, TwoBuilds DEF P9Inv, P9Typed
  <2> QED BY <1>2, <1>8, <1>9, <2>1 DEF P9Inv, P9Typed, Others
<1>11. \A p \in DOMAIN host[Native] : p \in DOMAIN n.host /\ (p # e.path => n.host[p] = host[Native][p])
  BY <1>3 DEF Bind
<1>12. opens => e.path \in DOMAIN n.host /\ n.host[e.path] = <<>>
  BY <1>3 DEF Bind
<1>13. Sessions'
  <2> SUFFICES ASSUME NEW g \in Fids, Plain(session'[g]) PROVE Under(g, session[g])'
    BY DEF Sessions
  <2>1. /\ Plain(s[g]) /\ OnlyFid(fids', g, s[g].path)
        /\ session'[g].path = s[g].path /\ session'[g].chunks = s[g].chunks
    BY <1>9 DEF Others, Plain
  <2>2. CASE g # f
    <3>1. s[g] = session[g] /\ Under(g, session[g])
      BY <1>5, <2>1, <2>2 DEF P9Inv, Sessions
    <3>2. e.path # session[g].path
      BY <1>1, <2>2, <3>1, TwoBuilds DEF Under, OnlyFid, Bound, e
    <3>3. \A b \in Builds : g \in DOMAIN fids'[b] /\ fids'[b][g] = fids[b][g]
      BY <1>8, <2>2, <3>1, TwoBuilds DEF Under, Bound
    <3>4. /\ \A b \in Builds : session[g].path \in DOMAIN host'[b]
          /\ host'[Native][session[g].path] = host[Native][session[g].path]
      BY <1>8, <1>11, <3>1, <3>2, TwoBuilds DEF Under
    <3> QED BY <2>1, <3>1, <3>3, <3>4, UnderNext
  <2>3. CASE g = f
    <3>1. s[g] = mine /\ Plain(mine)
      BY <1>5, <2>1, <2>3
    <3>2. /\ opens /\ mine.path = e.path /\ mine.chunks = <<>>
          /\ w.buf = <<>> /\ w.path = e.path /\ e.path \in DOMAIN host[Wasm]
      BY <1>6, <3>1
    <3>3. ~w.dir /\ n.entry.mode = "w"
      BY <1>1, <1>7, <3>2 DEF IsEntry, opens
    <3>4. \A b \in Builds : /\ f \in DOMAIN fids'[b] /\ fids'[b][f].path = e.path
                           /\ e.path \in DOMAIN host'[b]
      BY <1>1, <1>3, <1>4, <1>8, <1>12, <3>2, TwoBuilds
    <3>5. fids'[Native][f].mode = "w" /\ host'[Native][e.path] = <<>>
      BY <1>8, <1>12, <3>2, <3>3
    <3>6. ~fids'[Wasm][f].dir /\ fids'[Wasm][f].buf = <<>>
      BY <1>4, <1>8, <3>2, <3>3
    <3>7. session'[g].path = e.path /\ session'[g].chunks = <<>> /\ OnlyFid(fids', g, e.path)
      <4>1. s[g].path = e.path
        BY <3>1, <3>2
      <4> QED BY <2>1, <3>1, <3>2, <4>1
    <3> QED BY <2>3, <3>4, <3>5, <3>6, <3>7 DEF Under, Bound
  <2> QED BY <2>2, <2>3
<1>14. \A p \in DOMAIN stored' : p \in DOMAIN stored /\ stored'[p] = stored[p] /\ (flags # "r" => p # e.path)
  BY <1>2 DEF Unbind
<1>15. StoredFiles'
  <2> SUFFICES ASSUME NEW p \in DOMAIN stored', NEW b \in Builds
               PROVE  p \in DOMAIN host'[b] /\ host'[b][p] = stored'[p]
    BY DEF StoredFiles
  <2>1. p \in DOMAIN host[b] /\ host[b][p] = stored[p]
    BY <1>14 DEF P9Inv, StoredFiles
  <2>2. CASE b = Wasm
    BY <1>8, <1>14, <2>1, <2>2
  <2>3. CASE b = Native
    BY <1>3, <1>8, <1>11, <1>14, <2>1, <2>3
  <2> QED BY <2>2, <2>3, TwoBuilds
<1>16. Copies'
  <2> SUFFICES ASSUME NEW g \in DOMAIN fids'[Wasm], fids'[Wasm][g].data.on,
                      fids'[Wasm][g].path \in DOMAIN stored'
               PROVE  fids'[Wasm][g].data.bytes = stored'[fids'[Wasm][g].path]
    BY DEF Copies
  <2>1. CASE fids'[Wasm][g] = fids[Wasm][g]
    BY <1>8, <1>14, <2>1 DEF P9Inv, Copies
  <2>2. CASE fids'[Wasm][g] # fids[Wasm][g]
    <3>1. g = f
      BY <1>8, <2>2, TwoBuilds
    <3>2. w.path \in DOMAIN stored /\ stored'[w.path] = stored[w.path] /\ x.path = w.path
      BY <1>4, <1>8, <1>14, <3>1
    <3>3. x.data.bytes = host[Wasm][w.path]
      BY <1>4, <1>8, <2>2, <3>1 DEF w
    <3>4. host[Wasm][w.path] = stored[w.path]
      BY <3>2, TwoBuilds DEF P9Inv, StoredFiles
    <3> QED BY <1>8, <3>1, <3>2, <3>3, <3>4
  <2> QED BY <2>1, <2>2
<1> QED BY <1>10, <1>13, <1>15, <1>16 DEF P9Inv

\* Tlcreate: the fid named the root, so no plain session was its own.
LEMMA LcreateStep ==
  ASSUME P9Inv, NEW f \in Fids, NEW name \in {"f", "g"}, Lcreate(f, name)
  PROVE  P9Inv'
<1> DEFINE e == fids[Native][f]
           path == <<name>>
           made == [e EXCEPT !.path = path, !.dir = FALSE, !.mode = "w"]
<1>1. f \in DOMAIN fids[Native] /\ IsEntry(e) /\ e.path = <<>> /\ path # <<>>
  BY TwoBuilds DEF Lcreate, Bound, P9Inv, P9Typed
<1>2. /\ host' = [host EXCEPT ![Native] = Bind(host[Native], path, <<>>)]
      /\ fids' = [fids EXCEPT ![Native][f] = made]
      /\ stored' = Unbind(stored, path) /\ writes' = writes + 1
      /\ session' = [g \in Fids |-> IF session[g].on /\ session[g].path = path
                                    THEN [session[g] EXCEPT !.plain = FALSE] ELSE session[g]]
  BY TwoBuilds DEF Lcreate, P9Inv, P9Typed
<1>3. IsEntry(made) /\ made.path = path
  BY <1>1 DEF IsEntry
<1> HIDE DEF made, path
<1>4. /\ DOMAIN fids' = Builds /\ fids'[Wasm] = fids[Wasm] /\ DOMAIN fids'[Native] = DOMAIN fids[Native]
      /\ fids'[Native][f] = made
      /\ \A b \in Builds : \A g \in DOMAIN fids[b] : g # f => fids'[b][g] = fids[b][g]
  BY <1>1, <1>2, TwoBuilds DEF P9Inv, P9Typed
<1>5. /\ DOMAIN host' = Builds /\ host'[Wasm] = host[Wasm]
      /\ \A p \in DOMAIN host[Native] : p \in DOMAIN host'[Native] /\ (p # path => host'[Native][p] = host[Native][p])
  BY <1>2, TwoBuilds DEF P9Inv, P9Typed, Bind
<1>6. /\ DOMAIN session' = Fids
      /\ \A g \in Fids : /\ IsSession(session'[g])
                         /\ Plain(session'[g]) => session'[g] = session[g] /\ session[g].path # path
  <2>1. DOMAIN session' = Fids
    BY <1>2
  <2>2. ASSUME NEW g \in Fids
        PROVE  /\ IsSession(session'[g])
               /\ Plain(session'[g]) => session'[g] = session[g] /\ session[g].path # path
    <3>1. IsSession(session[g])
      BY DEF P9Inv, P9Typed
    <3>2. session'[g] = IF session[g].on /\ session[g].path = path
                        THEN [session[g] EXCEPT !.plain = FALSE] ELSE session[g]
      BY <1>2
    <3> QED BY <3>1, <3>2 DEF IsSession, Plain
  <2> QED BY <2>1, <2>2
<1>7. P9Typed'
  <2>1. \A b \in Builds : DOMAIN fids'[b] \subseteq Fids /\ \A g \in DOMAIN fids'[b] : IsEntry(fids'[b][g])
    BY <1>3, <1>4, TwoBuilds DEF P9Inv, P9Typed
  <2> QED BY <1>2, <1>4, <1>5, <1>6, <2>1 DEF P9Inv, P9Typed
<1>8. Sessions'
  <2> SUFFICES ASSUME NEW g \in Fids, Plain(session'[g]) PROVE Under(g, session[g])'
    BY DEF Sessions
  <2>1. session'[g] = session[g] /\ session[g].path # path /\ Under(g, session[g])
    BY <1>6 DEF P9Inv, Sessions
  <2>2. g # f
    <3>1. /\ fids[Native][g].path = session[g].path /\ fids[Wasm][g].path = session[g].path
          /\ g \in DOMAIN fids[Wasm] /\ ~fids[Wasm][g].dir
      BY <2>1, TwoBuilds DEF Under, Bound
    <3>2. IsEntry(fids[Wasm][g])
      BY <3>1, TwoBuilds DEF P9Inv, P9Typed
    <3> QED BY <1>1, <3>1, <3>2 DEF IsEntry
  <2>3. \A b \in Builds : g \in DOMAIN fids'[b] /\ fids'[b][g] = fids[b][g]
    BY <1>4, <2>1, <2>2, TwoBuilds DEF Under, Bound
  <2>4. OnlyFid(fids', g, session[g].path)
    <3>1. OnlyFid(fids, g, session[g].path)
      BY <2>1 DEF Under
    <3> QED BY <1>3, <1>4, <2>1, <3>1, TwoBuilds DEF OnlyFid
  <2>5. /\ \A b \in Builds : session[g].path \in DOMAIN host'[b]
        /\ host'[Native][session[g].path] = host[Native][session[g].path]
    BY <1>5, <2>1, TwoBuilds DEF Under
  <2> QED BY <2>1, <2>3, <2>4, <2>5, UnderNext
<1>9. \A p \in DOMAIN stored' : p \in DOMAIN stored /\ stored'[p] = stored[p] /\ p # path
  BY <1>2 DEF Unbind
<1>10. StoredFiles'
  BY <1>5, <1>9, TwoBuilds DEF P9Inv, StoredFiles
<1>11. Copies'
  BY <1>4, <1>9 DEF P9Inv, Copies
<1> QED BY <1>7, <1>8, <1>10, <1>11 DEF P9Inv

\* Twrite: what is stored under the fid's path is given up; a plain session
\* grows by the chunk in both builds.
LEMMA WriteStep ==
  ASSUME P9Inv, NEW f \in Fids, NEW off \in Nat, Write(f, off, writes + 1)
  PROVE  P9Inv'
<1> DEFINE c == writes + 1
           e == fids[Native][f]
           w == fids[Wasm][f]
           next == [w EXCEPT !.buf = Append(w.buf, c)]
<1>1. c \in Nat
  BY DEF P9Inv, P9Typed
<1>2. /\ host' = [host EXCEPT ![Native] = WriteNative(f, off, c)]
      /\ fids' = [fids EXCEPT ![Wasm] = WriteWasm(f, c)]
      /\ session' = [session EXCEPT ![f] =
                       IF ~session[f].on THEN session[f]
                       ELSE IF off = Len(session[f].chunks)
                            THEN [session[f] EXCEPT !.chunks = Append(session[f].chunks, c)]
                       ELSE [session[f] EXCEPT !.plain = FALSE]]
      /\ stored' = IF Bound(Native, f) THEN Unbind(stored, e.path) ELSE stored
      /\ writes' = c
  BY DEF Write
<1> HIDE DEF c
<1>3. /\ DOMAIN fids' = Builds /\ fids'[Native] = fids[Native] /\ DOMAIN fids'[Wasm] = DOMAIN fids[Wasm]
      /\ \A g \in DOMAIN fids[Wasm] : fids'[Wasm][g] = IF g = f THEN next ELSE fids[Wasm][g]
  <2>1. DOMAIN fids' = Builds /\ fids'[Native] = fids[Native] /\ fids'[Wasm] = WriteWasm(f, c)
    BY <1>2, TwoBuilds DEF P9Inv, P9Typed
  <2> QED BY <2>1 DEF WriteWasm, Bound
<1>4. f \in DOMAIN fids[Wasm] => /\ IsEntry(next) /\ next.path = w.path /\ next.data = w.data
                                 /\ (next.dir <=> w.dir) /\ next.buf = Append(w.buf, c)
  <2> SUFFICES ASSUME f \in DOMAIN fids[Wasm]
               PROVE  /\ IsEntry(next) /\ next.path = w.path /\ next.data = w.data
                      /\ (next.dir <=> w.dir) /\ next.buf = Append(w.buf, c)
    OBVIOUS
  <2>1. IsEntry(w)
    BY TwoBuilds DEF P9Inv, P9Typed
  <2> DEFINE more == Append(w.buf, c)
  <2>2. next = [w EXCEPT !.buf = more]
    OBVIOUS
  <2> HIDE DEF w, more, next
  <2>3. /\ IsEntry(next) /\ next.path = w.path /\ next.data = w.data
        /\ (next.dir <=> w.dir) /\ next.buf = more
    BY <2>1, <2>2 DEF IsEntry
  <2> QED BY <2>3 DEF more
<1>5. /\ DOMAIN host' = Builds /\ host'[Wasm] = host[Wasm] /\ DOMAIN host'[Native] = DOMAIN host[Native]
      /\ \A p \in DOMAIN host[Native] :
            \/ host'[Native][p] = host[Native][p]
            \/ f \in DOMAIN fids[Native] /\ p = e.path
      /\ f \in DOMAIN fids[Native] /\ e.mode = "w" /\ e.path \in DOMAIN host[Native] =>
            host'[Native][e.path] = Put(host[Native][e.path], off, c)
  <2>1. /\ DOMAIN host' = Builds /\ host'[Wasm] = host[Wasm] /\ host'[Native] = WriteNative(f, off, c)
    BY <1>2, TwoBuilds DEF P9Inv, P9Typed
  <2> QED BY <2>1 DEF WriteNative, Bound
<1>6. /\ DOMAIN session' = Fids
      /\ \A g \in Fids : g # f => session'[g] = session[g]
      /\ IsSession(session'[f])
      /\ Plain(session'[f]) => /\ Plain(session[f]) /\ off = Len(session[f].chunks)
                               /\ session'[f].path = session[f].path
                               /\ session'[f].chunks = Append(session[f].chunks, c)
  <2> DEFINE s == session[f]
             long == Append(s.chunks, c)
             t == IF ~s.on THEN s ELSE IF off = Len(s.chunks) THEN [s EXCEPT !.chunks = long]
                  ELSE [s EXCEPT !.plain = FALSE]
  <2>0. session' = [session EXCEPT ![f] = t]
    BY <1>2
  <2> HIDE DEF t
  <2>1. DOMAIN session' = Fids /\ session'[f] = t /\ \A g \in Fids : g # f => session'[g] = session[g]
    BY <2>0 DEF P9Inv, P9Typed
  <2>2. IsSession(s)
    BY DEF P9Inv, P9Typed
  <2>3. s.on => long \in Seq(Nat)
    BY <1>1, <2>2 DEF IsSession
  <2> HIDE DEF s, long
  <2>4. /\ IsSession(t)
        /\ Plain(t) => Plain(s) /\ off = Len(s.chunks) /\ t.path = s.path /\ t.chunks = long
    <3>1. CASE ~s.on
      BY <2>2, <3>1 DEF Plain, t
    <3>2. CASE s.on /\ off = Len(s.chunks)
      BY <2>2, <2>3, <3>2 DEF Plain, IsSession, t
    <3>3. CASE s.on /\ off # Len(s.chunks)
      BY <2>2, <3>3 DEF Plain, IsSession, t
    <3> QED BY <3>1, <3>2, <3>3, <2>2 DEF IsSession
  <2> QED BY <2>1, <2>4 DEF s, long
<1> HIDE DEF next
<1>7. P9Typed'
  <2>1. \A b \in Builds : DOMAIN fids'[b] \subseteq Fids /\ \A g \in DOMAIN fids'[b] : IsEntry(fids'[b][g])
    BY <1>3, <1>4, TwoBuilds DEF P9Inv, P9Typed
  <2>2. \A g \in Fids : IsSession(session'[g])
    BY <1>6 DEF P9Inv, P9Typed
  <2> QED BY <1>1, <1>2, <1>3, <1>5, <1>6, <2>1, <2>2 DEF P9Typed
<1>8. ASSUME NEW g \in Fids, NEW path, OnlyFid(fids, g, path)
      PROVE  OnlyFid(fids', g, path)
  BY <1>3, <1>4, <1>8, TwoBuilds DEF OnlyFid
<1>9. Sessions'
  <2> SUFFICES ASSUME NEW g \in Fids, Plain(session'[g]) PROVE Under(g, session[g])'
    BY DEF Sessions
  <2>1. CASE g # f
    <3>1. session'[g] = session[g] /\ Under(g, session[g]) /\ OnlyFid(fids, g, session[g].path)
      BY <1>6, <2>1 DEF P9Inv, Sessions, Under
    <3>2. f \in DOMAIN fids[Native] => e.path # session[g].path
      BY <2>1, <3>1, TwoBuilds DEF OnlyFid
    <3>3. \A b \in Builds : g \in DOMAIN fids'[b] /\ fids'[b][g] = fids[b][g]
      BY <1>3, <2>1, <3>1, TwoBuilds DEF Under, Bound
    <3>4. /\ \A b \in Builds : session[g].path \in DOMAIN host'[b]
          /\ host'[Native][session[g].path] = host[Native][session[g].path]
      BY <1>5, <3>1, <3>2, TwoBuilds DEF Under
    <3> QED BY <1>8, <3>1, <3>3, <3>4, UnderNext
  <2>2. CASE g = f
    <3> DEFINE s == session[f]
               long == Append(s.chunks, c)
    <3>1. Plain(s) /\ off = Len(s.chunks) /\ session'[f].path = s.path /\ session'[f].chunks = long
      BY <1>6, <2>2
    <3>2. Under(f, s) /\ s.chunks \in Seq(Nat)
      BY <3>1 DEF P9Inv, Sessions, P9Typed, IsSession, Plain
    <3>3. Put(s.chunks, off, c) = long
      BY <1>1, <3>1, <3>2, PutAtEnd
    <3> HIDE DEF s, long
    <3>4. /\ f \in DOMAIN fids[Native] /\ f \in DOMAIN fids[Wasm] /\ e.path = s.path /\ w.path = s.path
          /\ s.path \in DOMAIN host[Native] /\ s.path \in DOMAIN host[Wasm]
          /\ e.mode = "w" /\ host[Native][s.path] = s.chunks /\ ~w.dir /\ w.buf = s.chunks
          /\ OnlyFid(fids, f, s.path)
      BY <3>2, TwoBuilds DEF Under, Bound
    <3>5. \A b \in Builds : f \in DOMAIN fids'[b] /\ fids'[b][f].path = s.path /\ s.path \in DOMAIN host'[b]
      BY <1>3, <1>4, <1>5, <3>4, TwoBuilds
    <3>6. fids'[Native][f].mode = "w" /\ host'[Native][s.path] = long
      BY <1>3, <1>5, <3>3, <3>4
    <3>7. ~fids'[Wasm][f].dir /\ fids'[Wasm][f].buf = long
      BY <1>3, <1>4, <3>4 DEF long
    <3>8. OnlyFid(fids', f, session'[f].path)
      BY <1>8, <3>1, <3>4
    <3> QED BY <2>2, <3>1, <3>5, <3>6, <3>7, <3>8 DEF Under, Bound
  <2> QED BY <2>1, <2>2
<1>10. \A p \in DOMAIN stored' : /\ p \in DOMAIN stored /\ stored'[p] = stored[p]
                                 /\ f \in DOMAIN fids[Native] => p # e.path
  BY <1>2 DEF Unbind, Bound
<1>11. StoredFiles'
  BY <1>5, <1>10, TwoBuilds DEF P9Inv, StoredFiles
<1>12. Copies'
  <2>1. \A g \in DOMAIN fids'[Wasm] : /\ g \in DOMAIN fids[Wasm] /\ fids'[Wasm][g].path = fids[Wasm][g].path
                                      /\ fids'[Wasm][g].data = fids[Wasm][g].data
    BY <1>3, <1>4
  <2> QED BY <1>10, <2>1 DEF P9Inv, Copies
<1> QED BY <1>7, <1>9, <1>11, <1>12 DEF P9Inv

\* Tclunk: a plain session's buffer, which holds its chunks, becomes the file.
LEMMA ClunkStep == ASSUME P9Inv, NEW f \in Fids, Clunk(f) PROVE P9Inv'
<1> DEFINE s == session[f]
           w == fids[Wasm][f]
           gone == IF Bound(Wasm, f) /\ w.buf # <<>> THEN Unbind(stored, w.path) ELSE stored
           ends == Plain(s) /\ s.chunks # <<>>
<1>1. /\ host' = [host EXCEPT ![Wasm] = FlushWasm(f)]
      /\ fids' = [b \in Builds |-> Unbind(fids[b], f)]
      /\ stored' = IF ends THEN Bind(gone, s.path, s.chunks) ELSE gone
      /\ session' = Drop(f) /\ writes' = writes
  BY DEF Clunk, Plain
<1>2. \A p \in DOMAIN gone : /\ p \in DOMAIN stored /\ gone[p] = stored[p]
                             /\ f \in DOMAIN fids[Wasm] /\ w.buf # <<>> => p # w.path
  BY DEF Unbind, Bound
<1> HIDE DEF gone
<1>3. \A p \in DOMAIN stored' :
        \/ ends /\ p = s.path /\ stored'[p] = s.chunks
        \/ p \in DOMAIN gone /\ stored'[p] = gone[p] /\ ~(ends /\ p = s.path)
  BY <1>1 DEF Bind
<1>4. /\ DOMAIN host' = Builds /\ host'[Native] = host[Native]
      /\ \A p \in DOMAIN host[Wasm] :
            /\ p \in DOMAIN host'[Wasm]
            /\ \/ host'[Wasm][p] = host[Wasm][p]
               \/ f \in DOMAIN fids[Wasm] /\ w.buf # <<>> /\ p = w.path
      /\ f \in DOMAIN fids[Wasm] /\ w.buf # <<>> /\ ~w.dir =>
            w.path \in DOMAIN host'[Wasm] /\ host'[Wasm][w.path] = w.buf
  <2>1. DOMAIN host' = Builds /\ host'[Native] = host[Native] /\ host'[Wasm] = FlushWasm(f)
    BY <1>1, TwoBuilds DEF P9Inv, P9Typed
  <2> QED BY <2>1 DEF FlushWasm, Bound, Bind
<1>5. /\ DOMAIN fids' = Builds
      /\ \A b \in Builds : /\ DOMAIN fids'[b] = DOMAIN fids[b] \ {f}
                           /\ \A g \in DOMAIN fids[b] : g # f => fids'[b][g] = fids[b][g]
  BY <1>1 DEF Unbind
<1>6. DOMAIN session' = Fids /\ \A g \in Fids : session'[g] = IF g = f THEN NoSession ELSE session[g]
  BY <1>1 DEF Drop, P9Inv, P9Typed
<1>7. P9Typed'
  <2>1. \A b \in Builds : DOMAIN fids'[b] \subseteq Fids /\ \A g \in DOMAIN fids'[b] : IsEntry(fids'[b][g])
    BY <1>5 DEF P9Inv, P9Typed
  <2>2. \A g \in Fids : IsSession(session'[g])
    BY <1>6, NoneOpen DEF P9Inv, P9Typed
  <2>3. writes' \in Nat
    BY <1>1 DEF P9Inv, P9Typed
  <2> QED BY <1>4, <1>5, <1>6, <2>1, <2>2, <2>3 DEF P9Typed
<1>8. Sessions'
  <2> SUFFICES ASSUME NEW g \in Fids, Plain(session'[g]) PROVE Under(g, session[g])'
    BY DEF Sessions
  <2>1. g # f /\ session'[g] = session[g] /\ Under(g, session[g])
    BY <1>6, NoneOpen DEF Plain, P9Inv, Sessions
  <2>2. \A b \in Builds : g \in DOMAIN fids'[b] /\ fids'[b][g] = fids[b][g]
    BY <1>5, <2>1 DEF Under, Bound
  <2>3. OnlyFid(fids', g, session[g].path)
    BY <1>5, <2>1 DEF Under, OnlyFid
  <2>4. /\ \A b \in Builds : session[g].path \in DOMAIN host'[b]
        /\ host'[Native][session[g].path] = host[Native][session[g].path]
    BY <1>4, <2>1, TwoBuilds DEF Under
  <2> QED BY <2>1, <2>2, <2>3, <2>4, UnderNext
<1>9. ends => /\ f \in DOMAIN fids[Wasm] /\ w.path = s.path /\ ~w.dir /\ w.buf = s.chunks /\ w.buf # <<>>
              /\ s.path \in DOMAIN host[Native] /\ host[Native][s.path] = s.chunks
              /\ OnlyFid(fids, f, s.path)
  BY TwoBuilds DEF P9Inv, Sessions, Under, Bound
<1> HIDE DEF s, w, ends
<1>10. StoredFiles'
  <2> SUFFICES ASSUME NEW p \in DOMAIN stored'
               PROVE  \A b \in Builds : p \in DOMAIN host'[b] /\ host'[b][p] = stored'[p]
    BY DEF StoredFiles
  <2>1. CASE ends /\ p = s.path /\ stored'[p] = s.chunks
    BY <1>4, <1>9, <2>1, TwoBuilds
  <2>2. CASE p \in DOMAIN gone /\ stored'[p] = gone[p]
    <3>1. /\ \A b \in Builds : p \in DOMAIN host[b] /\ host[b][p] = stored[p]
          /\ stored'[p] = stored[p] /\ (f \in DOMAIN fids[Wasm] /\ w.buf # <<>> => p # w.path)
      BY <1>2, <2>2 DEF P9Inv, StoredFiles
    <3> QED BY <1>4, <3>1, TwoBuilds
  <2> QED BY <1>3, <2>1, <2>2
<1>11. Copies'
  <2> SUFFICES ASSUME NEW g \in DOMAIN fids'[Wasm], fids'[Wasm][g].data.on,
                      fids'[Wasm][g].path \in DOMAIN stored'
               PROVE  fids'[Wasm][g].data.bytes = stored'[fids'[Wasm][g].path]
    BY DEF Copies
  <2>1. g # f /\ g \in Fids /\ g \in DOMAIN fids[Wasm] /\ fids'[Wasm][g] = fids[Wasm][g]
    BY <1>5, TwoBuilds DEF P9Inv, P9Typed
  <2>2. ~(ends /\ fids[Wasm][g].path = s.path)
    BY <1>9, <2>1, TwoBuilds DEF OnlyFid
  <2>3. fids[Wasm][g].path \in DOMAIN stored /\ stored'[fids[Wasm][g].path] = stored[fids[Wasm][g].path]
    BY <1>2, <1>3, <2>1, <2>2
  <2> QED BY <2>1, <2>3 DEF P9Inv, Copies
<1> QED BY <1>7, <1>8, <1>10, <1>11 DEF P9Inv

-----------------------------------------------------------------------------
LEMMA P9Start == P9Init => P9Inv
<1> SUFFICES ASSUME P9Init PROVE P9Inv
  OBVIOUS
<1>1. /\ DOMAIN host = Builds /\ DOMAIN fids = Builds /\ DOMAIN session = Fids /\ writes \in Nat
      /\ \A b \in Builds : DOMAIN fids[b] = {}
      /\ DOMAIN stored = {} /\ \A f \in Fids : session[f] = NoSession
  BY DEF P9Init
<1>2. P9Typed /\ Sessions
  BY <1>1, NoneOpen DEF P9Typed, Sessions, Plain
<1> QED BY <1>1, <1>2, TwoBuilds DEF P9Inv, StoredFiles, Copies

LEMMA P9Kept == P9Inv /\ [P9Next]_p9Vars => P9Inv'
<1> SUFFICES ASSUME P9Inv, [P9Next]_p9Vars PROVE P9Inv'
  OBVIOUS
<1>1. CASE P9Reset
  BY <1>1, ResetStep
<1>2. ASSUME NEW f \in Fids, Attach(f) PROVE P9Inv'
  BY <1>2, AttachStep
<1>3. ASSUME NEW f \in Fids, Clunk(f) PROVE P9Inv'
  BY <1>3, ClunkStep
<1>4. ASSUME NEW f \in Fids, NEW new \in Fids, NEW names \in NameLists, Walk(f, new, names) PROVE P9Inv'
  BY <1>4, WalkStep
<1>5. ASSUME NEW f \in Fids, NEW flags \in {"r", "w", "rw"}, Lopen(f, flags) PROVE P9Inv'
  BY <1>5, LopenStep
<1>6. ASSUME NEW f \in Fids, NEW name \in {"f", "g"}, Lcreate(f, name) PROVE P9Inv'
  BY <1>6, LcreateStep
<1>7. ASSUME NEW f \in Fids, NEW off \in 0 .. MaxChunks - 1, Write(f, off, writes + 1) PROVE P9Inv'
  <2>1. off \in Nat
    OBVIOUS
  <2> QED BY <1>7, <2>1, WriteStep
<1>8. CASE UNCHANGED p9Vars
  BY <1>8 DEF p9Vars, P9Inv, P9Typed, Sessions, Under, Bound, StoredFiles, Copies
<1> QED BY <1>1, <1>2, <1>3, <1>4, <1>5, <1>6, <1>7, <1>8 DEF P9Next

\* Tlopen, Twrite and Tclunk: a guest that writes a file alone and from its
\* start finds on the host what it wrote and reads that back, in both builds,
\* for every number of fids, chunks and requests.
THEOREM FilesStoredAsWritten == P9Spec => []StoredAsWritten
<1>1. P9Inv => StoredAsWritten
  <2> SUFFICES ASSUME P9Inv, NEW p \in DOMAIN stored
               PROVE  /\ \A b \in Builds : p \in DOMAIN host[b] /\ host[b][p] = stored[p]
                      /\ \A f \in Fids :
                            (\A b \in Builds : Bound(b, f) /\ fids[b][f].path = p) =>
                                /\ fids[Native][f].mode = "r" => ReadNative(f) = stored[p]
                                /\ fids[Wasm][f].data.on => ReadWasm(f) = stored[p]
    BY DEF StoredAsWritten
  <2>1. \A b \in Builds : p \in DOMAIN host[b] /\ host[b][p] = stored[p]
    BY DEF P9Inv, StoredFiles
  <2>2. ASSUME NEW f \in Fids, \A b \in Builds : Bound(b, f) /\ fids[b][f].path = p
        PROVE  /\ fids[Native][f].mode = "r" => ReadNative(f) = stored[p]
               /\ fids[Wasm][f].data.on => ReadWasm(f) = stored[p]
    BY <2>1, <2>2, TwoBuilds DEF ReadNative, ReadWasm, P9Inv, Copies, Bound
  <2> QED BY <2>1, <2>2
<1> QED BY <1>1, P9Start, P9Kept, PTL DEF P9Spec

=============================================================================
