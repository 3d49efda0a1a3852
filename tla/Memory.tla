-------------------------------- MODULE Memory --------------------------------
(***************************************************************************)
(* Loads, stores, LR/SC and AMOs of several harts as cpu/execution.rs,     *)
(* bus.rs and dram.rs carry them out, one memory access a step.  The       *)
(* native build has atomic instructions for words and doublewords, and a   *)
(* lock for AMOs on device registers.  The WASM build has JavaScript's     *)
(* Atomics on words: bytes and min/max go through a compare-exchange loop, *)
(* a doubleword is two words, and device registers have no lock.           *)
(*                                                                         *)
(* A hart's reservation is its own: another hart's store leaves it alone.  *)
(***************************************************************************)
EXTENDS Integers, Folds, Functions

CONSTANTS
    MemHarts, WordLen, MemRequests,
    BitAnd(_, _), BitOr(_, _), BitXor(_, _),
    MaxRequests         \* bound on the requests of a hart

\* The instructions: a load has no function, a store is a swap, bytes are stored
\* only, and bitwise operations stay within the width of their operands.
AmoFns == {"swap", "add", "and", "or", "xor", "min", "max", "minu", "maxu"}
IsRequest(r) ==
    /\ DOMAIN r = {"op", "fn", "size", "at", "val", "byte"}
    /\ r.at \in {"dram", "reg"} /\ r.val \in 0 .. (WordLen * WordLen) - 1
    /\ \/ r.op \in {"load", "lr"} /\ r.fn = "none" /\ r.size \in {"w", "d"}
       \/ r.op = "store" /\ r.fn = "swap" /\ r.size \in {"b", "w", "d"}
       \/ r.op = "sc" /\ r.fn = "swap" /\ r.size \in {"w", "d"}
       \/ r.op = "amo" /\ r.fn \in AmoFns /\ r.size \in {"w", "d"}
Closed(n) ==
    \A a, b \in 0 .. n - 1 : {BitAnd(a, b), BitOr(a, b), BitXor(a, b)} \subseteq 0 .. n - 1

ASSUME MemoryAssumption ==
    /\ MaxRequests \in Nat /\ WordLen \in {4, 16}
    /\ \A r \in MemRequests : IsRequest(r)
    /\ Closed(WordLen) /\ Closed(WordLen * WordLen)

VARIABLES
    platform,           \* "native" or "wasm"
    split,              \* on WASM, harts use doublewords and AMOs on registers
    lo, hi,             \* the doubleword's halves
    reg, resv, asked, done,
    amoLock,            \* AMO_LOCK: the hart that holds it, if any
    stage, loaded,      \* where a hart is in its access, what it has read
    requests            \* requests of each hart so far

memVars == <<platform, split, lo, hi, reg, resv, asked, done, amoLock, stage, loaded, requests>>

Abstract == INSTANCE AtomicMemory WITH dram <- lo + (WordLen * hi)

None == Abstract!None
Low(v) == Abstract!Low(v)
High(v) == Abstract!High(v)
Held == lo + (WordLen * hi)
MinMax == {"min", "max", "minu", "maxu"}

\* What the proof asks of the guest.  AMOMIN.W and AMOMAX.W of WASM compare with
\* all of rs2: it must hold a sign-extended word.  AMO_LOCK does not keep plain
\* stores to a device register out: the guest uses AMOs and loads on it.
ExtendedOperands ==
    \A r \in MemRequests :
        r.size = "w" /\ r.fn \in {"min", "max"} => r.val = Abstract!SignExtend(Low(r.val))
RegistersByAmo == \A r \in MemRequests : r.at = "reg" /\ r.op # "amo" => r.fn = "none"

\* Which requests this platform's guest makes.
SplitRequest(r) == r.size = "d" \/ (r.at = "reg" /\ r.op = "amo")
Offered(r) == platform = "native" \/ (split <=> SplitRequest(r))

MemInit ==
    /\ platform \in {"native", "wasm"}
    /\ split \in BOOLEAN /\ (split => platform = "wasm")
    /\ lo = 0 /\ hi = 0 /\ reg = 0
    /\ resv = [h \in MemHarts |-> FALSE]
    /\ asked = [h \in MemHarts |-> None]
    /\ done = <<>> /\ amoLock = {}
    /\ stage = [h \in MemHarts |-> "start"]
    /\ loaded = [h \in MemHarts |-> 0]
    /\ requests = [h \in MemHarts |-> 0]

Issue(h, r) ==
    /\ asked[h] = None /\ Offered(r)
    /\ requests[h] < MaxRequests
    /\ requests' = [requests EXCEPT ![h] = @ + 1]
    /\ asked' = [asked EXCEPT ![h] = r]
    /\ UNCHANGED <<platform, split, lo, hi, reg, resv, done, amoLock, stage, loaded>>

\* The instruction ends: its result goes to a register.
CompleteAccess(h, result) ==
    /\ done' = <<h, result>>
    /\ Abstract!Reserve(asked[h], h)
    /\ asked' = [asked EXCEPT ![h] = None]
    /\ stage' = [stage EXCEPT ![h] = "start"]
    /\ loaded' = [loaded EXCEPT ![h] = 0]

\* The next access of the same instruction, after reading v.
Then(h, s, v) ==
    /\ stage' = [stage EXCEPT ![h] = s]
    /\ loaded' = [loaded EXCEPT ![h] = v]
    /\ UNCHANGED <<asked, resv, done>>

At(h, s) == asked[h] # None /\ stage[h] = s

\* SC without the reservation stores nothing.
StoreConditionalFails(h) ==
    /\ At(h, "start")
    /\ asked[h].op = "sc" /\ ~resv[h]
    /\ CompleteAccess(h, 1)
    /\ UNCHANGED <<lo, hi, reg, amoLock>>

Proceeds(h) == Abstract!Stores(asked[h], h)
Result(h, old) == IF asked[h].op = "sc" THEN 0 ELSE Abstract!Answer(asked[h], old)

\* One atomic instruction of the host: every access of the native build, and
\* word accesses other than min and max of the WASM build.
WordAccess(r) == r.size = "w" /\ r.fn \notin MinMax
Direct(h) ==
    /\ At(h, "start") /\ Proceeds(h)
    /\ asked[h].at = "dram"
    /\ platform = "native" \/ WordAccess(asked[h])
    /\ LET new == Abstract!New(asked[h], Held) IN lo' = Low(new) /\ hi' = High(new)
    /\ CompleteAccess(h, Result(h, Held))
    /\ UNCHANGED <<reg, amoLock>>

\* WASM store_8, store_16, and atomic_min and its kin for words: load the word,
\* compute, compare-exchange, retry.  min and max compare with all of rs2.
ByLoop(r) == r.at = "dram" /\ (r.size = "b" \/ (r.size = "w" /\ r.fn \in MinMax))
LoadWord(h) ==
    /\ platform = "wasm" /\ At(h, "start") /\ ByLoop(asked[h])
    /\ Then(h, "cas", lo)
    /\ UNCHANGED <<lo, hi, reg, amoLock>>

LoopWord(r, old) ==
    IF r.size = "w" /\ r.fn \in {"min", "max"}
    THEN Low(Abstract!Fn(r.fn, Abstract!SignExtend(old), r.val, WordLen * WordLen))
    ELSE Abstract!NewWord(r, old)

\* Mutant: the loop stores without comparing.
BlindWord(h) ==
    /\ platform = "wasm" /\ At(h, "cas") /\ ByLoop(asked[h])
    /\ lo' = LoopWord(asked[h], loaded[h])
    /\ CompleteAccess(h, Result(h, loaded[h]))
    /\ UNCHANGED <<hi, reg, amoLock>>

CompareExchangeWord(h) ==
    /\ platform = "wasm" /\ At(h, "cas") /\ ByLoop(asked[h])
    /\ IF lo = loaded[h]
       THEN lo' = LoopWord(asked[h], loaded[h]) /\ CompleteAccess(h, Result(h, loaded[h]))
       ELSE lo' = lo /\ Then(h, "start", 0)
    /\ UNCHANGED <<hi, reg, amoLock>>

-----------------------------------------------------------------------------
(* WASM doublewords.                                                       *)

Double(h) == platform = "wasm" /\ asked[h].size = "d"

\* load_64 and LR.D, the first half of atomic_add_64 and of the other loops.
LoadLow(h) ==
    /\ At(h, "start") /\ Proceeds(h) /\ Double(h) /\ asked[h].fn # "swap"
    /\ Then(h, "high", lo)
    /\ UNCHANGED <<lo, hi, reg, amoLock>>
LoadHigh(h) ==
    /\ At(h, "high") /\ Double(h)
    /\ LET v == loaded[h] + (WordLen * hi)
       IN IF asked[h].fn = "none" THEN CompleteAccess(h, v) ELSE Then(h, "cas", v)
    /\ UNCHANGED <<lo, hi, reg, amoLock>>

\* store_64, SC.D and atomic_swap_64: the low half, then the high half.
SwapLow(h) ==
    /\ At(h, "start") /\ Proceeds(h) /\ Double(h) /\ asked[h].fn = "swap"
    /\ lo' = Low(asked[h].val)
    /\ Then(h, "swap", lo)
    /\ UNCHANGED <<hi, reg, amoLock>>
SwapHigh(h) ==
    /\ At(h, "swap")
    /\ hi' = High(asked[h].val)
    /\ CompleteAccess(h, Result(h, loaded[h] + (WordLen * hi)))
    /\ UNCHANGED <<lo, reg, amoLock>>

\* The loops: compare-exchange of the low half; the high half is then stored
\* (add, and, or, xor) or compare-exchanged too (min, max).
DoubleNew(h) == Abstract!New(asked[h], loaded[h])
ExchangeLow(h) ==
    /\ At(h, "cas") /\ Double(h)
    /\ IF lo = Low(loaded[h])
       THEN /\ lo' = Low(DoubleNew(h))
            /\ Then(h, IF asked[h].fn \in MinMax THEN "cashigh" ELSE "store", loaded[h])
       ELSE lo' = lo /\ Then(h, "start", 0)
    /\ UNCHANGED <<hi, reg, amoLock>>
StoreHigh(h) ==
    /\ At(h, "store")
    /\ hi' = High(DoubleNew(h))
    /\ CompleteAccess(h, loaded[h])
    /\ UNCHANGED <<lo, reg, amoLock>>
ExchangeHigh(h) ==
    /\ At(h, "cashigh")
    /\ IF hi = High(loaded[h])
       THEN hi' = High(DoubleNew(h)) /\ CompleteAccess(h, loaded[h])
       ELSE hi' = hi /\ Then(h, "restore", loaded[h])
    /\ UNCHANGED <<lo, reg, amoLock>>
RestoreLow(h) ==
    /\ At(h, "restore")
    /\ lo' = Low(loaded[h])
    /\ Then(h, "start", 0)
    /\ UNCHANGED <<hi, reg, amoLock>>

-----------------------------------------------------------------------------
(* Device registers.                                                       *)

AccessRegister(h) ==
    /\ At(h, "start") /\ Proceeds(h)
    /\ asked[h].at = "reg" /\ asked[h].op # "amo"
    /\ reg' = Abstract!New(asked[h], reg)
    /\ CompleteAccess(h, Result(h, reg))
    /\ UNCHANGED <<lo, hi, amoLock>>

ReadRegister(h) ==
    /\ At(h, "start") /\ asked[h].at = "reg" /\ asked[h].op = "amo"
    /\ IF platform = "native" THEN amoLock = {} /\ amoLock' = {h} ELSE amoLock' = amoLock
    /\ Then(h, "modify", reg)
    /\ UNCHANGED <<lo, hi, reg>>
ModifyRegister(h) ==
    /\ At(h, "modify")
    /\ reg' = Abstract!New(asked[h], loaded[h])
    /\ amoLock' = {}
    /\ CompleteAccess(h, Result(h, loaded[h]))
    /\ UNCHANGED <<lo, hi>>

-----------------------------------------------------------------------------
MemStep(h) ==
    /\ \/ StoreConditionalFails(h) \/ Direct(h)
       \/ LoadWord(h) \/ CompareExchangeWord(h)
       \/ LoadLow(h) \/ LoadHigh(h) \/ SwapLow(h) \/ SwapHigh(h)
       \/ ExchangeLow(h) \/ StoreHigh(h) \/ ExchangeHigh(h) \/ RestoreLow(h)
       \/ AccessRegister(h) \/ ReadRegister(h) \/ ModifyRegister(h)
    /\ UNCHANGED <<platform, split, requests>>

MemNext == \E h \in MemHarts : MemStep(h) \/ \E r \in MemRequests : Issue(h, r)

MemSpec == MemInit /\ [][MemNext]_memVars

\* What the harts of the native build see, and those of WASM that keep to words.
Seen(v, start) == IF split THEN start ELSE v
Promise == INSTANCE AtomicMemory WITH
    dram <- Seen(Held, 0), reg <- Seen(reg, 0), done <- Seen(done, <<>>),
    resv <- Seen(resv, [h \in MemHarts |-> FALSE]),
    asked <- Seen(asked, [h \in MemHarts |-> None])

\* Every access of every hart is atomic, bytes, min/max and device registers
\* included ("AMO* operations - MUST be atomic across all harts",
\* cpu/execution.rs): no update is lost and no answer is a mixture.
MemoryIsAtomic == Promise!AtomicSpec

\* Harts that only add to a doubleword: once all of them are done, every addition
\* is in it ("We use a simple spinlock approach for 64-bit AMOs to ensure
\* atomicity", dram.rs).
Sum(f) == FoldFunction(+, 0, f)
OnlyAdds == {r \in MemRequests : r.size = "d" /\ r.fn = "add"}
AddsCounted ==
    (\A h \in MemHarts : asked[h] = None) =>
        \A r \in OnlyAdds :
            MemRequests = {r} => Held = (r.val * Sum(requests)) % (WordLen * WordLen)

=============================================================================
