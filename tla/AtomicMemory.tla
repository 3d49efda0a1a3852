----------------------------- MODULE AtomicMemory -----------------------------
(***************************************************************************)
(* What the RISC-V A extension promises the harts: every load, store, AMO, *)
(* LR and SC takes effect at one moment between its start and its end.     *)
(* Memory is shown to implement it.                                        *)
(*                                                                         *)
(* Memory is one aligned doubleword and one device register of a word; a   *)
(* word has WordLen values, so a doubleword has WordLen * WordLen, and a   *)
(* byte is the low or the high half of a word's bits.  Operands are        *)
(* doublewords, as registers are.                                          *)
(***************************************************************************)
EXTENDS Integers

CONSTANTS
    MemHarts, WordLen, MemRequests,     \* WordLen: 4 or 16
    BitAnd(_, _), BitOr(_, _), BitXor(_, _)

VARIABLES
    dram,       \* the doubleword
    reg,        \* the device register
    resv,       \* resv[h]: hart h holds a reservation
    asked,      \* the request a hart is executing, or None
    done        \* the last answer given, to which hart

atomicVars == <<dram, reg, resv, asked, done>>

None == [op |-> "none"]
DoubleLen == WordLen * WordLen
ByteLen == IF WordLen = 4 THEN 2 ELSE 4
Low(v) == v % WordLen
High(v) == v \div WordLen
Signed(v, len) == IF v >= len \div 2 THEN v - len ELSE v
\* "as i32 as i64 as u64".
SignExtend(v) == IF v >= WordLen \div 2 THEN v + (DoubleLen - WordLen) ELSE v

\* The new value an instruction stores, in a place of len values.
Fn(fn, old, val, len) ==
    CASE fn = "none" -> old
      [] fn = "swap" -> val
      [] fn = "add" -> (old + val) % len
      [] fn = "and" -> BitAnd(old, val)
      [] fn = "or" -> BitOr(old, val)
      [] fn = "xor" -> BitXor(old, val)
      [] fn = "min" -> IF Signed(old, len) < Signed(val, len) THEN old ELSE val
      [] fn = "max" -> IF Signed(old, len) > Signed(val, len) THEN old ELSE val
      [] fn = "minu" -> IF old < val THEN old ELSE val
      [] fn = "maxu" -> IF old > val THEN old ELSE val

PutByte(word, byte, val) ==
    LET unit == IF byte = 0 THEN 1 ELSE ByteLen
        held == (word \div unit) % ByteLen
    IN (word - (held * unit)) + ((val % ByteLen) * unit)

NewWord(r, word) ==
    IF r.size = "b" THEN PutByte(word, r.byte, r.val) ELSE Fn(r.fn, word, Low(r.val), WordLen)
New(r, old) ==
    IF r.size = "d" THEN Fn(r.fn, old, r.val, DoubleLen)
    ELSE NewWord(r, Low(old)) + (WordLen * High(old))

Answer(r, old) ==
    CASE r.op = "store" -> 0
      [] r.size = "d" -> old
      [] OTHER -> SignExtend(Low(old))

Stores(r, h) == r.op = "sc" => resv[h]
\* A reservation is on the doubleword; accesses elsewhere leave it alone.
Reserve(r, h) ==
    resv' = [resv EXCEPT ![h] = IF r.op = "load" \/ r.at # "dram" THEN @ ELSE r.op = "lr"]

-----------------------------------------------------------------------------
AtomicInit ==
    /\ dram = 0 /\ reg = 0
    /\ resv = [h \in MemHarts |-> FALSE]
    /\ asked = [h \in MemHarts |-> None]
    /\ done = <<>>

Ask(h, r) ==
    /\ asked[h] = None
    /\ asked' = [asked EXCEPT ![h] = r]
    /\ UNCHANGED <<dram, reg, resv, done>>

Do(h) ==
    /\ asked[h] # None
    /\ LET r == asked[h]
           old == IF r.at = "dram" THEN dram ELSE reg
           new == IF Stores(r, h) THEN New(r, old) ELSE old
       IN /\ dram' = IF r.at = "dram" THEN new ELSE dram
          /\ reg' = IF r.at = "dram" THEN reg ELSE new
          /\ done' = <<h, IF r.op = "sc" THEN (IF Stores(r, h) THEN 0 ELSE 1)
                          ELSE Answer(r, old)>>
          /\ Reserve(r, h)
    /\ asked' = [asked EXCEPT ![h] = None]

AtomicNext ==
    \E h \in MemHarts : Do(h) \/ \E r \in MemRequests : Ask(h, r)

AtomicSpec == AtomicInit /\ [][AtomicNext]_atomicVars

=============================================================================
