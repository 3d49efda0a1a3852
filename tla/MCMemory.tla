------------------------------- MODULE MCMemory -------------------------------
EXTENDS Memory, Bitwise

MCAnd(a, b) == a & b
MCOr(a, b) == a | b
MCXor(a, b) == a ^^ b

Rq(op, fn, size, at, val) ==
    [op |-> op, fn |-> fn, size |-> size, at |-> at, val |-> val, byte |-> IF val = 3 THEN 1 ELSE 0]
MCMemRequests ==
    { Rq("load", "none", "w", "dram", 0), Rq("store", "swap", "b", "dram", 3),
      Rq("store", "swap", "b", "dram", 1), Rq("amo", "add", "w", "dram", 1),
      Rq("amo", "min", "w", "dram", 15), Rq("amo", "maxu", "w", "dram", 2),
      Rq("lr", "none", "w", "dram", 0), Rq("sc", "swap", "w", "dram", 2),
      Rq("amo", "add", "w", "reg", 1), Rq("amo", "or", "w", "reg", 2),
      Rq("load", "none", "w", "reg", 0) }
MCDoubleRequests ==
    { Rq("load", "none", "d", "dram", 0), Rq("store", "swap", "d", "dram", 9),
      Rq("amo", "add", "d", "dram", 3), Rq("amo", "max", "d", "dram", 6) }
MCBothRequests == MCMemRequests \cup MCDoubleRequests
MCAdds == {Rq("amo", "add", "d", "dram", 3)}

ASSUME GuestAssumption == ExtendedOperands /\ RegistersByAmo
=============================================================================
