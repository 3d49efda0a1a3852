------------------------------ MODULE MCPlicFast ------------------------------
(* Small instances of PlicFast for TLC.                                      *)
EXTENDS PlicFast, TLC

MCModesS == {"S"}
\* The UART's source is polled before the lower-numbered virtio sources.
MCIrq2 == <<2, 1>>
\* A guest that enables both sources at once, and one that tries every set.
MCSetsBoth == {{1, 2}}
MCSetsAll == SUBSET {1, 2}
MCSymmetry == Permutations(Harts)
===============================================================================
