-------------------------------- MODULE Console --------------------------------
(***************************************************************************)
(* The UART and the SBI calls that use it: register accesses of the guest  *)
(* and of the firmware calls on any hart, keys pushed and output drained   *)
(* by the host (devices/uart.rs, sbi/console.rs, sbi/legacy.rs).           *)
(*                                                                         *)
(* A register access holds the register mutex from start to end and takes  *)
(* the two FIFO mutexes inside it, always in the same order; the host's    *)
(* output functions take the transmit FIFO's alone.  So an access is one   *)
(* step, while an SBI call is several.  Keys are numbered as they arrive,  *)
(* and so is output.                                                       *)
(***************************************************************************)
EXTENDS Integers, Sequences

CONSTANTS
    ConsoleHarts,
    IerValues,              \* what the guest writes to IER: of "rx" and "tx"
    MaxKeys, MaxOutput      \* bounds on the keys and on the guest's output

ASSUME ConsoleAssumption ==
    /\ IerValues \subseteq SUBSET {"rx", "tx"}
    /\ MaxKeys \in Nat /\ MaxOutput \in Nat

VARIABLES
    rx, tx,         \* the FIFOs
    dataReady,      \* LSR bit 0
    thre,           \* thre_ip
    ier,            \* the enabled interrupts, of "rx" and "tx"
    dlab,           \* LCR bit 7
    iir, uartIrq,   \* cause shown in IIR, interrupting
    sbi,            \* the call each hart is in
    keys, sent,     \* how many keys were pushed, bytes transmitted
    got, lostKeys,  \* history: keys handed to the guest, keys dropped
    shown, cleared, \* history: output handed to the host, output dropped
    phantom,        \* history: a read without data returned 0
    intruded,       \* history: harts whose data was taken since their LSR check
    flushed         \* history: FIFOs cleared since interrupts were computed

fifos == <<rx, tx>>
uartVars == <<rx, tx, dataReady, thre, ier, dlab, iir, uartIrq, sbi, keys, sent, got, lostKeys,
              shown, cleared, phantom, intruded, flushed>>

Inactive == [at |-> "none"]
Fifo(s) == {s[k] : k \in DOMAIN s}

ConsoleInit ==
    /\ rx = <<>> /\ tx = <<>>
    /\ dataReady = FALSE /\ thre = TRUE /\ ier = {} /\ dlab = FALSE
    /\ iir = "none" /\ uartIrq = FALSE
    /\ sbi = [h \in ConsoleHarts |-> Inactive]
    /\ keys = 0 /\ sent = 0
    /\ got = <<>> /\ lostKeys = {} /\ shown = <<>> /\ cleared = {}
    /\ phantom = FALSE /\ intruded = {} /\ flushed = FALSE

\* update_interrupts_internal: received data first, then the empty transmitter.
UpdateInterrupts ==
    /\ iir' = IF dataReady' /\ "rx" \in ier' THEN "rx"
              ELSE IF thre' /\ "tx" \in ier' THEN "tx" ELSE "none"
    /\ uartIrq' = (iir' # "none")
    /\ flushed' = FALSE

hostSide == <<keys, shown>>
Reading == {h \in ConsoleHarts : sbi[h].at = "rbr"}

-----------------------------------------------------------------------------
(* Register accesses.                                                      *)

\* RBR without DLAB: an empty FIFO reads as 0.
Pop(h) ==
    /\ rx' = IF rx = <<>> THEN rx ELSE Tail(rx)
    /\ dataReady' = (dataReady /\ rx' # <<>>)
    /\ intruded' = (intruded \cup Reading) \ {h}

\* A hart reads RBR for itself or inside a call; its byte is delivered or dropped.
ReadRbr(h, delivered) ==
    IF dlab
    THEN UNCHANGED <<rx, dataReady, thre, ier, iir, uartIrq, flushed, got, lostKeys, phantom, intruded>>
    ELSE /\ Pop(h)
         /\ UNCHANGED <<thre, ier>>
         /\ UpdateInterrupts
         /\ phantom' = (phantom \/ (rx = <<>> /\ sbi[h] # Inactive /\ h \notin intruded))
         /\ got' = IF delivered /\ rx # <<>> THEN Append(got, Head(rx)) ELSE got
         /\ lostKeys' = IF delivered \/ rx = <<>> THEN lostKeys ELSE lostKeys \cup {Head(rx)}

GuestReadsRbr(h) ==
    /\ sbi[h] = Inactive /\ rx # <<>>
    /\ ReadRbr(h, TRUE)
    /\ UNCHANGED <<tx, dlab, sbi, sent, cleared, hostSide>>

GuestReadsIir(h) ==
    /\ sbi[h] = Inactive
    /\ iir = "tx"
    /\ thre' = FALSE
    /\ UNCHANGED <<fifos, dataReady, ier, dlab, sbi, sent, got, lostKeys, cleared, phantom,
                   intruded, hostSide>>
    /\ UpdateInterrupts

\* THR without DLAB.
Transmit ==
    /\ sent < MaxOutput
    /\ UNCHANGED <<rx, dataReady, ier, dlab, got, lostKeys, cleared, phantom, intruded, hostSide>>
    /\ IF dlab THEN UNCHANGED <<tx, sent, thre, iir, uartIrq, flushed>>
       ELSE /\ tx' = Append(tx, sent + 1)
            /\ sent' = sent + 1
            /\ thre' = TRUE
            /\ UpdateInterrupts

\* The guest, console_putchar or console_write_byte.
Putchar(h) == sbi[h] = Inactive /\ Transmit /\ UNCHANGED sbi

WriteIer(h, set) ==
    /\ sbi[h] = Inactive /\ ~dlab
    /\ ier' = set
    /\ UNCHANGED <<fifos, dataReady, thre, dlab, sbi, sent, got, lostKeys, cleared, phantom,
                   intruded, hostSide>>
    /\ UpdateInterrupts

\* Interrupts are not computed again.
WriteFcr(h, clearRx, clearTx) ==
    /\ sbi[h] = Inactive
    /\ rx' = IF clearRx THEN <<>> ELSE rx
    /\ dataReady' = (dataReady /\ ~clearRx)
    /\ lostKeys' = IF clearRx THEN lostKeys \cup Fifo(rx) ELSE lostKeys
    /\ tx' = IF clearTx THEN <<>> ELSE tx
    /\ cleared' = IF clearTx THEN cleared \cup Fifo(tx) ELSE cleared
    /\ flushed' = (flushed \/ clearRx)
    /\ intruded' = IF clearRx THEN Reading ELSE intruded
    /\ UNCHANGED <<thre, ier, dlab, iir, uartIrq, sbi, sent, got, phantom, hostSide>>

WriteLcr(h) ==
    /\ sbi[h] = Inactive
    /\ dlab' = ~dlab
    /\ UNCHANGED <<fifos, dataReady, thre, ier, iir, uartIrq, sbi, sent, got, lostKeys, cleared,
                   phantom, intruded, flushed, hostSide>>

-----------------------------------------------------------------------------
(* The firmware's calls: the bus is used one access at a time.             *)

Registers == <<fifos, dataReady, thre, ier, dlab, iir, uartIrq, sent, got, lostKeys, cleared,
               phantom, flushed>>

\* console_read of n bytes, or console_getchar (n = 0 stands for its one byte,
\* which goes to a register and not to memory).
ConsoleRead(h, n) ==
    /\ sbi[h] = Inactive
    /\ sbi' = [sbi EXCEPT ![h] = [at |-> "lsr", left |-> n]]
    /\ UNCHANGED <<Registers, intruded, hostSide>>

CheckLsr(h) ==
    /\ sbi[h].at = "lsr"
    /\ sbi' = [sbi EXCEPT ![h] = IF dataReady THEN [@ EXCEPT !.at = "rbr"] ELSE Inactive]
    /\ intruded' = intruded \ {h}
    /\ UNCHANGED <<Registers, hostSide>>

\* The byte is read, then stored in the guest's memory, which may fail.
TakeByte(h) ==
    /\ sbi[h].at = "rbr"
    /\ LET n == sbi[h].left IN
       \/ /\ ReadRbr(h, TRUE)
          /\ sbi' = [sbi EXCEPT ![h] =
                       IF n <= 1 THEN Inactive ELSE [at |-> "lsr", left |-> n - 1]]
       \/ /\ n > 0
          /\ ReadRbr(h, FALSE)
          /\ sbi' = [sbi EXCEPT ![h] = Inactive]
    /\ UNCHANGED <<tx, dlab, sent, cleared, hostSide>>

\* console_write: n bytes, or as many as can be read from memory.
ConsoleWrite(h, n) ==
    /\ sbi[h] = Inactive
    /\ sbi' = [sbi EXCEPT ![h] = [at |-> "thr", left |-> n]]
    /\ UNCHANGED <<Registers, intruded, hostSide>>
WriteByte(h) ==
    /\ sbi[h].at = "thr"
    /\ \/ /\ sbi[h].left > 0 /\ Transmit
          /\ sbi' = [sbi EXCEPT ![h].left = @ - 1]
       \/ /\ sbi' = [sbi EXCEPT ![h] = Inactive]
          /\ UNCHANGED <<Registers, intruded, hostSide>>

-----------------------------------------------------------------------------
(* The host.                                                               *)

PushInput ==
    /\ keys < MaxKeys
    /\ keys' = keys + 1
    /\ rx' = Append(rx, keys + 1)
    /\ dataReady' = TRUE
    /\ UNCHANGED <<tx, thre, ier, dlab, sbi, sent, got, lostKeys, shown, cleared, phantom, intruded>>
    /\ UpdateInterrupts

\* Mutant: the drained output stays in the FIFO.
PeekOutput ==
    /\ tx # <<>>
    /\ shown' = Append(shown, Head(tx))
    /\ UNCHANGED <<rx, tx, dataReady, thre, ier, dlab, iir, uartIrq, sbi, keys, sent, got, lostKeys,
                   cleared, phantom, intruded, flushed>>

\* pop_output, once or until drain_output is done.
PopOutput ==
    /\ tx # <<>>
    /\ tx' = Tail(tx)
    /\ shown' = Append(shown, Head(tx))
    /\ UNCHANGED <<rx, dataReady, thre, ier, dlab, iir, uartIrq, sbi, keys, sent, got, lostKeys,
                   cleared, phantom, intruded, flushed>>

ConsoleNext ==
    \/ PushInput \/ PopOutput
    \/ \E h \in ConsoleHarts :
          \/ GuestReadsRbr(h) \/ GuestReadsIir(h) \/ Putchar(h) \/ WriteLcr(h)
          \/ \E set \in IerValues : WriteIer(h, set)
          \/ \E n \in {0, 2} : ConsoleRead(h, n)
          \/ CheckLsr(h) \/ TakeByte(h) \/ ConsoleWrite(h, 2) \/ WriteByte(h)
          \/ WriteFcr(h, TRUE, FALSE) \/ WriteFcr(h, FALSE, TRUE)

ConsoleSpec == ConsoleInit /\ [][ConsoleNext]_uartVars

-----------------------------------------------------------------------------
\* Keys reach the guest in the order typed, each once, and none disappears but
\* by a cleared FIFO or a failing store of console_read; the same for output.  A
\* hart that found data ready reads no NUL unless another access took the data
\* in between (RBR and LSR against FCR, console_read on two harts).
Increasing(s) == \A i, j \in DOMAIN s : i < j => s[i] < s[j]
StreamsExact ==
    /\ Increasing(got \o rx) /\ Increasing(shown \o tx)
    /\ Fifo(got \o rx) \cup lostKeys = 1 .. keys
    /\ Fifo(shown \o tx) \cup cleared = 1 .. sent
    /\ ~phantom

\* LSR tells the truth, and an enabled cause is signalled to the PLIC; a signal
\* without a cause is left over from a cleared FIFO (update_interrupts_internal).
Cause == (rx # <<>> /\ "rx" \in ier) \/ (thre /\ "tx" \in ier)
SignalsExact ==
    /\ dataReady <=> rx # <<>>
    /\ Cause => uartIrq
    /\ uartIrq => Cause \/ flushed

\* The console loses and invents nothing: no byte in either direction, and no
\* interrupt, whatever the registers, the SBI calls of several harts and the host
\* do in between (uart.rs, sbi/console.rs).
ConsoleExact == StreamsExact /\ SignalsExact

=============================================================================
