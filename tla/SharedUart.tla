------------------------------- MODULE SharedUart -------------------------------
(***************************************************************************)
(* The rings in the SharedArrayBuffer that carry UART bytes between the    *)
(* WASM workers and the main thread (shared_mem.rs): SharedUartOutput,     *)
(* written by the workers' buses and drained by WasmVm::get_output, and    *)
(* SharedUartInput, written by WasmVm::input and read by the workers.      *)
(* Both have the same code.  Each load or store of an index and each byte  *)
(* is a step; a full ring drops bytes.                                     *)
(***************************************************************************)
EXTENDS Integers, Sequences

CONSTANTS
    UartCapacity,       \* UART_BUFFER_CAPACITY, UART_INPUT_BUFFER_CAPACITY
    Writers,        \* the threads that write to this ring
    MaxSlice,       \* longest slice given to write_bytes, count to read_bytes
    MaxBytes        \* bound on the bytes produced

ASSUME SharedUartAssumption ==
    UartCapacity \in Nat \ {0, 1} /\ MaxSlice \in Nat \ {0} /\ MaxBytes \in Nat

VARIABLES
    cells, widx, ridx,   \* the bytes and the two indices
    writer,             \* writer[w]: where a write is, with its locals
    reader,             \* the reading thread, with its locals
    made,               \* bytes produced so far, by all writers
    taken, missed       \* history: bytes handed out, bytes dropped

ringVars == <<cells, widx, ridx, writer, reader, made, taken, missed>>

NoWrite == [at |-> "idle"]
NoRead == [at |-> "idle"]
Places == 0 .. UartCapacity - 1
NextPlace(k) == (k + 1) % UartCapacity

RingInit ==
    /\ cells = [k \in Places |-> 0]
    /\ widx = 0 /\ ridx = 0
    /\ writer = [w \in Writers |-> NoWrite] /\ reader = NoRead
    /\ made = 0 /\ taken = <<>> /\ missed = {}

\* write_byte (n = 1) or write_bytes of n: the write index is loaded first.
StartWrite(w, n) ==
    /\ writer[w] = NoWrite
    /\ made + n <= MaxBytes
    /\ made' = made + n
    /\ writer' = [writer EXCEPT ![w] =
                    [at |-> "room", cur |-> widx, first |-> made + 1, left |-> n]]
    /\ UNCHANGED <<cells, widx, ridx, reader, taken, missed>>

\* Mutant: the ring is filled to the last place.
RoomLeftFull(w) ==
    IF writer[w].cur >= ridx THEN UartCapacity - (writer[w].cur - ridx) ELSE ridx - writer[w].cur

\* The room, with the read index of now; one place stays free.
RoomLeft(w) ==
    IF writer[w].cur >= ridx THEN UartCapacity - (writer[w].cur - ridx) - 1
    ELSE ridx - writer[w].cur - 1

CheckRoom(w) ==
    /\ writer[w].at = "room"
    /\ LET n == writer[w].left
           fits == IF RoomLeft(w) < n THEN RoomLeft(w) ELSE n
           first == writer[w].first
       IN /\ missed' = missed \cup (first + fits .. first + n - 1)
          /\ writer' = [writer EXCEPT ![w] = IF fits = 0 THEN NoWrite
                                             ELSE [@ EXCEPT !.at = "put", !.left = fits]]
    /\ UNCHANGED <<cells, widx, ridx, reader, made, taken>>

PutByteIn(w) ==
    /\ writer[w].at = "put" /\ writer[w].left > 0
    /\ cells' = [cells EXCEPT ![writer[w].cur] = writer[w].first]
    /\ writer' = [writer EXCEPT ![w].cur = NextPlace(@), ![w].first = @ + 1, ![w].left = @ - 1]
    /\ UNCHANGED <<widx, ridx, reader, made, taken, missed>>

EndWrite(w) ==
    /\ writer[w].at = "put" /\ writer[w].left = 0
    /\ widx' = writer[w].cur
    /\ writer' = [writer EXCEPT ![w] = NoWrite]
    /\ UNCHANGED <<cells, ridx, reader, made, taken, missed>>

\* read_byte (n = 1) or read_bytes: the write index is loaded first.
StartRead(n) ==
    /\ reader = NoRead
    /\ reader' = [at |-> "index", upto |-> widx, left |-> n]
    /\ UNCHANGED <<cells, widx, ridx, writer, made, taken, missed>>

\* Then the read index; an empty ring ends the call.
CheckData ==
    /\ reader.at = "index"
    /\ LET have == IF reader.upto >= ridx THEN reader.upto - ridx
                   ELSE (UartCapacity - ridx) + reader.upto
           n == IF have < reader.left THEN have ELSE reader.left
       IN reader' = IF n = 0 THEN NoRead
                    ELSE [at |-> "get", cur |-> ridx, left |-> n, bytes |-> <<>>]
    /\ UNCHANGED <<cells, widx, ridx, writer, made, taken, missed>>

GetByteOut ==
    /\ reader.at = "get" /\ reader.left > 0
    /\ reader' = [reader EXCEPT !.bytes = Append(@, cells[reader.cur]),
                                !.cur = NextPlace(@), !.left = @ - 1]
    /\ UNCHANGED <<cells, widx, ridx, writer, made, taken, missed>>

EndRead ==
    /\ reader.at = "get" /\ reader.left = 0
    /\ ridx' = reader.cur
    /\ taken' = taken \o reader.bytes
    /\ reader' = NoRead
    /\ UNCHANGED <<cells, widx, writer, made, missed>>

RingNext ==
    \/ \E w \in Writers :
          \/ \E n \in 1 .. MaxSlice : StartWrite(w, n)
          \/ CheckRoom(w) \/ PutByteIn(w) \/ EndWrite(w)
    \/ \E n \in 1 .. MaxSlice : StartRead(n)
    \/ CheckData \/ GetByteOut \/ EndRead

RingSpec == RingInit /\ [][RingNext]_ringVars

-----------------------------------------------------------------------------
\* What is between the indices.
Filled == IF widx >= ridx THEN widx - ridx ELSE (UartCapacity - ridx) + widx
Contents == [k \in 1 .. Filled |-> cells[(ridx + k - 1) % UartCapacity]]

Queue == INSTANCE Fifo WITH Capacity <- UartCapacity - 1, queue <- Contents

\* With one writer and one reader the ring is a queue: bytes come out once, in
\* order and intact, whatever wraps, fills up or overlaps ("lock-free
\* single-producer-single-consumer ring buffer", shared_mem.rs).
RingIsFifo == Queue!FifoSpec

=============================================================================
