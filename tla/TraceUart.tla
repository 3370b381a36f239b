------------------------------ MODULE TraceUart ------------------------------
(***************************************************************************)
(* The trace output: DbgTraceWrite puts messages in a CircularQueue and    *)
(* starts the DMA if it is idle; the interrupt at the end of each          *)
(* transmission removes the element and starts the next.  The main loop    *)
(* sends the measurement frames through the same UART, without the queue.  *)
(*                                                                         *)
(* All messages form one stream of bytes; byte t is the number t modulo    *)
(* StreamMod.  Only the thread traces (no interrupt handler does with the  *)
(* debug switches of app_conf.h and tl_dbg_conf.h).                        *)
(***************************************************************************)
EXTENDS CircularQueue

CONSTANTS
  Sizes,      (* lengths of messages                                       *)
  StreamMod   (* bound: positions in the stream                            *)

ASSUME TraceUartAssumption == Sizes \subseteq Nat \ {0} /\ StreamMod \in Nat \ {0}

\* No trace of this program is longer than its two header bytes leave in a
\* uint8_t: with a longer one that is split, the remainder in CircularQueue_Add
\* may lose the room for the second header (see Fits).
ASSUME ShortMessages == \A n \in Sizes : n + HeaderSize <= ByteSize

VARIABLES
  MsgDbgTraceQueue, DbgTracePeripheralReady,
  gState,         (* of the UART handle: READY or BUSY_TX                  *)
  dma,            (* the transmission: the next byte, how many are left    *)
  pc, out,        (* the thread, and what it is about to transmit          *)
  written,        (* ghost: position in the stream of the next message     *)
  removed,        (* ghost: position of the first element of the queue     *)
  misdirected     (* ghost: the transmission started with a second part    *)

q == MsgDbgTraceQueue
vars == <<MsgDbgTraceQueue, DbgTracePeripheralReady, gState, dma, pc, out, written, removed,
          misdirected>>

NoDma == [pos |-> 0, left |-> -1]

\* n bytes of the stream from position t.
Stream(t, n) == [i \in 1..n |-> (t + i - 1) % StreamMod]

Init ==
  /\ MsgDbgTraceQueue = CircularQueue_Init /\ DbgTracePeripheralReady = TRUE
  /\ gState = "READY" /\ dma = NoDma
  /\ pc = "idle" /\ out = NoDma
  /\ written = 0 /\ removed = 0 /\ misdirected = FALSE

----------------------------------------------------------------------------
(* The thread                                                              *)

\* Mutant: the ready flag is tested but not reset.
DbgTraceWriteKeepsReady(n) ==
  /\ pc = "idle"
  /\ IF Fits(q, n)
     THEN /\ MsgDbgTraceQueue' = CircularQueue_Add(q, Stream(written, n))
          /\ written' = (written + n) % StreamMod
          /\ IF DbgTracePeripheralReady
             THEN /\ pc' = "output" /\ out' = [pos |-> DataAt(q'.last), left |-> n]
                  /\ misdirected' = (q'.elementCount > 1)
             ELSE UNCHANGED <<pc, out, misdirected>>
     ELSE UNCHANGED <<MsgDbgTraceQueue, written, pc, out, misdirected>>
  /\ UNCHANGED <<DbgTracePeripheralReady, gState, dma, removed>>

\* The critical section: a message that does not fit is dropped.  When the
\* transmitter is ready the message just added is sent, from the pointer
\* CircularQueue_Add gave and with the length of the whole message.
DbgTraceWrite(n) ==
  /\ pc = "idle"
  /\ IF Fits(q, n)
     THEN /\ MsgDbgTraceQueue' = CircularQueue_Add(q, Stream(written, n))
          /\ written' = (written + n) % StreamMod
          /\ IF DbgTracePeripheralReady
             THEN /\ DbgTracePeripheralReady' = FALSE
                  /\ pc' = "output" /\ out' = [pos |-> DataAt(q'.last), left |-> n]
                  /\ misdirected' = (q'.elementCount > 1)
             ELSE UNCHANGED <<DbgTracePeripheralReady, pc, out, misdirected>>
     ELSE UNCHANGED <<MsgDbgTraceQueue, DbgTracePeripheralReady, written, pc, out, misdirected>>
  /\ UNCHANGED <<gState, dma, removed>>

\* HW_UART_Transmit_DMA: a busy UART refuses, and nobody looks at the status.
Transmit(o, state) ==
  IF state = "READY" THEN gState' = "BUSY_TX" /\ dma' = o
  ELSE gState' = state /\ UNCHANGED dma

DbgOutputTraces ==
  /\ pc = "output"
  /\ Transmit(out, gState)
  /\ pc' = "idle" /\ out' = NoDma
  /\ UNCHANGED <<MsgDbgTraceQueue, DbgTracePeripheralReady, written, removed, misdirected>>

\* The main loop sends a frame with HAL_UART_Transmit, which polls until it
\* is out; a busy UART drops it.
SendFrame ==
  /\ pc = "idle" /\ gState = "READY"
  /\ gState' = "BUSY_TX" /\ pc' = "frame"
  /\ UNCHANGED <<MsgDbgTraceQueue, DbgTracePeripheralReady, dma, out, written, removed, misdirected>>

FrameSent ==
  /\ pc = "frame"
  /\ gState' = "READY" /\ pc' = "idle"
  /\ UNCHANGED <<MsgDbgTraceQueue, DbgTracePeripheralReady, dma, out, written, removed, misdirected>>

----------------------------------------------------------------------------
(* The DMA and its interrupt                                               *)

DmaByte ==
  /\ dma.left > 0
  /\ dma' = [pos |-> dma.pos + 1, left |-> dma.left - 1]
  /\ UNCHANGED <<MsgDbgTraceQueue, DbgTracePeripheralReady, gState, pc, out, written, removed,
                 misdirected>>

\* Mutant: the next transmission starts before the element sent is removed.
TxCpltSensesFirst ==
  /\ dma.left = 0
  /\ MsgDbgTraceQueue' = CircularQueue_Remove(q)
  /\ removed' = (removed + SizeAt(q, q.first)) % StreamMod
  /\ misdirected' = FALSE
  /\ IF CircularQueue_Empty(q')
     THEN DbgTracePeripheralReady' = TRUE /\ gState' = "READY" /\ dma' = NoDma
     ELSE /\ Transmit([pos |-> DataAt(q.first), left |-> SizeAt(q, q.first)], "READY")
          /\ UNCHANGED DbgTracePeripheralReady
  /\ UNCHANGED <<pc, out, written>>

\* Mutant: the transmitter is never declared ready again.
TxCpltNotReady ==
  /\ dma.left = 0
  /\ MsgDbgTraceQueue' = CircularQueue_Remove(q)
  /\ removed' = (removed + SizeAt(q, q.first)) % StreamMod
  /\ misdirected' = FALSE
  /\ IF CircularQueue_Empty(q')
     THEN gState' = "READY" /\ dma' = NoDma
     ELSE Transmit([pos |-> DataAt(q'.first), left |-> SizeAt(q', q'.first)], "READY")
  /\ UNCHANGED <<DbgTracePeripheralReady, pc, out, written>>

\* The interrupt at the end of a transmission.  The HAL makes the UART ready
\* before it calls back.
DbgTrace_TxCpltCallback ==
  /\ dma.left = 0
  /\ MsgDbgTraceQueue' = CircularQueue_Remove(q)
  /\ removed' = (removed + SizeAt(q, q.first)) % StreamMod
  /\ misdirected' = FALSE
  /\ IF CircularQueue_Empty(q')
     THEN DbgTracePeripheralReady' = TRUE /\ gState' = "READY" /\ dma' = NoDma
     ELSE /\ Transmit([pos |-> DataAt(q'.first), left |-> SizeAt(q', q'.first)], "READY")
          /\ UNCHANGED DbgTracePeripheralReady
  /\ UNCHANGED <<pc, out, written>>

Uart == DmaByte \/ DbgTrace_TxCpltCallback

Next ==
  \/ \E n \in Sizes : DbgTraceWrite(n)
  \/ DbgOutputTraces \/ SendFrame \/ FrameSent \/ Uart

Spec == Init /\ [][Next]_vars

\* The CPU executes and the UART sends what it is given.
FairSpec == Spec /\ WF_vars(Uart) /\ WF_vars(DbgOutputTraces) /\ WF_vars(FrameSent)

----------------------------------------------------------------------------
Bytes == 0..StreamMod + ByteSize

TypeOK ==
  /\ q \in [qBuff : [0..MaxSize-1 -> Bytes], first : 0..MaxSize-1, last : 0..MaxSize-1,
            byteCount : Nat, elementCount : Nat]
  /\ DbgTracePeripheralReady \in BOOLEAN /\ gState \in {"READY", "BUSY_TX"}
  /\ dma.left >= -1 /\ dma.pos \in 0..MaxSize
  /\ pc \in {"idle", "output", "frame"}
  /\ written \in 0..StreamMod-1 /\ removed \in 0..StreamMod-1 /\ misdirected \in BOOLEAN

\* The position of the k-th element, and that of its data in the stream.
Position == LET p[k \in 0..q.elementCount] ==
                  IF k = 0 THEN q.first
                  ELSE (p[k-1] + SizeAt(q, p[k-1]) + HeaderSize) % MaxSize
            IN  p
Offset == LET o[k \in 0..q.elementCount] ==
                IF k = 0 THEN 0 ELSE o[k-1] + SizeAt(q, Position[k-1])
          IN  o

Elements == 0..q.elementCount - 1

\* Over wraps, splits and removals the elements are chained from first to last
\* and their number and bytes accounted for; none wraps, for the DMA takes it
\* from consecutive addresses; and they fit, the second header of a split
\* element included: "NULL if the element to be added do not fit in the queue"
\* (stm_queue.c:73).
ChainIsExact ==
  /\ q.byteCount = Offset[q.elementCount] + HeaderSize * q.elementCount
  /\ q.elementCount > 0 => q.last = Position[q.elementCount - 1]
  /\ q.elementCount = 0 => q.first = q.last
  /\ q.byteCount <= MaxSize
  /\ \A k \in Elements : DataAt(Position[k]) + SizeAt(q, Position[k]) <= MaxSize

\* What is in the queue is the part of the stream that has not been sent yet,
\* once, in order: adding never overwrites it.
HoldsUnsent ==
  /\ (removed + Offset[q.elementCount]) % StreamMod = written
  /\ \A k \in Elements : \A i \in 0..SizeAt(q, Position[k])-1 :
       q.qBuff[(DataAt(Position[k]) + i) % MaxSize] = (removed + Offset[k] + i) % StreamMod

\* The bytes the DMA is still to read are those of the first element, whatever
\* the thread adds during the transmission.  (Not when the transmission
\* started with a second part: see SendsTheFirst.)
DmaReadsFirst ==
  dma.left >= 0 /\ ~misdirected =>
    /\ ~CircularQueue_Empty(q)
    /\ dma.pos + dma.left = DataAt(q.first) + SizeAt(q, q.first)

\* Every start of the DMA finds the UART ready, in spite of the frames: a
\* refused start would end the trace for good, for its status is ignored.
NeverRefused == pc = "output" => gState = "READY" /\ dma = NoDma

\* "If queue emepty and TX free, send directly" (dbg_trace.c:275): what is
\* transmitted is the message, from its first byte.
SendsTheFirst ==
  pc = "output" => out = [pos |-> DataAt(q.first), left |-> SizeAt(q, q.first)]

\* Liveness: what is first in the queue is transmitted, also when the thread
\* traces and sends frames all the time.
QueueMoves ==
  \A t \in 0..StreamMod-1 : removed = t /\ ~CircularQueue_Empty(q) ~> removed # t

=============================================================================
