--------------------------- MODULE TraceUartProofs ---------------------------
(***************************************************************************)
(* The trace output, for any size of the queue and any messages.  The      *)
(* transmitter is never started while it is busy (IInv).  The queue is     *)
(* always a chain of the bytes of the stream that have not been sent, and  *)
(* the DMA reads the first of its elements (DataInv).                      *)
(***************************************************************************)
EXTENDS TraceUart, FiniteSetTheorems, TLAPS

\* The part of the queue's type the argument needs.
QueueOK(s) ==
  /\ s = [qBuff |-> s.qBuff, first |-> s.first, last |-> s.last,
          byteCount |-> s.byteCount, elementCount |-> s.elementCount]
  /\ s.qBuff \in [0..MaxSize-1 -> Nat]
  /\ s.first \in 0..MaxSize-1 /\ s.last \in 0..MaxSize-1

\* Who owns the UART: nobody, the DMA, or the thread with a frame.  A message
\* is handed to the DMA only while nobody does.
OwnerInv ==
  /\ dma = NoDma \/ dma.left \in Nat
  /\ pc \in {"idle", "output", "frame"}
  /\ gState = IF dma = NoDma /\ pc # "frame" THEN "READY" ELSE "BUSY_TX"
  /\ DbgTracePeripheralReady => dma = NoDma /\ pc # "output"
  /\ dma # NoDma => pc = "idle"
  /\ pc = "output" => out.left \in Nat

IInv == QueueOK(q) /\ written \in Nat /\ OwnerInv

----------------------------------------------------------------------------
\* Positions wrap into the buffer.
LEMMA Wrap == ASSUME NEW a \in Int PROVE a % MaxSize \in 0..MaxSize-1
  BY CircularQueueAssumption DEF CircularQueueAssumption

\* The data start in the buffer.
LEMMA DataType ==
  ASSUME NEW p \in 0 .. MaxSize - 1 PROVE DataAt(p) \in 0 .. MaxSize - 1
<1>1. p + HeaderSize \in Int
  BY DEF HeaderSize
<1> QED BY <1>1, Wrap DEF DataAt

\* An element is a sequence of bytes.
LEMMA ElementType ==
  ASSUME NEW x \in Seq(Nat) PROVE Element(x) \in Seq(Nat)
<1>1. Len(x) \in Nat
  OBVIOUS
<1>2. Len(x) % ByteSize \in Nat /\ Len(x) \div ByteSize \in Nat
  BY <1>1, CircularQueueAssumption DEF CircularQueueAssumption
<1> QED BY <1>2 DEF Element

\* Writing bytes leaves a buffer of bytes.
LEMMA WriteType ==
  ASSUME NEW buff \in [0..MaxSize-1 -> Nat], NEW p \in Int, NEW bytes \in Seq(Nat)
  PROVE  Write(buff, p, bytes) \in [0..MaxSize-1 -> Nat]
<1> SUFFICES ASSUME NEW b \in 0..MaxSize-1
             PROVE  (LET i == (b - p) % MaxSize
                     IN IF i < Len(bytes) THEN bytes[i + 1] ELSE buff[b]) \in Nat
  BY DEF Write
<1> DEFINE i == (b - p) % MaxSize
<1>0. b - p \in Int
  OBVIOUS
<1>1. i \in Nat
  <2>1. (b - p) % MaxSize \in 0..MaxSize-1
    BY <1>0, Wrap
  <2> QED BY <2>1
<1>2. i < Len(bytes) => bytes[i + 1] \in Nat
  BY <1>1
<1> QED BY <1>2

\* The size in a header is a number.
LEMMA SizeType ==
  ASSUME NEW s, QueueOK(s), NEW p \in 0..MaxSize-1
  PROVE  SizeAt(s, p) \in Nat
<1>1. (p + 1) % MaxSize \in 0..MaxSize-1
  BY Wrap
<1>2. s.qBuff[p] \in Nat /\ s.qBuff[(p + 1) % MaxSize] \in Nat /\ ByteSize \in Nat
  BY <1>1, CircularQueueAssumption DEF QueueOK, CircularQueueAssumption
<1>3. \A a, b, c \in Nat : a + b * c \in Nat
  OBVIOUS
<1> QED BY <1>2, <1>3 DEF SizeAt

\* Adding a message keeps the queue's type.
LEMMA AddType ==
  ASSUME NEW s, QueueOK(s), NEW x \in Seq(Nat)
  PROVE  QueueOK(CircularQueue_Add(s, x))
<1> DEFINE last == (s.last + LastSize(s)) % MaxSize
           n == MaxSize - DataAt(last)
<1>1. LastSize(s) \in Nat
  BY SizeType DEF LastSize, QueueOK, HeaderSize
<1>2. last \in 0..MaxSize-1
  BY <1>1, Wrap DEF QueueOK
<1>3. DataAt(last) \in 0..MaxSize-1
  <2> HIDE DEF last
  <2> QED BY <1>2, DataType
<1>4. n \in Nat
  BY <1>3, CircularQueueAssumption DEF CircularQueueAssumption
<1> HIDE DEF last, n
<1>5. CASE n >= Len(x)
  <2>0. Element(x) \in Seq(Nat) /\ last \in Int /\ s.qBuff \in [0..MaxSize-1 -> Nat]
    BY <1>2, ElementType DEF QueueOK
  <2>1. Write(s.qBuff, last, Element(x)) \in [0..MaxSize-1 -> Nat]
    BY <2>0, WriteType
  <2> QED BY <1>2, <1>5, <2>1 DEF CircularQueue_Add, QueueOK, last, n
<1>6. CASE ~(n >= Len(x))
  <2>1. SubSeq(x, 1, n) \in Seq(Nat) /\ SubSeq(x, n + 1, Len(x)) \in Seq(Nat)
    BY <1>4, <1>6
  <2>0. /\ Element(SubSeq(x, 1, n)) \in Seq(Nat) /\ Element(SubSeq(x, n + 1, Len(x))) \in Seq(Nat)
        /\ last \in Int /\ 0 \in Int /\ s.qBuff \in [0..MaxSize-1 -> Nat]
    <3>1. Element(SubSeq(x, 1, n)) \in Seq(Nat)
      BY <2>1, ElementType
    <3>2. Element(SubSeq(x, n + 1, Len(x))) \in Seq(Nat)
      BY <2>1, ElementType
    <3> QED BY <1>2, <3>1, <3>2 DEF QueueOK
  <2>2. Write(s.qBuff, last, Element(SubSeq(x, 1, n))) \in [0..MaxSize-1 -> Nat]
    BY <2>0, WriteType
  <2>3. Write(Write(s.qBuff, last, Element(SubSeq(x, 1, n))), 0,
              Element(SubSeq(x, n + 1, Len(x)))) \in [0..MaxSize-1 -> Nat]
    BY <2>0, <2>2, WriteType
  <2>4. 0 \in 0..MaxSize-1
    BY CircularQueueAssumption DEF CircularQueueAssumption
  <2> QED BY <1>6, <2>3, <2>4 DEF CircularQueue_Add, QueueOK, last, n
<1> QED BY <1>5, <1>6

\* Removing an element keeps the queue's type.
LEMMA RemoveType ==
  ASSUME NEW s, QueueOK(s) PROVE QueueOK(CircularQueue_Remove(s))
<1> DEFINE size == SizeAt(s, s.first) + HeaderSize
<1>1. size \in Nat
  BY SizeType DEF QueueOK, HeaderSize
<1>2. (s.first + size) % MaxSize \in 0..MaxSize-1
  BY <1>1, Wrap DEF QueueOK
<1> HIDE DEF size
<1> QED BY <1>2 DEF CircularQueue_Remove, QueueOK, size

----------------------------------------------------------------------------
\* The initial state satisfies the invariant.
LEMMA InitInv == Init => IInv
  BY CircularQueueAssumption
  DEF Init, IInv, QueueOK, OwnerInv, CircularQueue_Init, q, CircularQueueAssumption, NoDma

\* Tracing a message preserves the invariant.
LEMMA WriteInv ==
  ASSUME IInv, NEW n \in Sizes, DbgTraceWrite(n)
  PROVE  IInv'
<1>1. n \in Nat
  BY TraceUartAssumption DEF TraceUartAssumption
<1>2. QueueOK(q') /\ written' \in Nat
  <2>1. CASE ~Fits(q, n)
    BY <2>1 DEF DbgTraceWrite, IInv, q
  <2>2. CASE Fits(q, n)
    <3>1. Stream(written, n) \in Seq(Nat)
      <4>1. \A i \in 1..n : (written + i - 1) % StreamMod \in Nat
        BY <1>1, TraceUartAssumption DEF IInv, TraceUartAssumption
      <4>2. Stream(written, n) \in [1..n -> Nat]
        BY <4>1 DEF Stream
      <4> QED BY <1>1, <4>2
    <3>2. q' = CircularQueue_Add(q, Stream(written, n))
          /\ written' = (written + n) % StreamMod
      BY <2>2 DEF DbgTraceWrite, q
    <3> QED BY <1>1, <3>1, <3>2, AddType, TraceUartAssumption DEF IInv, TraceUartAssumption
  <2> QED BY <2>1, <2>2
<1>3. OwnerInv'
  BY <1>1 DEF IInv, OwnerInv, DbgTraceWrite, NoDma
<1> QED BY <1>2, <1>3 DEF IInv, q

\* The other steps of the thread preserve it.
LEMMA ThreadInv == IInv /\ (DbgOutputTraces \/ SendFrame \/ FrameSent) => IInv'
<1> SUFFICES ASSUME IInv, DbgOutputTraces \/ SendFrame \/ FrameSent PROVE IInv'
  OBVIOUS
<1>1. UNCHANGED <<MsgDbgTraceQueue, written>>
  BY DEF DbgOutputTraces, SendFrame, FrameSent
<1>2. (QueueOK(q) /\ written \in Nat)'
  BY <1>1 DEF IInv, q, QueueOK
<1>3. OwnerInv'
  <2>1. CASE DbgOutputTraces
    <3>1. gState = "READY" /\ gState' = "BUSY_TX" /\ dma' = out /\ out.left \in Nat
          /\ pc' = "idle" /\ ~DbgTracePeripheralReady
          /\ DbgTracePeripheralReady' = DbgTracePeripheralReady
      BY <2>1 DEF DbgOutputTraces, Transmit, IInv, OwnerInv, NoDma
    <3>2. dma' # NoDma
      BY <3>1 DEF NoDma
    <3> QED BY <3>1, <3>2 DEF OwnerInv
  <2>2. CASE SendFrame \/ FrameSent
    BY <2>2 DEF SendFrame, FrameSent, IInv, OwnerInv, NoDma
  <2> QED BY <2>1, <2>2
<1> QED BY <1>2, <1>3 DEF IInv

\* The DMA and its interrupt preserve it.
LEMMA UartInv == IInv /\ Uart => IInv'
<1>1. ASSUME IInv, DmaByte PROVE IInv'
  <2>1. dma.left \in Nat /\ dma.left > 0 /\ dma # NoDma
    BY <1>1 DEF DmaByte, IInv, OwnerInv, NoDma
  <2>2. dma'.left \in Nat /\ dma' # NoDma
    BY <1>1, <2>1 DEF DmaByte, NoDma
  <2>3. OwnerInv'
    BY <1>1, <2>1, <2>2 DEF DmaByte, IInv, OwnerInv
  <2> QED BY <1>1, <2>3 DEF DmaByte, IInv, q, QueueOK
<1>2. ASSUME IInv, DbgTrace_TxCpltCallback PROVE IInv'
  <2>1. dma # NoDma /\ pc = "idle" /\ ~DbgTracePeripheralReady
    BY <1>2 DEF DbgTrace_TxCpltCallback, IInv, OwnerInv, NoDma
  <2>2. q' = CircularQueue_Remove(q) /\ QueueOK(q')
    BY <1>2, RemoveType DEF DbgTrace_TxCpltCallback, IInv, q
  <2>3. CASE CircularQueue_Empty(q')
    BY <1>2, <2>1, <2>2, <2>3 DEF DbgTrace_TxCpltCallback, IInv, OwnerInv, q
  <2>4. CASE ~CircularQueue_Empty(q')
    <3>1. SizeAt(q', q'.first) \in Nat
      BY <2>2, SizeType DEF QueueOK
    <3>2. /\ dma' = [pos |-> DataAt(q'.first), left |-> SizeAt(q', q'.first)]
          /\ gState' = "BUSY_TX" /\ pc' = pc
          /\ DbgTracePeripheralReady' = DbgTracePeripheralReady /\ written' = written
      BY <1>2, <2>4 DEF DbgTrace_TxCpltCallback, Transmit
    <3>3. dma'.left \in Nat /\ dma' # NoDma
      BY <3>1, <3>2 DEF NoDma
    <3> QED BY <1>2, <2>1, <2>2, <3>2, <3>3 DEF IInv, OwnerInv, q
  <2> QED BY <2>3, <2>4
<1> QED BY <1>1, <1>2 DEF Uart

\* IInv is inductive.
LEMMA Invariance == Spec => []IInv
<1>1. IInv /\ UNCHANGED vars => IInv'
  BY DEF IInv, QueueOK, OwnerInv, q, vars
<1>2. IInv /\ [Next]_vars => IInv'
  BY <1>1, WriteInv, ThreadInv, UartInv DEF Next
<1> QED BY InitInv, <1>2, PTL DEF Spec

\* Whatever is traced, and whenever the main loop sends its frames, a message
\* handed to HW_UART_Transmit_DMA finds the UART ready: the status nobody
\* looks at is always HAL_OK.
THEOREM TransmitNeverRefused == Spec => []NeverRefused
<1>1. IInv => NeverRefused
  BY DEF IInv, OwnerInv, NeverRefused
<1> QED BY Invariance, <1>1, PTL

----------------------------------------------------------------------------
(* Remainders                                                              *)

\* Division with remainder.
LEMMA Remainder ==
  ASSUME NEW M \in Nat \ {0}, NEW a \in Int
  PROVE  a % M \in 0 .. M - 1 /\ \E k \in Int : a = M * k + (a % M)
<1> DEFINE r == a % M
<1>1. PICK k \in Int : r = a - M * k
  <2>1. a % M = a - M * (a \div M)
    OBVIOUS
  <2>2. a \div M \in Int
    OBVIOUS
  <2> QED BY <2>1, <2>2, Zenon
<1>2. r \in 0 .. M - 1
  OBVIOUS
<1> HIDE DEF r
<1>3. M * k \in Int
  OBVIOUS
<1>4. a = M * k + r
  BY <1>1, <1>2, <1>3
<1>5. r \in 0 .. M - 1 /\ \E l \in Int : a = M * l + r
  BY <1>2, <1>4
<1> QED BY <1>5, Zenon DEF r

\* There is one remainder only.
LEMMA RemainderUnique ==
  ASSUME NEW M \in Nat \ {0}, NEW a \in Int, NEW k \in Int, NEW r \in 0 .. M - 1, a = M * k + r
  PROVE  a % M = r
  OBVIOUS

\* A position in the stream may be reduced before or after something is added.
LEMMA RemainderAdd ==
  ASSUME NEW M \in Nat \ {0}, NEW a \in Int, NEW b \in Int
  PROVE  ((a % M) + b) % M = (a + b) % M
<1> DEFINE r == (a + b) % M  c == a % M
<1>1. PICK k \in Int : a = M * k + c
  BY Remainder
<1>2. a + b \in Int
  OBVIOUS
<1>3. r \in 0 .. M - 1 /\ \E l \in Int : a + b = M * l + r
  BY <1>2, Remainder
<1>7. PICK l \in Int : a + b = M * l + r
  BY <1>3
<1>8. c \in Int
  BY Remainder
<1> HIDE DEF r, c
<1>4. c + b = M * (l - k) + r
  <2>1. (l - k) * M = l * M - k * M
    BY <1>1, <1>7
  <2> QED BY <1>1, <1>3, <1>7, <1>8, <2>1
<1>5. c + b \in Int /\ l - k \in Int
  BY <1>1, <1>3, <1>8
<1>6. (c + b) % M = r
  BY <1>3, <1>4, <1>5, RemainderUnique
<1> QED BY <1>6 DEF r, c

----------------------------------------------------------------------------
(* The ring: j bytes behind the first position                             *)

\* The position of the byte j bytes behind position 0, for j < 2 * MaxSize.
Wrapped(j) == IF j < MaxSize THEN j ELSE j - MaxSize

\* What the code computes with %.
LEMMA WrappedIs ==
  ASSUME NEW j \in Nat, j < 2 * MaxSize
  PROVE  j % MaxSize = Wrapped(j) /\ Wrapped(j) \in 0 .. MaxSize - 1
<1>1. MaxSize \in Nat \ {0}
  BY CircularQueueAssumption DEF CircularQueueAssumption
<1>2. CASE j < MaxSize
  BY <1>1, <1>2 DEF Wrapped
<1>3. CASE ~ (j < MaxSize)
  <2>1. j = MaxSize * 1 + (j - MaxSize) /\ j - MaxSize \in 0 .. MaxSize - 1
    BY <1>1, <1>3
  <2>2. j % MaxSize = j - MaxSize
    BY <1>1, <2>1, RemainderUnique
  <2> QED BY <1>3, <2>1, <2>2 DEF Wrapped
<1> QED BY <1>2, <1>3

\* The distance between two bytes of the ring, as Write computes it.
LEMMA Distance ==
  ASSUME NEW f \in 0 .. MaxSize - 1, NEW a \in 0 .. MaxSize, NEW j \in 0 .. MaxSize - 1
  PROVE  /\ j >= a => (Wrapped(f + j) - Wrapped(f + a)) % MaxSize = j - a
         /\ j < a  => (Wrapped(f + j) - Wrapped(f + a)) % MaxSize = MaxSize + j - a
<1> DEFINE d == Wrapped(f + j) - Wrapped(f + a)
<1>1. MaxSize \in Nat \ {0}
  BY CircularQueueAssumption DEF CircularQueueAssumption
<1>2. d \in Int /\ d \in {j - a, j - a + MaxSize, j - a - MaxSize}
  BY <1>1 DEF Wrapped
<1>3. j < a => d # j - a - MaxSize
  BY <1>1 DEF Wrapped
<1>4. j >= a => d # j - a + MaxSize
  BY <1>1 DEF Wrapped
<1> HIDE DEF d
<1>5. ASSUME j >= a PROVE d % MaxSize = j - a
  <2>1. j - a \in 0 .. MaxSize - 1
    BY <1>1, <1>5
  <2>2. d = MaxSize * 0 + (j - a) \/ d = MaxSize * (-1) + (j - a)
    BY <1>1, <1>2, <1>4, <1>5
  <2> QED BY <1>1, <1>2, <2>1, <2>2, RemainderUnique
<1>6. ASSUME j < a PROVE d % MaxSize = MaxSize + j - a
  <2>1. MaxSize + j - a \in 0 .. MaxSize - 1
    BY <1>1, <1>6
  <2>2. d = MaxSize * 0 + (MaxSize + j - a) \/ d = MaxSize * (-1) + (MaxSize + j - a)
    BY <1>1, <1>2, <1>3, <1>6
  <2> QED BY <1>1, <1>2, <2>1, <2>2, RemainderUnique
<1> QED BY <1>5, <1>6 DEF d

\* What is written behind a byte of the ring leaves it alone.
LEMMA WriteBehind ==
  ASSUME NEW buff \in [0..MaxSize-1 -> Nat], NEW f \in 0 .. MaxSize - 1, NEW a \in Nat,
         NEW bytes \in Seq(Nat), a + Len(bytes) <= MaxSize, NEW j \in Nat, j < a
  PROVE  Write(buff, Wrapped(f + a), bytes)[Wrapped(f + j)] = buff[Wrapped(f + j)]
<1>1. MaxSize \in Nat \ {0} /\ Len(bytes) \in Nat
  BY CircularQueueAssumption DEF CircularQueueAssumption
<1>2. a \in 0 .. MaxSize /\ j \in 0 .. MaxSize - 1
  BY <1>1
<1>3. (Wrapped(f + j) - Wrapped(f + a)) % MaxSize = MaxSize + j - a
  BY <1>2, Distance
<1>4. Wrapped(f + j) \in 0 .. MaxSize - 1
  BY <1>1, <1>2 DEF Wrapped
<1>5. ~ (MaxSize + j - a < Len(bytes))
  BY <1>1, <1>2
<1> QED BY <1>3, <1>4, <1>5 DEF Write

\* The bytes written, and where they are found again.
LEMMA WriteHere ==
  ASSUME NEW buff \in [0..MaxSize-1 -> Nat], NEW f \in 0 .. MaxSize - 1, NEW a \in Nat,
         NEW bytes \in Seq(Nat), a + Len(bytes) <= MaxSize, NEW i \in Nat, i < Len(bytes)
  PROVE  Write(buff, Wrapped(f + a), bytes)[Wrapped(f + a + i)] = bytes[i + 1]
<1>1. MaxSize \in Nat \ {0} /\ Len(bytes) \in Nat
  BY CircularQueueAssumption DEF CircularQueueAssumption
<1>2. a \in 0 .. MaxSize /\ a + i \in 0 .. MaxSize - 1 /\ a + i >= a
  BY <1>1
<1>3. (Wrapped(f + (a + i)) - Wrapped(f + a)) % MaxSize = (a + i) - a
  BY <1>2, Distance
<1>4. Wrapped(f + a + i) \in 0 .. MaxSize - 1 /\ f + a + i = f + (a + i) /\ (a + i) - a = i
  BY <1>1, <1>2 DEF Wrapped
<1> QED BY <1>3, <1>4 DEF Write

----------------------------------------------------------------------------
(* The chain of elements: L[k] bytes of the ring lie before the k-th one   *)

\* The size of the k-th element.
Size(L, k) == L[k + 1] - L[k] - HeaderSize

\* The bytes of data before the k-th element.
Before(L, k) == L[k] - HeaderSize * k

\* The data of an element at a, size bytes, are those of the stream from c.
Filled(s, a, size, c) ==
  \A i \in 0 .. size - 1 : s.qBuff[Wrapped(s.first + a + HeaderSize + i)] = (c + i) % StreamMod

\* x has len bytes, those of the stream from c.
Piece(x, len, c) ==
  /\ x \in Seq(Nat) /\ Len(x) = len
  /\ \A i \in 1 .. len : x[i] = (c + i - 1) % StreamMod

\* The k-th element: its size is in its header, its data do not wrap and are
\* the bytes of the stream from t, those of the elements before it skipped.
Stored(s, t, L, k) ==
  /\ SizeAt(s, Wrapped(s.first + L[k])) = Size(L, k)
  /\ DataAt(Wrapped(s.first + L[k])) + Size(L, k) <= MaxSize
  /\ Filled(s, L[k], Size(L, k), t + Before(L, k))

\* The queue s is a chain of the bytes of the stream from t: L[k] bytes lie
\* before the k-th element, each takes its header and at least one byte, last
\* is the position of the last one, and they fill at most the buffer.
Chain(s, t, L) ==
  /\ QueueOK(s) /\ s.elementCount \in Nat
  /\ L \in [Nat -> Nat] /\ L[0] = 0
  /\ \A j, k \in 0 .. s.elementCount : j < k => L[j] + HeaderSize < L[k]
  /\ s.byteCount = L[s.elementCount] /\ s.byteCount <= MaxSize
  /\ s.last = IF s.elementCount = 0 THEN s.first
              ELSE Wrapped(s.first + L[s.elementCount - 1])
  /\ \A k \in 0 .. s.elementCount - 1 : Stored(s, t, L, k)

\* Where the next element goes: behind the last one.
LEMMA NewLast ==
  ASSUME NEW s, NEW t, NEW L, Chain(s, t, L)
  PROVE  /\ (s.last + LastSize(s)) % MaxSize = Wrapped(s.first + s.byteCount)
         /\ s.elementCount > 0 =>
              /\ LastSize(s) = s.byteCount - L[s.elementCount - 1]
              /\ L[s.elementCount - 1] \in Nat /\ L[s.elementCount - 1] < s.byteCount
         /\ s.elementCount = 0 => LastSize(s) = 0
<1> DEFINE n == s.elementCount
<1>1. MaxSize \in Nat \ {0} /\ s.first \in 0 .. MaxSize - 1
  BY CircularQueueAssumption DEF CircularQueueAssumption, Chain, QueueOK
<1>2. /\ n \in Nat /\ L \in [Nat -> Nat] /\ L[0] = 0
      /\ s.byteCount = L[n] /\ L[n] \in Nat /\ L[n] <= MaxSize
  BY DEF Chain
<1>3. CASE n = 0
  <2>1. LastSize(s) = 0 /\ s.last = s.first
    BY <1>2, <1>3 DEF LastSize, Chain
  <2>2. s.first \in Nat /\ s.first < 2 * MaxSize /\ s.first + 0 = s.first
    BY <1>1
  <2>3. s.first % MaxSize = Wrapped(s.first)
    BY <2>2, WrappedIs
  <2> QED BY <1>2, <1>3, <2>1, <2>2, <2>3
<1>4. CASE n > 0
  <2> DEFINE a == L[n - 1]
  <2>1. n - 1 \in 0 .. n - 1 /\ n - 1 \in 0 .. n /\ n \in 0 .. n /\ (n - 1) + 1 = n /\ n - 1 < n
    BY <1>2, <1>4
  <2>2. a \in Nat /\ a + HeaderSize < L[n]
    BY <1>2, <2>1 DEF Chain
  <2>3. s.last = Wrapped(s.first + a)
    BY <1>4, <2>1 DEF Chain
  <2>4. SizeAt(s, s.last) = L[n] - a - HeaderSize
    BY <2>1, <2>3 DEF Chain, Stored, Size
  <2>5. LastSize(s) = L[n] - a
    BY <1>2, <2>2, <2>4 DEF LastSize, HeaderSize
  <2> HIDE DEF a
  <2>6. (s.last + (L[n] - a)) % MaxSize = Wrapped(s.first + L[n])
    <3>1. /\ s.last + (L[n] - a) \in Nat /\ s.last + (L[n] - a) < 2 * MaxSize
          /\ Wrapped(s.last + (L[n] - a)) = Wrapped(s.first + L[n])
      BY <1>1, <1>2, <2>2, <2>3 DEF Wrapped, HeaderSize
    <3> QED BY <3>1, WrappedIs
  <2> QED BY <1>2, <1>4, <2>2, <2>5, <2>6 DEF a, HeaderSize
<1> QED BY <1>2, <1>3, <1>4

\* A message that is shorter than a byte can say fits where Fits says so, the
\* second header included when it has to be split.
LEMMA FitsRoom ==
  ASSUME NEW s, NEW t, NEW L, Chain(s, t, L), NEW size \in Nat, size + HeaderSize <= ByteSize,
         Fits(s, size)
  PROVE  LET p == Wrapped(s.first + s.byteCount)
             n == MaxSize - DataAt(p)
         IN  /\ size > 0 /\ s.byteCount + size + HeaderSize <= MaxSize
             /\ n < size => /\ n > 0 /\ p + HeaderSize + n = MaxSize
                            /\ s.first + s.byteCount < MaxSize
                            /\ s.byteCount + size + 2 * HeaderSize <= MaxSize
<1> DEFINE p == Wrapped(s.first + s.byteCount)
           n == MaxSize - DataAt(p)
           f == s.first
           B == s.byteCount
           need == size + HeaderSize
           eob == IF s.last >= s.first THEN MaxSize - (s.last + LastSize(s)) ELSE 0
           wrapped == IF need < eob \/ eob < 0 THEN 0 ELSE (eob % need) % ByteSize
           overhead == IF wrapped > HeaderSize THEN HeaderSize ELSE 0
<1>1. MaxSize \in Nat \ {0} /\ ByteSize \in Nat \ {0} /\ f \in 0 .. MaxSize - 1
  BY CircularQueueAssumption DEF CircularQueueAssumption, Chain, QueueOK
<1>2. B \in Nat /\ B <= MaxSize
  BY DEF Chain
<1>3. size > 0 /\ B + need + overhead <= MaxSize
  BY DEF Fits
<1>4. overhead \in {0, HeaderSize}
  OBVIOUS
<1>5. B + size + HeaderSize <= MaxSize
  BY <1>1, <1>2, <1>3, <1>4 DEF HeaderSize
<1>6. ASSUME n < size
      PROVE  n > 0 /\ p + HeaderSize + n = MaxSize /\ f + B < MaxSize /\ B + size + 2 * HeaderSize <= MaxSize
  <2>1. p \in 0 .. MaxSize - 1
    BY <1>1, <1>2, <1>5 DEF Wrapped
  <2>2. DataAt(p) = Wrapped(p + HeaderSize)
    <3>1. p + HeaderSize \in Nat /\ p + HeaderSize < 2 * MaxSize
      BY <1>1, <1>2, <1>3, <1>5, <2>1 DEF HeaderSize
    <3> QED BY <3>1, WrappedIs DEF DataAt
  <2>3. f + B < MaxSize /\ p = f + B
    BY <1>1, <1>2, <1>3, <1>5, <1>6, <2>2 DEF Wrapped, HeaderSize
  <2>4. p + HeaderSize < MaxSize
    BY <1>1, <1>2, <1>3, <1>5, <1>6, <2>1, <2>2 DEF Wrapped, HeaderSize
  <2>5. n = MaxSize - (p + HeaderSize)
    BY <2>2, <2>4 DEF Wrapped
  <2>6. eob = MaxSize - (f + B)
    <3>1. CASE s.elementCount = 0
      <4>1. LastSize(s) = 0 /\ s.last = f /\ B = 0
        BY <3>1, NewLast DEF Chain
      <4> QED BY <1>1, <4>1
    <3>2. CASE s.elementCount > 0
      <4> DEFINE a == L[s.elementCount - 1]
      <4>1. LastSize(s) = B - a /\ a \in Nat /\ a < B
        BY <3>2, NewLast
      <4>2. s.last = Wrapped(f + a)
        BY <3>2 DEF Chain
      <4> HIDE DEF a
      <4>3. s.last = f + a
        BY <1>1, <1>2, <2>3, <4>1, <4>2 DEF Wrapped
      <4> QED BY <1>1, <1>2, <4>1, <4>3
    <3> QED BY <3>1, <3>2 DEF Chain
  <2> HIDE DEF p, n
  <2>7. eob \in Nat /\ eob > HeaderSize /\ eob < need
    BY <1>1, <1>2, <1>6, <2>1, <2>3, <2>4, <2>5, <2>6 DEF HeaderSize
  <2>8. need \in Nat /\ need <= ByteSize
    BY DEF HeaderSize
  <2> HIDE DEF eob, need
  <2>9. eob % need = eob
    <3>1. eob = need * 0 + eob /\ eob \in 0 .. need - 1 /\ need \in Nat \ {0}
      BY <2>7, <2>8 DEF HeaderSize
    <3> QED BY <3>1, RemainderUnique
  <2>10. eob % ByteSize = eob
    <3>1. eob = ByteSize * 0 + eob /\ eob \in 0 .. ByteSize - 1
      BY <1>1, <2>7, <2>8 DEF HeaderSize
    <3> QED BY <1>1, <3>1, RemainderUnique
  <2>11. wrapped = eob
    <3>1. ~ (need < eob \/ eob < 0)
      BY <2>7, <2>8
    <3>2. (eob % need) % ByteSize = eob
      BY <2>9, <2>10, Zenon
    <3> QED BY <3>1, <3>2, Zenon
  <2>12. overhead = HeaderSize
    BY <2>7, <2>11
  <2> HIDE DEF overhead
  <2> QED BY <1>1, <1>2, <1>3, <2>3, <2>4, <2>5, <2>12 DEF need, HeaderSize
<1> QED BY <1>3, <1>5, <1>6

----------------------------------------------------------------------------
(* Adding and removing                                                     *)

\* One element, stored at p behind the last one.
Placed(s, x, p) ==
  [s EXCEPT !.qBuff = Write(@, p, Element(x)), !.last = p,
            !.byteCount = @ + Len(x) + HeaderSize, !.elementCount = @ + 1]

\* What placing an element changes.
LEMMA PlacedFields ==
  ASSUME NEW s, QueueOK(s), NEW x \in Seq(Nat), NEW p \in 0 .. MaxSize - 1
  PROVE  /\ QueueOK(Placed(s, x, p))
         /\ Placed(s, x, p).qBuff = Write(s.qBuff, p, Element(x))
         /\ Placed(s, x, p).first = s.first /\ Placed(s, x, p).last = p
         /\ Placed(s, x, p).byteCount = s.byteCount + Len(x) + HeaderSize
         /\ Placed(s, x, p).elementCount = s.elementCount + 1
<1>1. Element(x) \in Seq(Nat) /\ p \in Int
  BY ElementType
<1>2. Write(s.qBuff, p, Element(x)) \in [0..MaxSize-1 -> Nat]
  BY <1>1, WriteType DEF QueueOK
<1> DEFINE w == Write(s.qBuff, p, Element(x))  b == s.byteCount + Len(x) + HeaderSize
           m == s.elementCount + 1
<1>3. Placed(s, x, p) = [s EXCEPT !.qBuff = w, !.last = p, !.byteCount = b, !.elementCount = m]
  BY DEF Placed
<1> HIDE DEF w, b, m
<1>4. QueueOK(Placed(s, x, p))
  BY <1>2, <1>3 DEF QueueOK, w
<1>5. /\ Placed(s, x, p).qBuff = w /\ Placed(s, x, p).first = s.first /\ Placed(s, x, p).last = p
      /\ Placed(s, x, p).byteCount = b /\ Placed(s, x, p).elementCount = m
  BY <1>3 DEF QueueOK
<1> QED BY <1>4, <1>5 DEF w, b, m

\* An element of less than ByteSize bytes as it is stored.
LEMMA ElementBytes ==
  ASSUME NEW x \in Seq(Nat), Len(x) < ByteSize
  PROVE  /\ Element(x) \in Seq(Nat) /\ Len(Element(x)) = Len(x) + HeaderSize
         /\ Element(x)[1] = Len(x) /\ Element(x)[2] = 0
         /\ \A i \in 1 .. Len(x) : Element(x)[i + HeaderSize] = x[i]
<1>1. ByteSize \in Nat \ {0} /\ Len(x) \in Nat
  BY CircularQueueAssumption DEF CircularQueueAssumption
<1> DEFINE lo == Len(x) % ByteSize  hi == Len(x) \div ByteSize
<1>2. lo = Len(x) /\ hi = 0
  BY <1>1
<1>3. Element(x) = <<lo, hi>> \o x
  BY DEF Element
<1> HIDE DEF lo, hi
<1>4. Element(x) = <<Len(x), 0>> \o x
  BY <1>2, <1>3
<1>5. <<Len(x), 0>> \in Seq(Nat) /\ Len(<<Len(x), 0>>) = 2
  BY <1>1
<1>6. Element(x) \in Seq(Nat) /\ Len(Element(x)) = Len(x) + 2
  BY <1>1, <1>4, <1>5
<1>7. Element(x)[1] = Len(x) /\ Element(x)[2] = 0
  BY <1>1, <1>4
<1>8. ASSUME NEW i \in 1 .. Len(x) PROVE Element(x)[i + 2] = x[i]
  BY <1>1, <1>4, <1>8
<1> QED BY <1>6, <1>7, <1>8 DEF HeaderSize

\* A queue z that differs from s by one element behind the last one.
LEMMA ExtendedChain ==
  ASSUME NEW s, NEW t \in Nat, NEW L, Chain(s, t, L),
         NEW len \in Nat, len > 0, s.byteCount + len + HeaderSize <= MaxSize,
         DataAt(Wrapped(s.first + s.byteCount)) + len <= MaxSize,
         NEW z, QueueOK(z), z.first = s.first, z.last = Wrapped(s.first + s.byteCount),
         z.byteCount = s.byteCount + len + HeaderSize, z.elementCount = s.elementCount + 1,
         \A j \in 0 .. s.byteCount - 1 :
           z.qBuff[Wrapped(s.first + j)] = s.qBuff[Wrapped(s.first + j)],
         z.qBuff[Wrapped(s.first + s.byteCount)] = len,
         z.qBuff[Wrapped(s.first + s.byteCount + 1)] = 0,
         Filled(z, s.byteCount, len, t + Before(L, s.elementCount))
  PROVE  Chain(z, t, [L EXCEPT ![s.elementCount + 1] = s.byteCount + len + HeaderSize])
<1> DEFINE n == s.elementCount  B == s.byteCount  f == s.first  p == Wrapped(f + B)
           M == [L EXCEPT ![n + 1] = B + len + HeaderSize]
<1>1. /\ MaxSize \in Nat \ {0} /\ f \in 0 .. MaxSize - 1
      /\ n \in Nat /\ B \in Nat
      /\ L \in [Nat -> Nat] /\ L[0] = 0 /\ L[n] = B
      /\ \A j, k \in 0 .. n : j < k => L[j] + HeaderSize < L[k]
  BY CircularQueueAssumption DEF CircularQueueAssumption, Chain, QueueOK
<1>2. p \in 0 .. MaxSize - 1 /\ B < MaxSize
  BY <1>1 DEF Wrapped, HeaderSize
<1>4. M \in [Nat -> Nat] /\ M[n + 1] = B + len + HeaderSize /\ \A k \in 0 .. n : M[k] = L[k]
  BY <1>1 DEF HeaderSize
<1>5. ASSUME NEW k \in 0 .. n PROVE L[k] <= B
  <2>1. k = n \/ (k < n /\ n \in 0 .. n)
    BY <1>1
  <2>2. k < n => L[k] + HeaderSize < B /\ L[k] \in Nat
    BY <1>1, <2>1
  <2> QED BY <1>1, <2>1, <2>2 DEF HeaderSize
<1> HIDE DEF M
<1>6. \A j, k \in 0 .. n + 1 : j < k => M[j] + HeaderSize < M[k]
  <2> SUFFICES ASSUME NEW j \in 0 .. n + 1, NEW k \in 0 .. n + 1, j < k
               PROVE  M[j] + HeaderSize < M[k]
    OBVIOUS
  <2>1. j \in 0 .. n /\ (k \in 0 .. n \/ k = n + 1)
    BY <1>1
  <2>2. L[j] \in Nat
    BY <1>1
  <2> QED BY <1>1, <1>4, <1>5, <2>1, <2>2 DEF HeaderSize
<1>7. z.last = Wrapped(z.first + M[n])
  BY <1>1, <1>4
<1>10. ASSUME NEW k \in 0 .. n - 1 PROVE Stored(z, t, M, k)
  <2> DEFINE a == L[k]
  <2>1. k \in 0 .. n /\ k + 1 \in 0 .. n /\ k < k + 1
    BY <1>1
  <2>2. M[k] = L[k] /\ M[k + 1] = L[k + 1] /\ Size(M, k) = Size(L, k) /\ Before(M, k) = Before(L, k)
    BY <1>4, <2>1 DEF Size, Before
  <2>3. /\ a \in Nat /\ L[k + 1] \in Nat /\ L[k + 1] <= B /\ a + HeaderSize < L[k + 1]
    BY <1>1, <1>5, <2>1
  <2>4. Stored(s, t, L, k)
    BY DEF Chain
  <2>5. SizeAt(z, Wrapped(f + a)) = SizeAt(s, Wrapped(f + a))
    <3>1. /\ z.qBuff[Wrapped(f + a)] = s.qBuff[Wrapped(f + a)]
          /\ z.qBuff[Wrapped(f + (a + 1))] = s.qBuff[Wrapped(f + (a + 1))]
      BY <1>1, <2>3 DEF HeaderSize
    <3>2. (Wrapped(f + a) + 1) % MaxSize = Wrapped(f + (a + 1))
      <4>1. /\ Wrapped(f + a) + 1 \in Nat /\ Wrapped(f + a) + 1 < 2 * MaxSize
            /\ Wrapped(Wrapped(f + a) + 1) = Wrapped(f + (a + 1))
        BY <1>1, <1>2, <2>3 DEF Wrapped, HeaderSize
      <4> QED BY <4>1, WrappedIs
    <3> QED BY <3>1, <3>2 DEF SizeAt
  <2>6. ASSUME NEW i \in 0 .. Size(L, k) - 1
        PROVE  z.qBuff[Wrapped(f + a + HeaderSize + i)] = s.qBuff[Wrapped(f + a + HeaderSize + i)]
    <3>1. i \in Nat /\ i < L[k + 1] - a - HeaderSize
      BY <2>3 DEF Size, HeaderSize
    <3>2. a + HeaderSize + i \in 0 .. B - 1 /\ f + a + HeaderSize + i = f + (a + HeaderSize + i)
      <4>1. f \in Nat /\ B \in Nat /\ a \in Nat /\ L[k + 1] \in Nat /\ L[k + 1] <= B
        BY <1>1, <2>3
      <4> DEFINE b == L[k + 1]
      <4> HIDE DEF a, b, f, B
      <4> QED BY <3>1, <4>1 DEF HeaderSize, b
    <3> QED BY <3>2
  <2>7. Filled(z, a, Size(L, k), t + Before(L, k))
    BY <2>4, <2>6 DEF Stored, Filled
  <2> QED BY <2>2, <2>4, <2>5, <2>7 DEF Stored
<1>11. Stored(z, t, M, n)
  <2>1. M[n] = B /\ Size(M, n) = len /\ Before(M, n) = Before(L, n)
    BY <1>1, <1>4 DEF Size, Before, HeaderSize
  <2>2. SizeAt(z, Wrapped(f + B)) = len
    <3>1. (p + 1) % MaxSize = Wrapped(f + B + 1)
      <4>1. p + 1 \in Nat /\ p + 1 < 2 * MaxSize /\ Wrapped(p + 1) = Wrapped(f + B + 1)
        BY <1>1, <1>2 DEF Wrapped, HeaderSize
      <4> QED BY <4>1, WrappedIs
    <3>2. ByteSize \in Nat
      BY CircularQueueAssumption DEF CircularQueueAssumption
    <3> QED BY <3>1, <3>2 DEF SizeAt
  <2> QED BY <2>1, <2>2 DEF Stored
<1>12. \A k \in 0 .. (n + 1) - 1 : Stored(z, t, M, k)
  <2>1. \A k \in 0 .. (n + 1) - 1 : k \in 0 .. n - 1 \/ k = n
    BY <1>1
  <2> QED BY <1>10, <1>11, <2>1
<1>13. Chain(z, t, M)
  BY <1>1, <1>4, <1>6, <1>7, <1>12 DEF Chain
<1> QED BY <1>13 DEF M

\* Placing the next bytes of the stream behind the last element, where they do
\* not wrap, extends the chain and leaves the elements in it alone.
LEMMA PlacedChain ==
  ASSUME NEW s, NEW t \in Nat, NEW L, Chain(s, t, L),
         NEW len \in Nat, len > 0, len < ByteSize, s.byteCount + len + HeaderSize <= MaxSize,
         DataAt(Wrapped(s.first + s.byteCount)) + len <= MaxSize,
         NEW x, Piece(x, len, t + Before(L, s.elementCount))
  PROVE  Chain(Placed(s, x, Wrapped(s.first + s.byteCount)), t,
               [L EXCEPT ![s.elementCount + 1] = s.byteCount + len + HeaderSize])
<1> DEFINE B == s.byteCount  f == s.first  p == Wrapped(f + B)  z == Placed(s, x, p)
           e == Element(x)  c == t + Before(L, s.elementCount)
<1>1. /\ MaxSize \in Nat \ {0} /\ f \in 0 .. MaxSize - 1 /\ B \in Nat
      /\ s.elementCount \in Nat /\ L \in [Nat -> Nat]
  BY CircularQueueAssumption DEF CircularQueueAssumption, Chain, QueueOK
<1>4. QueueOK(s) /\ s.qBuff \in [0 .. MaxSize - 1 -> Nat]
  BY DEF Chain, QueueOK
<1>2. x \in Seq(Nat) /\ Len(x) = len
  BY DEF Piece
<1>3. /\ e \in Seq(Nat) /\ Len(e) = len + HeaderSize /\ e[1] = len /\ e[2] = 0
      /\ \A i \in 1 .. len : e[i + HeaderSize] = x[i]
  BY <1>2, ElementBytes
<1>5. p \in 0 .. MaxSize - 1
  BY <1>1 DEF Wrapped, HeaderSize
<1>6. /\ QueueOK(z) /\ z.qBuff = Write(s.qBuff, p, e) /\ z.first = f /\ z.last = p
      /\ z.byteCount = B + len + HeaderSize /\ z.elementCount = s.elementCount + 1
  BY <1>2, <1>4, <1>5, PlacedFields
<1>8. c \in Int
  BY <1>1 DEF Before, HeaderSize
<1>7. B + (len + HeaderSize) <= MaxSize
  BY <1>1 DEF HeaderSize
<1> HIDE DEF B, p, z, e, c
<1>9. ASSUME NEW j \in 0 .. B - 1
      PROVE  z.qBuff[Wrapped(f + j)] = s.qBuff[Wrapped(f + j)]
  <2>0. f \in 0 .. MaxSize - 1 /\ B \in Nat /\ s.qBuff \in [0 .. MaxSize - 1 -> Nat] /\ e \in Seq(Nat)
    BY <1>1, <1>3, <1>4
  <2>1. j \in Nat /\ j < B
    BY <1>1, <1>9
  <2>2. B + Len(e) <= MaxSize
    BY <1>3, <1>7
  <2>3. Write(s.qBuff, Wrapped(f + B), e)[Wrapped(f + j)] = s.qBuff[Wrapped(f + j)]
    BY <2>0, <2>1, <2>2, WriteBehind, ZenonT(60)
  <2> QED BY <1>6, <2>3 DEF p
<1>10. ASSUME NEW i \in Nat, i < len + HeaderSize
       PROVE  z.qBuff[Wrapped(f + B + i)] = e[i + 1]
  <2>0. f \in 0 .. MaxSize - 1 /\ B \in Nat /\ s.qBuff \in [0 .. MaxSize - 1 -> Nat] /\ e \in Seq(Nat)
    BY <1>1, <1>3, <1>4
  <2>1. i < Len(e) /\ B + Len(e) <= MaxSize
    BY <1>3, <1>7, <1>10
  <2>2. Write(s.qBuff, Wrapped(f + B), e)[Wrapped(f + B + i)] = e[i + 1]
    BY <2>0, <2>1, WriteHere, Zenon
  <2> QED BY <1>6, <2>2 DEF p
<1>11. z.qBuff[Wrapped(f + B)] = len /\ z.qBuff[Wrapped(f + B + 1)] = 0
  <2>1. /\ 0 \in Nat /\ 0 < len + HeaderSize /\ f + B + 0 = f + B /\ 0 + 1 = 1
        /\ 1 \in Nat /\ 1 < len + HeaderSize /\ 1 + 1 = 2
    BY <1>1 DEF HeaderSize
  <2>2. z.qBuff[Wrapped(f + B + 0)] = e[0 + 1] /\ z.qBuff[Wrapped(f + B + 1)] = e[1 + 1]
    BY <1>10, <2>1
  <2> QED BY <1>3, <2>1, <2>2
<1>12. Filled(z, B, len, c)
  <2> SUFFICES ASSUME NEW i \in 0 .. len - 1
               PROVE  z.qBuff[Wrapped(f + B + HeaderSize + i)] = (c + i) % StreamMod
    BY <1>6 DEF Filled
  <2>1. /\ i + HeaderSize \in Nat /\ i + HeaderSize < len + HeaderSize /\ i + 1 \in 1 .. len
        /\ f + B + HeaderSize + i = f + B + (i + HeaderSize)
        /\ (i + HeaderSize) + 1 = (i + 1) + HeaderSize
    BY <1>1 DEF HeaderSize
  <2>2. z.qBuff[Wrapped(f + B + (i + HeaderSize))] = e[(i + HeaderSize) + 1]
    BY <1>10, <2>1
  <2>3. z.qBuff[Wrapped(f + B + HeaderSize + i)] = x[i + 1]
    BY <1>3, <2>1, <2>2
  <2>4. c + (i + 1) - 1 = c + i
    BY <1>8
  <2>5. x[i + 1] = (c + (i + 1) - 1) % StreamMod
    BY <2>1 DEF Piece, c
  <2> QED BY <2>3, <2>4, <2>5
<1>13. DataAt(p) + len <= MaxSize
  BY DEF p, B
<1>14. Chain(z, t, [L EXCEPT ![s.elementCount + 1] = B + len + HeaderSize])
  BY <1>1, <1>6, <1>9, <1>11, <1>12, <1>13, ExtendedChain DEF p, B, c
<1> QED BY <1>14 DEF z, p, B

\* The two parts of a message that is split.
LEMMA Halves ==
  ASSUME NEW x \in Seq(Nat), NEW n \in Nat, n < Len(x)
  PROVE  LET a == SubSeq(x, 1, n)  b == SubSeq(x, n + 1, Len(x))
         IN  /\ a \in Seq(Nat) /\ Len(a) = n /\ \A i \in 1 .. n : a[i] = x[i]
             /\ b \in Seq(Nat) /\ Len(b) = Len(x) - n
             /\ \A i \in 1 .. Len(x) - n : b[i] = x[n + i]
<1> DEFINE a == SubSeq(x, 1, n)  b == SubSeq(x, n + 1, Len(x))
<1>1. a \in Seq(Nat) /\ Len(a) = n
  OBVIOUS
<1>2. \A i \in 1 .. n : a[i] = x[i]
  OBVIOUS
<1>3. b \in Seq(Nat) /\ Len(b) = Len(x) - n
  OBVIOUS
<1>4. \A i \in 1 .. Len(x) - n : b[i] = x[n + i]
  OBVIOUS
<1> QED BY <1>1, <1>2, <1>3, <1>4

\* x is a message of len bytes.
Message(x, len) == x \in Seq(Nat) /\ Len(x) = len

\* A message that is split is two elements placed one after the other.
LEMMA AddIs ==
  ASSUME NEW s, QueueOK(s), s.byteCount \in Nat, s.elementCount \in Nat, NEW len \in Nat,
         NEW x, Message(x, len), NEW p, (s.last + LastSize(s)) % MaxSize = p,
         NEW n, n = MaxSize - DataAt(p), n \in Nat
  PROVE  /\ n >= len => CircularQueue_Add(s, x) = Placed(s, x, p)
         /\ n < len => CircularQueue_Add(s, x)
                         = Placed(Placed(s, SubSeq(x, 1, n), p), SubSeq(x, n + 1, len), 0)
<1>1. ASSUME n >= len PROVE CircularQueue_Add(s, x) = Placed(s, x, p)
  BY <1>1 DEF CircularQueue_Add, Placed, Message
<1>2. ASSUME n < len
      PROVE  CircularQueue_Add(s, x)
               = Placed(Placed(s, SubSeq(x, 1, n), p), SubSeq(x, n + 1, len), 0)
  <2> DEFINE a == SubSeq(x, 1, n)  b == SubSeq(x, n + 1, len)
             v == Write(s.qBuff, p, Element(a))  w == Write(v, 0, Element(b))
             B == s.byteCount + len + 2 * HeaderSize  m == s.elementCount + 2
  <2>1. Len(a) = n /\ Len(b) = len - n
    BY <1>2, Halves DEF Message
  <2>2. /\ (s.byteCount + Len(a) + HeaderSize) + Len(b) + HeaderSize = B
        /\ (s.elementCount + 1) + 1 = m
    <3> HIDE DEF a, b
    <3>1. (s.elementCount + 1) + 1 = m
      OBVIOUS
    <3>2. (s.byteCount + n + HeaderSize) + (len - n) + HeaderSize = B
      BY DEF HeaderSize
    <3> QED BY <2>1, <3>1, <3>2, Zenon
  <2>3. ~ (n >= len)
    BY <1>2
  <2>4. CircularQueue_Add(s, x)
          = [s EXCEPT !.qBuff = w, !.last = 0, !.byteCount = B, !.elementCount = m]
    BY <2>3 DEF CircularQueue_Add, Message
  <2>5. Placed(Placed(s, a, p), b, 0)
          = [s EXCEPT !.qBuff = w, !.last = 0,
                      !.byteCount = (s.byteCount + Len(a) + HeaderSize) + Len(b) + HeaderSize,
                      !.elementCount = (s.elementCount + 1) + 1]
    <3> HIDE DEF a, b
    <3> QED BY DEF Placed, QueueOK
  <2> HIDE DEF a, b, w, B, m
  <2>6. CircularQueue_Add(s, x) = Placed(Placed(s, a, p), b, 0)
    BY <2>2, <2>4, <2>5
  <2> QED BY <2>6 DEF a, b
<1> QED BY <1>1, <1>2

\* Adding a message that fits: the chain holds the next bytes of the stream,
\* the first element, if there was one, is the same, and whoever sends from the
\* pointer returned as many bytes as the message has does not leave the buffer.
LEMMA AddChain ==
  ASSUME NEW s, NEW t \in Nat, NEW L, Chain(s, t, L),
         NEW len \in Nat, len + HeaderSize <= ByteSize, Fits(s, len),
         NEW x, Piece(x, len, t + Before(L, s.elementCount))
  PROVE  LET z == CircularQueue_Add(s, x)
         IN  /\ z.first = s.first /\ z.elementCount \in Nat /\ z.elementCount > s.elementCount
             /\ DataAt(z.last) + len <= MaxSize
             /\ \E M : /\ Chain(z, t, M) /\ (s.elementCount > 0 => M[1] = L[1])
                       /\ Before(M, z.elementCount) = Before(L, s.elementCount) + len
<1> DEFINE z == CircularQueue_Add(s, x)  k == s.elementCount  B == s.byteCount  f == s.first
           p == Wrapped(f + B)  n == MaxSize - DataAt(p)  c == t + Before(L, k)
<1>1. /\ MaxSize \in Nat \ {0} /\ ByteSize \in Nat \ {0} /\ f \in 0 .. MaxSize - 1
      /\ k \in Nat /\ B \in Nat /\ B <= MaxSize /\ L \in [Nat -> Nat] /\ L[k] = B
  BY CircularQueueAssumption DEF CircularQueueAssumption, Chain, QueueOK
<1>2. QueueOK(s)
  BY DEF Chain
<1>3. x \in Seq(Nat) /\ Len(x) = len
  BY DEF Piece
<1>4. (s.last + LastSize(s)) % MaxSize = p
  BY NewLast
<1>5. /\ len > 0 /\ B + len + HeaderSize <= MaxSize
      /\ n < len => /\ n > 0 /\ p + HeaderSize + n = MaxSize /\ f + B < MaxSize
                    /\ B + len + 2 * HeaderSize <= MaxSize
  BY FitsRoom
<1>6. p \in 0 .. MaxSize - 1
  BY <1>1, <1>5 DEF Wrapped, HeaderSize
<1>7. n \in Nat
  <2>1. p + HeaderSize \in Nat /\ p + HeaderSize < 2 * MaxSize
    BY <1>1, <1>5, <1>6 DEF HeaderSize
  <2>2. DataAt(p) \in 0 .. MaxSize - 1
    BY <2>1, WrappedIs DEF DataAt
  <2> QED BY <1>1, <2>2
<1>8. c \in Int /\ Before(L, k) \in Int /\ Before(L, k) = B - HeaderSize * k
  BY <1>1 DEF Before, HeaderSize
<1>9. /\ n >= len => z = Placed(s, x, p)
      /\ n < len => z = Placed(Placed(s, SubSeq(x, 1, n), p), SubSeq(x, n + 1, len), 0)
  <2>1. s.byteCount \in Nat /\ s.elementCount \in Nat
    BY <1>1
  <2>2. Message(x, len) /\ n = MaxSize - DataAt(p)
    BY <1>3 DEF Message
  <2> HIDE DEF z, n, p, k, B, f
  <2>3. /\ n >= len => CircularQueue_Add(s, x) = Placed(s, x, p)
        /\ n < len => CircularQueue_Add(s, x)
                        = Placed(Placed(s, SubSeq(x, 1, n), p), SubSeq(x, n + 1, len), 0)
    BY <1>2, <1>4, <1>7, <2>1, <2>2, AddIs
  <2> QED BY <2>3 DEF z
<1>10. DataAt(p) = MaxSize - n
  <2>1. DataAt(p) \in Int
    BY <1>1, <1>6 DEF DataAt, HeaderSize
  <2> QED BY <1>1, <2>1
<1> HIDE DEF z, n, c
<1>11. CASE n >= len
  <2> DEFINE M == [L EXCEPT ![k + 1] = B + len + HeaderSize]
  <2>1. z = Placed(s, x, p) /\ DataAt(p) + len <= MaxSize
    BY <1>1, <1>7, <1>9, <1>10, <1>11
  <2>2. z.first = f /\ z.last = p /\ z.elementCount = k + 1
    BY <1>2, <1>3, <1>6, <2>1, PlacedFields
  <2>3. Chain(z, t, M)
    <3>1. len < ByteSize
      BY <1>1 DEF HeaderSize
    <3> QED BY <1>5, <2>1, <3>1, PlacedChain
  <2>4. (k > 0 => M[1] = L[1]) /\ M[k + 1] = B + len + HeaderSize
    BY <1>1
  <2>5. Before(M, k + 1) = Before(L, k) + len
    <3> HIDE DEF M
    <3> QED BY <1>1, <1>8, <2>4 DEF Before, HeaderSize
  <2>6. k + 1 \in Nat /\ k + 1 > k
    BY <1>1
  <2> HIDE DEF M
  <2> QED BY <2>1, <2>2, <2>3, <2>4, <2>5, <2>6 DEF z
<1>12. CASE n < len
  <2> DEFINE a == SubSeq(x, 1, n)  b == SubSeq(x, n + 1, len)  y == Placed(s, a, p)
             K == [L EXCEPT ![k + 1] = B + n + HeaderSize]
             M == [K EXCEPT ![(k + 1) + 1] = (B + n + HeaderSize) + (len - n) + HeaderSize]
  <2>1. /\ n > 0 /\ f + B < MaxSize /\ p = f + B /\ p + HeaderSize + n = MaxSize
        /\ B + len + 2 * HeaderSize <= MaxSize
    BY <1>1, <1>5, <1>12 DEF n, Wrapped
  <2>2. Piece(a, n, c) /\ Piece(b, len - n, c + n)
    <3>1. /\ a \in Seq(Nat) /\ Len(a) = n /\ \A i \in 1 .. n : a[i] = x[i]
          /\ b \in Seq(Nat) /\ Len(b) = len - n /\ \A i \in 1 .. len - n : b[i] = x[n + i]
      BY <1>3, <1>7, <1>12, Halves
    <3>2. \A i \in 1 .. len : x[i] = (c + i - 1) % StreamMod
      BY DEF Piece, c
    <3> HIDE DEF a, b
    <3>3. Piece(a, n, c)
      <4>1. \A i \in 1 .. n : i \in 1 .. len
        BY <1>7, <1>12
      <4> QED BY <3>1, <3>2, <4>1 DEF Piece
    <3>4. Piece(b, len - n, c + n)
      <4>1. \A i \in 1 .. len - n : n + i \in 1 .. len /\ c + (n + i) - 1 = (c + n) + i - 1
        BY <1>7, <1>8, <1>12
      <4> QED BY <3>1, <3>2, <4>1 DEF Piece
    <3> QED BY <3>3, <3>4
  <2> HIDE DEF a, b
  <2>3. Chain(y, t, K)
    <3>1. n \in Nat /\ n < ByteSize /\ B + n + HeaderSize <= MaxSize /\ DataAt(p) + n <= MaxSize
      BY <1>1, <1>5, <1>7, <1>10, <1>12 DEF HeaderSize
    <3> QED BY <2>1, <2>2, <3>1, PlacedChain DEF c
  <2>4. y.first = f /\ y.byteCount = B + n + HeaderSize /\ y.elementCount = k + 1
    <3>1. a \in Seq(Nat) /\ Len(a) = n
      BY <2>2 DEF Piece
    <3> QED BY <1>2, <1>6, <3>1, PlacedFields
  <2> HIDE DEF y
  <2>5. z = Placed(y, b, 0)
    BY <1>9, <1>12 DEF y, a, b
  <2>6. Wrapped(y.first + y.byteCount) = 0
    BY <1>1, <1>7, <2>1, <2>4 DEF Wrapped, HeaderSize
  <2>7. DataAt(0) = HeaderSize
    <3>1. 0 + HeaderSize \in Nat /\ 0 + HeaderSize < MaxSize
      BY <1>1, <2>1, <1>7, <1>12 DEF HeaderSize
    <3>2. (0 + HeaderSize) % MaxSize = Wrapped(0 + HeaderSize)
      BY <1>1, <3>1, WrappedIs
    <3> QED BY <3>1, <3>2 DEF DataAt, Wrapped, HeaderSize
  <2>8. K[k + 1] = B + n + HeaderSize /\ (k > 0 => K[1] = L[1]) /\ K \in [Nat -> Nat]
    BY <1>1, <1>7 DEF HeaderSize
  <2>9. /\ M[(k + 1) + 1] = (B + n + HeaderSize) + (len - n) + HeaderSize
        /\ (k > 0 => M[1] = L[1])
    <3> HIDE DEF K
    <3> QED BY <1>1, <2>8
  <2> HIDE DEF K
  <2>10. c + n = t + Before(K, k + 1)
    <3>1. Before(K, k + 1) = (B + n + HeaderSize) - HeaderSize * (k + 1)
      BY <2>8 DEF Before
    <3>2. k \in Nat /\ B \in Nat /\ c = t + (B - HeaderSize * k)
      BY <1>1, <1>8 DEF c
    <3> QED BY <1>7, <3>1, <3>2 DEF HeaderSize
  <2>11. Chain(z, t, M)
    <3>1. /\ len - n \in Nat /\ len - n > 0 /\ len - n < ByteSize
          /\ (B + n + HeaderSize) + (len - n) + HeaderSize <= MaxSize
          /\ HeaderSize + (len - n) <= MaxSize
      BY <1>1, <1>7, <1>12, <2>1 DEF HeaderSize
    <3> QED BY <2>2, <2>3, <2>4, <2>5, <2>6, <2>7, <2>10, <3>1, PlacedChain
  <2> HIDE DEF M
  <2>12. z.first = f /\ z.last = 0 /\ z.elementCount = (k + 1) + 1
    <3>1. b \in Seq(Nat) /\ QueueOK(y) /\ 0 \in 0 .. MaxSize - 1
      BY <1>1, <2>2, <2>3 DEF Piece, Chain
    <3> QED BY <2>4, <2>5, <3>1, PlacedFields
  <2>13. Before(M, (k + 1) + 1) = Before(L, k) + len
    BY <1>1, <1>7, <1>8, <2>9 DEF Before, HeaderSize
  <2>14. DataAt(z.last) + len <= MaxSize
    BY <1>1, <2>1, <2>7, <2>12 DEF HeaderSize
  <2>15. (k + 1) + 1 \in Nat /\ (k + 1) + 1 > k
    BY <1>1
  <2> QED BY <2>9, <2>11, <2>12, <2>13, <2>14, <2>15 DEF z
<1> QED BY <1>1, <1>7, <1>11, <1>12

\* Bytes of the ring counted from behind the first element.
LEMMA Rewrap ==
  ASSUME NEW f \in 0 .. MaxSize - 1, NEW a \in 0 .. MaxSize - 1, NEW j \in a .. MaxSize
  PROVE  Wrapped(Wrapped(f + a) + (j - a)) = Wrapped(f + j)
<1>1. MaxSize \in Nat \ {0}
  BY CircularQueueAssumption DEF CircularQueueAssumption
<1> QED BY <1>1 DEF Wrapped

\* Removing the first element leaves the others, which hold what comes behind
\* its data in the stream.
LEMMA RemoveChain ==
  ASSUME NEW s, NEW t \in Nat, NEW L, Chain(s, t, L), s.elementCount > 0
  PROVE  LET z == CircularQueue_Remove(s)  size == SizeAt(s, s.first)
         IN  /\ size \in Nat /\ size > 0 /\ z.elementCount = s.elementCount - 1
             /\ \E M : /\ Chain(z, t + size, M)
                       /\ Before(M, z.elementCount) + size = Before(L, s.elementCount)
<1> DEFINE n == s.elementCount  f == s.first  B == s.byteCount  a == L[1]
           size == SizeAt(s, f)  z == CircularQueue_Remove(s)
<1>1. /\ MaxSize \in Nat \ {0} /\ f \in 0 .. MaxSize - 1 /\ n \in Nat /\ n > 0
      /\ L \in [Nat -> Nat] /\ L[0] = 0 /\ B = L[n] /\ L[n] <= MaxSize
      /\ \A j, k \in 0 .. n : j < k => L[j] + HeaderSize < L[k]
  BY CircularQueueAssumption DEF CircularQueueAssumption, Chain, QueueOK
<1>2. a \in Nat /\ B \in Nat /\ a > HeaderSize
  BY <1>1 DEF HeaderSize
<1>3. size = a - HeaderSize
  <2>1. Stored(s, t, L, 0)
    BY <1>1 DEF Chain
  <2>2. Wrapped(f + L[0]) = f
    BY <1>1 DEF Wrapped
  <2> QED BY <1>1, <2>1, <2>2 DEF Stored, Size
<1>4. size \in Nat /\ size > 0 /\ size + HeaderSize = a
  BY <1>2, <1>3 DEF HeaderSize
<1>5. B \in Nat /\ B > 0 /\ a <= B /\ (n > 1 => a < B)
  BY <1>1, <1>2 DEF HeaderSize
<1>6. z = [s EXCEPT !.byteCount = B - a, !.elementCount = n - 1,
                    !.first = IF B > a THEN (f + a) % MaxSize ELSE f]
  <2>1. ~ CircularQueue_Empty(s)
    BY <1>5 DEF CircularQueue_Empty
  <2> HIDE DEF size
  <2>2. size + HeaderSize = a
    BY <1>4
  <2> QED BY <2>1, <2>2 DEF CircularQueue_Remove, size
<1>7. QueueOK(z)
  BY RemoveType DEF Chain
<1>8. /\ z.byteCount = B - a /\ z.elementCount = n - 1 /\ z.last = s.last /\ z.qBuff = s.qBuff
      /\ z.first = IF B > a THEN (f + a) % MaxSize ELSE f
  BY <1>6 DEF Chain, QueueOK
<1> HIDE DEF z, size
<1>9. CASE n = 1
  <2> DEFINE M == [k \in Nat |-> 0]
  <2>1. B = a /\ n - 1 = 0 /\ B - a = 0 /\ ~ (B > a)
    BY <1>1, <1>2, <1>9
  <2>2. s.last = f
    <3>1. s.last = Wrapped(f + L[0]) /\ f + 0 = f
      BY <1>1, <1>9 DEF Chain
    <3> QED BY <1>1, <3>1 DEF Wrapped
  <2>3. M \in [Nat -> Nat] /\ M[0] = 0
    OBVIOUS
  <2>4. /\ \A j, k \in 0 .. 0 : j < k => M[j] + HeaderSize < M[k]
        /\ \A k \in 0 .. 0 - 1 : Stored(z, t + size, M, k)
    OBVIOUS
  <2>5. z.byteCount = 0 /\ z.elementCount = 0 /\ z.first = f /\ z.last = f
    BY <1>8, <2>1, <2>2
  <2>6. 0 <= MaxSize /\ 0 \in Nat
    BY <1>1
  <2>7. Chain(z, t + size, M)
    <3> HIDE DEF M
    <3> QED BY <1>7, <2>3, <2>4, <2>5, <2>6 DEF Chain
  <2>8. Before(M, 0) + size = Before(L, 1)
    <3>1. Before(M, 0) = 0 /\ Before(L, 1) = a - HeaderSize
      BY <1>2, <2>3 DEF Before, HeaderSize
    <3> QED BY <1>3, <1>4, <3>1
  <2> HIDE DEF M
  <2> QED BY <1>4, <1>8, <1>9, <2>1, <2>7, <2>8 DEF z, size
<1>10. CASE n > 1
  <2> DEFINE M == [k \in Nat |-> IF k < n THEN L[k + 1] - a ELSE 0]  g == Wrapped(f + a)
  <2>1. \A k \in 0 .. n - 1 : /\ k \in Nat /\ k < n /\ k + 1 \in 0 .. n /\ L[k + 1] \in Nat
                              /\ L[k + 1] >= a /\ L[k + 1] <= B /\ (k # 0 => L[k + 1] > a)
                              /\ (k # n - 1 => L[k + 1] < B)
    <3> SUFFICES ASSUME NEW k \in 0 .. n - 1
                 PROVE  /\ k \in Nat /\ k < n /\ k + 1 \in 0 .. n /\ L[k + 1] \in Nat
                        /\ L[k + 1] >= a /\ L[k + 1] <= B /\ (k # 0 => L[k + 1] > a)
                        /\ (k # n - 1 => L[k + 1] < B)
      OBVIOUS
    <3>1. k \in Nat /\ k < n /\ k + 1 \in 0 .. n /\ 1 \in 0 .. n /\ n \in 0 .. n
          /\ L[k + 1] \in Nat
      BY <1>1, <1>10
    <3>2. k # 0 => L[k + 1] > a
      BY <1>1, <1>2, <3>1 DEF HeaderSize
    <3>3. k # n - 1 => L[k + 1] < B
      BY <1>1, <1>2, <3>1 DEF HeaderSize
    <3>4. (k = 0 => L[k + 1] = a) /\ (k = n - 1 => L[k + 1] = B)
      BY <1>1
    <3> QED BY <1>2, <1>5, <3>1, <3>2, <3>3, <3>4
  <2>2. g = (f + a) % MaxSize /\ g \in 0 .. MaxSize - 1 /\ a \in 0 .. MaxSize - 1 /\ B > a
    <3>1. f + a \in Nat /\ f + a < 2 * MaxSize /\ a \in 0 .. MaxSize - 1 /\ B > a
      BY <1>1, <1>2, <1>5, <1>10
    <3> QED BY <3>1, WrappedIs
  <2>3. z.first = g
    BY <1>8, <2>2
  <2>4. M \in [Nat -> Nat] /\ \A k \in 0 .. n - 1 : M[k] = L[k + 1] - a
    <3>1. \A k \in Nat : k < n => k \in 0 .. n - 1
      BY <1>1
    <3>2. \A k \in Nat : (IF k < n THEN L[k + 1] - a ELSE 0) \in Nat
      BY <1>2, <2>1, <3>1
    <3> QED BY <2>1, <3>2
  <2> HIDE DEF M, g
  <2>5. M[0] = 0
    BY <1>1, <1>2, <2>4
  <2>6. \A j, k \in 0 .. n - 1 : j < k => M[j] + HeaderSize < M[k]
    <3> SUFFICES ASSUME NEW j \in 0 .. n - 1, NEW k \in 0 .. n - 1, j < k
                 PROVE  M[j] + HeaderSize < M[k]
      OBVIOUS
    <3>1. L[j + 1] + HeaderSize < L[k + 1]
      BY <1>1, <2>1
    <3>2. L[j + 1] \in Nat /\ L[k + 1] \in Nat /\ M[j] = L[j + 1] - a /\ M[k] = L[k + 1] - a
      BY <2>1, <2>4
    <3> QED BY <1>2, <3>1, <3>2 DEF HeaderSize
  <2>7. B - a = M[n - 1] /\ B - a <= MaxSize /\ n - 1 \in Nat /\ n - 1 # 0
    <3>1. n - 1 \in 0 .. n - 1 /\ (n - 1) + 1 = n
      BY <1>1
    <3> QED BY <1>1, <1>2, <1>5, <1>10, <2>4, <3>1
  <2>8. z.last = Wrapped(g + M[(n - 1) - 1])
    <3>1. (n - 1) - 1 \in 0 .. n - 1 /\ ((n - 1) - 1) + 1 = n - 1 /\ (n - 1) - 1 # n - 1
      BY <1>1, <1>10
    <3>2. L[n - 1] \in a .. MaxSize /\ M[(n - 1) - 1] = L[n - 1] - a
      BY <1>1, <1>2, <2>1, <2>4, <3>1
    <3>3. s.last = Wrapped(f + L[n - 1])
      BY <1>1, <1>10 DEF Chain
    <3>4. Wrapped(g + (L[n - 1] - a)) = Wrapped(f + L[n - 1])
      BY <1>1, <2>2, <3>2, Rewrap DEF g
    <3> QED BY <1>8, <3>2, <3>3, <3>4
  <2>9. ASSUME NEW k \in 0 .. (n - 1) - 1 PROVE Stored(z, t + size, M, k)
    <3> DEFINE b == L[k + 1]
    <3>1. /\ k \in 0 .. n - 1 /\ k + 1 \in 0 .. n - 1 /\ k # n - 1 /\ (k + 1) + 1 = k + 2
      BY <1>1, <1>10
    <3>2. /\ b \in Nat /\ a <= b /\ b < B /\ L[k + 2] \in Nat /\ L[k + 2] <= B
          /\ M[k] = b - a /\ M[k + 1] = L[k + 2] - a
      BY <2>1, <2>4, <3>1
    <3>3. Stored(s, t, L, k + 1)
      BY <3>1 DEF Chain
    <3>4. Size(M, k) = Size(L, k + 1)
      <4>1. Size(M, k) = (L[k + 2] - a) - (b - a) - HeaderSize
        BY <3>2 DEF Size
      <4>2. Size(L, k + 1) = L[k + 2] - b - HeaderSize
        BY <3>1 DEF Size
      <4> HIDE DEF b
      <4> QED BY <1>2, <3>2, <4>1, <4>2 DEF HeaderSize
    <3>5. (t + size) + Before(M, k) = t + Before(L, k + 1)
      <4>1. Before(M, k) = (b - a) - HeaderSize * k
        BY <3>2 DEF Before
      <4>2. Before(L, k + 1) = b - HeaderSize * (k + 1)
        BY DEF Before
      <4>3. k \in Nat
        BY <3>1
      <4> HIDE DEF b
      <4> QED BY <1>2, <1>3, <3>2, <4>1, <4>2, <4>3 DEF HeaderSize
    <3>6. \A j \in b .. MaxSize : Wrapped(g + (j - a)) = Wrapped(f + j)
      <4>1. \A j \in b .. MaxSize : j \in a .. MaxSize
        BY <1>2, <3>2
      <4> QED BY <1>1, <2>2, <4>1, Rewrap DEF g
    <3>7. Wrapped(g + M[k]) = Wrapped(f + b)
      <4>1. b \in b .. MaxSize
        BY <1>1, <3>2
      <4> QED BY <3>2, <3>6, <4>1
    <3>8. SizeAt(z, Wrapped(g + M[k])) = SizeAt(s, Wrapped(f + b))
      BY <1>8, <3>7 DEF SizeAt
    <3>9. Filled(z, M[k], Size(M, k), (t + size) + Before(M, k))
      <4> DEFINE c == t + Before(L, k + 1)
      <4>1. \A i \in 0 .. Size(L, k + 1) - 1 :
              s.qBuff[Wrapped(f + b + HeaderSize + i)] = (c + i) % StreamMod
        BY <3>3 DEF Stored, Filled
      <4> HIDE DEF c
      <4>2. ASSUME NEW i \in 0 .. Size(L, k + 1) - 1
            PROVE  z.qBuff[Wrapped(g + M[k] + HeaderSize + i)] = (c + i) % StreamMod
        <5>1. Size(L, k + 1) = L[k + 2] - b - HeaderSize
          BY <3>1 DEF Size
        <5> HIDE DEF b
        <5>2. i \in Nat /\ b + HeaderSize + i \in b .. MaxSize
          BY <1>1, <3>2, <5>1 DEF HeaderSize
        <5>3. /\ g + M[k] + HeaderSize + i = g + ((b + HeaderSize + i) - a)
              /\ f + b + HeaderSize + i = f + (b + HeaderSize + i)
          BY <1>1, <1>2, <2>2, <3>2, <5>2 DEF HeaderSize
        <5>4. Wrapped(g + M[k] + HeaderSize + i) = Wrapped(f + b + HeaderSize + i)
          BY <3>6, <5>2, <5>3
        <5> QED BY <1>8, <4>1, <5>4
      <4>3. (t + size) + Before(M, k) = c
        BY <3>5 DEF c
      <4> QED BY <2>3, <3>4, <4>2, <4>3 DEF Filled
    <3>10. DataAt(Wrapped(g + M[k])) + Size(M, k) <= MaxSize
      BY <3>3, <3>4, <3>7 DEF Stored
    <3> QED BY <2>3, <3>3, <3>4, <3>8, <3>9, <3>10 DEF Stored
  <2>10. Chain(z, t + size, M)
    <3> DEFINE m == n - 1
    <3>1. /\ QueueOK(z) /\ z.elementCount = m /\ m \in Nat /\ m # 0 /\ z.byteCount = M[m]
          /\ z.byteCount <= MaxSize
      BY <1>7, <1>8, <2>7
    <3>2. \A j, k \in 0 .. m : j < k => M[j] + HeaderSize < M[k]
      BY <2>6
    <3>3. z.last = Wrapped(z.first + M[m - 1]) /\ \A k \in 0 .. m - 1 : Stored(z, t + size, M, k)
      BY <2>3, <2>8, <2>9
    <3> HIDE DEF m
    <3> QED BY <2>4, <2>5, <3>1, <3>2, <3>3 DEF Chain
  <2>11. Before(M, n - 1) + size = Before(L, n)
    <3>1. Before(M, n - 1) = (B - a) - HeaderSize * (n - 1) /\ Before(L, n) = B - HeaderSize * n
      BY <1>1, <2>7 DEF Before
    <3>2. n \in Nat
      BY <1>1
    <3> HIDE DEF B, n, a
    <3> QED BY <1>2, <1>3, <3>1, <3>2 DEF HeaderSize
  <2> QED BY <1>4, <1>8, <2>10, <2>11 DEF z, size
<1> QED BY <1>1, <1>9, <1>10

\* A position in the stream counts modulo StreamMod.
LEMMA ChainReduced ==
  ASSUME NEW s, NEW t \in Nat, NEW L, Chain(s, t, L)
  PROVE  Chain(s, t % StreamMod, L)
<1>1. StreamMod \in Nat \ {0}
  BY TraceUartAssumption DEF TraceUartAssumption
<1> DEFINE u == t % StreamMod
<1>2. ASSUME NEW k \in 0 .. s.elementCount - 1 PROVE Stored(s, u, L, k)
  <2>1. Stored(s, t, L, k)
    BY DEF Chain
  <2>2. Before(L, k) \in Int
    BY DEF Chain, Before, HeaderSize
  <2>3. ASSUME NEW i \in 0 .. Size(L, k) - 1
        PROVE  ((u + Before(L, k)) + i) % StreamMod = ((t + Before(L, k)) + i) % StreamMod
    <3> DEFINE b == Before(L, k) + i
    <3>1. b \in Int /\ (u + Before(L, k)) + i = u + b /\ (t + Before(L, k)) + i = t + b
      <4>1. u \in Int /\ i \in Int
        BY <1>1
      <4> HIDE DEF u
      <4> QED BY <2>2, <4>1
    <3> HIDE DEF b
    <3>2. (u + b) % StreamMod = (t + b) % StreamMod
      <4>1. t \in Int /\ b \in Int
        BY <3>1
      <4> QED BY <1>1, <4>1, RemainderAdd, Zenon
    <3> QED BY <3>1, <3>2, Zenon
  <2>4. Filled(s, L[k], Size(L, k), u + Before(L, k))
    <3> HIDE DEF u
    <3> QED BY <2>1, <2>3 DEF Stored, Filled
  <2> QED BY <2>1, <2>4 DEF Stored
<1> HIDE DEF u
<1>3. Chain(s, u, L)
  BY <1>2 DEF Chain
<1> QED BY <1>3 DEF u

\* The empty queue.
LEMMA InitChain ==
  \E L : Chain(CircularQueue_Init, 0, L) /\ Before(L, CircularQueue_Init.elementCount) = 0
<1> DEFINE L == [k \in Nat |-> 0]
<1>1. Chain(CircularQueue_Init, 0, L)
  BY CircularQueueAssumption DEF Chain, QueueOK, CircularQueue_Init, CircularQueueAssumption
<1>2. Before(L, CircularQueue_Init.elementCount) = 0
  BY DEF Before, CircularQueue_Init, HeaderSize
<1> QED BY <1>1, <1>2

----------------------------------------------------------------------------
(* The functions of the properties                                         *)

\* The walk over the elements meets the chain.
LEMMA PositionIs ==
  ASSUME NEW L, Chain(q, removed, L)
  PROVE  Position = [k \in 0 .. q.elementCount |-> Wrapped(q.first + L[k])]
<1> DEFINE n == q.elementCount  f == q.first
           P == [k \in 0 .. n |-> Wrapped(f + L[k])]
           walk(p) == [k \in 0 .. n |->
                         IF k = 0 THEN f ELSE (p[k - 1] + SizeAt(q, p[k - 1]) + HeaderSize) % MaxSize]
<1>1. /\ MaxSize \in Nat \ {0} /\ n \in Nat /\ f \in 0 .. MaxSize - 1
      /\ L \in [Nat -> Nat] /\ L[0] = 0 /\ L[n] <= MaxSize
      /\ \A j, k \in 0 .. n : j < k => L[j] + HeaderSize < L[k]
      /\ \A k \in 0 .. n - 1 : SizeAt(q, Wrapped(f + L[k])) = Size(L, k)
  BY CircularQueueAssumption DEF CircularQueueAssumption, Chain, QueueOK, Stored
<1>2. P = walk(P)
  <2>1. P[0] = f
    BY <1>1 DEF Wrapped
  <2>2. ASSUME NEW k \in 0 .. n, k # 0
        PROVE  P[k] = (P[k - 1] + SizeAt(q, P[k - 1]) + HeaderSize) % MaxSize
    <3> DEFINE a == L[k - 1]  b == L[k]
    <3>1. k - 1 \in 0 .. n - 1 /\ k - 1 \in 0 .. n /\ k - 1 < k /\ (k - 1) + 1 = k
      BY <1>1, <2>2
    <3>2. a \in Nat /\ b \in Nat /\ a + HeaderSize < b
      BY <1>1, <3>1
    <3>3. b <= MaxSize
      <4>1. k < n \/ k = n
        BY <1>1
      <4> QED BY <1>1, <3>2, <4>1 DEF HeaderSize
    <3>4. P[k - 1] = Wrapped(f + a) /\ P[k] = Wrapped(f + b)
      BY <3>1
    <3>5. SizeAt(q, Wrapped(f + a)) = b - a - HeaderSize
      BY <1>1, <3>1 DEF Size
    <3> HIDE DEF a, b, P
    <3>6. /\ Wrapped(f + a) + (b - a - HeaderSize) + HeaderSize \in Nat
          /\ Wrapped(f + a) + (b - a - HeaderSize) + HeaderSize < 2 * MaxSize
          /\ Wrapped(Wrapped(f + a) + (b - a - HeaderSize) + HeaderSize) = Wrapped(f + b)
      BY <1>1, <3>2, <3>3 DEF Wrapped, HeaderSize
    <3> QED BY <3>4, <3>5, <3>6, WrappedIs
  <2> QED BY <2>1, <2>2
<1>3. Position = CHOOSE p : p = walk(p)
  BY DEF Position
<1> HIDE DEF walk, P
<1>4. Position = walk(Position)
  BY <1>2, <1>3
<1> DEFINE B == {k \in 0 .. n : Position[k] # P[k]}
<1>5. B = {}
  <2> SUFFICES ASSUME B # {} PROVE FALSE
    OBVIOUS
  <2>1. B \subseteq Nat
    OBVIOUS
  <2>2. PICK k \in B : \A j \in B : ~ (<<j, k>> \in OpToRel(<, Nat))
    BY <2>1, WFMin, NatLessThanWellFounded
  <2>3. \A j \in B : ~ (j < k)
    BY <2>1, <2>2 DEF OpToRel
  <2>4. k # 0
    BY <1>2, <1>4 DEF walk
  <2>5. Position[k - 1] = P[k - 1]
    <3>1. k - 1 \in 0 .. n /\ k - 1 < k
      BY <1>1, <2>4
    <3> QED BY <2>3, <3>1
  <2>6. Position[k] = (Position[k - 1] + SizeAt(q, Position[k - 1]) + HeaderSize) % MaxSize
    BY <1>4, <2>4 DEF walk
  <2>7. P[k] = (P[k - 1] + SizeAt(q, P[k - 1]) + HeaderSize) % MaxSize
    BY <1>2, <2>4 DEF walk
  <2> QED BY <2>5, <2>6, <2>7
<1>6. \A k \in 0 .. n : Position[k] = P[k]
  BY <1>5
<1>7. Position = [k \in 0 .. n |-> Position[k]]
  BY <1>4 DEF walk
<1>8. P = [k \in 0 .. n |-> P[k]]
  BY DEF P
<1> HIDE DEF B, n
<1>9. Position = P
  BY <1>6, <1>7, <1>8, Zenon
<1> QED BY <1>9 DEF P, n

\* The data before an element in the queue.
LEMMA OffsetIs ==
  ASSUME NEW L, Chain(q, removed, L)
  PROVE  Offset = [k \in 0 .. q.elementCount |-> Before(L, k)]
<1> DEFINE n == q.elementCount
           P == [k \in 0 .. n |-> Before(L, k)]
           walk(o) == [k \in 0 .. n |-> IF k = 0 THEN 0 ELSE o[k - 1] + SizeAt(q, Position[k - 1])]
<1>1. /\ n \in Nat /\ L \in [Nat -> Nat] /\ L[0] = 0
      /\ \A k \in 0 .. n - 1 : SizeAt(q, Wrapped(q.first + L[k])) = Size(L, k)
  BY DEF Chain, Stored
<1>2. P = walk(P)
  <2>1. P[0] = 0
    BY <1>1 DEF Before, HeaderSize
  <2>2. ASSUME NEW k \in 0 .. n, k # 0
        PROVE  P[k] = P[k - 1] + SizeAt(q, Position[k - 1])
    <3>1. k - 1 \in 0 .. n - 1 /\ k - 1 \in 0 .. n /\ (k - 1) + 1 = k
      BY <1>1, <2>2
    <3>2. SizeAt(q, Position[k - 1]) = Size(L, k - 1)
      BY <1>1, <3>1, PositionIs
    <3>3. P[k] = Before(L, k) /\ P[k - 1] = Before(L, k - 1)
      BY <3>1
    <3>4. L[k] \in Nat /\ L[k - 1] \in Nat /\ k \in Nat
      BY <1>1, <3>1
    <3>5. Before(L, k) = Before(L, k - 1) + Size(L, k - 1)
      BY <3>1, <3>4 DEF Before, Size, HeaderSize
    <3> QED BY <3>2, <3>3, <3>5
  <2> QED BY <2>1, <2>2
<1>3. Offset = CHOOSE o : o = walk(o)
  BY DEF Offset
<1> HIDE DEF walk, P
<1>4. Offset = walk(Offset)
  BY <1>2, <1>3
<1> DEFINE B == {k \in 0 .. n : Offset[k] # P[k]}
<1>5. B = {}
  <2> SUFFICES ASSUME B # {} PROVE FALSE
    OBVIOUS
  <2>1. B \subseteq Nat
    OBVIOUS
  <2>2. PICK k \in B : \A j \in B : ~ (<<j, k>> \in OpToRel(<, Nat))
    BY <2>1, WFMin, NatLessThanWellFounded
  <2>3. \A j \in B : ~ (j < k)
    BY <2>1, <2>2 DEF OpToRel
  <2>4. k # 0
    BY <1>2, <1>4 DEF walk
  <2>5. Offset[k - 1] = P[k - 1]
    <3>1. k - 1 \in 0 .. n /\ k - 1 < k
      BY <1>1, <2>4
    <3> QED BY <2>3, <3>1
  <2>6. Offset[k] = Offset[k - 1] + SizeAt(q, Position[k - 1])
    BY <1>4, <2>4 DEF walk
  <2>7. P[k] = P[k - 1] + SizeAt(q, Position[k - 1])
    BY <1>2, <2>4 DEF walk
  <2> QED BY <2>5, <2>6, <2>7
<1>6. \A k \in 0 .. n : Offset[k] = P[k]
  BY <1>5
<1>7. Offset = [k \in 0 .. n |-> Offset[k]]
  BY <1>4 DEF walk
<1>8. P = [k \in 0 .. n |-> P[k]]
  BY DEF P
<1> HIDE DEF B, n
<1>9. Offset = P
  BY <1>6, <1>7, <1>8, Zenon
<1> QED BY <1>9 DEF P, n

----------------------------------------------------------------------------
(* What the buffer holds                                                   *)

\* Writing bytes and sizes leaves a buffer of such.
LEMMA WriteBytes ==
  ASSUME NEW buff \in [0..MaxSize-1 -> Bytes], NEW p \in Int, NEW bytes \in Seq(Nat),
         \A i \in 1 .. Len(bytes) : bytes[i] \in Bytes
  PROVE  Write(buff, p, bytes) \in [0..MaxSize-1 -> Bytes]
<1> SUFFICES ASSUME NEW b \in 0..MaxSize-1
             PROVE  (LET i == (b - p) % MaxSize
                     IN IF i < Len(bytes) THEN bytes[i + 1] ELSE buff[b]) \in Bytes
  BY DEF Write
<1> DEFINE i == (b - p) % MaxSize
<1>0. b - p \in Int
  OBVIOUS
<1>1. i \in Nat
  <2>1. (b - p) % MaxSize \in 0..MaxSize-1
    BY <1>0, Wrap
  <2> QED BY <2>1
<1>2. i < Len(bytes) => i + 1 \in 1 .. Len(bytes)
  BY <1>1
<1>3. i < Len(bytes) => bytes[i + 1] \in Bytes
  BY <1>2
<1> QED BY <1>3

\* So does placing an element.
LEMMA PlacedBytes ==
  ASSUME NEW s, QueueOK(s), s.qBuff \in [0..MaxSize-1 -> Bytes],
         NEW x \in Seq(Nat), Len(x) < ByteSize, \A i \in 1 .. Len(x) : x[i] \in Bytes,
         NEW p \in 0 .. MaxSize - 1
  PROVE  Placed(s, x, p).qBuff \in [0..MaxSize-1 -> Bytes]
<1> DEFINE e == Element(x)
<1>1. /\ ByteSize \in Nat \ {0} /\ Len(x) \in Nat /\ StreamMod \in Nat
  BY CircularQueueAssumption, TraceUartAssumption DEF CircularQueueAssumption, TraceUartAssumption
<1>2. /\ e \in Seq(Nat) /\ Len(e) = Len(x) + HeaderSize /\ e[1] = Len(x) /\ e[2] = 0
      /\ \A i \in 1 .. Len(x) : e[i + HeaderSize] = x[i]
  BY ElementBytes
<1>3. Len(x) \in Bytes /\ 0 \in Bytes
  BY <1>1 DEF Bytes
<1> HIDE DEF e
<1>4. ASSUME NEW j \in 1 .. Len(e) PROVE e[j] \in Bytes
  <2>1. j = 1 \/ j = 2 \/ (j - HeaderSize \in 1 .. Len(x) /\ (j - HeaderSize) + HeaderSize = j)
    BY <1>1, <1>2 DEF HeaderSize
  <2> QED BY <1>2, <1>3, <2>1
<1>5. p \in Int
  OBVIOUS
<1>6. Write(s.qBuff, p, e) \in [0..MaxSize-1 -> Bytes]
  BY <1>2, <1>4, <1>5, WriteBytes
<1> QED BY <1>6, PlacedFields DEF e

\* Messages of bytes of the stream leave a buffer of such bytes and of sizes.
LEMMA AddBytes ==
  ASSUME NEW s, QueueOK(s), s.byteCount \in Nat, s.elementCount \in Nat,
         s.qBuff \in [0..MaxSize-1 -> Bytes], NEW len \in Nat, len + HeaderSize <= ByteSize,
         NEW x, Message(x, len), \A i \in 1 .. len : x[i] \in Bytes
  PROVE  CircularQueue_Add(s, x).qBuff \in [0..MaxSize-1 -> Bytes]
<1> DEFINE p == (s.last + LastSize(s)) % MaxSize  n == MaxSize - DataAt(p)
           z == CircularQueue_Add(s, x)
<1>1. p \in 0 .. MaxSize - 1
  <2>1. LastSize(s) \in Nat
    BY SizeType DEF LastSize, QueueOK, HeaderSize
  <2> QED BY <2>1, Wrap DEF QueueOK
<1>2. n \in Nat
  <2>1. \A r \in 0 .. MaxSize - 1 : DataAt(r) \in 0 .. MaxSize - 1
    BY DataType
  <2> HIDE DEF p
  <2> QED BY <1>1, <2>1, CircularQueueAssumption DEF CircularQueueAssumption
<1>3. (s.last + LastSize(s)) % MaxSize = p /\ n = MaxSize - DataAt(p)
  OBVIOUS
<1>4. 0 \in 0 .. MaxSize - 1 /\ ByteSize \in Nat
  BY CircularQueueAssumption DEF CircularQueueAssumption
<1> HIDE DEF p, n, z
<1>5. /\ n >= len => z = Placed(s, x, p)
      /\ n < len => z = Placed(Placed(s, SubSeq(x, 1, n), p), SubSeq(x, n + 1, len), 0)
  <2>1. /\ n >= len => CircularQueue_Add(s, x) = Placed(s, x, p)
        /\ n < len => CircularQueue_Add(s, x)
                        = Placed(Placed(s, SubSeq(x, 1, n), p), SubSeq(x, n + 1, len), 0)
    BY <1>2, <1>3, AddIs
  <2> QED BY <2>1 DEF z
<1>6. CASE n >= len
  <2>1. x \in Seq(Nat) /\ Len(x) = len
    BY DEF Message
  <2>2. Len(x) < ByteSize
    BY <1>4, <2>1 DEF HeaderSize
  <2>3. Placed(s, x, p).qBuff \in [0..MaxSize-1 -> Bytes]
    BY <1>1, <2>1, <2>2, PlacedBytes
  <2> QED BY <1>5, <1>6, <2>3 DEF z
<1>7. CASE n < len
  <2> DEFINE a == SubSeq(x, 1, n)  b == SubSeq(x, n + 1, len)  y == Placed(s, a, p)
  <2>1. /\ a \in Seq(Nat) /\ Len(a) = n /\ \A i \in 1 .. n : a[i] = x[i]
        /\ b \in Seq(Nat) /\ Len(b) = len - n /\ \A i \in 1 .. len - n : b[i] = x[n + i]
    BY <1>2, <1>7, Halves DEF Message
  <2>2. n < ByteSize /\ len - n < ByteSize
    BY <1>2, <1>4, <1>7 DEF HeaderSize
  <2>3. (\A i \in 1 .. n : i \in 1 .. len) /\ (\A i \in 1 .. len - n : n + i \in 1 .. len)
    BY <1>2, <1>7
  <2> HIDE DEF a, b
  <2>4. (\A i \in 1 .. Len(a) : a[i] \in Bytes) /\ (\A i \in 1 .. Len(b) : b[i] \in Bytes)
    BY <2>1, <2>3
  <2>5. y.qBuff \in [0..MaxSize-1 -> Bytes] /\ QueueOK(y)
    <3>1. Len(a) < ByteSize
      BY <2>1, <2>2
    <3> QED BY <1>1, <2>1, <2>4, <3>1, PlacedBytes, PlacedFields
  <2> HIDE DEF y
  <2>6. Placed(y, b, 0).qBuff \in [0..MaxSize-1 -> Bytes]
    <3>1. Len(b) < ByteSize
      BY <2>1, <2>2
    <3> QED BY <1>4, <2>1, <2>4, <2>5, <3>1, PlacedBytes
  <2> QED BY <1>5, <1>7, <2>6 DEF a, b, y, z
<1>8. n >= len \/ n < len
  BY <1>2
<1> QED BY <1>6, <1>7, <1>8

----------------------------------------------------------------------------
(* The queue holds what has not been sent                                  *)

\* The first and the only element of a chain.
LEMMA FirstOf ==
  ASSUME NEW s, NEW t, NEW L, Chain(s, t, L)
  PROVE  /\ s.elementCount \in Nat /\ s.byteCount \in Nat /\ (s.elementCount > 0 <=> s.byteCount > 0)
         /\ DataAt(s.first) \in Nat /\ DataAt(s.last) \in Nat
         /\ s.elementCount > 0 => /\ SizeAt(s, s.first) = L[1] - HeaderSize
                                  /\ SizeAt(s, s.first) \in Nat
                                  /\ DataAt(s.first) + SizeAt(s, s.first) <= MaxSize
         /\ s.elementCount = 1 => s.last = s.first /\ SizeAt(s, s.first) = Before(L, 1)
<1> DEFINE n == s.elementCount  f == s.first
<1>1. /\ MaxSize \in Nat \ {0} /\ n \in Nat /\ f \in 0 .. MaxSize - 1 /\ s.last \in 0 .. MaxSize - 1
      /\ L \in [Nat -> Nat] /\ L[0] = 0 /\ s.byteCount = L[n]
      /\ \A j, k \in 0 .. n : j < k => L[j] + HeaderSize < L[k]
  BY CircularQueueAssumption DEF CircularQueueAssumption, Chain, QueueOK
<1>2. n > 0 <=> s.byteCount > 0
  BY <1>1 DEF HeaderSize
<1>3. DataAt(f) \in Nat /\ DataAt(s.last) \in Nat
  <2>1. DataAt(f) \in 0 .. MaxSize - 1 /\ DataAt(s.last) \in 0 .. MaxSize - 1
    BY <1>1, DataType
  <2> QED BY <2>1
<1>4. Wrapped(f + L[0]) = f
  BY <1>1 DEF Wrapped
<1>5. n > 0 => /\ SizeAt(s, f) = L[1] - HeaderSize /\ DataAt(f) + SizeAt(s, f) <= MaxSize
               /\ SizeAt(s, f) \in Nat
  <2>1. n > 0 => Stored(s, t, L, 0) /\ L[0] + HeaderSize < L[1]
    BY <1>1 DEF Chain
  <2>2. Size(L, 0) = L[1] - HeaderSize /\ L[1] \in Nat
    BY <1>1 DEF Size, HeaderSize
  <2>3. n > 0 => SizeAt(s, f) = Size(L, 0) /\ DataAt(f) + SizeAt(s, f) <= MaxSize
    BY <1>4, <2>1 DEF Stored
  <2> QED BY <1>1, <2>1, <2>2, <2>3 DEF HeaderSize
<1>6. n = 1 => s.last = f /\ SizeAt(s, f) = Before(L, 1)
  <2>1. n = 1 => s.last = Wrapped(f + L[0])
    BY <1>1 DEF Chain
  <2>2. Before(L, 1) = L[1] - HeaderSize
    BY DEF Before, HeaderSize
  <2> QED BY <1>4, <1>5, <2>1, <2>2
<1>7. s.byteCount \in Nat
  BY <1>1
<1> QED BY <1>1, <1>2, <1>3, <1>5, <1>6, <1>7

\* The queue is a chain of the bytes from removed to written.
StreamInv ==
  /\ removed \in 0 .. StreamMod - 1 /\ written \in 0 .. StreamMod - 1
  /\ \E L : /\ Chain(q, removed, L)
            /\ written = (removed + Before(L, q.elementCount)) % StreamMod
  /\ q.qBuff \in [0 .. MaxSize - 1 -> Bytes]

\* A transmission d does not leave the buffer, and ends where the first element
\* ends unless it started with a second part.
WithinFirst(d) ==
  /\ d.pos \in Nat /\ d.pos + d.left <= MaxSize /\ q.elementCount > 0
  /\ ~misdirected => d.pos + d.left = DataAt(q.first) + SizeAt(q, q.first)

SendInv ==
  /\ misdirected \in BOOLEAN /\ DbgTracePeripheralReady \in BOOLEAN
  /\ DbgTracePeripheralReady => q.elementCount = 0
  /\ dma # NoDma => WithinFirst(dma)
  /\ pc = "output" => WithinFirst(out)

\* A part of the stream is the bytes behind those in the queue.
LEMMA StreamPiece ==
  ASSUME NEW c \in Int, NEW n \in Nat, written = c % StreamMod
  PROVE  /\ Piece(Stream(written, n), n, c) /\ Message(Stream(written, n), n)
         /\ \A i \in 1 .. n : Stream(written, n)[i] \in Bytes
         /\ (written + n) % StreamMod = (c + n) % StreamMod
         /\ (written + n) % StreamMod \in 0 .. StreamMod - 1
<1> DEFINE x == Stream(written, n)
<1>1. StreamMod \in Nat \ {0} /\ ByteSize \in Nat
  BY TraceUartAssumption, CircularQueueAssumption DEF TraceUartAssumption, CircularQueueAssumption
<1>2. written \in Int
  BY <1>1
<1>3. ASSUME NEW i \in Int
      PROVE  (written + i) % StreamMod = (c + i) % StreamMod
             /\ (written + i) % StreamMod \in 0 .. StreamMod - 1
  <2>1. ((c % StreamMod) + i) % StreamMod = (c + i) % StreamMod
    BY <1>1, RemainderAdd, Zenon
  <2>2. c + i \in Int
    OBVIOUS
  <2>3. (c + i) % StreamMod \in 0 .. StreamMod - 1
    BY <1>1, <2>2, Remainder
  <2> QED BY <2>1, <2>3
<1>4. ASSUME NEW i \in 1 .. n
      PROVE  /\ (written + i - 1) % StreamMod = (c + i - 1) % StreamMod
             /\ (written + i - 1) % StreamMod \in 0 .. StreamMod - 1
  <2>1. i - 1 \in Int /\ written + i - 1 = written + (i - 1) /\ c + i - 1 = c + (i - 1)
    BY <1>2
  <2> QED BY <1>3, <2>1
<1>5. \A i \in 1 .. n : x[i] = (written + i - 1) % StreamMod
  BY DEF Stream
<1>6. x \in Seq(Nat) /\ Len(x) = n
  <2>1. x \in [1 .. n -> Nat]
    <3>1. \A i \in 1 .. n : (written + i - 1) % StreamMod \in Nat
      BY <1>4
    <3> QED BY <3>1 DEF Stream
  <2> QED BY <2>1 DEF Stream
<1>7. \A m \in 0 .. StreamMod - 1 : m \in Bytes
  BY <1>1 DEF Bytes
<1> HIDE DEF x
<1>8. Piece(x, n, c) /\ Message(x, n)
  BY <1>4, <1>5, <1>6 DEF Piece, Message
<1>9. \A i \in 1 .. n : x[i] \in Bytes
  BY <1>4, <1>5, <1>7
<1> QED BY <1>3, <1>8, <1>9 DEF x

\* What is proved of the queue and of what is sent from it.
DataInv == StreamInv /\ SendInv

\* The initial state satisfies it.
LEMMA InitData == Init => DataInv
<1> SUFFICES ASSUME Init PROVE DataInv
  OBVIOUS
<1>1. StreamMod \in Nat \ {0} /\ ByteSize \in Nat \ {0} /\ MaxSize \in Nat \ {0}
  BY TraceUartAssumption, CircularQueueAssumption DEF TraceUartAssumption, CircularQueueAssumption
<1>2. q = CircularQueue_Init /\ written = 0 /\ removed = 0 /\ q.elementCount = 0
  BY DEF Init, q, CircularQueue_Init
<1>3. 0 \in 0 .. StreamMod - 1 /\ (0 + 0) % StreamMod = 0 /\ 0 \in Bytes
  BY <1>1 DEF Bytes
<1>4. q.qBuff \in [0 .. MaxSize - 1 -> Bytes]
  BY <1>2, <1>3 DEF CircularQueue_Init
<1>5. StreamInv
  BY <1>2, <1>3, <1>4, InitChain DEF StreamInv
<1>6. SendInv
  BY <1>2 DEF Init, SendInv
<1> QED BY <1>5, <1>6 DEF DataInv

\* What the queue is after a message that fits is added.
LEMMA AddStep ==
  ASSUME IInv, StreamInv, NEW n \in Sizes, Fits(q, n),
         q' = CircularQueue_Add(q, Stream(written, n)),
         written' = (written + n) % StreamMod, removed' = removed
  PROVE  /\ StreamInv' /\ q'.first = q.first /\ q'.elementCount > q.elementCount
         /\ q'.elementCount \in Nat /\ DataAt(q'.last) \in Nat /\ DataAt(q'.last) + n <= MaxSize
         /\ q.elementCount > 0 => SizeAt(q', q'.first) = SizeAt(q, q.first)
         /\ q.elementCount = 0 /\ ~(q'.elementCount > 1) =>
              q'.last = q'.first /\ SizeAt(q', q'.first) = n
<1> DEFINE x == Stream(written, n)
<1>1. n \in Nat /\ n + HeaderSize <= ByteSize /\ StreamMod \in Nat \ {0}
  BY TraceUartAssumption, ShortMessages DEF TraceUartAssumption, ShortMessages
<1>2. PICK L : Chain(q, removed, L) /\ written = (removed + Before(L, q.elementCount)) % StreamMod
  BY DEF StreamInv
<1> DEFINE c == removed + Before(L, q.elementCount)
<1>3. removed \in Nat /\ Before(L, q.elementCount) \in Int /\ c \in Int
  <2>1. removed \in Nat
    BY DEF StreamInv
  <2>2. Before(L, q.elementCount) \in Int
    BY <1>2 DEF Chain, Before, HeaderSize
  <2> QED BY <2>1, <2>2
<1>4. written = c % StreamMod
  BY <1>2
<1> HIDE DEF c
<1>5. /\ Piece(x, n, c) /\ Message(x, n) /\ \A i \in 1 .. n : x[i] \in Bytes
      /\ written' = (c + n) % StreamMod /\ written' \in 0 .. StreamMod - 1
  BY <1>1, <1>3, <1>4, StreamPiece
<1> HIDE DEF x
<1>6. q' = CircularQueue_Add(q, x)
  BY DEF x
<1>7. /\ q'.first = q.first /\ q'.elementCount \in Nat /\ q'.elementCount > q.elementCount
      /\ DataAt(q'.last) + n <= MaxSize
      /\ \E M : /\ Chain(q', removed, M) /\ (q.elementCount > 0 => M[1] = L[1])
                /\ Before(M, q'.elementCount) = Before(L, q.elementCount) + n
  <2>1. Piece(x, n, removed + Before(L, q.elementCount))
    BY <1>5 DEF c
  <2> QED BY <1>1, <1>2, <1>3, <1>6, <2>1, AddChain
<1>8. PICK M : /\ Chain(q', removed, M) /\ (q.elementCount > 0 => M[1] = L[1])
               /\ Before(M, q'.elementCount) = Before(L, q.elementCount) + n
  BY <1>7
<1>9. q'.qBuff \in [0 .. MaxSize - 1 -> Bytes]
  <2>1. QueueOK(q) /\ q.byteCount \in Nat /\ q.elementCount \in Nat
    BY <1>2, FirstOf DEF Chain
  <2> QED BY <1>1, <1>5, <1>6, <2>1, AddBytes DEF StreamInv
<1>10. StreamInv'
  <2>1. removed + Before(M, q'.elementCount) = c + n
    <3>1. removed \in Int /\ n \in Int
      BY <1>1, <1>3
    <3> QED BY <1>3, <1>8, <3>1 DEF c
  <2>2. written' = (removed' + Before(M, q'.elementCount)) % StreamMod
    BY <1>5, <2>1
  <2>3. Chain(q', removed', M) /\ removed' \in 0 .. StreamMod - 1
    BY <1>8 DEF StreamInv
  <2> QED BY <1>5, <1>9, <2>2, <2>3 DEF StreamInv
<1>11. q.elementCount > 0 => SizeAt(q', q'.first) = SizeAt(q, q.first)
  <2>1. q.elementCount > 0 => SizeAt(q, q.first) = L[1] - HeaderSize
    BY <1>2, FirstOf
  <2>2. q'.elementCount > 0 => SizeAt(q', q'.first) = M[1] - HeaderSize
    BY <1>8, FirstOf
  <2>3. q.elementCount \in Nat
    BY <1>2 DEF Chain
  <2>4. q.elementCount > 0 => q'.elementCount > 0
    BY <1>7, <2>3
  <2> QED BY <1>8, <2>1, <2>2, <2>4
<1>12. q.elementCount = 0 /\ ~(q'.elementCount > 1) =>
         q'.last = q'.first /\ SizeAt(q', q'.first) = n
  <2> SUFFICES ASSUME q.elementCount = 0, ~(q'.elementCount > 1)
               PROVE  q'.last = q'.first /\ SizeAt(q', q'.first) = n
    OBVIOUS
  <2>1. q'.elementCount = 1
    BY <1>7
  <2>2. q'.last = q'.first /\ SizeAt(q', q'.first) = Before(M, 1)
    BY <1>8, <2>1, FirstOf
  <2>3. Before(L, 0) = 0
    BY <1>2 DEF Chain, Before, HeaderSize
  <2>4. Before(M, 1) = 0 + n
    BY <1>8, <2>1, <2>3
  <2> QED BY <1>1, <2>2, <2>4
<1>13. DataAt(q'.last) \in Nat
  BY <1>8, FirstOf
<1> QED BY <1>7, <1>10, <1>11, <1>12, <1>13

\* Tracing a message preserves the invariant.
LEMMA WriteData ==
  ASSUME IInv, DataInv, NEW n \in Sizes, DbgTraceWrite(n)
  PROVE  DataInv'
<1>0. n \in Nat
  BY TraceUartAssumption DEF TraceUartAssumption
<1>1. dma' = dma /\ removed' = removed
  BY DEF DbgTraceWrite
<1>2. CASE ~Fits(q, n)
  <2>1. UNCHANGED <<MsgDbgTraceQueue, DbgTracePeripheralReady, written, pc, out, misdirected>>
    BY <1>2 DEF DbgTraceWrite
  <2> QED BY <1>1, <2>1 DEF DataInv, StreamInv, SendInv, WithinFirst, q
<1>3. CASE Fits(q, n)
  <2>1. q' = CircularQueue_Add(q, Stream(written, n)) /\ written' = (written + n) % StreamMod
    BY <1>3 DEF DbgTraceWrite, q
  <2>2. /\ StreamInv' /\ q'.first = q.first /\ q'.elementCount > q.elementCount
        /\ q'.elementCount \in Nat /\ DataAt(q'.last) \in Nat /\ DataAt(q'.last) + n <= MaxSize
        /\ q.elementCount > 0 => SizeAt(q', q'.first) = SizeAt(q, q.first)
        /\ q.elementCount = 0 /\ ~(q'.elementCount > 1) =>
             q'.last = q'.first /\ SizeAt(q', q'.first) = n
    BY <1>1, <1>3, <2>1, AddStep DEF DataInv
  <2>3. q.elementCount \in Nat /\ q'.elementCount > 0
    <3>1. q.elementCount \in Nat
      BY DEF DataInv, StreamInv, Chain
    <3> QED BY <2>2, <3>1
  <2>4. CASE DbgTracePeripheralReady
    <3>1. /\ DbgTracePeripheralReady' = FALSE
          /\ out' = [pos |-> DataAt(q'.last), left |-> n] /\ misdirected' = (q'.elementCount > 1)
      BY <1>3, <2>4 DEF DbgTraceWrite
    <3>2. q.elementCount = 0 /\ dma' = NoDma
      BY <1>1, <2>4 DEF DataInv, SendInv, IInv, OwnerInv
    <3>3. /\ out'.pos \in Nat /\ out'.pos + out'.left <= MaxSize
          /\ ~misdirected' => out'.pos + out'.left = DataAt(q'.first) + SizeAt(q', q'.first)
      BY <2>2, <3>1, <3>2
    <3>4. WithinFirst(out)'
      BY <2>3, <3>3 DEF WithinFirst
    <3>5. NoDma' = NoDma
      BY DEF NoDma
    <3>6. misdirected' \in BOOLEAN /\ DbgTracePeripheralReady' \in BOOLEAN
      <4>1. (q'.elementCount > 1) \in BOOLEAN
        OBVIOUS
      <4> QED BY <3>1, <4>1, Zenon
    <3>7. SendInv'
      <4>1. ~DbgTracePeripheralReady' /\ dma' = NoDma'
        BY <3>1, <3>2, <3>5
      <4> QED BY <3>4, <3>6, <4>1 DEF SendInv
    <3> QED BY <2>2, <3>7 DEF DataInv
  <2>5. CASE ~DbgTracePeripheralReady
    <3>1. UNCHANGED <<DbgTracePeripheralReady, pc, out, misdirected>>
      BY <1>3, <2>5 DEF DbgTraceWrite
    <3>2. ASSUME WithinFirst(dma) PROVE WithinFirst(dma)'
      BY <1>1, <2>2, <2>3, <3>1, <3>2 DEF WithinFirst
    <3>3. ASSUME WithinFirst(out) PROVE WithinFirst(out)'
      BY <1>1, <2>2, <2>3, <3>1, <3>3 DEF WithinFirst
    <3> QED BY <1>1, <2>2, <2>5, <3>1, <3>2, <3>3 DEF DataInv, SendInv, NoDma
  <2> QED BY <2>4, <2>5
<1> QED BY <1>2, <1>3

\* The other steps of the thread preserve it.
LEMMA ThreadData ==
  ASSUME IInv, DataInv, DbgOutputTraces \/ SendFrame \/ FrameSent
  PROVE  DataInv'
<1>1. UNCHANGED <<MsgDbgTraceQueue, DbgTracePeripheralReady, written, removed, misdirected>>
  BY DEF DbgOutputTraces, SendFrame, FrameSent
<1>2. StreamInv'
  BY <1>1 DEF DataInv, StreamInv, q
<1>3. \/ dma' = dma /\ pc' # "output"
      \/ pc = "output" /\ dma' = out /\ pc' = "idle"
  BY DEF DbgOutputTraces, SendFrame, FrameSent, Transmit, IInv, OwnerInv
<1>4. SendInv'
  BY <1>1, <1>3 DEF DataInv, SendInv, WithinFirst, q, NoDma
<1> QED BY <1>2, <1>4 DEF DataInv

\* The DMA preserves it.
LEMMA ByteData ==
  ASSUME IInv, DataInv, DmaByte
  PROVE  DataInv'
<1>1. /\ UNCHANGED <<MsgDbgTraceQueue, DbgTracePeripheralReady, written, removed, misdirected, pc, out>>
      /\ dma' = [pos |-> dma.pos + 1, left |-> dma.left - 1] /\ dma.left > 0
  BY DEF DmaByte
<1>2. StreamInv'
  BY <1>1 DEF DataInv, StreamInv, q
<1>3. dma.left \in Nat /\ dma # NoDma
  BY <1>1 DEF IInv, OwnerInv, NoDma
<1>4. WithinFirst(dma)
  BY <1>3 DEF DataInv, SendInv
<1>5. dma'.pos \in Nat /\ dma'.pos + dma'.left = dma.pos + dma.left
  BY <1>1, <1>3, <1>4 DEF WithinFirst
<1>6. WithinFirst(dma)'
  BY <1>1, <1>4, <1>5 DEF WithinFirst, q
<1>7. SendInv'
  BY <1>1, <1>6 DEF DataInv, SendInv, WithinFirst, q
<1> QED BY <1>2, <1>7 DEF DataInv

\* The interrupt at the end of a transmission preserves it.
LEMMA CpltData ==
  ASSUME IInv, DataInv, DbgTrace_TxCpltCallback
  PROVE  DataInv'
<1> DEFINE size == SizeAt(q, q.first)
<1>1. /\ q' = CircularQueue_Remove(q) /\ removed' = (removed + size) % StreamMod
      /\ misdirected' = FALSE /\ written' = written /\ pc' = pc /\ dma.left = 0
  BY DEF DbgTrace_TxCpltCallback, q
<1>2. dma # NoDma /\ pc = "idle" /\ ~DbgTracePeripheralReady
  BY <1>1 DEF IInv, OwnerInv, NoDma
<1>3. q.elementCount > 0
  BY <1>2 DEF DataInv, SendInv, WithinFirst
<1>4. PICK L : Chain(q, removed, L) /\ written = (removed + Before(L, q.elementCount)) % StreamMod
  BY DEF DataInv, StreamInv
<1>5. removed \in Nat /\ StreamMod \in Nat \ {0}
  BY TraceUartAssumption DEF DataInv, StreamInv, TraceUartAssumption
<1>6. /\ size \in Nat
      /\ \E M : /\ Chain(q', removed + size, M)
                /\ Before(M, q'.elementCount) + size = Before(L, q.elementCount)
  BY <1>1, <1>3, <1>4, <1>5, RemoveChain
<1>7. PICK M : /\ Chain(q', removed + size, M)
               /\ Before(M, q'.elementCount) + size = Before(L, q.elementCount)
  BY <1>6
<1> HIDE DEF size
<1>8. Chain(q', removed', M)
  <2>1. removed + size \in Nat
    BY <1>5, <1>6
  <2> QED BY <1>1, <1>7, <2>1, ChainReduced
<1>9. StreamInv'
  <2>1. removed' \in 0 .. StreamMod - 1
    <3>1. removed + size \in Int
      BY <1>5, <1>6
    <3> QED BY <1>1, <1>5, <3>1, Remainder
  <2>2. Before(M, q'.elementCount) \in Int
    BY <1>7 DEF Chain, Before, HeaderSize
  <2>3. written' = (removed' + Before(M, q'.elementCount)) % StreamMod
    <3> DEFINE a == removed + size  b == Before(M, q'.elementCount)
    <3>1. a \in Int /\ b \in Int /\ a + b = removed + Before(L, q.elementCount)
      BY <1>5, <1>6, <1>7, <2>2
    <3>2. removed' = a % StreamMod /\ written' = (a + b) % StreamMod
      BY <1>1, <1>4, <3>1
    <3> HIDE DEF a, b
    <3>3. ((a % StreamMod) + b) % StreamMod = (a + b) % StreamMod
      BY <1>5, <3>1, RemainderAdd, Zenon
    <3> QED BY <3>2, <3>3 DEF b
  <2>4. q'.qBuff = q.qBuff /\ written' \in 0 .. StreamMod - 1
    <3>1. q = [qBuff |-> q.qBuff, first |-> q.first, last |-> q.last,
               byteCount |-> q.byteCount, elementCount |-> q.elementCount]
      BY DEF IInv, QueueOK
    <3> QED BY <1>1, <3>1 DEF CircularQueue_Remove, DataInv, StreamInv
  <2> QED BY <1>8, <2>1, <2>3, <2>4 DEF DataInv, StreamInv
<1>10. SendInv'
  <2>1. /\ q'.elementCount \in Nat /\ q'.byteCount \in Nat /\ (q'.elementCount > 0 <=> q'.byteCount > 0)
        /\ DataAt(q'.first) \in Nat
        /\ q'.elementCount > 0 => /\ SizeAt(q', q'.first) \in Nat
                                  /\ DataAt(q'.first) + SizeAt(q', q'.first) <= MaxSize
    BY <1>8, FirstOf
  <2>2. CASE CircularQueue_Empty(q')
    <3>1. dma' = NoDma
      BY <2>2 DEF DbgTrace_TxCpltCallback
    <3>2. q'.elementCount = 0
      BY <2>1, <2>2 DEF CircularQueue_Empty
    <3>3. misdirected' \in BOOLEAN /\ DbgTracePeripheralReady' \in BOOLEAN
      BY <1>1, <2>2 DEF DbgTrace_TxCpltCallback
    <3> QED BY <1>1, <1>2, <3>1, <3>2, <3>3 DEF SendInv, NoDma
  <2>3. CASE ~CircularQueue_Empty(q')
    <3>1. /\ dma' = [pos |-> DataAt(q'.first), left |-> SizeAt(q', q'.first)]
          /\ DbgTracePeripheralReady' = DbgTracePeripheralReady
      BY <2>3 DEF DbgTrace_TxCpltCallback, Transmit
    <3>2. q'.elementCount > 0
      BY <2>1, <2>3 DEF CircularQueue_Empty
    <3>3. WithinFirst(dma)'
      BY <2>1, <3>1, <3>2 DEF WithinFirst
    <3>4. misdirected' \in BOOLEAN /\ DbgTracePeripheralReady' \in BOOLEAN
      BY <1>1, <3>1 DEF DataInv, SendInv
    <3> QED BY <1>1, <1>2, <3>1, <3>3, <3>4 DEF SendInv
  <2> QED BY <2>2, <2>3
<1> QED BY <1>9, <1>10 DEF DataInv

\* DataInv is inductive relative to IInv.
LEMMA DataInvariance == Spec => [](IInv /\ DataInv)
<1>1. IInv /\ DataInv /\ UNCHANGED vars => DataInv'
  BY DEF DataInv, StreamInv, SendInv, WithinFirst, NoDma, q, vars
<1>2. IInv /\ DataInv /\ [Next]_vars => DataInv'
  BY <1>1, WriteData, ThreadData, ByteData, CpltData DEF Next, Uart
<1> QED BY Invariance, InitData, <1>2, PTL DEF Spec

----------------------------------------------------------------------------
(* The theorems                                                            *)

\* The state is as typed: positions stay in the buffer, what the buffer holds
\* are bytes of the stream and sizes, and no transmission leaves the buffer.
THEOREM TypeCorrect == Spec => []TypeOK
<1>1. IInv /\ DataInv => TypeOK
  <2> SUFFICES ASSUME IInv, DataInv PROVE TypeOK
    OBVIOUS
  <2>1. MaxSize \in Nat \ {0}
    BY CircularQueueAssumption DEF CircularQueueAssumption
  <2>2. q.byteCount \in Nat /\ q.elementCount \in Nat
    BY FirstOf DEF DataInv, StreamInv
  <2>3. q \in [qBuff : [0..MaxSize-1 -> Bytes], first : 0..MaxSize-1, last : 0..MaxSize-1,
               byteCount : Nat, elementCount : Nat]
    BY <2>2 DEF IInv, QueueOK, DataInv, StreamInv
  <2>4. dma.left >= -1 /\ dma.pos \in 0 .. MaxSize
    BY <2>1 DEF IInv, OwnerInv, DataInv, SendInv, WithinFirst, NoDma
  <2>5. DbgTracePeripheralReady \in BOOLEAN
    BY DEF DataInv, SendInv
  <2>6. gState \in {"READY", "BUSY_TX"} /\ pc \in {"idle", "output", "frame"}
    BY DEF IInv, OwnerInv
  <2> QED BY <2>3, <2>4, <2>5, <2>6 DEF TypeOK, DataInv, StreamInv, SendInv
<1> QED BY DataInvariance, <1>1, PTL

\* Over any sequence of wraps, splits and removals, in a buffer of any size,
\* the elements are chained from first to last, none wraps, and their number
\* and their bytes are those the queue counts, never more than the buffer has.
THEOREM ChainCorrect == Spec => []ChainIsExact
<1>1. DataInv => ChainIsExact
  <2> SUFFICES ASSUME DataInv PROVE ChainIsExact
    OBVIOUS
  <2>1. PICK L : Chain(q, removed, L)
    BY DEF DataInv, StreamInv
  <2> DEFINE n == q.elementCount
  <2>2. /\ n \in Nat /\ L \in [Nat -> Nat] /\ q.byteCount = L[n] /\ q.byteCount <= MaxSize
        /\ q.last = IF n = 0 THEN q.first ELSE Wrapped(q.first + L[n - 1])
    BY <2>1 DEF Chain
  <2>3. /\ \A k \in 0 .. n : Position[k] = Wrapped(q.first + L[k]) /\ Offset[k] = Before(L, k)
    BY <2>1, PositionIs, OffsetIs
  <2>4. q.byteCount = Offset[n] + HeaderSize * n
    <3>1. Offset[n] = L[n] - HeaderSize * n /\ L[n] \in Nat
      BY <2>2, <2>3 DEF Before
    <3> QED BY <2>2, <3>1 DEF HeaderSize
  <2>5. n > 0 => q.last = Position[n - 1]
    <3>1. n > 0 => n - 1 \in 0 .. n
      BY <2>2
    <3> QED BY <2>2, <2>3, <3>1
  <2>6. \A k \in Elements : DataAt(Position[k]) + SizeAt(q, Position[k]) <= MaxSize
    <3> SUFFICES ASSUME NEW k \in 0 .. n - 1
                 PROVE  DataAt(Position[k]) + SizeAt(q, Position[k]) <= MaxSize
      BY DEF Elements
    <3>1. k \in 0 .. n
      BY <2>2
    <3>2. Stored(q, removed, L, k)
      BY <2>1 DEF Chain
    <3> QED BY <2>3, <3>1, <3>2 DEF Stored
  <2> QED BY <2>2, <2>4, <2>5, <2>6 DEF ChainIsExact
<1> QED BY DataInvariance, <1>1, PTL

\* Nothing that is still to be sent is overwritten, lost, repeated or put out
\* of order: the queue is always the stream from removed to written.
THEOREM UnsentHeld == Spec => []HoldsUnsent
<1>1. DataInv => HoldsUnsent
  <2> SUFFICES ASSUME DataInv PROVE HoldsUnsent
    OBVIOUS
  <2>1. PICK L : Chain(q, removed, L) /\ written = (removed + Before(L, q.elementCount)) % StreamMod
    BY DEF DataInv, StreamInv
  <2> DEFINE n == q.elementCount  f == q.first
  <2>2. /\ MaxSize \in Nat \ {0} /\ n \in Nat /\ f \in 0 .. MaxSize - 1 /\ L \in [Nat -> Nat]
        /\ L[n] <= MaxSize
        /\ \A j, k \in 0 .. n : j < k => L[j] + HeaderSize < L[k]
    BY <2>1, CircularQueueAssumption DEF CircularQueueAssumption, Chain, QueueOK
  <2>3. \A k \in 0 .. n : Position[k] = Wrapped(f + L[k]) /\ Offset[k] = Before(L, k)
    BY <2>1, PositionIs, OffsetIs
  <2>4. (removed + Offset[n]) % StreamMod = written
    <3>1. n \in 0 .. n
      BY <2>2
    <3>2. Offset[n] = Before(L, n)
      BY <2>3, <3>1
    <3> QED BY <2>1, <3>2, Zenon
  <2>5. ASSUME NEW k \in 0 .. n - 1, NEW i \in 0 .. SizeAt(q, Position[k]) - 1
        PROVE  q.qBuff[(DataAt(Position[k]) + i) % MaxSize] = (removed + Offset[k] + i) % StreamMod
    <3> DEFINE a == L[k]  p == Wrapped(f + a)  size == Size(L, k)
    <3>1. k \in 0 .. n /\ k + 1 \in 0 .. n /\ k < k + 1
      BY <2>2
    <3>2. Stored(q, removed, L, k)
      BY <2>1 DEF Chain
    <3>3. Position[k] = p /\ Offset[k] = Before(L, k) /\ SizeAt(q, p) = size
          /\ DataAt(p) + size <= MaxSize
      BY <2>3, <3>1, <3>2 DEF Stored
    <3>4. /\ a \in Nat /\ L[k + 1] \in Nat /\ a + HeaderSize < L[k + 1] /\ L[k + 1] <= MaxSize
      <4>1. L[k + 1] <= MaxSize
        <5>1. k + 1 = n \/ k + 1 < n
          BY <2>2, <3>1
        <5>2. k + 1 < n => L[k + 1] + HeaderSize < L[n]
          BY <2>2, <3>1
        <5> QED BY <2>2, <3>1, <5>1, <5>2 DEF HeaderSize
      <4> QED BY <2>2, <3>1, <4>1
    <3>5. size = L[k + 1] - a - HeaderSize /\ i \in 0 .. size - 1
      BY <3>3 DEF Size
    <3> HIDE DEF a, p, size
    <3>6. i \in Nat /\ i < size /\ a + HeaderSize + i < MaxSize
      BY <2>2, <3>4, <3>5 DEF HeaderSize
    <3>7. (DataAt(p) + i) % MaxSize = Wrapped(f + a + HeaderSize + i)
      <4>1. p \in 0 .. MaxSize - 1 /\ p + HeaderSize \in Nat /\ p + HeaderSize < 2 * MaxSize
        BY <2>2, <3>4, <3>6 DEF p, Wrapped, HeaderSize
      <4>2. DataAt(p) = Wrapped(p + HeaderSize) /\ DataAt(p) \in 0 .. MaxSize - 1
        BY <4>1, WrappedIs DEF DataAt
      <4>3. /\ DataAt(p) + i \in Nat /\ DataAt(p) + i < 2 * MaxSize
            /\ DataAt(p) + i < MaxSize
        BY <2>2, <3>3, <3>4, <3>5, <3>6, <4>2 DEF HeaderSize
      <4>4. DataAt(p) + i = Wrapped(f + a + HeaderSize + i)
        BY <2>2, <3>4, <3>6, <4>1, <4>2, <4>3 DEF p, Wrapped, HeaderSize
      <4>5. (DataAt(p) + i) % MaxSize = Wrapped(DataAt(p) + i)
        BY <4>3, WrappedIs
      <4> QED BY <4>3, <4>4, <4>5 DEF Wrapped
    <3>8. q.qBuff[Wrapped(f + a + HeaderSize + i)] = (removed + Before(L, k) + i) % StreamMod
      BY <3>2, <3>5 DEF Stored, Filled, a, size
    <3> QED BY <3>3, <3>7, <3>8
  <2> QED BY <2>4, <2>5 DEF HoldsUnsent, Elements
<1> QED BY DataInvariance, <1>1, PTL

\* Whatever the thread adds during a transmission, the DMA is reading the
\* first element and stops at its end.
THEOREM DmaCorrect == Spec => []DmaReadsFirst
<1>1. DataInv => DmaReadsFirst
  <2> SUFFICES ASSUME DataInv, dma.left >= 0, ~misdirected
               PROVE  /\ ~CircularQueue_Empty(q)
                      /\ dma.pos + dma.left = DataAt(q.first) + SizeAt(q, q.first)
    BY DEF DmaReadsFirst
  <2>1. dma # NoDma
    BY DEF NoDma
  <2>2. WithinFirst(dma)
    BY <2>1 DEF DataInv, SendInv
  <2>3. q.byteCount > 0 /\ q.byteCount \in Nat
    BY <2>2, FirstOf DEF DataInv, StreamInv, WithinFirst
  <2> QED BY <2>2, <2>3 DEF WithinFirst, CircularQueue_Empty
<1> QED BY DataInvariance, <1>1, PTL

=============================================================================
