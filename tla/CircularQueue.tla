---------------------------- MODULE CircularQueue ----------------------------
(***************************************************************************)
(* The byte queue of stm_queue.c as the trace uses it: elements of         *)
(* variable size, each behind a header of two bytes that holds its size,   *)
(* in a circular buffer; an element that would wrap is split in two        *)
(* (CIRCULAR_QUEUE_SPLIT_IF_WRAPPING_FLAG).  Positions count from 0.       *)
(***************************************************************************)
EXTENDS Integers, Sequences

CONSTANTS
  MaxSize,   (* queueMaxSize, the length of the buffer                     *)
  ByteSize   (* 256: a uint8_t holds 0 .. ByteSize-1                       *)

ASSUME CircularQueueAssumption ==
  MaxSize \in Nat \ {0} /\ ByteSize \in Nat \ {0}

HeaderSize == 2

CircularQueue_Init ==
  [qBuff |-> [p \in 0..MaxSize-1 |-> 0], first |-> 0, last |-> 0,
   byteCount |-> 0, elementCount |-> 0]

\* The size of the element at p; its header may lie across the end.
SizeAt(q, p) == q.qBuff[p] + ByteSize * q.qBuff[(p + 1) % MaxSize]

DataAt(p) == (p + HeaderSize) % MaxSize

\* An element as it is stored, and the buffer with such bytes written from p.
Element(x) == <<Len(x) % ByteSize, Len(x) \div ByteSize>> \o x

Write(buff, p, bytes) ==
  [b \in DOMAIN buff |->
     LET i == (b - p) % MaxSize IN IF i < Len(bytes) THEN bytes[i + 1] ELSE buff[b]]

\* The space the element at the last position takes, if there is one.
LastSize(q) == IF q.byteCount > 0 THEN SizeAt(q, q.last) + HeaderSize ELSE 0

\* The room for size bytes.  The bytes left before the end of the buffer go
\* through a uint8_t; a negative eob_free_size is a huge uint32_t.
Fits(q, size) ==
  LET need == size + HeaderSize
      eob_free_size == IF q.last >= q.first THEN MaxSize - (q.last + LastSize(q)) ELSE 0
      wrapped_element_eob_size ==
        IF need < eob_free_size \/ eob_free_size < 0 THEN 0
        ELSE (eob_free_size % need) % ByteSize
      overhead == IF wrapped_element_eob_size > HeaderSize THEN HeaderSize ELSE 0
  IN  size > 0 /\ q.byteCount + need + overhead <= MaxSize

\* Mutant: last is not moved when the element is split.
AddKeepsLast(q, x) ==
  LET last == (q.last + LastSize(q)) % MaxSize
      n == MaxSize - DataAt(last)
  IN  IF n >= Len(x)
      THEN [q EXCEPT !.qBuff = Write(@, last, Element(x)), !.last = last,
                     !.byteCount = @ + Len(x) + HeaderSize, !.elementCount = @ + 1]
      ELSE [q EXCEPT !.qBuff = Write(Write(@, last, Element(SubSeq(x, 1, n))),
                                     0, Element(SubSeq(x, n + 1, Len(x)))),
                     !.last = last,
                     !.byteCount = @ + Len(x) + 2 * HeaderSize, !.elementCount = @ + 2]

\* The queue after x, which fits, is added: behind the last element, in one
\* piece or in two.  The caller gets a pointer to the data at the last position.
CircularQueue_Add(q, x) ==
  LET last == (q.last + LastSize(q)) % MaxSize
      n == MaxSize - DataAt(last)
  IN  IF n >= Len(x)
      THEN [q EXCEPT !.qBuff = Write(@, last, Element(x)), !.last = last,
                     !.byteCount = @ + Len(x) + HeaderSize, !.elementCount = @ + 1]
      ELSE [q EXCEPT !.qBuff = Write(Write(@, last, Element(SubSeq(x, 1, n))),
                                     0, Element(SubSeq(x, n + 1, Len(x)))),
                     !.last = 0,
                     !.byteCount = @ + Len(x) + 2 * HeaderSize, !.elementCount = @ + 2]

CircularQueue_Empty(q) == q.byteCount <= 0

\* Mutant: first moves on from the only element too.
RemoveAlwaysMoves(q) ==
  LET size == SizeAt(q, q.first) + HeaderSize
  IN  IF CircularQueue_Empty(q) THEN q
      ELSE [q EXCEPT !.byteCount = @ - size, !.elementCount = @ - 1,
                     !.first = (@ + size) % MaxSize]

\* first stays with the last position when the queue gets empty.
CircularQueue_Remove(q) ==
  LET size == SizeAt(q, q.first) + HeaderSize
  IN  IF CircularQueue_Empty(q) THEN q
      ELSE [q EXCEPT !.byteCount = @ - size, !.elementCount = @ - 1,
                     !.first = IF q.byteCount > size THEN (@ + size) % MaxSize ELSE @]

=============================================================================
