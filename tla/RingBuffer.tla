----------------------------- MODULE RingBuffer -----------------------------
(***************************************************************************)
(* The ring buffer that carries bytes from an interrupt to the main loop   *)
(* (pbuf in ps2_interrupt.c and ps2_usart.c; kbuf in keyboard.c and mbuf   *)
(* in mouse.c, which only the main loop uses, compute their indices alike).*)
(* Both operations run with interrupts off (cli ... SREG = sreg), so each  *)
(* is one action.  One slot stays unused: head = tail means empty.         *)
(***************************************************************************)
EXTENDS Integers, Sequences

CONSTANTS Data,   \* the bytes that may be stored
          Size    \* PBUF_SIZE

ASSUME SizeAssumption == Size \in Nat /\ Size > 1
ASSUME DataAssumption == 0 \in Data

VARIABLES pbuf,        \* the slots
          pbuf_head,   \* where the next byte is written
          pbuf_tail,   \* where the next byte is read
          val          \* what the last pbuf_dequeue returned

vars == <<pbuf, pbuf_head, pbuf_tail, val>>

Slots == 0 .. Size - 1

\* The index after i, as the code computes it.
NextIndex(i) == (i + 1) % Size

Init ==
  /\ pbuf = [i \in Slots |-> 0]
  /\ pbuf_head = 0
  /\ pbuf_tail = 0
  /\ val = 0

\* The operators named ...Bug stand for a plausible mistake in the code that the
\* definition after them models; no specification uses them.
EnqueueBug(d) ==
  /\ pbuf' = [pbuf EXCEPT ![pbuf_head] = d]
  /\ pbuf_head' = NextIndex(pbuf_head)
  /\ UNCHANGED <<pbuf_tail, val>>

\* pbuf_enqueue: the byte is stored unless the write index would meet the
\* read index; then it is silently dropped.
Enqueue(d) ==
  /\ IF NextIndex(pbuf_head) # pbuf_tail
       THEN /\ pbuf' = [pbuf EXCEPT ![pbuf_head] = d]
            /\ pbuf_head' = NextIndex(pbuf_head)
       ELSE UNCHANGED <<pbuf, pbuf_head>>
  /\ UNCHANGED <<pbuf_tail, val>>

\* pbuf_dequeue: 0 when nothing is stored, which the caller cannot tell from
\* a stored 0.
Dequeue ==
  /\ IF pbuf_head # pbuf_tail
       THEN /\ val' = pbuf[pbuf_tail]
            /\ pbuf_tail' = NextIndex(pbuf_tail)
       ELSE /\ val' = 0
            /\ UNCHANGED pbuf_tail
  /\ UNCHANGED <<pbuf, pbuf_head>>

Next == Dequeue \/ \E d \in Data : Enqueue(d)

Spec == Init /\ [][Next]_vars

-----------------------------------------------------------------------------
\* How many bytes are stored.
Count == IF pbuf_head >= pbuf_tail
           THEN pbuf_head - pbuf_tail
           ELSE pbuf_head - pbuf_tail + Size

\* The queue the ring stands for: the slots from the tail on.
Contents == [i \in 1 .. Count |-> pbuf[(pbuf_tail + i - 1) % Size]]

\* The slots hold bytes and both indices stay inside the array, so no access
\* in pbuf_enqueue or pbuf_dequeue is out of bounds.
TypeOK ==
  /\ pbuf \in [Slots -> Data]
  /\ pbuf_head \in Slots
  /\ pbuf_tail \in Slots
  /\ val \in Data

Fifo == INSTANCE BoundedFifo WITH queue <- Contents, Capacity <- Size - 1

\* The ring is a bounded queue: no byte is lost, duplicated, reordered or
\* overwritten by the index arithmetic of pbuf_enqueue and pbuf_dequeue, also
\* when the indices wrap; only a full ring drops.
ImplementsFifo == Fifo!Spec
=============================================================================
