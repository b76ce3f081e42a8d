------------------------- MODULE RingBuffer_proofs -------------------------
(***************************************************************************)
(* The ring buffer for every size and every set of bytes: its indices stay *)
(* in the array, and it implements the bounded queue.                      *)
(***************************************************************************)
EXTENDS RingBuffer, SequenceTheorems, TLAPS

\* The index arithmetic of pbuf_enqueue and pbuf_dequeue wraps once.
LEMMA NextIndexIs ==
  ASSUME NEW i \in Slots
  PROVE  /\ NextIndex(i) = IF i + 1 = Size THEN 0 ELSE i + 1
         /\ NextIndex(i) \in Slots
  <1>1. i \in Nat /\ i + 1 < 2 * Size  BY SizeAssumption DEF Slots
  <1>2. NextIndex(i) = IF i + 1 < Size THEN i + 1 ELSE i + 1 - Size
    BY <1>1, SizeAssumption DEF NextIndex
  <1> QED  BY <1>2, SizeAssumption DEF Slots

-----------------------------------------------------------------------------
\* No access of the ring is out of bounds and its slots hold only bytes that
\* were stored: pbuf_enqueue and pbuf_dequeue keep the type invariant.
THEOREM TypeCorrect == Spec => []TypeOK
  <1>1. Init => TypeOK
    BY SizeAssumption, DataAssumption DEF Init, TypeOK, Slots
  <1>2. TypeOK /\ [Next]_vars => TypeOK'
    <2> SUFFICES ASSUME TypeOK, [Next]_vars PROVE TypeOK'  OBVIOUS
    <2>1. CASE Dequeue
      BY <2>1, NextIndexIs, DataAssumption DEF TypeOK, Dequeue
    <2>2. ASSUME NEW d \in Data, Enqueue(d) PROVE TypeOK'
      BY <2>2, NextIndexIs DEF TypeOK, Enqueue
    <2>3. CASE UNCHANGED vars
      BY <2>3 DEF TypeOK, vars
    <2> QED  BY <2>1, <2>2, <2>3 DEF Next
  <1> QED  BY <1>1, <1>2, PTL DEF Spec

-----------------------------------------------------------------------------
(* The queue the ring stands for.                                          *)

\* The slot of the i-th stored byte.
At(i) == (pbuf_tail + i - 1) % Size

LEMMA AtIs ==
  ASSUME TypeOK, NEW i \in 1 .. Size
  PROVE  /\ At(i) = IF pbuf_tail + i - 1 < Size THEN pbuf_tail + i - 1
                                             ELSE pbuf_tail + i - 1 - Size
         /\ At(i) \in Slots
  <1>1. pbuf_tail \in Nat /\ i \in Nat \ {0} /\ pbuf_tail + i - 1 < 2 * Size
    BY SizeAssumption DEF TypeOK, Slots
  <1>2. At(i) = IF pbuf_tail + i - 1 < Size THEN pbuf_tail + i - 1
                                          ELSE pbuf_tail + i - 1 - Size
    BY <1>1, SizeAssumption DEF At
  <1> QED  BY <1>1, <1>2, SizeAssumption DEF Slots

LEMMA ContentsIs ==
  TypeOK => /\ Count \in 0 .. Size - 1
            /\ Contents \in Seq(Data)
            /\ Len(Contents) = Count
            /\ \A i \in 1 .. Count : Contents[i] = pbuf[At(i)]
  <1> SUFFICES ASSUME TypeOK
               PROVE  /\ Count \in 0 .. Size - 1
                      /\ Contents \in Seq(Data)
                      /\ Len(Contents) = Count
                      /\ \A i \in 1 .. Count : Contents[i] = pbuf[At(i)]
    OBVIOUS
  <1>1. Count \in 0 .. Size - 1
    BY SizeAssumption DEF TypeOK, Slots, Count
  <1>2. \A i \in 1 .. Count : pbuf[At(i)] \in Data
    BY <1>1, AtIs, SizeAssumption DEF TypeOK
  <1>3. Contents = [i \in 1 .. Count |-> pbuf[At(i)]]
    BY DEF Contents, At
  <1>4. Contents \in [1 .. Count -> Data]
    BY <1>2, <1>3
  <1>5. Contents \in Seq(Data)
    BY <1>1, <1>4, SeqDef
  <1>6. Len(Contents) = Count
    BY <1>1, <1>4, <1>5, LenProperties
  <1> QED  BY <1>1, <1>3, <1>5, <1>6

LEMMA EnqueueIsWrite ==
  ASSUME TypeOK, TypeOK', NEW d \in Data, Enqueue(d)
  PROVE  Fifo!Write(d)
  <1>1. CASE NextIndex(pbuf_head) = pbuf_tail
    <2>1. Count = Size - 1
      <3>1. NextIndex(pbuf_head) = IF pbuf_head + 1 = Size THEN 0 ELSE pbuf_head + 1
        BY NextIndexIs DEF TypeOK
      <3> QED  BY <1>1, <3>1, SizeAssumption DEF TypeOK, Slots, Count
    <2>2. UNCHANGED <<pbuf, pbuf_head, pbuf_tail, val>>
      BY <1>1 DEF Enqueue
    <2>3. UNCHANGED Contents
      BY <2>2 DEF Contents, Count
    <2> QED  BY <2>1, <2>2, <2>3, ContentsIs DEF Fifo!Write, Fifo!Put
  <1>2. CASE NextIndex(pbuf_head) # pbuf_tail
    <2>1. /\ pbuf' = [pbuf EXCEPT ![pbuf_head] = d]
          /\ pbuf_head' = NextIndex(pbuf_head)
          /\ pbuf_tail' = pbuf_tail /\ val' = val
      BY <1>2 DEF Enqueue
    <2>2. Count' = Count + 1 /\ Count < Size - 1
      <3>1. NextIndex(pbuf_head) = IF pbuf_head + 1 = Size THEN 0 ELSE pbuf_head + 1
        BY NextIndexIs DEF TypeOK
      <3> QED  BY <1>2, <2>1, <3>1, SizeAssumption DEF TypeOK, Slots, Count
    <2>3. At(Count + 1) = pbuf_head
      BY <2>2, AtIs, ContentsIs, SizeAssumption DEF Count, TypeOK, Slots
    <2>4. \A i \in 1 .. Count : At(i) # pbuf_head
      BY <2>2, AtIs, ContentsIs, SizeAssumption DEF Count, TypeOK, Slots
    <2>5. \A i \in Nat : At(i)' = At(i)
      BY <2>1 DEF At
    <2>6. /\ Contents' \in Seq(Data) /\ Len(Contents') = Count + 1
          /\ \A i \in 1 .. Count + 1 : Contents'[i] = pbuf'[At(i)]
      <3>1. (TypeOK => /\ Count \in 0 .. Size - 1
                       /\ Contents \in Seq(Data)
                       /\ Len(Contents) = Count
                       /\ \A i \in 1 .. Count : Contents[i] = pbuf[At(i)])'
        BY ContentsIs, PTL
      <3> QED  BY <2>2, <2>5, <3>1, ContentsIs
    <2>7. /\ Append(Contents, d) \in Seq(Data)
          /\ Len(Append(Contents, d)) = Count + 1
          /\ \A i \in 1 .. Count + 1 :
               Append(Contents, d)[i] = IF i <= Count THEN Contents[i] ELSE d
      BY ContentsIs
    <2>8. \A i \in 1 .. Count + 1 : Contents'[i] = Append(Contents, d)[i]
      <3> SUFFICES ASSUME NEW i \in 1 .. Count + 1
                   PROVE  Contents'[i] = Append(Contents, d)[i]
        OBVIOUS
      <3>1. CASE i <= Count
        BY <3>1, <2>1, <2>2, <2>4, <2>6, <2>7, ContentsIs, AtIs DEF TypeOK
      <3>2. CASE i = Count + 1
        BY <3>2, <2>1, <2>2, <2>3, <2>6, <2>7, ContentsIs DEF TypeOK
      <3> QED  BY <3>1, <3>2, ContentsIs
    <2>9. Contents' = Append(Contents, d)
      BY <2>6, <2>7, <2>8, SeqEqual
    <2> QED  BY <2>1, <2>2, <2>9, ContentsIs DEF Fifo!Write, Fifo!Put
  <1> QED  BY <1>1, <1>2

LEMMA DequeueIsRead ==
  ASSUME TypeOK, TypeOK', Dequeue
  PROVE  Fifo!Read
  <1>1. CASE pbuf_head = pbuf_tail
    <2>1. Count = 0
      BY <1>1 DEF Count, TypeOK, Slots
    <2>2. Contents = <<>>
      BY <2>1, ContentsIs, EmptySeq
    <2>3. UNCHANGED <<pbuf, pbuf_head, pbuf_tail>> /\ val' = 0
      BY <1>1 DEF Dequeue
    <2>4. UNCHANGED Contents
      BY <2>3 DEF Contents, Count
    <2> QED  BY <2>2, <2>3, <2>4 DEF Fifo!Read, Fifo!First, Fifo!Rest
  <1>2. CASE pbuf_head # pbuf_tail
    <2>1. /\ val' = pbuf[pbuf_tail] /\ pbuf_tail' = NextIndex(pbuf_tail)
          /\ pbuf' = pbuf /\ pbuf_head' = pbuf_head
      BY <1>2 DEF Dequeue
    <2>2. Count' = Count - 1 /\ Count > 0
      <3>1. NextIndex(pbuf_tail) = IF pbuf_tail + 1 = Size THEN 0 ELSE pbuf_tail + 1
        BY NextIndexIs DEF TypeOK
      <3> QED  BY <1>2, <2>1, <3>1, SizeAssumption DEF TypeOK, Slots, Count
    <2>3. At(1) = pbuf_tail
      BY AtIs, SizeAssumption DEF TypeOK, Slots
    <2>4. Contents # <<>> /\ Head(Contents) = pbuf[pbuf_tail]
      BY <2>2, <2>3, ContentsIs, EmptySeq
    <2>5. \A i \in 1 .. Count - 1 : At(i)' = At(i + 1)
      <3> SUFFICES ASSUME NEW i \in 1 .. Count - 1 PROVE At(i)' = At(i + 1)
        OBVIOUS
      <3>1. i \in 1 .. Size /\ i + 1 \in 1 .. Size
        BY ContentsIs, SizeAssumption
      <3>2. pbuf_tail' = IF pbuf_tail + 1 = Size THEN 0 ELSE pbuf_tail + 1
        BY <2>1, NextIndexIs DEF TypeOK
      <3>3. At(i)' = (pbuf_tail' + i - 1) % Size
        BY DEF At
      <3>4. /\ i \in Nat \ {0} /\ i <= Size
            /\ pbuf_tail \in Nat /\ pbuf_tail < Size
        BY <3>1, SizeAssumption DEF TypeOK, Slots
      <3>5. At(i + 1) = IF pbuf_tail + i < Size THEN pbuf_tail + i
                                                ELSE pbuf_tail + i - Size
        <4>1. pbuf_tail + (i + 1) - 1 = pbuf_tail + i
          BY <3>4
        <4>2. (pbuf_tail + i) % Size =
                IF pbuf_tail + i < Size THEN pbuf_tail + i ELSE pbuf_tail + i - Size
          BY <3>4, SizeAssumption
        <4> QED  BY <4>1, <4>2 DEF At
      <3>6. (pbuf_tail' + i - 1) % Size =
              IF pbuf_tail + i < Size THEN pbuf_tail + i ELSE pbuf_tail + i - Size
        <4>1. CASE pbuf_tail + 1 = Size
          <5>1. pbuf_tail' + i - 1 = i - 1 /\ i - 1 \in Nat /\ i - 1 < Size
            BY <3>2, <3>4, <4>1, SizeAssumption
          <5> QED  BY <3>4, <4>1, <5>1, SizeAssumption
        <4>2. CASE pbuf_tail + 1 # Size
          <5>1. pbuf_tail' + i - 1 = pbuf_tail + i
            BY <3>2, <3>4, <4>2, SizeAssumption
          <5>2. (pbuf_tail + i) % Size =
                  IF pbuf_tail + i < Size THEN pbuf_tail + i ELSE pbuf_tail + i - Size
            BY <3>4, SizeAssumption
          <5> QED  BY <5>1, <5>2
        <4> QED  BY <4>1, <4>2
      <3> QED  BY <3>3, <3>5, <3>6
    <2>6. /\ Contents' \in Seq(Data) /\ Len(Contents') = Count - 1
          /\ \A i \in 1 .. Count - 1 : Contents'[i] = pbuf[At(i + 1)]
      <3>1. (TypeOK => /\ Count \in 0 .. Size - 1
                       /\ Contents \in Seq(Data)
                       /\ Len(Contents) = Count
                       /\ \A i \in 1 .. Count : Contents[i] = pbuf[At(i)])'
        BY ContentsIs, PTL
      <3> QED  BY <2>1, <2>2, <2>5, <3>1
    <2>7. /\ Tail(Contents) \in Seq(Data) /\ Len(Tail(Contents)) = Count - 1
          /\ \A i \in 1 .. Count - 1 : Tail(Contents)[i] = Contents[i + 1]
      BY <2>4, ContentsIs, HeadTailProperties
    <2>8. \A i \in 1 .. Count - 1 : Contents'[i] = Tail(Contents)[i]
      BY <2>6, <2>7, ContentsIs
    <2>9. Contents' = Tail(Contents)
      BY <2>6, <2>7, <2>8, SeqEqual
    <2> QED  BY <2>1, <2>4, <2>9 DEF Fifo!Read, Fifo!First, Fifo!Rest
  <1> QED  BY <1>1, <1>2

\* The ring buffers of the firmware are bounded first-in first-out queues: no
\* byte is lost, duplicated, reordered or overwritten, for every buffer size.
THEOREM RingIsFifo == Spec => ImplementsFifo
  <1>1. Init => Fifo!Init
    <2> SUFFICES ASSUME Init PROVE Fifo!Init  OBVIOUS
    <2>1. TypeOK
      BY SizeAssumption, DataAssumption DEF Init, TypeOK, Slots
    <2>2. Count = 0
      BY DEF Init, Count
    <2> QED  BY <2>1, <2>2, ContentsIs, EmptySeq DEF Init, Fifo!Init
  <1>2. TypeOK /\ TypeOK' /\ [Next]_vars => [Fifo!Next]_Fifo!fifoVars
    <2> SUFFICES ASSUME TypeOK, TypeOK', [Next]_vars
                 PROVE  [Fifo!Next]_Fifo!fifoVars
      OBVIOUS
    <2>1. CASE Dequeue
      BY <2>1, DequeueIsRead DEF Fifo!Next
    <2>2. ASSUME NEW d \in Data, Enqueue(d) PROVE Fifo!Next
      BY <2>2, EnqueueIsWrite DEF Fifo!Next
    <2>3. CASE UNCHANGED vars
      BY <2>3 DEF vars, Fifo!fifoVars, Contents, Count
    <2> QED  BY <2>1, <2>2, <2>3 DEF Next
  <1> QED  BY <1>1, <1>2, TypeCorrect, PTL DEF Spec, ImplementsFifo, Fifo!Spec
=============================================================================
