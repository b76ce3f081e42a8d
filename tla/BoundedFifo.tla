---------------------------- MODULE BoundedFifo ----------------------------
(***************************************************************************)
(* What a byte queue of the firmware promises: first in, first out, at     *)
(* most Capacity elements, an element that finds the queue full is dropped *)
(* and reading an empty queue yields 0.  The ring buffers of the firmware  *)
(* (module RingBuffer) implement it; the modules that only need the        *)
(* promise keep a sequence and use the operators of ByteQueue.              *)
(***************************************************************************)
EXTENDS ByteQueue

CONSTANTS Data,      \* the elements; 0 is what an empty queue answers
          Capacity   \* how many elements fit

VARIABLES queue,     \* the elements waiting, oldest first
          val        \* what the last read returned

fifoVars == <<queue, val>>

Init ==
  /\ queue = <<>>
  /\ val = 0

Write(d) ==
  /\ queue' = Put(queue, d, Capacity)
  /\ UNCHANGED val

Read ==
  /\ queue' = Rest(queue)
  /\ val' = First(queue)

Next == Read \/ \E d \in Data : Write(d)

Spec == Init /\ [][Next]_fifoVars
=============================================================================
