---------------------------- MODULE MCRingBuffer ----------------------------
(* A ring of four slots and two bytes: full, empty and wrapped all occur. *)
EXTENDS RingBuffer, FiniteSets

ASSUME SmallRing == Cardinality(Data) = 3
=============================================================================
