----------------------------- MODULE ByteQueue -----------------------------
(* A byte queue as a sequence: what its users see of a ring buffer. *)
EXTENDS Integers, Sequences

\* Adding d to the sequence q: dropped when q is full.
Put(q, d, cap) == IF Len(q) < cap THEN Append(q, d) ELSE q

\* The element a read of q returns, and what it leaves.
First(q) == IF q = <<>> THEN 0 ELSE Head(q)
Rest(q)  == IF q = <<>> THEN q ELSE Tail(q)
=============================================================================
