--------------------------- MODULE MCPs2Receiver ---------------------------
(* Two bytes with different parity: 15, the make code of Q, and F0; only the   *)
(* first where the content makes no difference.                               *)
EXTENDS Ps2Receiver

MCBytes == {<<1, 0, 1, 0, 1, 0, 0, 0>>, <<0, 0, 0, 0, 1, 1, 1, 1>>}
MCOneByte == {<<1, 0, 1, 0, 1, 0, 0, 0>>}
=============================================================================
