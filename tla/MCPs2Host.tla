----------------------------- MODULE MCPs2Host -----------------------------
(* Lamps: all off, Scroll and Caps (with ones on both sides of a zero).  The  *)
(* key is 15, Q.                                                              *)
EXTENDS Ps2Host

MCLeds == {NoLamps, <<1, 0, 1, 0, 0, 0, 0, 0>>}
MCKeys == {<<1, 0, 1, 0, 1, 0, 0, 0>>}
=============================================================================
