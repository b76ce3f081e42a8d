------------------------------ MODULE MCMouse ------------------------------
(* Motions at the ends of the eight-bit and nine-bit ranges, and an overflow. *)
EXTENDS MouseHost

Motion(b, x, y, v, xo, yo) ==
  [buttons |-> b, x |-> x, y |-> y, v |-> v, xOvf |-> xo, yOvf |-> yo]

MCMotions == {Motion(1, -128, 128, -1, FALSE, FALSE), Motion(6, 127, -256, -128, TRUE, FALSE)}
=============================================================================
