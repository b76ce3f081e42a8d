----------------------------- MODULE MouseHost -----------------------------
(* The mouse and, at its end, a host that reads the reports by the           *)
(* descriptors of usbdrv.c.                                                  *)
EXTENDS Mouse, HidHost

AtRest(controls) == {c \in controls : c[3] = 0}

\* What the host reads by the mouse's descriptor in the report in endpoint 3 is what
\* the mouse said in the packet that is due: three buttons, two directions and the
\* wheel.  A wheel turned by -128 is excepted: its opposite is no eight-bit number,
\* and -128 is outside the range the descriptor declares, so the host ignores it.
HostReads ==
  faults = 0 /\ ~hist.dropped /\ tx3 # <<>> /\ tx3[1].kind = "mouse" =>
    LET said == Wanted(motions[Len(host) + 1])
        moved == {<<1, \h30, said.x>>, <<1, \h31, said.y>>}
                 \cup {<<1, \h38, v>> : v \in {said.v} \ {-128}}
    IN ReadReport(Endpoint3Fields, MouseBytes(tx3[1].report)) =
         {<<9, n + 1, 1>> : n \in {i \in 0 .. 2 : Bit(said.buttons, 2^i)}}
         \cup (moved \ AtRest(moved))
=============================================================================
