------------------------------ MODULE KeyHost ------------------------------
(* The key path and, at its end, a host that reads the reports by the        *)
(* descriptors of usbdrv.c.                                                  *)
EXTENDS KeyPath, HidHost

KeyUsages(codes) == {<<7, c, 1>> : c \in codes}

\* What the host reads in the keyboard's report is the keys and modifiers that are
\* on in the matrix, each by the usage of its key code, and in the system report
\* the control that was sent: report structs and descriptors, which live in four
\* files, fit together.  A lock key may be missing, since the host's LED takes it
\* out, and Num Lock be there without its key.  A key that found no slot and a matrix
\* cleared behind the report's back are excepted.
HostReads ==
  /\ ~kb.cleared /\ ~kb.crowded =>
       LET read == ReadReport(KeyboardFields, KeyboardBytes(kb.mods, kb.keys))
           on == {c \in CodesAt(kb.matrix) : KindOf(c) \in {"key", "mod"}}
       IN  /\ read \ KeyUsages({KC_NUMLOCK}) \subseteq KeyUsages(on)
           /\ KeyUsages(on \ LockCodes) \subseteq read
  /\ kb.tx3 # <<>> =>
       ReadReport(Endpoint3Fields, SystemBytes(kb.tx3[1])) =
         {<<1, u, 1>> : u \in {kb.tx3[1]} \ {0}}
=============================================================================
