------------------------------ MODULE Ps2Frame ------------------------------
(***************************************************************************)
(* A frame of the keyboard, and handleBit (ps2_interrupt.c), which takes   *)
(* it in bit by bit, as a function over the receiver's globals.            *)
(***************************************************************************)
EXTENDS Integers, Sequences, FiniteSets

CONSTANT Capacity     \* bytes the ring pbuf holds, PBUF_SIZE - 1

Bit == {0, 1}
ByteBits == [1 .. 8 -> Bit]       \* least significant bit first

\* enum state_enum
INIT == 0
START == 1
BIT0 == 2
BIT7 == 9
PARITY == 10
STOP == 11

-----------------------------------------------------------------------------
(* The frame and the receiver's state machine.                             *)

\* Odd parity over the eight data bits.
ParityOf(b) == (1 + Cardinality({i \in 1 .. 8 : b[i] = 1})) % 2
Frame(b) == <<0, b[1], b[2], b[3], b[4], b[5], b[6], b[7], b[8], ParityOf(b), 1>>

\* data >>= 1, then the new bit at the top.
Shift(d, bit) == [i \in 1 .. 8 |-> IF i = 8 THEN bit ELSE d[i + 1]]

Idle == [state |-> INIT, data |-> [i \in 1 .. 8 |-> 0], parity |-> 1,
         inhibit |-> 0, error |-> 0, errState |-> 0, pbuf |-> <<>>, accepted |-> <<>>,
         dropped |-> FALSE]

\* Variants: the operators named ...Bug stand for a plausible mistake in the code
\* that the definition after them models; no specification uses them.
DoneBug(r) == [r EXCEPT !.state = INIT, !.parity = 1, !.data = [i \in 1 .. 8 |-> 0]]

\* The label DONE of handleBit: ready for the next frame.
Done(r) == [r EXCEPT !.state = INIT, !.inhibit = 0, !.parity = 1,
                     !.data = [i \in 1 .. 8 |-> 0]]

\* The label ERROR, which falls through to DONE: the state is recorded before it
\* is reset.
FailBug(r, s) == [Done(r) EXCEPT !.error = Done(r).state, !.errState = 1]
Fail(r, s) == Done([r EXCEPT !.error = s, !.errState = 1])

RejectsBug(r, s, bit) ==
  (s = START /\ bit = 1) \/ (s = PARITY /\ bit # r.parity) \/ s > STOP

RejectsEvenBug(r, s, bit) ==
  \/ (s = START /\ bit = 1) \/ (s = PARITY /\ bit = r.parity)
  \/ (s = STOP /\ bit = 0) \/ s > STOP

\* What makes handleBit go to ERROR in state s.
Rejects(r, s, bit) ==
  \/ s = START  /\ bit = 1
  \/ s = PARITY /\ bit # r.parity
  \/ s = STOP   /\ bit = 0
  \/ s > STOP

\* parity++ for a one; only its last bit is ever looked at.
CountOneBug(p, bit) == p + bit
CountOne(p, bit) == (p + bit) % 2

\* pbuf_enqueue, and in the history the byte and whether pbuf was full.
Accept(r) == [r EXCEPT !.pbuf = IF Len(@) < Capacity THEN Append(@, r.data) ELSE @,
                       !.accepted = Append(@, r.data),
                       !.dropped = @ \/ Len(r.pbuf) >= Capacity]

\* The switch of handleBit, entered with the new state s.
Switch(r, s, bit) ==
  IF Rejects(r, s, bit) THEN Fail(r, s)
  ELSE CASE s = START         -> [r EXCEPT !.inhibit = 1]
         [] s \in BIT0 .. BIT7 -> [r EXCEPT !.data = Shift(@, bit),
                                            !.parity = CountOne(@, bit)]
         [] s = STOP          -> Done(Accept(r))
         [] OTHER             -> r

\* handleBit run without interruption.
handleBit(r, bit) ==
  IF r.errState = 1 THEN r
  ELSE Switch([r EXCEPT !.state = r.state + 1], r.state + 1, bit)

Receiver == [state : Nat, data : ByteBits, parity : Bit, inhibit : Bit,
             error : Nat, errState : Bit, pbuf : Seq(ByteBits),
             accepted : Seq(ByteBits), dropped : BOOLEAN]
=============================================================================
