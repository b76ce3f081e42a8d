--------------------------- MODULE Ps2Host_proofs ---------------------------
(***************************************************************************)
(* Commands to the keyboard: for any keys, lamps and number of retries.    *)
(*                                                                         *)
(* The inductive invariant has a part for each end of the line.  Transmits *)
(* relates the bits the keyboard has seen to the byte that is sent, also   *)
(* when one of them came late.  Receives says where in the keyboard's      *)
(* frame handleBit stands.  Answers says where the answer is: still in the *)
(* keyboard, or first in pbuf.  Lights says what of a command has been     *)
(* done, and that there are retries left when it has not.                  *)
(***************************************************************************)
EXTENDS Ps2Host, Ps2Frame_proofs

-----------------------------------------------------------------------------
(* The inductive invariant.                                                *)

\* What of the types the steps rely on.
Shaped ==
  /\ kb.keys \in Seq(Keys)
  /\ main.pc = "begin" => main.tries >= 1
  /\ main.pc # "sending" => fw.sendMode = 0
  /\ fw.sendMode = 1 => fw.bitNum <= 10
  /\ main.pc = "begin" /\ main.phase = "reset" => fw.sendError = 0
  /\ kb.mode = "idle" => kb.bits = <<>>
  /\ kb.mode = "taking" => Len(kb.bits) <= 10

\* What the keyboard sends is the frame of its next byte, and n bits of it are sent.
Framed ==
  kb.mode = "sending" =>
    /\ NextByte # <<>> /\ kb.bits # <<>> /\ Len(kb.bits) <= 11
    /\ \A i \in 1 .. Len(kb.bits) : kb.bits[i] = Frame(Head(NextByte))[11 - Len(kb.bits) + i]

\* Nothing has gone wrong but for one edge that came late.
OneLate == Clean /\ hist.late <= 1

\* The bits the keyboard sees on the line for a byte: eight, parity, stop.
OnLine(b, i) == IF i <= 8 THEN b[i] ELSE IF i = 9 THEN ParityOf(b) ELSE 1
Exact(b) == \A i \in 1 .. Len(kb.bits) : kb.bits[i] = OnLine(b, i)

\* A byte on its way to the keyboard.  A bit that comes late is the first, which
\* leaves a zero and the wrong parity, or makes sendBit give up, which leaves no
\* stop bit unless it was too late to spoil anything.
Carries ==
  /\ main.pc = "sending" /\ fw.dataToSend = ToSend
  /\ kb.mode # "sending" /\ fw.bitNum = Len(kb.bits)
  /\ kb.bits = <<>> => fw.odd = 1 /\ fw.sendError = 0 /\ fw.line = 0
  /\ kb.bits # <<>> => fw.timer = "short"
  /\ hist.late = 0 => fw.sendError = 0 /\ Exact(ToSend)
  /\ fw.sendError = 0 =>
       /\ Len(kb.bits) \in 1 .. 8 => fw.odd = (1 + Ones(ToSend, Len(kb.bits))) % 2
       /\ \A i \in 1 .. Len(kb.bits) :
            kb.bits[i] = OnLine(ToSend, i) \/ (i = 1 /\ kb.bits[1] = 0)
  /\ fw.sendError = 1 /\ Len(kb.bits) = 10 => kb.bits[10] = 0 \/ Exact(ToSend)

Transmits ==
  OneLate => IF fw.sendMode = 1 THEN Carries ELSE fw.line = 1 /\ kb.mode # "taking"

\* The receiver f when it has taken the first n bits of the frame of b.
Stands(f, b, n) ==
  /\ f.state = n /\ f.data = DataAt(b, n) /\ f.parity = ParityAt(b, n)
  /\ f.inhibit = InhibitAt(n) /\ f.errState = 0

Receives ==
  OneLate /\ ~hist.cut =>
    IF kb.mode = "sending" THEN Stands(fw, Head(NextByte), 11 - Len(kb.bits))
                           ELSE Stands(fw, NoByte, INIT)

\* The answer to the byte that was sent: to come, or the first in pbuf.
Plain == Keys \cup {BAT_OK}
Answered(a) ==
  \/ kb.answer \in {<<a>>, <<a, BAT_OK>>} /\ fw.pbuf = <<>>
  \/ /\ fw.pbuf # <<>> /\ Head(fw.pbuf) = a /\ Tail(fw.pbuf) \in Seq(Plain)
     /\ kb.answer \in {<<>>, <<BAT_OK>>}
Waits == main.pc \in {"sending", "answer"} /\ fw.sendMode = 0

Answers ==
  OneLate /\ ~hist.cut /\ ~hist.stale =>
    /\ fw.sendMode = 1 => fw.pbuf = <<>>
    /\ Waits => Answered(PS2_ACK) \/ Answered(PS2_RESEND)
    /\ main.pc \in {"loop", "begin", "booting"} =>
         fw.pbuf \in Seq(Plain) /\ kb.answer \in {<<>>, <<BAT_OK>>}
    /\ ~hist.misread

\* What the phase is for has been done.
Attained == IF main.phase = "command" THEN kb.wants = "lamps" ELSE kb.lamps = main.led
Lights ==
  OneLate /\ ~hist.cut /\ ~hist.stale =>
    /\ main.phase = "reset" => main.led = NoLamps /\ kb.lamps = NoLamps
    /\ main.phase = "argument" => kb.lamps = main.led \/ kb.wants = "lamps"
    /\ main.pc \in {"loop", "booting"} => kb.lamps = main.led
    /\ main.pc = "loop" => main.phase = "argument"
    /\ ~Attained =>
         /\ main.pc = "begin" => main.tries >= Tries - hist.late
         /\ fw.sendMode = 1 => \/ main.tries >= Tries - 1
                               \/ hist.late = 1 /\ fw.sendError = 0 /\ Exact(ToSend)
         /\ Waits => main.tries >= Tries - 1 /\ hist.late = 1 /\ Answered(PS2_RESEND)

USE DEF INIT, START, BIT0, BIT7, PARITY, STOP

-----------------------------------------------------------------------------
(* The firmware's functions.                                               *)

\* What only the sender uses.
Rest(f) == <<f.sendMode, f.dataToSend, f.bitNum, f.odd, f.sendError, f.timer, f.line>>

\* What handleBit makes of the firmware's globals x, case by case.
Hears(x, bit, y) ==
  LET s == x.state + 1
      Kept == y.error = x.error /\ y.errState = 0
  IN /\ Rest(y) = Rest(x)
     /\ x.errState = 1 =>
          /\ y.state = x.state /\ y.data = x.data /\ y.parity = x.parity
          /\ y.inhibit = x.inhibit /\ y.error = x.error /\ y.errState = 1 /\ y.pbuf = x.pbuf
     /\ x.errState = 0 /\ Rejects(x, s, bit) =>
          /\ y.state = INIT /\ y.data = NoByte /\ y.parity = 1 /\ y.inhibit = 0
          /\ y.error = s /\ y.errState = 1 /\ y.pbuf = x.pbuf
     /\ x.errState = 0 /\ ~Rejects(x, s, bit) =>
          /\ s \in START .. STOP /\ Kept
          /\ s = START =>
               /\ y.state = s /\ y.data = x.data /\ y.parity = x.parity
               /\ y.inhibit = 1 /\ y.pbuf = x.pbuf
          /\ s \in BIT0 .. BIT7 =>
               /\ y.state = s /\ y.data = Shift(x.data, bit)
               /\ y.parity = CountOne(x.parity, bit)
               /\ y.inhibit = x.inhibit /\ y.pbuf = x.pbuf
          /\ s = PARITY =>
               /\ y.state = s /\ y.data = x.data /\ y.parity = x.parity
               /\ y.inhibit = x.inhibit /\ y.pbuf = x.pbuf
          /\ s = STOP =>
               /\ y.state = INIT /\ y.data = NoByte /\ y.parity = 1
               /\ y.inhibit = 0
               /\ y.pbuf = IF Len(x.pbuf) < Capacity THEN Append(x.pbuf, x.data) ELSE x.pbuf

LEMMA NoByteTyped == NoByte \in ByteBits /\ NoLamps = NoByte
  BY DEF NoByte, NoLamps, ByteBits, Bit

LEMMA ReceivedCases ==
  ASSUME NEW f \in Firmware, NEW bit \in Bit
  PROVE  Received(f, bit) \in Firmware /\ Hears(f, bit, Received(f, bit))
  <1> DEFINE s == f.state + 1
             q == [f EXCEPT !.state = f.state + 1]
             h == handleBit(f, bit)
             z == [h EXCEPT !.accepted = <<>>]
  <1>0. <<>> \in Seq(ByteBits) /\ NoByte \in ByteBits /\ 1 \in Bit /\ 0 \in Bit /\ INIT \in Nat
    BY EmptySeq, NoByteTyped DEF Bit
  <1>1. Received(f, bit) = z
    BY DEF Received
  <1>2. q \in Firmware /\ s \in Nat /\ s > 0
    <2>1. s \in Nat /\ s > 0
      BY DEF Firmware
    <2> HIDE DEF s
    <2> QED  BY <2>1 DEF Firmware, s
  <1>3. /\ q.state = s /\ q.data = f.data /\ q.parity = f.parity /\ q.inhibit = f.inhibit
        /\ q.error = f.error /\ q.errState = f.errState /\ q.pbuf = f.pbuf /\ Rest(q) = Rest(f)
    BY DEF Firmware, Rest
  <1>4. f.errState = 0 => h = Switch(q, s, bit)
    BY DEF handleBit
  <1>5. f.errState = 1 => h = f
    BY DEF handleBit
  <1>6. Rejects(q, s, bit) <=> Rejects(f, s, bit)
    BY <1>3 DEF Rejects
  <1>7. \A d \in ByteBits, p \in Bit : Shift(d, bit) \in ByteBits /\ CountOne(p, bit) \in Bit
    BY DEF ByteBits, Bit, Shift, CountOne
  <1>8. Done([q EXCEPT !.error = s, !.errState = 1])
          = [q EXCEPT !.error = s, !.errState = 1, !.state = INIT, !.inhibit = 0, !.parity = 1,
                      !.data = NoByte]
    BY <1>2 DEF Done, NoByte, Firmware
  <1> HIDE DEF q, s, h
  <1>9. ASSUME f.errState = 1
        PROVE  z \in Firmware /\ Rest(z) = Rest(f) /\ z.state = f.state /\ z.data = f.data
               /\ z.parity = f.parity /\ z.inhibit = f.inhibit /\ z.error = f.error
               /\ z.errState = 1 /\ z.pbuf = f.pbuf
    BY <1>0, <1>5, <1>9 DEF Firmware, Rest
  <1>10. ASSUME f.errState = 0, Rejects(f, s, bit)
         PROVE  /\ z \in Firmware /\ Rest(z) = Rest(f)
                /\ z.state = INIT /\ z.data = NoByte /\ z.parity = 1 /\ z.inhibit = 0
                /\ z.error = s /\ z.errState = 1 /\ z.pbuf = f.pbuf
    <2>1. h = [q EXCEPT !.error = s, !.errState = 1, !.state = INIT, !.inhibit = 0, !.parity = 1,
                        !.data = NoByte]
      BY <1>4, <1>6, <1>8, <1>10 DEF Switch, Fail
    <2>2. z = [q EXCEPT !.error = s, !.errState = 1, !.state = INIT, !.inhibit = 0, !.parity = 1,
                        !.data = NoByte, !.accepted = <<>>]
      BY <1>2, <2>1 DEF Firmware
    <2> HIDE DEF z
    <2> QED  BY <1>0, <1>2, <1>3, <2>2 DEF Firmware, Rest
  <1>11. ASSUME f.errState = 0, ~Rejects(f, s, bit)
         PROVE  s \in START .. STOP
    BY <1>2, <1>11 DEF Rejects
  <1>12. ASSUME f.errState = 0, ~Rejects(f, s, bit), s = START
         PROVE  /\ z \in Firmware /\ Rest(z) = Rest(f)
                /\ z.state = s /\ z.data = f.data /\ z.parity = f.parity
                /\ z.inhibit = 1 /\ z.pbuf = f.pbuf
                /\ z.error = f.error /\ z.errState = 0
    <2>1. h = [q EXCEPT !.inhibit = 1]
      BY <1>4, <1>6, <1>12 DEF Switch
    <2>2. z = [q EXCEPT !.inhibit = 1, !.accepted = <<>>]
      BY <1>2, <2>1 DEF Firmware
    <2> HIDE DEF z
    <2> QED  BY <1>0, <1>2, <1>3, <1>12, <2>2 DEF Firmware, Rest
  <1>13. ASSUME f.errState = 0, ~Rejects(f, s, bit), s \in BIT0 .. BIT7
         PROVE  /\ z \in Firmware /\ Rest(z) = Rest(f)
                /\ z.state = s /\ z.data = Shift(f.data, bit)
                /\ z.parity = CountOne(f.parity, bit)
                /\ z.inhibit = f.inhibit /\ z.pbuf = f.pbuf
                /\ z.error = f.error /\ z.errState = 0
    <2> DEFINE d == Shift(q.data, bit)
               p == CountOne(q.parity, bit)
    <2>1. h = [q EXCEPT !.data = d, !.parity = p]
      BY <1>2, <1>4, <1>6, <1>13 DEF Switch, Firmware
    <2>2. d = Shift(f.data, bit) /\ p = CountOne(f.parity, bit) /\ d \in ByteBits /\ p \in Bit
      BY <1>2, <1>3, <1>7 DEF Firmware
    <2> HIDE DEF d, p
    <2>3. z = [q EXCEPT !.data = d, !.parity = p, !.accepted = <<>>]
      BY <1>2, <2>1 DEF Firmware
    <2> HIDE DEF z
    <2> QED  BY <1>0, <1>2, <1>3, <1>13, <2>2, <2>3 DEF Firmware, Rest
  <1>14. ASSUME f.errState = 0, ~Rejects(f, s, bit), s = PARITY
         PROVE  /\ z \in Firmware /\ Rest(z) = Rest(f)
                /\ z.state = s /\ z.data = f.data /\ z.parity = f.parity
                /\ z.inhibit = f.inhibit /\ z.pbuf = f.pbuf
                /\ z.error = f.error /\ z.errState = 0
    <2>1. h = q
      BY <1>4, <1>6, <1>14 DEF Switch
    <2> QED  BY <1>0, <1>2, <1>3, <1>14, <2>1 DEF Firmware, Rest
  <1>15. ASSUME f.errState = 0, ~Rejects(f, s, bit), s = STOP
         PROVE  /\ z \in Firmware /\ Rest(z) = Rest(f)
                /\ z.state = INIT /\ z.data = NoByte /\ z.parity = 1 /\ z.inhibit = 0
                /\ z.pbuf = (IF Len(f.pbuf) < Capacity THEN Append(f.pbuf, f.data) ELSE f.pbuf)
                /\ z.error = f.error /\ z.errState = 0
    <2> DEFINE b == IF Len(f.pbuf) < Capacity THEN Append(f.pbuf, f.data) ELSE f.pbuf
               dropped == q.dropped \/ Len(q.pbuf) >= Capacity
               a == Append(q.accepted, q.data)
    <2>1. b \in Seq(ByteBits) /\ dropped \in BOOLEAN
      BY <1>2, AppendProperties DEF Firmware
    <2>2. Accept(q) = [q EXCEPT !.pbuf = b, !.accepted = a, !.dropped = dropped]
      BY <1>2, <1>3 DEF Accept, Firmware
    <2>3. h = Done(Accept(q))
      BY <1>4, <1>6, <1>15 DEF Switch
    <2> HIDE DEF b, dropped, a
    <2>4. z = [q EXCEPT !.pbuf = b, !.accepted = <<>>, !.dropped = dropped, !.state = INIT,
                        !.inhibit = 0, !.parity = 1, !.data = NoByte]
      BY <1>2, <2>2, <2>3 DEF Done, NoByte, Firmware
    <2> HIDE DEF z
    <2>5. z \in Firmware
      BY <1>0, <1>2, <2>1, <2>4 DEF Firmware
    <2>6. Rest(z) = Rest(f)
      BY <1>2, <1>3, <2>4 DEF Firmware, Rest
    <2>7. /\ z.state = INIT /\ z.data = NoByte /\ z.parity = 1 /\ z.inhibit = 0
          /\ z.pbuf = b /\ z.error = q.error /\ z.errState = q.errState
      BY <1>2, <2>4 DEF Firmware
    <2> QED  BY <1>3, <1>15, <2>5, <2>6, <2>7 DEF b
  <1>16. f.errState \in {0, 1}
    BY DEF Firmware, Bit
  <1>17. z \in Firmware
    <2> HIDE DEF z
    <2>1. f.errState = 0 /\ ~Rejects(f, s, bit) =>
            s = START \/ s \in BIT0 .. BIT7 \/ s = PARITY \/ s = STOP
      BY <1>2, <1>11
    <2> QED  BY <1>9, <1>10, <1>12, <1>13, <1>14, <1>15, <1>16, <2>1
  <1>18. Hears(f, bit, z)
    <2>1. Rest(z) = Rest(f)
      <3> HIDE DEF z
      <3>1. f.errState = 0 /\ ~Rejects(f, s, bit) =>
              s = START \/ s \in BIT0 .. BIT7 \/ s = PARITY \/ s = STOP
        BY <1>2, <1>11
      <3> QED  BY <1>9, <1>10, <1>12, <1>13, <1>14, <1>15, <1>16, <3>1
    <2> HIDE DEF z
    <2> QED
      BY <1>9, <1>10, <1>11, <1>12, <1>13, <1>14, <1>15, <2>1 DEF Hears, s
  <1> QED  BY <1>1, <1>17, <1>18

\* What of the receiver sendBit leaves alone, until it releases the line.
Stays(f) == <<f.state, f.inhibit, f.errState, f.pbuf>>
Partial(f) == <<f.data, f.parity, f.sendMode, f.dataToSend>>

\* The bit PutBit puts on the line.
BitOf(f) == IF f.bitNum <= 7 THEN f.dataToSend[f.bitNum + 1]
            ELSE IF f.bitNum = 8 THEN f.odd ELSE 1

\* What sendBit makes of the firmware's globals f.
Sends(f, bad, g) ==
  LET gone == f.sendError = 1 \/ bad
  IN /\ Stays(g) = Stays(f)
     /\ g.bitNum = f.bitNum + 1
     /\ f.bitNum = 10 =>
          /\ g.line = 1 /\ g.sendMode = 0 /\ g.sendError = 0 /\ g.data = NoByte /\ g.parity = 1
     /\ f.bitNum < 10 => Partial(g) = Partial(f) /\ g.timer = "short"
     /\ f.bitNum < 10 /\ gone =>
          g.sendError = 1 /\ g.line = IF f.bitNum = 8 THEN 1 - f.odd ELSE 0
     /\ f.bitNum < 10 /\ ~gone =>
          /\ g.sendError = 0 /\ g.line = BitOf(f)
          /\ g.odd = IF f.bitNum <= 7 THEN (f.odd + f.dataToSend[f.bitNum + 1]) % 2 ELSE f.odd

LEMMA SendBitCases ==
  ASSUME NEW f \in Firmware, f.bitNum <= 10, NEW bad \in BOOLEAN, NEW level \in Bit
  PROVE  sendBit(f, bad, level) \in Firmware /\ Sends(f, bad, sendBit(f, bad, level))
  <1> DEFINE e == IF bad THEN 1 ELSE f.sendError
             g == [f EXCEPT !.sendError = e, !.timer = "short"]
             z == sendBit(f, bad, level)
  <1>1. NoByte \in ByteBits /\ NoLamps = NoByte /\ 0 \in Bit /\ 1 \in Bit
    BY NoByteTyped DEF Bit
  <1>2. e \in Bit /\ f.bitNum \in 0 .. 10 /\ f.sendError \in Bit /\ f.odd \in Bit
        /\ f.dataToSend \in ByteBits
    BY <1>1 DEF Firmware
  <1>3. z = IF g.bitNum = 10 THEN CheckAck(g, level)
            ELSE IF g.sendError = 1 THEN GiveUp(g) ELSE PutBit(g)
    <2>1. g = [f EXCEPT !.sendError = IF bad THEN 1 ELSE @, !.timer = "short"]
      OBVIOUS
    <2> QED  BY <2>1 DEF sendBit
  <1>4. (e = 1 <=> f.sendError = 1 \/ bad) /\ (e # 1 => f.sendError = 0 /\ e = 0)
    BY <1>2 DEF Bit
  <1> HIDE DEF e
  <1>5. /\ g \in Firmware /\ Stays(g) = Stays(f) /\ Partial(g) = Partial(f) /\ g.timer = "short"
        /\ g.sendError = e /\ g.bitNum = f.bitNum /\ g.odd = f.odd /\ BitOf(g) = BitOf(f)
        /\ g.error = f.error
    BY <1>2 DEF Firmware, Stays, Partial, BitOf
  <1> HIDE DEF g, z
  <1>6. CASE f.bitNum = 10
    <2>1. z = CheckAck(g, level)
      BY <1>3, <1>5, <1>6
    <2> DEFINE x == IF level = 1 THEN 10 ELSE g.error
    <2>2. x \in Nat
      BY <1>5 DEF Firmware
    <2>3. z = [g EXCEPT !.line = 1, !.error = x, !.sendMode = 0, !.sendError = 0,
                        !.dataToSend = NoByte, !.data = NoByte, !.parity = 1, !.odd = 1,
                        !.timer = "any", !.bitNum = g.bitNum + 1]
      BY <1>1, <1>5, <2>1 DEF CheckAck, data_release, Firmware
    <2> HIDE DEF x
    <2>4. g.bitNum + 1 \in 0 .. 11
      BY <1>5, <1>6
    <2>5. z \in Firmware
      BY <1>1, <1>5, <2>2, <2>3, <2>4 DEF Firmware
    <2>6. Stays(z) = Stays(f)
      BY <1>5, <2>3 DEF Firmware, Stays
    <2>7. /\ z.bitNum = f.bitNum + 1 /\ z.line = 1 /\ z.sendMode = 0 /\ z.sendError = 0
          /\ z.data = NoByte /\ z.parity = 1
      BY <1>5, <2>3 DEF Firmware
    <2> QED  BY <1>6, <2>5, <2>6, <2>7 DEF Sends, z
  <1>7. CASE f.bitNum < 10 /\ e = 1
    <2>1. z = GiveUp(g)
      BY <1>3, <1>5, <1>7
    <2> DEFINE x == IF f.bitNum = 8 THEN 1 - f.odd ELSE 0
    <2>2. x \in Bit
      BY <1>2 DEF Bit
    <2>3. Drive(g, x) = [g EXCEPT !.line = x]
      BY <2>2 DEF Drive, data_hi, data_lo, Bit
    <2>4. z = [Drive(g, x) EXCEPT !.bitNum = @ + 1]
      BY <1>5, <2>1 DEF GiveUp
    <2> HIDE DEF x
    <2>5. z = [g EXCEPT !.line = x, !.bitNum = g.bitNum + 1]
      BY <1>5, <2>3, <2>4 DEF Firmware
    <2>6. g.bitNum + 1 \in 0 .. 11
      BY <1>2, <1>5
    <2>7. z \in Firmware
      BY <1>5, <2>2, <2>5, <2>6 DEF Firmware
    <2>8. Stays(z) = Stays(f) /\ Partial(z) = Partial(f)
      BY <1>5, <2>5 DEF Firmware, Stays, Partial
    <2>9. z.bitNum = f.bitNum + 1 /\ z.timer = "short" /\ z.sendError = 1 /\ z.line = x
      BY <1>5, <1>7, <2>5 DEF Firmware
    <2> QED  BY <1>4, <1>7, <2>7, <2>8, <2>9 DEF Sends, z, x
  <1>8. CASE f.bitNum < 10 /\ e # 1
    <2>1. z = PutBit(g)
      BY <1>3, <1>5, <1>8
    <2> DEFINE bit == BitOf(f)
               o == IF f.bitNum <= 7 THEN (f.odd + bit) % 2 ELSE f.odd
    <2>2. bit \in Bit
      <3>1. f.bitNum <= 7 => f.bitNum + 1 \in 1 .. 8
        BY <1>2
      <3> QED  BY <1>1, <1>2, <3>1 DEF BitOf, ByteBits
    <2>3. o \in Bit
      BY <1>2, <2>2 DEF Bit
    <2>4. Drive(g, bit) = [g EXCEPT !.line = bit]
      BY <2>2 DEF Drive, data_hi, data_lo, Bit
    <2>5. z = [Drive(g, bit) EXCEPT !.bitNum = @ + 1,
                                    !.odd = IF g.bitNum <= 7 THEN (@ + bit) % 2 ELSE @]
      BY <1>5, <2>1 DEF PutBit, BitOf
    <2>6. f.bitNum <= 7 => bit = f.dataToSend[f.bitNum + 1]
      BY DEF BitOf
    <2> HIDE DEF bit
    <2>7. z = [g EXCEPT !.line = bit, !.bitNum = g.bitNum + 1, !.odd = o]
      BY <1>5, <2>4, <2>5 DEF Firmware
    <2>8. o = IF f.bitNum <= 7 THEN (f.odd + f.dataToSend[f.bitNum + 1]) % 2 ELSE f.odd
      BY <2>6
    <2> HIDE DEF o
    <2>9. g.bitNum + 1 \in 0 .. 11
      BY <1>2, <1>5
    <2>10. z \in Firmware
      BY <1>5, <2>2, <2>3, <2>7, <2>9 DEF Firmware
    <2>11. Stays(z) = Stays(f) /\ Partial(z) = Partial(f)
      BY <1>5, <2>7 DEF Firmware, Stays, Partial
    <2>12. z.bitNum = f.bitNum + 1 /\ z.timer = "short" /\ z.sendError = 0 /\ z.line = bit
           /\ z.odd = o
      BY <1>4, <1>5, <1>8, <2>7 DEF Firmware
    <2> QED  BY <1>4, <1>8, <2>8, <2>10, <2>11, <2>12 DEF Sends, z, bit
  <1> QED  BY <1>2, <1>6, <1>7, <1>8

LEMMA BeginTyped ==
  ASSUME NEW f \in Firmware, NEW b \in ByteBits
  PROVE  /\ init_ps2_host_send(f, b) \in Firmware
         /\ Stays(init_ps2_host_send(f, b)) = Stays(f)
         /\ init_ps2_host_send(f, b).data = f.data /\ init_ps2_host_send(f, b).parity = f.parity
         /\ init_ps2_host_send(f, b).sendMode = 1 /\ init_ps2_host_send(f, b).dataToSend = b
         /\ init_ps2_host_send(f, b).bitNum = 0 /\ init_ps2_host_send(f, b).odd = 1
         /\ init_ps2_host_send(f, b).line = 0
         /\ init_ps2_host_send(f, b).sendError = f.sendError
  <1>1. init_ps2_host_send(f, b)
          = [f EXCEPT !.line = 0, !.sendMode = 1, !.bitNum = 0, !.dataToSend = b,
                      !.odd = 1, !.timer = "any"]
    BY DEF init_ps2_host_send, data_lo, Firmware
  <1>2. 0 \in Bit /\ 1 \in Bit /\ 0 \in 0 .. 11 /\ 0 \in Nat
    BY DEF Bit
  <1> DEFINE z == init_ps2_host_send(f, b)
  <1> HIDE DEF z
  <1>3. z = [f EXCEPT !.line = 0, !.sendMode = 1, !.bitNum = 0, !.dataToSend = b,
                      !.odd = 1, !.timer = "any"]
    BY <1>1 DEF z
  <1>4. z \in Firmware
    BY <1>2, <1>3 DEF Firmware
  <1>5. Stays(z) = Stays(f)
    BY <1>3 DEF Firmware, Stays
  <1>6. /\ z.data = f.data /\ z.parity = f.parity /\ z.sendMode = 1 /\ z.dataToSend = b
        /\ z.bitNum = 0 /\ z.odd = 1 /\ z.line = 0 /\ z.sendError = f.sendError
    BY <1>3 DEF Firmware
  <1> QED  BY <1>4, <1>5, <1>6 DEF z

LEMMA UnlatchTyped ==
  ASSUME NEW f \in Firmware
  PROVE  /\ Unlatch(f) \in Firmware /\ Rest(Unlatch(f)) = Rest(f)
         /\ Unlatch(f).state = f.state /\ Unlatch(f).data = f.data
         /\ Unlatch(f).parity = f.parity /\ Unlatch(f).inhibit = f.inhibit
         /\ Unlatch(f).pbuf = f.pbuf
         /\ f.errState = 0 => Unlatch(f).errState = 0
  <1>1. CASE f.error = 0
    BY <1>1 DEF Unlatch
  <1>2. CASE f.error # 0
    <2>1. Unlatch(f) = [f EXCEPT !.error = 0, !.errState = 0]
      BY <1>2 DEF Unlatch
    <2>2. 0 \in Bit /\ 0 \in Nat
      BY DEF Bit
    <2> QED  BY <2>1, <2>2 DEF Firmware, Rest
  <1> QED  BY <1>1, <1>2

LEMMA DequeueTyped ==
  ASSUME NEW f \in Firmware
  PROVE  /\ pbuf_dequeue(f) \in Firmware /\ Rest(pbuf_dequeue(f)) = Rest(f)
         /\ ps2_host_recv(f) \in Firmware /\ ps2_host_recv(f) = pbuf_dequeue(f)
         /\ pbuf_dequeue(f).state = f.state /\ pbuf_dequeue(f).data = f.data
         /\ pbuf_dequeue(f).parity = f.parity /\ pbuf_dequeue(f).inhibit = f.inhibit
         /\ pbuf_dequeue(f).errState = f.errState
         /\ pbuf_dequeue(f).pbuf = IF f.pbuf = <<>> THEN <<>> ELSE Tail(f.pbuf)
  <1> DEFINE p == IF f.pbuf = <<>> THEN f.pbuf ELSE Tail(f.pbuf)
             z == pbuf_dequeue(f)
  <1>1. f.pbuf \in Seq(ByteBits)
    BY DEF Firmware
  <1>2. p \in Seq(ByteBits)
    BY <1>1, HeadTailProperties
  <1>3. z = [f EXCEPT !.pbuf = p]
    BY DEF pbuf_dequeue
  <1>4. p = IF f.pbuf = <<>> THEN <<>> ELSE Tail(f.pbuf)
    OBVIOUS
  <1>5. f.pbuf = <<>> => p = f.pbuf
    OBVIOUS
  <1> HIDE DEF p, z
  <1>6. z \in Firmware
    BY <1>2, <1>3 DEF Firmware
  <1>7. Rest(z) = Rest(f) /\ z.state = f.state /\ z.data = f.data /\ z.parity = f.parity
        /\ z.inhibit = f.inhibit /\ z.errState = f.errState /\ z.pbuf = p
    BY <1>3 DEF Firmware, Rest
  <1>8. ps2_host_recv(f) = z
    <2>1. CASE f.pbuf = <<>>
      BY <1>3, <1>5, <2>1 DEF ps2_host_recv, pbuf_has_data, Firmware
    <2>2. CASE f.pbuf # <<>>
      BY <2>2 DEF ps2_host_recv, pbuf_has_data, z
    <2> QED  BY <2>1, <2>2
  <1> QED  BY <1>4, <1>6, <1>7, <1>8 DEF z

-----------------------------------------------------------------------------
(* The keyboard.                                                           *)

LEMMA CodesTyped ==
  /\ PS2_ACK \in ByteBits /\ PS2_RESEND \in ByteBits /\ PS2_SET_LED \in ByteBits
  /\ RESET \in ByteBits /\ BAT_OK \in ByteBits
  /\ NoLamps \in LampBytes /\ LampBytes \subseteq ByteBits
  /\ PS2_SET_LED \notin LampBytes /\ RESET \notin LampBytes /\ PS2_SET_LED # RESET
  /\ PS2_ACK # PS2_RESEND /\ BAT_OK # PS2_ACK /\ BAT_OK # PS2_RESEND
  <1>1. PS2_ACK \in ByteBits
    BY DEF PS2_ACK, ByteBits, Bit
  <1>2. PS2_RESEND \in ByteBits
    BY DEF PS2_RESEND, ByteBits, Bit
  <1>3. PS2_SET_LED \in ByteBits /\ PS2_SET_LED[6] = 1
    BY DEF PS2_SET_LED, ByteBits, Bit
  <1>4. RESET \in ByteBits /\ RESET[6] = 1 /\ RESET[2] = 1
    BY DEF RESET, ByteBits, Bit
  <1>5. BAT_OK \in ByteBits
    BY DEF BAT_OK, ByteBits, Bit
  <1>6. NoLamps \in LampBytes
    BY NoByteTyped DEF LampBytes, NoByte
  <1>7. \A b \in LampBytes : b[6] = 0
    BY DEF LampBytes
  <1>8. PS2_SET_LED # RESET
    BY <1>4 DEF PS2_SET_LED
  <1>9. PS2_ACK[3] = 0 /\ PS2_RESEND[3] = 1 /\ BAT_OK[5] = 0 /\ PS2_ACK[5] = 1
        /\ PS2_RESEND[5] = 1
    BY DEF PS2_ACK, PS2_RESEND, BAT_OK
  <1>10. LampBytes \subseteq ByteBits
    BY DEF LampBytes
  <1>11. PS2_SET_LED \notin LampBytes /\ RESET \notin LampBytes
    BY <1>3, <1>4, <1>7
  <1>12. PS2_ACK # PS2_RESEND /\ BAT_OK # PS2_ACK /\ BAT_OK # PS2_RESEND
    BY <1>9
  <1> QED  BY <1>1, <1>2, <1>3, <1>4, <1>5, <1>6, <1>8, <1>10, <1>11, <1>12

LEMMA KeysTyped == Keys \subseteq ByteBits /\ PS2_ACK \notin Keys /\ PS2_RESEND \notin Keys
  BY KeysAssumption

LEMMA ToSendTyped ==
  ASSUME main \in MainState
  PROVE  /\ ToSend \in ByteBits
         /\ main.phase = "reset" => ToSend = RESET
         /\ main.phase = "command" => ToSend = PS2_SET_LED
         /\ main.phase = "argument" => ToSend = main.led
  <1>1. main.phase \in {"reset", "command", "argument"} /\ main.led \in LampBytes
    BY DEF MainState
  <1> QED  BY <1>1, CodesTyped DEF ToSend

LEMMA ObeyTyped ==
  ASSUME NEW k \in KeyboardState, k.keys \in Seq(Keys), NEW b \in ByteBits, NEW p \in Bit
  PROVE  /\ Obey(k, b, p) \in KeyboardState
         /\ Obey(k, b, p).keys \in Seq(Keys)
         /\ Obey(k, b, p).mode = k.mode /\ Obey(k, b, p).bits = k.bits
  <1> DEFINE z == Obey(k, b, p)
  <1>0. /\ <<>> \in Seq(Keys) /\ <<>> \in Seq(ByteBits)
        /\ <<PS2_RESEND>> \in Seq(ByteBits) /\ <<PS2_ACK>> \in Seq(ByteBits)
        /\ <<PS2_ACK, BAT_OK>> \in Seq(ByteBits)
    BY CodesTyped, EmptySeq
  <1>1. CASE p # ParityOf(b)
    <2>1. z = [k EXCEPT !.answer = <<PS2_RESEND>>]
      BY <1>1 DEF Obey
    <2> QED  BY <1>0, <2>1 DEF KeyboardState
  <1>2. CASE p = ParityOf(b) /\ b = PS2_SET_LED
    <2>1. z = [k EXCEPT !.answer = <<PS2_ACK>>, !.wants = "lamps"]
      BY <1>2, CodesTyped DEF Obey
    <2> QED  BY <1>0, <2>1 DEF KeyboardState
  <1>3. CASE p = ParityOf(b) /\ b = RESET
    <2>1. z = [k EXCEPT !.answer = <<PS2_ACK, BAT_OK>>, !.wants = "command",
                        !.lamps = NoLamps, !.keys = <<>>]
      BY <1>3, CodesTyped DEF Obey
    <2> QED  BY <1>0, <2>1, CodesTyped DEF KeyboardState
  <1>4. CASE p = ParityOf(b) /\ b \in LampBytes /\ k.wants = "lamps"
    <2>1. z = [k EXCEPT !.answer = <<PS2_ACK>>, !.wants = "command", !.lamps = b]
      BY <1>4, CodesTyped DEF Obey
    <2> QED  BY <1>0, <1>4, <2>1 DEF KeyboardState
  <1>5. CASE p = ParityOf(b) /\ b # PS2_SET_LED /\ b # RESET
             /\ ~(b \in LampBytes /\ k.wants = "lamps")
    <2>1. z = [k EXCEPT !.answer = <<PS2_RESEND>>]
      BY <1>5 DEF Obey
    <2> QED  BY <1>0, <2>1 DEF KeyboardState
  <1> QED  BY <1>1, <1>2, <1>3, <1>4, <1>5

\* Eight bits the keyboard has seen are a byte.
LEMMA FirstEight ==
  ASSUME NEW s \in Seq(Bit), Len(s) = 10
  PROVE  /\ SubSeq(s, 1, 8) \in ByteBits
         /\ \A i \in 1 .. 8 : SubSeq(s, 1, 8)[i] = s[i]
         /\ s[9] \in Bit /\ s[10] \in Bit
         /\ \A b \in ByteBits : (\A i \in 1 .. 8 : s[i] = b[i]) => SubSeq(s, 1, 8) = b
  <1> DEFINE t == SubSeq(s, 1, 8)
  <1>1. \A i \in 1 .. 10 : s[i] \in Bit
    BY ElementOfSeq
  <1>2. t = [i \in 1 .. 8 |-> s[i]]
    <2>1. t = [i \in 1 .. (8 - 1 + 1) |-> s[i + 1 - 1]]
      OBVIOUS
    <2>2. 8 - 1 + 1 = 8 /\ \A i \in 1 .. 8 : i + 1 - 1 = i
      OBVIOUS
    <2> QED  BY <2>1, <2>2
  <1> HIDE DEF t
  <1>3. t \in ByteBits /\ \A i \in 1 .. 8 : t[i] = s[i]
    BY <1>1, <1>2 DEF ByteBits
  <1>4. ASSUME NEW b \in ByteBits, \A i \in 1 .. 8 : s[i] = b[i]
        PROVE  t = b
    BY <1>2, <1>4 DEF ByteBits
  <1>5. s[9] \in Bit /\ s[10] \in Bit
    BY <1>1
  <1> QED  BY <1>3, <1>4, <1>5 DEF t

\* The keyboard looks at a bit.
LEMMA LookCases ==
  ASSUME NEW k \in KeyboardState, k.keys \in Seq(Keys), k.mode = "taking",
         Len(k.bits) <= 10, NEW level \in Bit
  PROVE  /\ Look(k, level) \in KeyboardState /\ Look(k, level).keys \in Seq(Keys)
         /\ Len(k.bits) < 10 =>
              /\ Look(k, level).mode = "taking" /\ Look(k, level).bits = Append(k.bits, level)
              /\ Look(k, level).lamps = k.lamps /\ Look(k, level).wants = k.wants
              /\ Look(k, level).answer = k.answer
         /\ Len(k.bits) = 10 /\ k.bits[10] = 1 =>
              Look(k, level)
                = [Obey(k, SubSeq(k.bits, 1, 8), k.bits[9]) EXCEPT !.mode = "idle", !.bits = <<>>]
         /\ Len(k.bits) = 10 /\ k.bits[10] # 1 /\ level = 1 =>
              Look(k, level) = [k EXCEPT !.answer = <<PS2_RESEND>>, !.mode = "idle", !.bits = <<>>]
         /\ Len(k.bits) = 10 /\ k.bits[10] # 1 /\ level # 1 => Look(k, level) = k
  <1> DEFINE z == Look(k, level)
             n == Len(k.bits)
  <1>1. k.bits \in Seq(Bit) /\ n \in Nat /\ Append(k.bits, level) \in Seq(Bit)
        /\ <<>> \in Seq(Bit) /\ <<PS2_RESEND>> \in Seq(ByteBits)
    BY LenProperties, AppendProperties, EmptySeq, CodesTyped DEF KeyboardState
  <1>6. n <= 10
    OBVIOUS
  <1>2. ASSUME n < 10
        PROVE  /\ z \in KeyboardState /\ z.keys \in Seq(Keys)
               /\ z.mode = "taking" /\ z.bits = Append(k.bits, level)
               /\ z.lamps = k.lamps /\ z.wants = k.wants /\ z.answer = k.answer
    <2>1. z = [k EXCEPT !.bits = Append(k.bits, level)]
      BY <1>2 DEF Look
    <2> HIDE DEF z, n
    <2>2. z \in KeyboardState /\ z.keys \in Seq(Keys)
      BY <1>1, <2>1 DEF KeyboardState
    <2>3. /\ z.mode = "taking" /\ z.bits = Append(k.bits, level)
          /\ z.lamps = k.lamps /\ z.wants = k.wants /\ z.answer = k.answer
      BY <2>1 DEF KeyboardState
    <2> QED  BY <1>2, <2>2, <2>3
  <1> HIDE DEF n
  <1>3. ASSUME n = 10, k.bits[10] = 1
        PROVE  /\ z \in KeyboardState /\ z.keys \in Seq(Keys)
               /\ z = [Obey(k, SubSeq(k.bits, 1, 8), k.bits[9])
                         EXCEPT !.mode = "idle", !.bits = <<>>]
    <2> DEFINE o == Obey(k, SubSeq(k.bits, 1, 8), k.bits[9])
    <2>1. o \in KeyboardState /\ o.keys \in Seq(Keys)
      BY <1>1, <1>3, FirstEight, ObeyTyped DEF n
    <2>2. z = [o EXCEPT !.mode = "idle", !.bits = <<>>]
      BY <1>3 DEF Look, n
    <2> HIDE DEF o
    <2>3. z \in KeyboardState /\ z.keys \in Seq(Keys)
      BY <1>1, <2>1, <2>2 DEF KeyboardState
    <2> QED  BY <1>3, <2>2, <2>3 DEF o
  <1>4. ASSUME n = 10, k.bits[10] # 1, level = 1
        PROVE  /\ z \in KeyboardState /\ z.keys \in Seq(Keys)
               /\ z = [k EXCEPT !.answer = <<PS2_RESEND>>, !.mode = "idle", !.bits = <<>>]
    <2>1. z = [k EXCEPT !.answer = <<PS2_RESEND>>, !.mode = "idle", !.bits = <<>>]
      BY <1>4 DEF Look, n
    <2>2. z \in KeyboardState /\ z.keys \in Seq(Keys)
      BY <1>1, <2>1 DEF KeyboardState
    <2> QED  BY <1>4, <2>1, <2>2
  <1>5. ASSUME n = 10, k.bits[10] # 1, level # 1
        PROVE  z \in KeyboardState /\ z.keys \in Seq(Keys) /\ z = k
    <2>1. z = k
      BY <1>5 DEF Look, n
    <2> QED  BY <1>5, <2>1
  <1> HIDE DEF z
  <1>7. n < 10 \/ n = 10
    BY <1>1, <1>6
  <1>8. z \in KeyboardState /\ z.keys \in Seq(Keys)
    <2>1. CASE n < 10
      BY <1>2, <2>1
    <2>2. CASE n = 10 /\ k.bits[10] = 1
      BY <1>3, <2>2
    <2>3. CASE n = 10 /\ k.bits[10] # 1 /\ level = 1
      BY <1>4, <2>3
    <2>4. CASE n = 10 /\ k.bits[10] # 1 /\ level # 1
      BY <1>5, <2>4
    <2> QED  BY <1>7, <2>1, <2>2, <2>3, <2>4
  <1> QED  BY <1>2, <1>3, <1>4, <1>5, <1>8 DEF n, z

-----------------------------------------------------------------------------
(* Every step keeps the types and the shapes.                              *)

Basic == TypeOK /\ Shaped /\ Framed

\* An edge, as the firmware meets it.
LEMMA EdgeCases ==
  ASSUME TypeOK, Shaped, NEW bit \in Bit, NEW way \in Ways, NEW new \in AfterEdge(bit, way)
  PROVE  /\ new \in Firmware
         /\ fw.sendMode = 0 => new.sendMode = 0 /\ new.sendError = fw.sendError
         /\ new.sendMode = 1 => new.bitNum <= 10
         /\ way # "lost" /\ fw.sendMode = 1 => \E bad \in Verdicts(way) : Sends(fw, bad, new)
         /\ way # "lost" /\ fw.sendMode = 0 => Hears(fw, LineLevel(bit), new)
  <1>1. fw \in Firmware /\ fw.line \in Bit /\ fw.sendMode \in Bit /\ fw.bitNum \in 0 .. 11
        /\ (fw.sendMode = 1 => fw.bitNum <= 10)
    BY DEF TypeOK, Shaped, Firmware
  <1>2. Verdicts(way) \subseteq BOOLEAN /\ Readings(bit) \subseteq Bit /\ LineLevel(bit) \in Bit
    BY <1>1 DEF Verdicts, Readings, LineLevel, Bit
  <1>3. CASE way = "lost"
    <2> DEFINE t == IF fw.sendMode = 1 THEN "long" ELSE fw.timer
    <2>1. t \in {"short", "long", "any"}
      BY <1>1 DEF Firmware
    <2>2. new = [fw EXCEPT !.timer = t]
      BY <1>3 DEF AfterEdge
    <2> HIDE DEF t
    <2> QED  BY <1>1, <1>3, <2>1, <2>2 DEF Firmware
  <1>4. CASE way # "lost" /\ fw.sendMode = 1
    <2>1. PICK bad \in Verdicts(way), level \in Readings(bit) : new = sendBit(fw, bad, level)
      BY <1>4 DEF AfterEdge
    <2>2. bad \in BOOLEAN /\ level \in Bit
      BY <1>2
    <2>3. new \in Firmware /\ Sends(fw, bad, new)
      BY <1>1, <1>4, <2>1, <2>2, SendBitCases
    <2>4. new.sendMode = 1 => new.bitNum <= 10
      <3>1. CASE fw.bitNum = 10
        BY <2>3, <3>1 DEF Sends
      <3>2. CASE fw.bitNum < 10
        BY <1>1, <2>3, <3>2 DEF Sends
      <3> QED  BY <1>1, <1>4, <3>1, <3>2
    <2> QED  BY <1>4, <2>3, <2>4
  <1>5. CASE way # "lost" /\ fw.sendMode = 0
    <2>1. new = Received(fw, LineLevel(bit))
      BY <1>5 DEF AfterEdge
    <2>2. new \in Firmware /\ Hears(fw, LineLevel(bit), new)
      BY <1>1, <1>2, <2>1, ReceivedCases
    <2>3. new.sendMode = 0 /\ new.sendError = fw.sendError
      BY <1>5, <2>2 DEF Hears, Rest
    <2> QED  BY <1>5, <2>2, <2>3
  <1>6. fw.sendMode = 0 \/ fw.sendMode = 1
    BY <1>1 DEF Bit
  <1> QED  BY <1>3, <1>4, <1>5, <1>6

\* A key is pressed.
LEMMA TypeBasic ==
  ASSUME Basic, NEW b \in Keys, Type(b)
  PROVE  Basic'
  <1>1. kb \in KeyboardState /\ kb.keys \in Seq(Keys) /\ b \in ByteBits
        /\ hist \in HostHistory
    BY KeysTyped DEF Basic, TypeOK, Shaped
  <1>2. Append(kb.keys, b) \in Seq(Keys) /\ Append(kb.keys, b) \in Seq(ByteBits)
    BY <1>1, AppendProperties DEF KeyboardState
  <1>3. kb' = [kb EXCEPT !.keys = Append(kb.keys, b)] /\ UNCHANGED <<fw, main>>
        /\ hist' = [hist EXCEPT !.typed = hist.typed + 1]
    BY DEF Type
  <1>4. kb' \in KeyboardState /\ kb'.keys \in Seq(Keys) /\ kb'.mode = kb.mode
        /\ kb'.bits = kb.bits /\ kb'.answer = kb.answer /\ kb'.wants = kb.wants
        /\ kb'.keys = Append(kb.keys, b)
    BY <1>1, <1>2, <1>3 DEF KeyboardState
  <1>5. hist' \in HostHistory
    BY <1>1, <1>3 DEF HostHistory
  <1>6. TypeOK' /\ Shaped'
    BY <1>3, <1>4, <1>5 DEF Basic, TypeOK, Shaped
  <1>7. NextByte # <<>> => NextByte' # <<>> /\ Head(NextByte') = Head(NextByte)
    <2>1. kb.keys # <<>> => Append(kb.keys, b) # <<>>
                            /\ Head(Append(kb.keys, b)) = Head(kb.keys)
      BY <1>1, AppendProperties, HeadTailProperties, EmptySeq
    <2> QED  BY <1>4, <2>1 DEF NextByte
  <1>8. Framed'
    BY <1>4, <1>7 DEF Basic, Framed
  <1> QED  BY <1>6, <1>8 DEF Basic

LEMMA SetLedBasic ==
  ASSUME Basic, NEW led \in Leds, SetLed(led)
  PROVE  Basic'
  <1>1. main' \in MainState /\ main'.pc = "begin" /\ main'.phase = "command"
        /\ main'.tries = Tries
    BY LedsAssumption, HostBounds DEF SetLed, MainState
  <1>2. hist \in HostHistory /\ hist' = [hist EXCEPT !.commands = hist.commands + 1]
        /\ main.pc = "loop" /\ UNCHANGED <<fw, kb>>
    BY DEF SetLed, Basic, TypeOK
  <1>3. hist' \in HostHistory
    BY <1>2 DEF HostHistory
  <1> QED  BY <1>1, <1>2, <1>3, HostBounds DEF Basic, TypeOK, Shaped, Framed, NextByte

LEMMA NoticesBasic ==
  ASSUME Basic, KeyboardNotices
  PROVE  Basic' /\ Stays(fw') = Stays(fw) /\ Partial(fw') = Partial(fw)
         /\ fw'.bitNum = fw.bitNum /\ fw'.odd = fw.odd /\ fw'.sendError = fw.sendError
         /\ fw'.line = fw.line
         /\ kb'.mode = "taking" /\ kb'.bits = <<>> /\ kb'.answer = <<>>
         /\ kb'.wants = kb.wants /\ kb'.lamps = kb.lamps /\ kb'.keys = kb.keys
  <1>1. kb \in KeyboardState /\ fw \in Firmware /\ kb.bits = <<>> /\ kb.mode = "idle"
        /\ UNCHANGED <<main, hist>>
    BY DEF Basic, TypeOK, Shaped, KeyboardNotices
  <1>2. kb' = [kb EXCEPT !.mode = "taking", !.answer = <<>>] /\ fw' = [fw EXCEPT !.timer = "any"]
    BY DEF KeyboardNotices
  <1>3. <<>> \in Seq(ByteBits) /\ Len(<<>>) = 0
    BY EmptySeq
  <1>4. kb' \in KeyboardState /\ kb'.mode = "taking" /\ kb'.bits = <<>> /\ kb'.answer = <<>>
        /\ kb'.wants = kb.wants /\ kb'.lamps = kb.lamps /\ kb'.keys = kb.keys
    BY <1>1, <1>2, <1>3 DEF KeyboardState
  <1>5. fw' \in Firmware /\ Stays(fw') = Stays(fw) /\ Partial(fw') = Partial(fw)
    BY <1>1, <1>2 DEF Firmware, Stays, Partial
  <1>6. fw'.bitNum = fw.bitNum /\ fw'.odd = fw.odd /\ fw'.sendError = fw.sendError
        /\ fw'.line = fw.line /\ fw'.sendMode = fw.sendMode
    BY <1>1, <1>2 DEF Firmware
  <1>7. TypeOK'
    BY <1>1, <1>4, <1>5 DEF Basic, TypeOK
  <1>8. Shaped'
    BY <1>1, <1>3, <1>4, <1>6 DEF Basic, Shaped
  <1>9. Framed'
    BY <1>4 DEF Framed
  <1> QED  BY <1>4, <1>5, <1>6, <1>7, <1>8, <1>9 DEF Basic

LEMMA NextByteTyped ==
  ASSUME Basic
  PROVE  /\ NextByte \in Seq(ByteBits)
         /\ NextByte # <<>> => Head(NextByte) \in ByteBits
  <1>1. NextByte \in Seq(ByteBits)
    BY EmptySeq DEF Basic, TypeOK, KeyboardState, NextByte
  <1> QED  BY <1>1, HeadTailProperties

LEMMA BeginsBasic ==
  ASSUME Basic, KeyboardBegins
  PROVE  Basic' /\ Stays(fw') = Stays(fw) /\ Partial(fw') = Partial(fw)
         /\ fw'.bitNum = fw.bitNum /\ fw'.odd = fw.odd /\ fw'.sendError = fw.sendError
         /\ fw'.line = fw.line
         /\ kb'.mode = "sending" /\ kb'.bits = Frame(Head(NextByte)) /\ Len(kb'.bits) = 11
         /\ NextByte' = NextByte /\ kb'.answer = kb.answer
         /\ kb'.wants = kb.wants /\ kb'.lamps = kb.lamps
  <1>1. kb \in KeyboardState /\ fw \in Firmware /\ NextByte # <<>>
        /\ UNCHANGED <<main, hist>> /\ kb.keys \in Seq(Keys)
    BY DEF Basic, TypeOK, Shaped, KeyboardBegins
  <1>2. kb' = [kb EXCEPT !.mode = "sending", !.bits = Frame(Head(NextByte))]
        /\ fw' = [fw EXCEPT !.timer = "any"]
    BY DEF KeyboardBegins
  <1>3. Head(NextByte) \in ByteBits
    BY <1>1, NextByteTyped
  <1>4. Frame(Head(NextByte)) \in Seq(Bit) /\ Len(Frame(Head(NextByte))) = 11
    BY <1>3, FrameBits
  <1> DEFINE F == Frame(Head(NextByte))
  <1> HIDE DEF F
  <1>5. kb' \in KeyboardState /\ kb'.mode = "sending" /\ kb'.bits = F
        /\ kb'.wants = kb.wants /\ kb'.lamps = kb.lamps /\ kb'.keys = kb.keys
        /\ kb'.answer = kb.answer
    BY <1>1, <1>2, <1>4 DEF KeyboardState, F
  <1>6. NextByte' = NextByte
    BY <1>5 DEF NextByte
  <1>7. fw' \in Firmware /\ Stays(fw') = Stays(fw) /\ Partial(fw') = Partial(fw)
    BY <1>1, <1>2 DEF Firmware, Stays, Partial
  <1>8. fw'.bitNum = fw.bitNum /\ fw'.odd = fw.odd /\ fw'.sendError = fw.sendError
        /\ fw'.line = fw.line /\ fw'.sendMode = fw.sendMode
    BY <1>1, <1>2 DEF Firmware
  <1>9. TypeOK'
    BY <1>1, <1>5, <1>7 DEF Basic, TypeOK
  <1>10. Shaped'
    BY <1>1, <1>5, <1>8 DEF Basic, Shaped
  <1>11. Framed'
    <2>1. Len(kb'.bits) = 11 /\ kb'.bits = F /\ F = Frame(Head(NextByte'))
      BY <1>4, <1>5, <1>6 DEF F
    <2>2. F # <<>>
      BY <1>4, EmptySeq DEF F
    <2>3. \A i \in 1 .. 11 : kb'.bits[i] = Frame(Head(NextByte'))[11 - 11 + i]
      BY <2>1
    <2> QED  BY <1>1, <1>6, <2>1, <2>2, <2>3 DEF Framed
  <1> QED  BY <1>4, <1>5, <1>6, <1>7, <1>8, <1>9, <1>10, <1>11 DEF Basic, F

\* A clock of a command, as both ends see it.
LEMMA TakesBasic ==
  ASSUME Basic, NEW way \in Ways, KeyboardTakes(way)
  PROVE  /\ Basic' /\ kb'.mode # "sending"
         /\ \E level \in Bit :
              /\ kb' = Look(kb, level) /\ level \in {fw.line, fw'.line}
              /\ way = "prompt" \/ way = "pcint" => level = fw'.line
         /\ fw' \in AfterEdge(IF Acknowledges THEN 0 ELSE 1, way)
         /\ UNCHANGED main /\ kb.mode = "taking"
         /\ hist'.lost = (IF way = "lost" THEN hist.lost + 1 ELSE hist.lost)
         /\ hist'.late = (IF way \in {"late", "pcint"} THEN hist.late + 1 ELSE hist.late)
         /\ hist'.stray = hist.stray /\ hist'.cut = hist.cut /\ hist'.stale = hist.stale
         /\ hist'.misread = hist.misread
         /\ hist'.alien = (hist.alien \/ (Obeys /\ SubSeq(kb.bits, 1, 8) # fw.dataToSend))
  <1> DEFINE bit == IF Acknowledges THEN 0 ELSE 1
             late == IF way \in {"late", "pcint"} THEN hist.late + 1 ELSE hist.late
             lost == IF way = "lost" THEN hist.lost + 1 ELSE hist.lost
             alien == hist.alien \/ (Obeys /\ SubSeq(kb.bits, 1, 8) # fw.dataToSend)
  <1>1. kb \in KeyboardState /\ fw \in Firmware /\ hist \in HostHistory /\ main \in MainState
        /\ kb.mode = "taking" /\ kb.keys \in Seq(Keys) /\ Len(kb.bits) <= 10
    BY DEF Basic, TypeOK, Shaped, KeyboardTakes
  <1>2. bit \in Bit
    BY DEF Bit
  <1>3. PICK new \in AfterEdge(bit, way) :
          /\ fw' = new
          /\ \E level \in (IF way \in {"prompt", "pcint"} THEN {new.line}
                           ELSE IF way = "lost" THEN {fw.line} ELSE {fw.line, new.line}) :
               kb' = Look(kb, level)
    BY DEF KeyboardTakes
  <1>4. /\ hist' = [hist EXCEPT !.late = late, !.lost = lost, !.alien = alien]
        /\ UNCHANGED main
    BY DEF KeyboardTakes
  <1> HIDE DEF bit
  <1>5. /\ fw' \in Firmware
        /\ fw.sendMode = 0 => fw'.sendMode = 0 /\ fw'.sendError = fw.sendError
        /\ fw'.sendMode = 1 => fw'.bitNum <= 10
    BY <1>2, <1>3, EdgeCases DEF Basic
  <1>6. fw.line \in Bit /\ fw'.line \in Bit
    BY <1>1, <1>5 DEF Firmware
  <1>7. PICK level \in Bit : kb' = Look(kb, level) /\ level \in {fw.line, fw'.line}
                             /\ (way = "prompt" \/ way = "pcint" => level = fw'.line)
    BY <1>3, <1>6
  <1>8. late \in Nat /\ lost \in Nat /\ alien \in BOOLEAN
    BY <1>1 DEF HostHistory
  <1> HIDE DEF late, lost, alien
  <1>9. hist' \in HostHistory /\ hist'.late = late /\ hist'.lost = lost /\ hist'.alien = alien
        /\ hist'.stray = hist.stray /\ hist'.cut = hist.cut /\ hist'.stale = hist.stale
        /\ hist'.misread = hist.misread
    BY <1>1, <1>4, <1>8 DEF HostHistory
  <1>10. kb' \in KeyboardState /\ kb'.keys \in Seq(Keys)
         /\ \/ kb'.mode = "idle" /\ kb'.bits = <<>>
            \/ kb'.mode = "taking" /\ Len(kb'.bits) <= 10
    <2>1. kb' \in KeyboardState /\ kb'.keys \in Seq(Keys)
      BY <1>1, <1>7, LookCases
    <2>2. CASE Len(kb.bits) < 10
      <3>1. kb'.mode = "taking" /\ kb'.bits = Append(kb.bits, level)
        BY <1>1, <1>7, <2>2, LookCases
      <3>2. kb.bits \in Seq(Bit)
        BY <1>1 DEF KeyboardState
      <3>3. Len(Append(kb.bits, level)) = Len(kb.bits) + 1 /\ Len(kb.bits) \in Nat
        BY <3>2, AppendProperties, LenProperties
      <3> QED  BY <2>1, <2>2, <3>1, <3>3
    <2>3. CASE Len(kb.bits) = 10 /\ kb.bits[10] = 1
      <3> DEFINE o == Obey(kb, SubSeq(kb.bits, 1, 8), kb.bits[9])
      <3>1. kb' = [o EXCEPT !.mode = "idle", !.bits = <<>>]
        BY <1>1, <1>7, <2>3, LookCases
      <3>2. kb.bits \in Seq(Bit)
        BY <1>1 DEF KeyboardState
      <3>3. o \in KeyboardState
        BY <1>1, <2>3, <3>2, FirstEight, ObeyTyped
      <3> HIDE DEF o
      <3> QED  BY <2>1, <3>1, <3>3 DEF KeyboardState
    <2>4. CASE Len(kb.bits) = 10 /\ kb.bits[10] # 1 /\ level = 1
      <3>1. kb' = [kb EXCEPT !.answer = <<PS2_RESEND>>, !.mode = "idle", !.bits = <<>>]
        BY <1>1, <1>7, <2>4, LookCases
      <3> QED  BY <1>1, <2>1, <3>1 DEF KeyboardState
    <2>5. CASE Len(kb.bits) = 10 /\ kb.bits[10] # 1 /\ level # 1
      <3>1. kb' = kb
        BY <1>1, <1>7, <2>5, LookCases
      <3> QED  BY <1>1, <2>1, <3>1
    <2>6. Len(kb.bits) \in Nat
      BY <1>1, LenProperties DEF KeyboardState
    <2>7. Len(kb.bits) < 10 \/ Len(kb.bits) = 10
      <3> DEFINE n == Len(kb.bits)
      <3>1. n \in Nat /\ n <= 10
        BY <1>1, <2>6
      <3> HIDE DEF n
      <3>2. n < 10 \/ n = 10
        BY <3>1
      <3> QED  BY <3>2 DEF n
    <2> QED  BY <2>2, <2>3, <2>4, <2>5, <2>7
  <1>11. TypeOK'
    BY <1>1, <1>4, <1>5, <1>9, <1>10 DEF TypeOK
  <1>12. Shaped'
    <2>1. main' = main
      BY <1>4
    <2>2. main.pc # "sending" => fw.sendMode = 0
      BY DEF Basic, Shaped
    <2>3. main.pc = "begin" /\ main.phase = "reset" => fw.sendError = 0
      BY DEF Basic, Shaped
    <2>4. main.pc = "begin" => main.tries >= 1
      BY DEF Basic, Shaped
    <2> QED  BY <1>5, <1>10, <2>1, <2>2, <2>3, <2>4 DEF Shaped
  <1>13. Framed'
    BY <1>10 DEF Framed
  <1> QED
    BY <1>1, <1>3, <1>4, <1>7, <1>9, <1>10, <1>11, <1>12, <1>13
    DEF Basic, bit, late, lost, alien

\* A clock of a frame, as both ends see it.
LEMMA SendsBasic ==
  ASSUME Basic, NEW way \in {"prompt", "lost"}, KeyboardSends(way)
  PROVE  /\ Basic' /\ kb.mode = "sending"
         /\ Head(kb.bits) = Frame(Head(NextByte))[12 - Len(kb.bits)]
         /\ Len(kb.bits) \in 1 .. 11 /\ Head(kb.bits) \in Bit
         /\ fw' \in AfterEdge(Head(kb.bits), way)
         /\ kb'.wants = kb.wants /\ kb'.lamps = kb.lamps /\ UNCHANGED main
         /\ Len(kb.bits) > 1 =>
              /\ kb'.mode = "sending" /\ Len(kb'.bits) = Len(kb.bits) - 1
              /\ NextByte' = NextByte /\ kb'.answer = kb.answer
         /\ ~(Len(kb.bits) > 1) =>
              /\ Len(kb.bits) = 1 /\ kb'.mode = "idle"
              /\ kb'.answer = IF kb.answer # <<>> THEN Tail(kb.answer) ELSE kb.answer
              /\ kb.answer = <<>> => Head(NextByte) \in Keys
              /\ kb.answer # <<>> => Head(NextByte) = Head(kb.answer)
         /\ hist'.lost = (IF way = "lost" THEN hist.lost + 1 ELSE hist.lost)
         /\ hist'.late = hist.late /\ hist'.alien = hist.alien
         /\ hist'.stray = hist.stray /\ hist'.cut = hist.cut /\ hist'.stale = hist.stale
         /\ hist'.misread = hist.misread
  <1> DEFINE n == Len(kb.bits)
             b == Head(NextByte)
             lost == IF way = "lost" THEN hist.lost + 1 ELSE hist.lost
  <1>1. kb \in KeyboardState /\ fw \in Firmware /\ hist \in HostHistory /\ main \in MainState
        /\ kb.mode = "sending" /\ kb.keys \in Seq(Keys) /\ UNCHANGED main
        /\ way \in Ways
    BY DEF Basic, TypeOK, Shaped, KeyboardSends, Ways
  <1>2. NextByte # <<>> /\ kb.bits # <<>> /\ n <= 11
        /\ \A i \in 1 .. n : kb.bits[i] = Frame(b)[11 - n + i]
    BY <1>1 DEF Basic, Framed
  <1>3. kb.bits \in Seq(Bit) /\ kb.answer \in Seq(ByteBits) /\ b \in ByteBits
    BY <1>1, <1>2, NextByteTyped DEF KeyboardState
  <1>4. n \in 1 .. 11 /\ Head(kb.bits) = kb.bits[1] /\ Tail(kb.bits) \in Seq(Bit)
        /\ Len(Tail(kb.bits)) = n - 1
        /\ \A i \in 1 .. n - 1 : Tail(kb.bits)[i] = kb.bits[i + 1]
    <2>1. n \in Nat /\ n # 0
      BY <1>2, <1>3, LenProperties, EmptySeq
    <2>2. Head(kb.bits) = kb.bits[1] /\ Tail(kb.bits) \in Seq(Bit)
          /\ Len(Tail(kb.bits)) = n - 1
          /\ \A i \in 1 .. n - 1 : Tail(kb.bits)[i] = kb.bits[i + 1]
      BY <1>2, <1>3, HeadTailProperties, LenProperties
    <2> HIDE DEF n
    <2>3. n \in 1 .. 11
      BY <1>2, <2>1
    <2> QED  BY <2>2, <2>3
  <1>5. Head(kb.bits) = Frame(b)[12 - n] /\ Head(kb.bits) \in Bit
    <2> HIDE DEF n, b
    <2>1. kb.bits[1] = Frame(b)[11 - n + 1] /\ 11 - n + 1 = 12 - n /\ 12 - n \in 1 .. 11
      BY <1>2, <1>4
    <2>2. Frame(b) \in Seq(Bit) /\ Len(Frame(b)) = 11
      BY <1>3, FrameBits
    <2>3. Frame(b)[12 - n] \in Bit
      BY <2>1, <2>2, ElementOfSeq
    <2> QED  BY <1>4, <2>1, <2>3
  <1>6. fw' \in AfterEdge(Head(kb.bits), way)
    BY DEF KeyboardSends
  <1>7. /\ fw' \in Firmware
        /\ fw.sendMode = 0 => fw'.sendMode = 0 /\ fw'.sendError = fw.sendError
        /\ fw'.sendMode = 1 => fw'.bitNum <= 10
    BY <1>1, <1>5, <1>6, EdgeCases DEF Basic
  <1>8. lost \in Nat /\ hist' = [hist EXCEPT !.lost = lost]
    BY <1>1 DEF KeyboardSends, HostHistory
  <1> HIDE DEF lost
  <1>9. hist' \in HostHistory /\ hist'.lost = lost /\ hist'.late = hist.late
        /\ hist'.alien = hist.alien
        /\ hist'.stray = hist.stray /\ hist'.cut = hist.cut /\ hist'.stale = hist.stale
        /\ hist'.misread = hist.misread
    BY <1>1, <1>8 DEF HostHistory
  <1>10. ASSUME n > 1
         PROVE  /\ kb' \in KeyboardState /\ kb'.keys = kb.keys
                /\ kb'.mode = "sending" /\ kb'.bits = Tail(kb.bits)
                /\ kb'.answer = kb.answer /\ kb'.wants = kb.wants /\ kb'.lamps = kb.lamps
                /\ NextByte' = NextByte
    <2>1. kb' = [kb EXCEPT !.bits = Tail(kb.bits)]
      BY <1>10 DEF KeyboardSends
    <2> DEFINE t == Tail(kb.bits)
    <2> HIDE DEF t
    <2>2. kb' \in KeyboardState /\ kb'.keys = kb.keys
          /\ kb'.mode = kb.mode /\ kb'.bits = t
          /\ kb'.answer = kb.answer /\ kb'.wants = kb.wants /\ kb'.lamps = kb.lamps
      BY <1>1, <1>4, <2>1 DEF KeyboardState, t
    <2>3. NextByte' = NextByte
      BY <2>2 DEF NextByte
    <2> QED  BY <1>1, <2>2, <2>3 DEF t
  <1>11. ASSUME ~(n > 1)
         PROVE  /\ kb' \in KeyboardState /\ kb'.keys \in Seq(Keys)
                /\ n = 1 /\ kb'.mode = "idle" /\ kb'.bits = <<>>
                /\ kb'.answer = IF kb.answer # <<>> THEN Tail(kb.answer) ELSE kb.answer
                /\ kb'.wants = kb.wants /\ kb'.lamps = kb.lamps
                /\ kb.answer = <<>> => b \in Keys
                /\ kb.answer # <<>> => b = Head(kb.answer)
    <2> DEFINE a == IF kb.answer # <<>> THEN Tail(kb.answer) ELSE kb.answer
               k == IF kb.answer = <<>> THEN Tail(kb.keys) ELSE kb.keys
    <2>1. kb' = [kb EXCEPT !.bits = <<>>, !.mode = "idle", !.answer = a, !.keys = k]
      BY <1>11 DEF KeyboardSends
    <2>2. a \in Seq(ByteBits)
      BY <1>3, HeadTailProperties
    <2>3. kb.answer = <<>> => kb.keys # <<>> /\ NextByte = kb.keys
      BY <1>2 DEF NextByte
    <2>4. kb.keys # <<>> => Tail(kb.keys) \in Seq(Keys) /\ Head(kb.keys) \in Keys
      BY <1>1, HeadTailProperties
    <2>5. k \in Seq(Keys) /\ k \in Seq(ByteBits)
      <3>1. kb.keys \in Seq(ByteBits) /\ (kb.keys # <<>> => Tail(kb.keys) \in Seq(ByteBits))
        BY <1>1, HeadTailProperties DEF KeyboardState
      <3> QED  BY <1>1, <2>3, <2>4, <3>1
    <2>6. <<>> \in Seq(Bit)
      BY EmptySeq
    <2>7. kb.answer # <<>> => NextByte = kb.answer
      BY DEF NextByte
    <2> HIDE DEF a, k, n
    <2>8. kb' \in KeyboardState /\ kb'.keys = k /\ kb'.mode = "idle" /\ kb'.bits = <<>>
          /\ kb'.answer = a /\ kb'.wants = kb.wants /\ kb'.lamps = kb.lamps
      BY <1>1, <2>1, <2>2, <2>5, <2>6 DEF KeyboardState
    <2>9. n = 1
      BY <1>4, <1>11
    <2> QED  BY <2>3, <2>4, <2>5, <2>7, <2>8, <2>9 DEF a
  <1>12. kb' \in KeyboardState /\ kb'.keys \in Seq(Keys)
         /\ \/ kb'.mode = "idle" /\ kb'.bits = <<>>
            \/ kb'.mode = "sending"
    BY <1>1, <1>10, <1>11
  <1>13. TypeOK'
    BY <1>1, <1>7, <1>9, <1>12 DEF TypeOK
  <1>14. Shaped'
    <2>1. main' = main
      BY <1>1
    <2>2. main.pc # "sending" => fw.sendMode = 0
      BY DEF Basic, Shaped
    <2>3. main.pc = "begin" /\ main.phase = "reset" => fw.sendError = 0
      BY DEF Basic, Shaped
    <2>4. main.pc = "begin" => main.tries >= 1
      BY DEF Basic, Shaped
    <2> QED  BY <1>7, <1>12, <2>1, <2>2, <2>3, <2>4 DEF Shaped
  <1>15. Framed'
    <2>1. CASE n > 1
      <3> DEFINE m == n - 1
                 F == Frame(b)
      <3>1. kb'.bits = Tail(kb.bits) /\ NextByte' = NextByte
        BY <1>10, <2>1
      <3>2. Len(kb'.bits) = m
        BY <1>4, <3>1
      <3>3. Frame(Head(NextByte')) = F
        BY <3>1
      <3>4. kb'.bits # <<>>
        BY <1>4, <2>1, <3>2, EmptySeq
      <3> HIDE DEF n, F
      <3>5. m <= 11 /\ m \in Nat
        BY <1>4, <2>1
      <3>6. \A i \in 1 .. m : kb'.bits[i] = F[11 - m + i]
        <4> SUFFICES ASSUME NEW i \in 1 .. m PROVE kb'.bits[i] = F[11 - m + i]
          OBVIOUS
        <4>1. i \in 1 .. n - 1 /\ i + 1 \in 1 .. n /\ 11 - n + (i + 1) = 11 - m + i
          BY <1>4
        <4>2. kb'.bits[i] = kb.bits[i + 1]
          BY <1>4, <3>1, <4>1
        <4>3. kb.bits[i + 1] = F[11 - n + (i + 1)]
          BY <1>2, <4>1 DEF F
        <4> QED  BY <4>1, <4>2, <4>3
      <3>7. \A i \in 1 .. Len(kb'.bits) :
              kb'.bits[i] = Frame(Head(NextByte'))[11 - Len(kb'.bits) + i]
        BY <3>2, <3>3, <3>6
      <3> HIDE DEF m
      <3> QED  BY <1>2, <3>1, <3>2, <3>4, <3>5, <3>7 DEF Framed
    <2>2. CASE ~(n > 1)
      <3>1. kb'.mode = "idle"
        BY <1>11, <2>2
      <3> QED  BY <3>1 DEF Framed
    <2> QED  BY <2>1, <2>2
  <1>16. Basic'
    BY <1>13, <1>14, <1>15 DEF Basic
  <1>17. n > 1 => kb'.mode = "sending" /\ Len(kb'.bits) = n - 1 /\ NextByte' = NextByte
                  /\ kb'.answer = kb.answer
    BY <1>4, <1>10
  <1>18. kb'.wants = kb.wants /\ kb'.lamps = kb.lamps
    BY <1>10, <1>11
  <1>19. ~(n > 1) => n = 1 /\ kb'.mode = "idle"
            /\ kb'.answer = (IF kb.answer # <<>> THEN Tail(kb.answer) ELSE kb.answer)
            /\ (kb.answer = <<>> => b \in Keys)
            /\ (kb.answer # <<>> => b = Head(kb.answer))
    BY <1>11
  <1> QED
    BY <1>1, <1>4, <1>5, <1>6, <1>9, <1>16, <1>17, <1>18, <1>19 DEF lost

\* The main loop starts a command.
LEMMA BeginBasic ==
  ASSUME Basic, NEW stray \in {"none", "before", "after"}, BeginSend(stray)
  PROVE  /\ Basic' /\ main.pc = "begin" /\ main.tries >= 1
         /\ kb'.mode = "idle" /\ kb'.bits = <<>> /\ kb'.answer = kb.answer
         /\ kb'.wants = kb.wants /\ kb'.lamps = kb.lamps
         /\ main'.pc = "sending" /\ main'.tries = main.tries - 1
         /\ main'.phase = main.phase /\ main'.led = main.led
         /\ hist'.lost = hist.lost /\ hist'.late = hist.late /\ hist'.alien = hist.alien
         /\ hist'.misread = hist.misread
         /\ stray # "none" => hist'.stray = hist.stray + 1
         /\ stray = "none" => hist'.stray = hist.stray
         /\ hist'.cut = (hist.cut \/ Len(kb.bits) \in 1 .. 10)
         /\ hist'.stale = (hist.stale \/ fw.pbuf # <<>>)
         /\ ToSend' = ToSend
         /\ stray = "none" =>
              /\ Stays(fw') = Stays(fw) /\ fw'.data = fw.data /\ fw'.parity = fw.parity
              /\ fw'.sendMode = 1 /\ fw'.dataToSend = ToSend /\ fw'.bitNum = 0
              /\ fw'.odd = 1 /\ fw'.line = 0 /\ fw'.sendError = 0
  <1> DEFINE f == [fw EXCEPT !.error = 0, !.sendError = IF main.phase = "reset" THEN @ ELSE 0]
             B == ToSend
             strays == IF stray = "none" THEN hist.stray ELSE hist.stray + 1
             cut == hist.cut \/ Len(kb.bits) \in 1 .. 10
             stale == hist.stale \/ fw.pbuf # <<>>
  <1>1. kb \in KeyboardState /\ fw \in Firmware /\ hist \in HostHistory /\ main \in MainState
        /\ kb.keys \in Seq(Keys) /\ main.pc = "begin"
    BY DEF Basic, TypeOK, Shaped, BeginSend
  <1>2. main.phase = "reset" => fw.sendError = 0
    BY <1>1 DEF Basic, Shaped
  <1>3. f \in Firmware /\ f.sendError = 0 /\ Stays(f) = Stays(fw) /\ f.data = fw.data
        /\ f.parity = fw.parity
    BY <1>1, <1>2 DEF Firmware, Bit, Stays
  <1>4. B \in ByteBits
    BY <1>1, ToSendTyped
  <1>5. main' = [main EXCEPT !.pc = "sending", !.tries = main.tries - 1]
    BY DEF BeginSend
  <1>6. main.tries - 1 \in 0 .. Tries /\ main.tries >= 1
    <2>1. main.tries \in 0 .. Tries /\ main.tries >= 1
      BY <1>1 DEF MainState, Basic, Shaped
    <2> QED  BY <2>1, HostBounds
  <1>7. main' \in MainState /\ main'.pc = "sending" /\ main'.tries = main.tries - 1
         /\ main'.phase = main.phase /\ main'.led = main.led
    BY <1>1, <1>5, <1>6 DEF MainState
  <1>8. /\ stray = "none" => fw' = init_ps2_host_send(f, B)
        /\ stray = "before" => \E level \in Bit : fw' = init_ps2_host_send(Received(f, level), B)
        /\ stray = "after" => fw' = sendBit(init_ps2_host_send(f, B), TRUE, 0)
    <2>1. "none" # "before" /\ "none" # "after" /\ "before" # "after"
      OBVIOUS
    <2>2. (IF kb.mode = "sending" THEN Bit ELSE {1}) \subseteq Bit
      BY DEF Bit
    <2> QED  BY <2>1, <2>2 DEF BeginSend
  <1> HIDE DEF f, B
  <1>9. stray = "none" =>
          /\ fw' \in Firmware /\ Stays(fw') = Stays(fw) /\ fw'.data = fw.data
          /\ fw'.parity = fw.parity /\ fw'.sendMode = 1 /\ fw'.dataToSend = B /\ fw'.bitNum = 0
          /\ fw'.odd = 1 /\ fw'.line = 0 /\ fw'.sendError = 0
    BY <1>3, <1>4, <1>8, BeginTyped
  <1>10. stray = "before" => fw' \in Firmware /\ fw'.bitNum = 0
    <2> SUFFICES ASSUME stray = "before" PROVE fw' \in Firmware /\ fw'.bitNum = 0
      OBVIOUS
    <2>1. PICK level \in Bit : fw' = init_ps2_host_send(Received(f, level), B)
      BY <1>8
    <2>2. Received(f, level) \in Firmware
      BY <1>3, ReceivedCases
    <2> QED  BY <1>4, <2>1, <2>2, BeginTyped
  <1>11. stray = "after" => fw' \in Firmware /\ fw'.bitNum = 1
    <2> SUFFICES ASSUME stray = "after" PROVE fw' \in Firmware /\ fw'.bitNum = 1
      OBVIOUS
    <2> DEFINE g == init_ps2_host_send(f, B)
    <2>1. g \in Firmware /\ g.bitNum = 0
      BY <1>3, <1>4, BeginTyped
    <2>2. fw' = sendBit(g, TRUE, 0) /\ 0 \in Bit /\ TRUE \in BOOLEAN
      BY <1>8 DEF Bit
    <2> HIDE DEF g
    <2>3. g.bitNum <= 10
      BY <2>1
    <2>4. fw' \in Firmware /\ Sends(g, TRUE, fw')
      BY <2>1, <2>2, <2>3, SendBitCases
    <2>5. fw'.bitNum = g.bitNum + 1
      BY <2>4 DEF Sends
    <2> QED  BY <2>1, <2>4, <2>5
  <1>12. fw' \in Firmware /\ fw'.bitNum <= 10
    BY <1>9, <1>10, <1>11
  <1>13. kb' \in KeyboardState /\ kb'.mode = "idle" /\ kb'.bits = <<>>
         /\ kb'.answer = kb.answer /\ kb'.keys = kb.keys
         /\ kb'.wants = kb.wants /\ kb'.lamps = kb.lamps
    <2>1. <<>> \in Seq(Bit) /\ kb' = [kb EXCEPT !.mode = "idle", !.bits = <<>>]
      BY EmptySeq DEF BeginSend, clock_lo
    <2> QED  BY <1>1, <2>1 DEF KeyboardState
  <1>14. hist' = [hist EXCEPT !.stray = strays, !.cut = cut, !.stale = stale]
    BY DEF BeginSend, pbuf_has_data
  <1>15. strays \in Nat /\ cut \in BOOLEAN /\ stale \in BOOLEAN
    BY <1>1 DEF HostHistory
  <1> HIDE DEF strays, cut, stale
  <1>16. hist' \in HostHistory /\ hist'.stray = strays /\ hist'.cut = cut /\ hist'.stale = stale
         /\ hist'.lost = hist.lost /\ hist'.late = hist.late /\ hist'.alien = hist.alien
         /\ hist'.misread = hist.misread
    BY <1>1, <1>14, <1>15 DEF HostHistory
  <1>17. Basic'
    <2>1. TypeOK'
      BY <1>7, <1>12, <1>13, <1>16 DEF TypeOK
    <2>2. Shaped'
      BY <1>1, <1>7, <1>12, <1>13 DEF Shaped
    <2>3. Framed'
      BY <1>13 DEF Framed
    <2> QED  BY <2>1, <2>2, <2>3 DEF Basic
  <1>18. ToSend' = ToSend
    BY <1>7 DEF ToSend
  <1> QED
    BY <1>1, <1>6, <1>7, <1>9, <1>13, <1>16, <1>17, <1>18 DEF strays, cut, stale, B

LEMMA ReturnsBasic ==
  ASSUME Basic, SendReturns
  PROVE  /\ Basic' /\ main.pc = "sending" /\ fw.sendMode = 0
         /\ UNCHANGED <<kb, hist>> /\ Rest(fw') = Rest(fw)
         /\ fw'.state = fw.state /\ fw'.data = fw.data /\ fw'.parity = fw.parity
         /\ fw'.inhibit = fw.inhibit /\ fw'.pbuf = fw.pbuf
         /\ fw.errState = 0 => fw'.errState = 0
         /\ main'.pc = "answer" /\ main'.phase = main.phase /\ main'.tries = main.tries
         /\ main'.led = main.led
  <1>1. fw \in Firmware /\ main \in MainState /\ fw' = Unlatch(fw)
        /\ main' = [main EXCEPT !.pc = "answer"] /\ UNCHANGED <<kb, hist>>
        /\ main.pc = "sending" /\ fw.sendMode = 0
    BY DEF Basic, TypeOK, SendReturns
  <1>2. /\ fw' \in Firmware /\ Rest(fw') = Rest(fw)
        /\ fw'.state = fw.state /\ fw'.data = fw.data /\ fw'.parity = fw.parity
        /\ fw'.inhibit = fw.inhibit /\ fw'.pbuf = fw.pbuf
        /\ fw.errState = 0 => fw'.errState = 0
    BY <1>1, UnlatchTyped
  <1>3. main' \in MainState /\ main'.pc = "answer" /\ main'.phase = main.phase
        /\ main'.tries = main.tries /\ main'.led = main.led
    BY <1>1 DEF MainState
  <1>4. fw'.sendMode = 0
    BY <1>1, <1>2 DEF Rest
  <1>5. TypeOK'
    BY <1>1, <1>2, <1>3 DEF Basic, TypeOK
  <1>6. Shaped'
    BY <1>1, <1>3, <1>4 DEF Basic, Shaped
  <1>7. Framed'
    BY <1>1 DEF Basic, Framed, NextByte
  <1> QED  BY <1>1, <1>2, <1>3, <1>5, <1>6, <1>7 DEF Basic

\* What the main loop does with an answer.
LEMMA ProceedCases ==
  ASSUME NEW m \in MainState, NEW ack \in BOOLEAN
  PROVE  /\ Proceed(m, ack) \in MainState /\ Proceed(m, ack).led = m.led
         /\ m.phase = "reset" =>
              Proceed(m, ack).pc = "booting" /\ Proceed(m, ack).phase = "reset"
         /\ m.phase # "reset" /\ m.tries > 0 /\ ~ack =>
              /\ Proceed(m, ack).pc = "begin" /\ Proceed(m, ack).phase = m.phase
              /\ Proceed(m, ack).tries = m.tries
         /\ m.phase = "command" /\ ~(m.tries > 0 /\ ~ack) =>
              /\ Proceed(m, ack).pc = "begin" /\ Proceed(m, ack).phase = "argument"
              /\ Proceed(m, ack).tries = Tries
         /\ m.phase = "argument" /\ ~(m.tries > 0 /\ ~ack) =>
              /\ Proceed(m, ack).pc = "loop" /\ Proceed(m, ack).phase = "argument"
              /\ Proceed(m, ack).tries = m.tries
  <1> DEFINE z == Proceed(m, ack)
  <1>1. m.phase \in {"reset", "command", "argument"} /\ Tries \in 0 .. Tries
    BY HostBounds DEF MainState
  <1>2. CASE m.phase = "reset"
    <2>1. z = [m EXCEPT !.pc = "booting"]
      BY <1>2 DEF Proceed
    <2> QED  BY <1>2, <2>1 DEF MainState
  <1>3. CASE m.phase # "reset" /\ m.tries > 0 /\ ~ack
    <2>1. z = [m EXCEPT !.pc = "begin"]
      BY <1>3 DEF Proceed
    <2> QED  BY <1>3, <2>1 DEF MainState
  <1>4. CASE m.phase = "command" /\ ~(m.tries > 0 /\ ~ack)
    <2>1. z = [m EXCEPT !.pc = "begin", !.phase = "argument", !.tries = Tries]
      BY <1>4 DEF Proceed
    <2> QED  BY <1>1, <1>4, <2>1 DEF MainState
  <1>5. CASE m.phase = "argument" /\ ~(m.tries > 0 /\ ~ack)
    <2>1. z = [m EXCEPT !.pc = "loop"]
      BY <1>5 DEF Proceed
    <2> QED  BY <1>5, <2>1 DEF MainState
  <1> QED  BY <1>1, <1>2, <1>3, <1>4, <1>5

\* The main loop goes on with what ack says of the answer.
LEMMA ProceedBasic ==
  ASSUME Basic, main.pc = "answer", NEW ack \in BOOLEAN, main' = Proceed(main, ack),
         fw' \in Firmware, fw'.sendMode = fw.sendMode, UNCHANGED <<kb, hist>>
  PROVE  Basic'
  <1>1. main \in MainState /\ fw.sendMode = 0
    BY DEF Basic, TypeOK, Shaped
  <1>2. main' \in MainState /\ main'.pc # "sending"
        /\ (main'.pc = "begin" => main'.phase # "reset" /\ main'.tries >= 1)
    <2>1. main.phase \in {"reset", "command", "argument"} /\ main.tries \in Nat
      BY <1>1, HostBounds DEF MainState
    <2>2. CASE main.phase = "reset"
      BY <1>1, <2>2, ProceedCases
    <2>3. CASE main.phase # "reset" /\ main.tries > 0 /\ ~ack
      BY <1>1, <2>1, <2>3, ProceedCases
    <2>4. CASE main.phase = "command" /\ ~(main.tries > 0 /\ ~ack)
      BY <1>1, <2>4, ProceedCases, HostBounds
    <2>5. CASE main.phase = "argument" /\ ~(main.tries > 0 /\ ~ack)
      BY <1>1, <2>5, ProceedCases
    <2> QED  BY <2>1, <2>2, <2>3, <2>4, <2>5
  <1>3. TypeOK'
    BY <1>2 DEF Basic, TypeOK
  <1>4. Shaped'
    BY <1>1, <1>2 DEF Basic, Shaped
  <1>5. Framed'
    BY DEF Basic, Framed, NextByte
  <1> QED  BY <1>3, <1>4, <1>5 DEF Basic

LEMMA AnswerBasic ==
  ASSUME Basic, Answer
  PROVE  /\ Basic' /\ main.pc = "answer" /\ fw.pbuf # <<>> /\ UNCHANGED <<kb, hist>>
         /\ main' = Proceed(main, Head(fw.pbuf) = PS2_ACK)
         /\ fw'.pbuf = Tail(fw.pbuf) /\ Rest(fw') = Rest(fw)
         /\ fw'.state = fw.state /\ fw'.data = fw.data /\ fw'.parity = fw.parity
         /\ fw'.inhibit = fw.inhibit /\ fw'.errState = fw.errState
  <1>1. fw \in Firmware /\ fw' = pbuf_dequeue(fw) /\ fw.pbuf # <<>>
        /\ main' = Proceed(main, Head(fw.pbuf) = PS2_ACK) /\ UNCHANGED <<kb, hist>>
        /\ main.pc = "answer"
    BY DEF Basic, TypeOK, Answer, pbuf_has_data
  <1>2. /\ fw' \in Firmware /\ Rest(fw') = Rest(fw)
        /\ fw'.state = fw.state /\ fw'.data = fw.data /\ fw'.parity = fw.parity
        /\ fw'.inhibit = fw.inhibit /\ fw'.errState = fw.errState /\ fw'.pbuf = Tail(fw.pbuf)
    BY <1>1, DequeueTyped
  <1>3. fw'.sendMode = fw.sendMode
    BY <1>2 DEF Rest
  <1>4. (Head(fw.pbuf) = PS2_ACK) \in BOOLEAN
    OBVIOUS
  <1>5. Basic'
    BY <1>1, <1>2, <1>3, <1>4, ProceedBasic
  <1> QED  BY <1>1, <1>2, <1>5

LEMMA NoAnswerBasic ==
  ASSUME Basic, NoAnswer
  PROVE  /\ Basic' /\ main.pc = "answer" /\ fw.pbuf = <<>> /\ UNCHANGED <<fw, kb, hist>>
         /\ kb.answer \in {<<>>, <<BAT_OK>>} /\ main' = Proceed(main, FALSE)
  <1>1. fw \in Firmware /\ fw.pbuf = <<>> /\ UNCHANGED <<fw, kb, hist>>
        /\ kb.answer \in {<<>>, <<BAT_OK>>} /\ main' = Proceed(main, FALSE)
        /\ main.pc = "answer" /\ FALSE \in BOOLEAN
    BY DEF Basic, TypeOK, NoAnswer, pbuf_has_data
  <1>2. Basic'
    BY <1>1, ProceedBasic
  <1> QED  BY <1>1, <1>2

LEMMA BootedBasic ==
  ASSUME Basic, Booted
  PROVE  /\ Basic' /\ main.pc = "booting" /\ UNCHANGED <<fw, kb, hist>>
         /\ main'.pc = "loop" /\ main'.phase = "argument" /\ main'.led = main.led
  <1>1. main \in MainState /\ main.pc = "booting" /\ UNCHANGED <<fw, kb, hist>>
        /\ main' = [main EXCEPT !.pc = "loop", !.phase = "argument"]
    BY DEF Basic, TypeOK, Booted
  <1>2. main' \in MainState /\ main'.pc = "loop" /\ main'.phase = "argument"
        /\ main'.led = main.led
    BY <1>1 DEF MainState
  <1>3. Basic'
    BY <1>1, <1>2 DEF Basic, TypeOK, Shaped, Framed, NextByte
  <1> QED  BY <1>1, <1>2, <1>3

LEMMA ScanBasic ==
  ASSUME Basic, matrix_scan
  PROVE  /\ Basic' /\ main.pc = "loop" /\ UNCHANGED <<main, kb>> /\ Rest(fw') = Rest(fw)
         /\ fw'.state = fw.state /\ fw'.data = fw.data /\ fw'.parity = fw.parity
         /\ fw'.inhibit = fw.inhibit /\ (fw.errState = 0 => fw'.errState = 0)
         /\ fw'.pbuf = (IF fw.pbuf = <<>> THEN <<>> ELSE Tail(fw.pbuf))
         /\ hist'.lost = hist.lost /\ hist'.late = hist.late /\ hist'.alien = hist.alien
         /\ hist'.stray = hist.stray /\ hist'.cut = hist.cut /\ hist'.stale = hist.stale
         /\ (hist'.misread =>
               hist.misread \/ (fw.pbuf # <<>> /\ Head(fw.pbuf) \in {PS2_ACK, PS2_RESEND}))
  <1> DEFINE g == ps2_host_recv(fw)
             misread == hist.misread \/ (fw.error = 0 /\ fw.pbuf # <<>>
                                         /\ Head(fw.pbuf) \in {PS2_ACK, PS2_RESEND})
  <1>1. fw \in Firmware /\ hist \in HostHistory /\ fw' = Unlatch(g)
        /\ main.pc = "loop" /\ UNCHANGED <<main, kb>>
        /\ hist' = [hist EXCEPT !.misread = misread]
    BY DEF Basic, TypeOK, matrix_scan, pbuf_has_data
  <1>2. /\ g \in Firmware /\ Rest(g) = Rest(fw)
        /\ g.state = fw.state /\ g.data = fw.data /\ g.parity = fw.parity
        /\ g.inhibit = fw.inhibit /\ g.errState = fw.errState
        /\ g.pbuf = (IF fw.pbuf = <<>> THEN <<>> ELSE Tail(fw.pbuf))
    BY <1>1, DequeueTyped
  <1> HIDE DEF g
  <1>3. /\ fw' \in Firmware /\ Rest(fw') = Rest(g)
        /\ fw'.state = g.state /\ fw'.data = g.data /\ fw'.parity = g.parity
        /\ fw'.inhibit = g.inhibit /\ fw'.pbuf = g.pbuf
        /\ g.errState = 0 => fw'.errState = 0
    BY <1>1, <1>2, UnlatchTyped
  <1>4. misread \in BOOLEAN
    BY <1>1 DEF HostHistory
  <1>5. misread => hist.misread \/ (fw.pbuf # <<>> /\ Head(fw.pbuf) \in {PS2_ACK, PS2_RESEND})
    OBVIOUS
  <1> HIDE DEF misread
  <1>6. hist' \in HostHistory /\ hist'.misread = misread
        /\ hist'.lost = hist.lost /\ hist'.late = hist.late /\ hist'.alien = hist.alien
        /\ hist'.stray = hist.stray /\ hist'.cut = hist.cut /\ hist'.stale = hist.stale
    BY <1>1, <1>4 DEF HostHistory
  <1>7. fw'.sendMode = fw.sendMode /\ fw'.sendError = fw.sendError /\ fw'.bitNum = fw.bitNum
    BY <1>2, <1>3 DEF Rest
  <1>8. TypeOK'
    BY <1>1, <1>3, <1>6 DEF Basic, TypeOK
  <1>9. Shaped'
    BY <1>1, <1>7 DEF Basic, Shaped
  <1>10. Framed'
    BY <1>1 DEF Basic, Framed, NextByte
  <1> QED  BY <1>1, <1>2, <1>3, <1>5, <1>6, <1>8, <1>9, <1>10 DEF Basic

-----------------------------------------------------------------------------
(* A byte on its way to the keyboard.                                      *)

\* Two bytes that differ in their first bit only have different parities.
LEMMA ParityTells ==
  ASSUME NEW b \in ByteBits, NEW c \in ByteBits, b[1] # c[1],
         \A i \in 2 .. 8 : b[i] = c[i]
  PROVE  ParityOf(b) # ParityOf(c)
  <1> DEFINE x(k) == Ones(b, k)
             y(k) == Ones(c, k)
  <1>1. /\ x(0) = 0 /\ x(1) = x(0) + b[1] /\ x(2) = x(1) + b[2] /\ x(3) = x(2) + b[3]
        /\ x(4) = x(3) + b[4] /\ x(5) = x(4) + b[5] /\ x(6) = x(5) + b[6]
        /\ x(7) = x(6) + b[7] /\ x(8) = x(7) + b[8]
    <2>1. x(0) = 0 /\ \A k \in 0 .. 7 : x(k + 1) = x(k) + b[k + 1]
      BY OnesCounted
    <2> HIDE DEF x
    <2> QED  BY <2>1
  <1>2. /\ y(0) = 0 /\ y(1) = y(0) + c[1] /\ y(2) = y(1) + c[2] /\ y(3) = y(2) + c[3]
        /\ y(4) = y(3) + c[4] /\ y(5) = y(4) + c[5] /\ y(6) = y(5) + c[6]
        /\ y(7) = y(6) + c[7] /\ y(8) = y(7) + c[8]
    <2>1. y(0) = 0 /\ \A k \in 0 .. 7 : y(k + 1) = y(k) + c[k + 1]
      BY OnesCounted
    <2> HIDE DEF y
    <2> QED  BY <2>1
  <1>3. /\ b[1] \in Bit /\ c[1] \in Bit /\ b[2] = c[2] /\ b[3] = c[3] /\ b[4] = c[4]
        /\ b[5] = c[5] /\ b[6] = c[6] /\ b[7] = c[7] /\ b[8] = c[8]
        /\ c[2] \in Int /\ c[3] \in Int /\ c[4] \in Int /\ c[5] \in Int /\ c[6] \in Int
        /\ c[7] \in Int /\ c[8] \in Int
    BY DEF ByteBits, Bit
  <1>4. ParityOf(b) = (1 + x(8)) % 2 /\ ParityOf(c) = (1 + y(8)) % 2
    BY DEF ParityOf, Ones
  <1>5. x(8) \in Nat /\ y(8) \in Nat
    <2>1. 8 \in 0 .. 8
      OBVIOUS
    <2> QED  BY <2>1, OnesCounted
  <1> HIDE DEF x, y
  <1>6. x(8) = y(8) + 1 \/ y(8) = x(8) + 1
    BY <1>1, <1>2, <1>3 DEF Bit
  <1> DEFINE u == x(8)
             v == y(8)
  <1>7. u \in Nat /\ v \in Nat /\ (u = v + 1 \/ v = u + 1)
    BY <1>5, <1>6
  <1> HIDE DEF u, v
  <1>8. (1 + u) % 2 # (1 + v) % 2
    BY <1>7
  <1> QED  BY <1>4, <1>8 DEF u, v

\* The tenth clock has passed: what the keyboard obeys is what was sent, and
\* without a late bit it does obey.
LEMMA ObeysRight ==
  ASSUME Basic, Carries, OneLate, kb.mode = "taking", Len(kb.bits) = 10
  PROVE  /\ kb.bits[10] = 1 /\ kb.bits[9] = ParityOf(SubSeq(kb.bits, 1, 8)) =>
              SubSeq(kb.bits, 1, 8) = ToSend
         /\ fw.sendError = 0 \/ Exact(ToSend) => kb.bits[10] = 1
         /\ Exact(ToSend) => /\ kb.bits[9] = ParityOf(SubSeq(kb.bits, 1, 8))
                             /\ SubSeq(kb.bits, 1, 8) = ToSend
  <1> DEFINE s == kb.bits
             b == ToSend
             c == SubSeq(s, 1, 8)
  <1>1. s \in Seq(Bit) /\ main \in MainState /\ fw.sendError \in Bit /\ Len(s) = 10
    BY DEF Basic, TypeOK, KeyboardState, Firmware
  <1>2. b \in ByteBits
    BY <1>1, ToSendTyped
  <1>3. /\ c \in ByteBits /\ \A i \in 1 .. 8 : c[i] = s[i]
        /\ (\A i \in 1 .. 8 : s[i] = b[i]) => c = b
        /\ s[9] \in Bit /\ s[10] \in Bit
    <2> HIDE DEF s, b
    <2> QED  BY <1>1, <1>2, FirstEight
  <1>4. Exact(b) <=> \A i \in 1 .. 10 : s[i] = OnLine(b, i)
    BY <1>1 DEF Exact
  <1>5. /\ fw.sendError = 0 => \A i \in 1 .. 10 : s[i] = OnLine(b, i) \/ (i = 1 /\ s[1] = 0)
        /\ fw.sendError = 1 => s[10] = 0 \/ Exact(b)
    BY <1>1 DEF Carries
  <1> HIDE DEF s, b, c
  <1>6. OnLine(b, 9) = ParityOf(b) /\ OnLine(b, 10) = 1 /\ \A i \in 1 .. 8 : OnLine(b, i) = b[i]
    BY DEF OnLine
  <1>7. Exact(b) => s[9] = ParityOf(b) /\ s[10] = 1 /\ c = b
    BY <1>3, <1>4, <1>6
  <1>8. fw.sendError = 0 => s[10] = 1
    <2>1. 10 \in 1 .. 10 /\ 10 # 1
      OBVIOUS
    <2> QED  BY <1>5, <1>6, <2>1
  <1>9. ASSUME s[10] = 1, s[9] = ParityOf(c)
        PROVE  c = b
    <2>1. CASE fw.sendError = 1
      BY <1>5, <1>7, <1>9, <2>1
    <2>2. CASE fw.sendError = 0
      <3>1. s[9] = ParityOf(b) /\ (s[1] = b[1] \/ s[1] = 0) /\ \A i \in 2 .. 8 : s[i] = b[i]
        BY <1>5, <1>6, <2>2
      <3>2. CASE s[1] = b[1]
        BY <1>3, <3>1, <3>2
      <3>3. CASE s[1] # b[1]
        <4>1. c[1] # b[1] /\ \A i \in 2 .. 8 : c[i] = b[i]
          BY <1>3, <3>1, <3>3
        <4>2. ParityOf(c) # ParityOf(b)
          BY <1>2, <1>3, <4>1, ParityTells
        <4> QED  BY <1>9, <3>1, <4>2
      <3> QED  BY <3>2, <3>3
    <2> QED  BY <1>1, <2>1, <2>2 DEF Bit
  <1> QED  BY <1>7, <1>8, <1>9 DEF s, b, c

\* A bit of the command but the last.
LEMMA NextBit ==
  ASSUME Basic, Carries, OneLate', NEW way \in Ways, KeyboardTakes(way), fw.sendMode = 1,
         way # "lost", Len(kb.bits) < 10, hist.late \in Nat
  PROVE  /\ fw'.sendMode = 1 /\ Carries'
         /\ way = "prompt" /\ fw.sendError = 0 /\ Exact(ToSend) =>
              fw'.sendError = 0 /\ Exact(ToSend)'
  <1> DEFINE n == Len(kb.bits)
             b == ToSend
             bit == IF Acknowledges THEN 0 ELSE 1
  <1>1. PICK level \in Bit : /\ kb' = Look(kb, level) /\ level \in {fw.line, fw'.line}
                             /\ (way = "prompt" \/ way = "pcint" => level = fw'.line)
    BY TakesBasic
  <1>2. bit \in Bit /\ fw' \in AfterEdge(bit, way) /\ TypeOK /\ Shaped
    BY TakesBasic DEF Basic, Bit
  <1> HIDE DEF bit
  <1>3. PICK bad \in Verdicts(way) : Sends(fw, bad, fw')
    BY <1>2, EdgeCases
  <1>4. kb \in KeyboardState /\ kb.keys \in Seq(Keys) /\ kb.mode = "taking" /\ kb.bits \in Seq(Bit)
        /\ fw \in Firmware /\ main \in MainState /\ fw' \in Firmware /\ Len(kb.bits) <= 10
    BY TakesBasic DEF Basic, TypeOK, Shaped, KeyboardState
  <1>5. b \in ByteBits
    BY <1>4, ToSendTyped
  <1>6. n \in Nat /\ n < 10 /\ fw.bitNum = n
    BY <1>4, LenProperties DEF Carries
  <1>7. kb'.mode = "taking" /\ kb'.bits = Append(kb.bits, level)
    BY <1>1, <1>4, LookCases
  <1>8. /\ kb'.bits \in Seq(Bit) /\ Len(kb'.bits) = n + 1 /\ kb'.bits[n + 1] = level
        /\ \A i \in 1 .. n : kb'.bits[i] = kb.bits[i]
    BY <1>4, <1>7, AppendProperties
  <1>9. n = 0 <=> kb.bits = <<>>
    BY <1>4, EmptySeq
  <1>10. main' = main /\ b' = b
    BY TakesBasic DEF ToSend
  <1>11. /\ main.pc = "sending" /\ fw.dataToSend = b
         /\ n = 0 => fw.odd = 1 /\ fw.sendError = 0 /\ fw.line = 0
         /\ n # 0 => fw.timer = "short"
         /\ hist.late = 0 => fw.sendError = 0 /\ \A i \in 1 .. n : kb.bits[i] = OnLine(b, i)
         /\ fw.sendError = 0 =>
              /\ n \in 1 .. 8 => fw.odd = (1 + Ones(b, n)) % 2
              /\ \A i \in 1 .. n : kb.bits[i] = OnLine(b, i) \/ (i = 1 /\ kb.bits[1] = 0)
    BY <1>9 DEF Carries, Exact
  <1> DEFINE m == Len(kb'.bits)
             s == kb.bits
             t == kb'.bits
  <1>12. m = n + 1
    BY <1>8
  <1>13. t # <<>>
    BY <1>8, <1>6, EmptySeq
  <1> HIDE DEF n, b, m
  <1>14. /\ fw'.bitNum = n + 1 /\ fw'.sendMode = 1 /\ fw'.dataToSend = b /\ fw'.timer = "short"
         /\ fw.sendError = 1 \/ bad =>
              fw'.sendError = 1 /\ fw'.line = IF n = 8 THEN 1 - fw.odd ELSE 0
         /\ ~(fw.sendError = 1 \/ bad) =>
              /\ fw'.sendError = 0 /\ fw'.line = BitOf(fw)
              /\ fw'.odd = IF n <= 7 THEN (fw.odd + b[n + 1]) % 2 ELSE fw.odd
    BY <1>3, <1>6, <1>11 DEF Sends, Partial
  <1>15. fw.sendError \in Bit /\ fw.odd \in Bit
    BY <1>4 DEF Firmware
  <1>16. ASSUME ~(fw.sendError = 1 \/ bad)
         PROVE  /\ fw.sendError = 0
                /\ fw'.line = OnLine(b, n + 1)
                /\ n + 1 \in 1 .. 8 => fw'.odd = (1 + Ones(b, n + 1)) % 2
    <2>1. fw.sendError = 0
      BY <1>15, <1>16 DEF Bit
    <2>2. n <= 7 => fw'.line = b[n + 1] /\ fw'.odd = (fw.odd + b[n + 1]) % 2
      BY <1>6, <1>11, <1>14, <1>16 DEF BitOf
    <2>3. n <= 7 => fw'.line = OnLine(b, n + 1)
      BY <1>6, <2>2 DEF OnLine
    <2>4. n <= 7 => fw'.odd = (1 + Ones(b, n + 1)) % 2
      <3> SUFFICES ASSUME n <= 7 PROVE fw'.odd = (1 + Ones(b, n + 1)) % 2
        OBVIOUS
      <3>1. n \in 0 .. 7 /\ n \in 0 .. 8 /\ n + 1 \in 1 .. 8
        BY <1>6
      <3> DEFINE x == Ones(b, n)
                 e == b[n + 1]
      <3>2. x \in Nat /\ Ones(b, n + 1) = x + e /\ (n = 0 => x = 0)
        BY <1>5, <3>1, OnesCounted
      <3>3. e \in Bit
        BY <1>5, <3>1 DEF ByteBits
      <3> HIDE DEF x, e
      <3>4. fw.odd = (1 + x) % 2
        <4>1. CASE n = 0
          BY <1>11, <3>2, <4>1
        <4>2. CASE n # 0
          <5>1. n \in 1 .. 8
            BY <3>1, <4>2
          <5> QED  BY <1>11, <2>1, <5>1 DEF x
        <4> QED  BY <4>1, <4>2
      <3>5. fw'.odd = (fw.odd + e) % 2
        BY <2>2 DEF e
      <3>6. (((1 + x) % 2) + e) % 2 = (1 + (x + e)) % 2
        BY <3>2, <3>3 DEF Bit
      <3> QED  BY <3>2, <3>4, <3>5, <3>6
    <2>5. n = 8 => fw'.line = OnLine(b, n + 1)
      <3> SUFFICES ASSUME n = 8 PROVE fw'.line = OnLine(b, 9)
        BY <1>6
      <3>1. fw'.line = fw.odd
        BY <1>6, <1>14, <1>16 DEF BitOf
      <3>2. fw.odd = (1 + Ones(b, 8)) % 2
        BY <1>11, <2>1
      <3>3. OnLine(b, 9) = (1 + Ones(b, 8)) % 2
        BY DEF OnLine, ParityOf, Ones
      <3> QED  BY <3>1, <3>2, <3>3
    <2>6. n = 9 => fw'.line = OnLine(b, n + 1)
      BY <1>6, <1>14, <1>16 DEF BitOf, OnLine
    <2> QED  BY <1>6, <2>1, <2>3, <2>4, <2>5, <2>6
  <1>17. /\ hist'.late <= 1
         /\ hist'.late = IF way \in {"late", "pcint"} THEN hist.late + 1 ELSE hist.late
    BY TakesBasic DEF OneLate
  <1>18. way = "prompt" \/ (way \in {"late", "pcint"} /\ hist.late = 0 /\ hist'.late = 1)
    <2>1. way = "prompt" \/ way \in {"late", "pcint"}
      BY DEF Ways
    <2> QED  BY <1>17, <2>1
  <1>19. way = "prompt" => ~bad /\ level = fw'.line /\ hist'.late = hist.late
    <2> SUFFICES ASSUME way = "prompt" PROVE ~bad /\ level = fw'.line /\ hist'.late = hist.late
      OBVIOUS
    <2>1. Verdicts(way) = {FALSE}
      BY <1>6, <1>11 DEF Verdicts
    <2> QED  BY <1>1, <1>17, <2>1
  <1>20. way = "pcint" => n = 0 /\ bad /\ level = fw'.line
    <2> SUFFICES ASSUME way = "pcint" PROVE n = 0 /\ bad /\ level = fw'.line
      OBVIOUS
    <2>1. n = 0
      BY <1>6 DEF KeyboardTakes
    <2>2. Verdicts(way) = {TRUE}
      BY <1>6, <2>1 DEF Verdicts
    <2> QED  BY <1>1, <2>1, <2>2
  <1>21. way = "late" /\ n # 0 => bad
    BY <1>6 DEF Verdicts
  <1>22. hist'.late = 0 => fw'.sendError = 0 /\ \A i \in 1 .. n + 1 : t[i] = OnLine(b, i)
    <2> SUFFICES ASSUME hist'.late = 0
                 PROVE  fw'.sendError = 0 /\ \A i \in 1 .. n + 1 : t[i] = OnLine(b, i)
      OBVIOUS
    <2>1. way = "prompt" /\ hist.late = 0
      BY <1>18, <1>19
    <2>2. fw.sendError = 0 /\ ~bad /\ level = fw'.line
      BY <1>11, <1>19, <2>1
    <2>3. ~(fw.sendError = 1 \/ bad)
      BY <2>2
    <2>4. fw'.sendError = 0 /\ level = OnLine(b, n + 1)
      BY <1>14, <1>16, <2>2, <2>3
    <2>5. \A i \in 1 .. n + 1 : i \in 1 .. n \/ i = n + 1
      BY <1>6
    <2> QED  BY <1>8, <1>11, <2>1, <2>4, <2>5
  <1>23. ASSUME fw'.sendError = 0
         PROVE  /\ n + 1 \in 1 .. 8 => fw'.odd = (1 + Ones(b, n + 1)) % 2
                /\ \A i \in 1 .. n + 1 : t[i] = OnLine(b, i) \/ (i = 1 /\ t[1] = 0)
    <2>1. ~(fw.sendError = 1 \/ bad)
      BY <1>14, <1>23
    <2>2. fw.sendError = 0 /\ fw'.line = OnLine(b, n + 1)
      BY <1>16, <2>1
    <2>3. level = OnLine(b, n + 1) \/ (n + 1 = 1 /\ level = 0)
      <3>1. CASE way = "prompt"
        BY <1>19, <2>2, <3>1
      <3>2. CASE way = "pcint"
        BY <1>20, <2>1, <3>2
      <3>3. CASE way = "late"
        <4>1. n = 0 /\ fw.line = 0
          BY <1>11, <1>21, <2>1, <3>3
        <4> QED  BY <1>1, <2>2, <4>1
      <3> QED  BY <1>18, <3>1, <3>2, <3>3
    <2>4. \A i \in 1 .. n + 1 : i \in 1 .. n \/ i = n + 1
      BY <1>6
    <2>5. \A i \in 1 .. n : t[i] = OnLine(b, i) \/ (i = 1 /\ t[1] = 0)
      <3>1. n >= 1 => t[1] = kb.bits[1]
        BY <1>6, <1>8
      <3> QED  BY <1>6, <1>8, <1>11, <2>2, <3>1
    <2>6. t[n + 1] = OnLine(b, n + 1) \/ (n + 1 = 1 /\ t[1] = 0)
      BY <1>8, <2>3
    <2> QED  BY <1>16, <2>1, <2>4, <2>5, <2>6
  <1>24. ASSUME fw'.sendError = 1, n + 1 = 10
         PROVE  t[10] = 0 \/ \A i \in 1 .. n + 1 : t[i] = OnLine(b, i)
    <2>1. fw'.line = 0
      BY <1>14, <1>24, <1>6
    <2>2. CASE way = "prompt"
      BY <1>8, <1>19, <1>24, <2>1, <2>2
    <2>3. CASE way = "pcint"
      BY <1>8, <1>20, <1>24, <2>1, <2>3
    <2>4. CASE way = "late"
      <3>1. hist.late = 0
        BY <1>18, <2>4
      <3>2. level = 0 \/ level = 1
        BY DEF Bit
      <3>3. level = 1 => \A i \in 1 .. n + 1 : t[i] = OnLine(b, i)
        <4>1. OnLine(b, n + 1) = 1
          BY <1>24 DEF OnLine
        <4>2. \A i \in 1 .. n + 1 : i \in 1 .. n \/ i = n + 1
          BY <1>6
        <4> QED  BY <1>8, <1>11, <3>1, <4>1, <4>2
      <3> QED  BY <1>8, <1>24, <3>2, <3>3
    <2> QED  BY <1>18, <2>2, <2>3, <2>4
  <1>25. /\ m \in 1 .. 8 => n + 1 \in 1 .. 8
         /\ main'.pc = "sending" /\ fw'.dataToSend = b' /\ kb'.mode # "sending" /\ fw'.bitNum = m
    BY <1>7, <1>10, <1>11, <1>12, <1>14
  <1>26. /\ hist'.late = 0 => fw'.sendError = 0 /\ \A i \in 1 .. m : t[i] = OnLine(b', i)
         /\ fw'.sendError = 0 =>
              /\ m \in 1 .. 8 => fw'.odd = (1 + Ones(b', m)) % 2
              /\ \A i \in 1 .. m : t[i] = OnLine(b', i) \/ (i = 1 /\ t[1] = 0)
         /\ fw'.sendError = 1 /\ m = 10 => t[10] = 0 \/ \A i \in 1 .. m : t[i] = OnLine(b', i)
    BY <1>10, <1>12, <1>22, <1>23, <1>24
  <1>27. Carries'
    BY <1>13, <1>14, <1>25, <1>26 DEF Carries, Exact, m, b
  <1>28. ASSUME way = "prompt", fw.sendError = 0, \A i \in 1 .. n : kb.bits[i] = OnLine(b, i)
         PROVE  fw'.sendError = 0 /\ \A i \in 1 .. m : t[i] = OnLine(b', i)
    <2>1. ~(fw.sendError = 1 \/ bad) /\ level = fw'.line
      BY <1>19, <1>28
    <2>2. fw'.sendError = 0 /\ level = OnLine(b, n + 1)
      BY <1>14, <1>16, <2>1
    <2>3. \A i \in 1 .. n + 1 : i \in 1 .. n \/ i = n + 1
      BY <1>6
    <2> QED  BY <1>8, <1>10, <1>12, <1>28, <2>2, <2>3
  <1>29. way = "prompt" /\ fw.sendError = 0 /\ Exact(b) => fw'.sendError = 0 /\ Exact(b)'
    BY <1>28 DEF Exact, n, m
  <1> QED  BY <1>14, <1>27, <1>29 DEF b

\* The last clock of a command: the sender is done and the keyboard too.
LEMMA LastBit ==
  ASSUME Basic, Carries, OneLate, OneLate', NEW way \in Ways, KeyboardTakes(way),
         fw.sendMode = 1, way # "lost", ~(Len(kb.bits) < 10)
  PROVE  /\ Len(kb.bits) = 10 /\ Stays(fw') = Stays(fw) /\ fw'.line = 1 /\ fw'.sendMode = 0
         /\ fw'.data = NoByte /\ fw'.parity = 1 /\ kb'.mode = "idle"
         /\ Obeys => SubSeq(kb.bits, 1, 8) = fw.dataToSend
         /\ IF Obeys
            THEN kb' = [Obey(kb, ToSend, ParityOf(ToSend)) EXCEPT !.mode = "idle", !.bits = <<>>]
            ELSE /\ kb' = [kb EXCEPT !.answer = <<PS2_RESEND>>, !.mode = "idle", !.bits = <<>>]
                 /\ ~Exact(ToSend)
  <1> DEFINE n == Len(kb.bits)
             b == ToSend
             c == SubSeq(kb.bits, 1, 8)
             bit == IF Acknowledges THEN 0 ELSE 1
  <1>1. PICK level \in Bit : /\ kb' = Look(kb, level) /\ level \in {fw.line, fw'.line}
                             /\ (way = "prompt" \/ way = "pcint" => level = fw'.line)
    BY TakesBasic
  <1>2. bit \in Bit /\ fw' \in AfterEdge(bit, way) /\ TypeOK /\ Shaped
    BY TakesBasic DEF Basic, Bit
  <1> HIDE DEF bit
  <1>3. PICK bad \in Verdicts(way) : Sends(fw, bad, fw')
    BY <1>2, EdgeCases
  <1>4. kb \in KeyboardState /\ kb.keys \in Seq(Keys) /\ kb.mode = "taking" /\ kb.bits \in Seq(Bit)
        /\ fw \in Firmware /\ main \in MainState /\ Len(kb.bits) <= 10
    BY TakesBasic DEF Basic, TypeOK, Shaped, KeyboardState
  <1>5. n = 10
    <2>1. n \in Nat /\ n <= 10
      BY <1>4, LenProperties
    <2> HIDE DEF n
    <2>2. ~(n < 10)
      BY DEF n
    <2> QED  BY <2>1, <2>2
  <1>6. fw.bitNum = 10
    BY <1>5 DEF Carries
  <1>7. Stays(fw') = Stays(fw) /\ fw'.line = 1 /\ fw'.sendMode = 0 /\ fw'.data = NoByte
        /\ fw'.parity = 1
    BY <1>3, <1>6 DEF Sends
  <1>8. /\ kb.bits[10] = 1 /\ kb.bits[9] = ParityOf(c) => c = b
        /\ fw.sendError = 0 \/ Exact(b) => kb.bits[10] = 1
        /\ Exact(b) => kb.bits[9] = ParityOf(c) /\ c = b
    BY <1>4, <1>5, ObeysRight
  <1>9. Obeys <=> kb.bits[10] = 1 /\ kb.bits[9] = ParityOf(c)
    BY <1>4, <1>5 DEF Obeys, Acknowledges
  <1>10. c \in ByteBits /\ kb.bits[9] \in Bit
    BY <1>4, <1>5, FirstEight
  <1>11. fw.dataToSend = b
    BY DEF Carries
  <1> HIDE DEF c, n
  <1>12. CASE Obeys
    <2>1. kb' = [Obey(kb, c, kb.bits[9]) EXCEPT !.mode = "idle", !.bits = <<>>]
      BY <1>1, <1>4, <1>5, <1>9, <1>12, LookCases DEF c, n
    <2>2. c = b /\ kb.bits[9] = ParityOf(b)
      BY <1>8, <1>9, <1>12
    <2>3. kb' = [Obey(kb, b, ParityOf(b)) EXCEPT !.mode = "idle", !.bits = <<>>]
      BY <2>1, <2>2
    <2>4. Obey(kb, b, ParityOf(b)) \in KeyboardState
      BY <1>4, <1>10, <2>2, ObeyTyped, ToSendTyped
    <2>5. kb'.mode = "idle"
      BY <2>3, <2>4 DEF KeyboardState
    <2> QED  BY <1>5, <1>7, <1>11, <1>12, <2>2, <2>3, <2>5 DEF c, n
  <1>13. CASE ~Obeys
    <2>1. kb' = [kb EXCEPT !.answer = <<PS2_RESEND>>, !.mode = "idle", !.bits = <<>>]
      <3>1. CASE kb.bits[10] = 1
        <4>1. kb.bits[9] # ParityOf(c)
          BY <1>9, <1>13, <3>1
        <4>2. kb' = [Obey(kb, c, kb.bits[9]) EXCEPT !.mode = "idle", !.bits = <<>>]
          BY <1>1, <1>4, <1>5, <3>1, LookCases DEF c, n
        <4>3. Obey(kb, c, kb.bits[9]) = [kb EXCEPT !.answer = <<PS2_RESEND>>]
          BY <4>1 DEF Obey
        <4> QED  BY <4>2, <4>3
      <3>2. CASE kb.bits[10] # 1
        <4>1. level = 1
          <5>1. fw.sendError # 0 /\ ~Exact(b)
            BY <1>8, <3>2
          <5>2. hist.late # 0
            BY <5>1 DEF Carries
          <5>3. way = "prompt" \/ way = "pcint"
            <6>1. hist'.late <= 1 /\ hist.late \in Nat
                  /\ hist'.late = IF way \in {"late", "pcint"} THEN hist.late + 1 ELSE hist.late
              BY TakesBasic DEF OneLate, Basic, TypeOK, HostHistory
            <6> QED  BY <5>2, <6>1 DEF Ways
          <5> QED  BY <1>1, <1>7, <5>3
        <4> QED  BY <1>1, <1>4, <1>5, <3>2, <4>1, LookCases DEF n
      <3> QED  BY <3>1, <3>2
    <2>2. kb'.mode = "idle"
      BY <1>4, <2>1 DEF KeyboardState
    <2>3. ~Exact(b)
      BY <1>8, <1>9, <1>13
    <2> QED  BY <1>5, <1>7, <1>13, <2>1, <2>2, <2>3 DEF n
  <1> QED  BY <1>12, <1>13

LEMMA TakesTransmits ==
  ASSUME Basic, Transmits, NEW way \in Ways, KeyboardTakes(way)
  PROVE  /\ Transmits'
         /\ NoAlienCommand => NoAlienCommand'
         /\ OneLate' => OneLate /\ way # "lost" /\ fw.sendMode = 1 /\ Carries
  <1>1. hist \in HostHistory
    BY DEF Basic, TypeOK
  <1>2. OneLate' => OneLate /\ way # "lost"
    BY <1>1, TakesBasic DEF OneLate, Clean, HostHistory
  <1>3. OneLate' => fw.sendMode = 1 /\ Carries
    <2>1. kb.mode = "taking"
      BY TakesBasic
    <2> QED  BY <1>2, <2>1 DEF Transmits
  <1>4. Transmits'
    <2> SUFFICES ASSUME OneLate' PROVE Transmits'
      BY DEF Transmits
    <2>1. CASE Len(kb.bits) < 10
      <3>1. fw'.sendMode = 1 /\ Carries'
        BY <1>1, <1>2, <1>3, <2>1, NextBit DEF HostHistory
      <3> QED  BY <3>1 DEF Transmits
    <2>2. CASE ~(Len(kb.bits) < 10)
      <3>1. fw'.sendMode = 0 /\ fw'.line = 1 /\ kb'.mode = "idle"
        BY <1>2, <1>3, <2>2, LastBit
      <3> QED  BY <3>1 DEF Transmits
    <2> QED  BY <2>1, <2>2
  <1>5. NoAlienCommand => NoAlienCommand'
    <2> SUFFICES ASSUME NoAlienCommand, OneLate' PROVE ~hist'.alien
      BY DEF NoAlienCommand, OneLate, Clean
    <2>1. ~hist.alien
      BY <1>2 DEF NoAlienCommand, OneLate
    <2>2. ~(Obeys /\ SubSeq(kb.bits, 1, 8) # fw.dataToSend)
      <3> SUFFICES ASSUME Obeys PROVE SubSeq(kb.bits, 1, 8) = fw.dataToSend
        OBVIOUS
      <3>1. ~(Len(kb.bits) < 10)
        BY DEF Obeys, Acknowledges
      <3> QED  BY <1>2, <1>3, <3>1, LastBit
    <2> QED  BY <2>1, <2>2, TakesBasic
  <1> QED  BY <1>2, <1>3, <1>4, <1>5

LEMMA NoticesTransmits ==
  ASSUME Basic, Transmits, KeyboardNotices
  PROVE  Transmits' /\ (OneLate => fw.sendMode = 1) /\ UNCHANGED <<main, hist>>
  <1>1. UNCHANGED <<main, hist>> /\ kb.mode = "idle" /\ fw.line = 0
    BY DEF KeyboardNotices
  <1>2. OneLate => fw.sendMode = 1
    BY <1>1 DEF Transmits
  <1>3. kb.bits = <<>>
    BY <1>1 DEF Basic, Shaped
  <1>4. ToSend' = ToSend
    BY <1>1 DEF ToSend
  <1>5. fw'.sendMode = fw.sendMode /\ fw'.dataToSend = fw.dataToSend
    BY NoticesBasic DEF Partial
  <1>6. Len(<<>>) = 0
    BY EmptySeq
  <1>7. OneLate' => Carries'
    <2> SUFFICES ASSUME OneLate' PROVE Carries'
      OBVIOUS
    <2>1. Carries
      BY <1>1, <1>2 DEF Transmits, OneLate, Clean
    <2>2. /\ main'.pc = "sending" /\ fw'.dataToSend = ToSend'
          /\ kb'.mode # "sending" /\ fw'.bitNum = Len(kb'.bits)
          /\ kb'.bits = <<>> /\ fw'.odd = 1 /\ fw'.sendError = 0 /\ fw'.line = 0
      BY <1>1, <1>3, <1>4, <1>5, <2>1, NoticesBasic DEF Carries
    <2> QED  BY <1>6, <2>2 DEF Carries, Exact
  <1> QED  BY <1>1, <1>2, <1>5, <1>7 DEF Transmits, OneLate, Clean

LEMMA BeginsTransmits ==
  ASSUME Basic, Transmits, KeyboardBegins
  PROVE  Transmits' /\ (OneLate => fw.sendMode = 0) /\ UNCHANGED <<main, hist>>
  <1>1. UNCHANGED <<main, hist>> /\ kb.mode = "idle" /\ fw.line = 1
    BY DEF KeyboardBegins
  <1>2. kb.bits = <<>> /\ fw.sendMode \in Bit
    BY <1>1 DEF Basic, Shaped, TypeOK, Firmware
  <1>3. OneLate => fw.sendMode = 0
    BY <1>1, <1>2 DEF Transmits, Carries, Bit
  <1>4. fw'.sendMode = fw.sendMode /\ fw'.line = 1 /\ kb'.mode = "sending"
    BY <1>1, BeginsBasic DEF Partial
  <1> QED  BY <1>1, <1>3, <1>4 DEF Transmits, OneLate, Clean

LEMMA SendsTransmits ==
  ASSUME Basic, Transmits, NEW way \in {"prompt", "lost"}, KeyboardSends(way)
  PROVE  /\ Transmits'
         /\ OneLate' => /\ OneLate /\ fw.sendMode = 0 /\ fw.line = 1
                        /\ Hears(fw, Head(kb.bits), fw') /\ fw'.sendMode = 0
  <1>1. OneLate' => OneLate /\ way = "prompt"
    BY SendsBasic DEF OneLate, Clean, Basic, TypeOK, HostHistory
  <1>2. OneLate' => fw.sendMode = 0 /\ fw.line = 1
    <2>1. fw.sendMode \in Bit
      BY DEF Basic, TypeOK, Firmware
    <2> QED  BY <1>1, <2>1, SendsBasic DEF Transmits, Carries, Bit
  <1>3. OneLate' => Hears(fw, Head(kb.bits), fw')
    <2> SUFFICES ASSUME OneLate' PROVE Hears(fw, Head(kb.bits), fw')
      OBVIOUS
    <2> DEFINE bit == Head(kb.bits)
    <2>1. bit \in Bit /\ fw' \in AfterEdge(bit, way) /\ way \in Ways
      BY SendsBasic DEF Ways
    <2>2. LineLevel(bit) = bit
      BY <1>2 DEF LineLevel
    <2> HIDE DEF bit
    <2>3. Hears(fw, LineLevel(bit), fw')
      BY <1>1, <1>2, <2>1, EdgeCases DEF Basic
    <2> QED  BY <2>2, <2>3 DEF bit
  <1>4. OneLate' => fw'.sendMode = 0 /\ fw'.line = 1
    BY <1>2, <1>3 DEF Hears, Rest
  <1>5. kb'.mode # "taking"
    BY SendsBasic
  <1> QED  BY <1>1, <1>2, <1>3, <1>4, <1>5 DEF Transmits

LEMMA BeginTransmits ==
  ASSUME Basic, Transmits, NEW stray \in {"none", "before", "after"}, BeginSend(stray)
  PROVE  Transmits' /\ (OneLate' => OneLate /\ stray = "none")
  <1>1. OneLate' => OneLate /\ stray = "none"
    BY BeginBasic DEF OneLate, Clean, Basic, TypeOK, HostHistory
  <1>2. Len(<<>>) = 0
    BY EmptySeq
  <1>3. OneLate' => fw'.sendMode = 1 /\ Carries'
    <2> SUFFICES ASSUME OneLate' PROVE fw'.sendMode = 1 /\ Carries'
      OBVIOUS
    <2>1. stray = "none"
      BY <1>1
    <2>2. /\ fw'.sendMode = 1 /\ main'.pc = "sending" /\ fw'.dataToSend = ToSend'
          /\ kb'.mode # "sending" /\ fw'.bitNum = 0
          /\ kb'.bits = <<>> /\ fw'.odd = 1 /\ fw'.sendError = 0 /\ fw'.line = 0
      BY <2>1, BeginBasic
    <2> QED  BY <1>2, <2>2 DEF Carries, Exact
  <1> QED  BY <1>1, <1>3 DEF Transmits

\* The other steps of the main loop are made with no command on its way.
LEMMA LoopTransmits ==
  ASSUME Basic, Transmits,
         \/ \E led \in Leds : SetLed(led)
         \/ SendReturns \/ Answer \/ NoAnswer \/ Booted \/ matrix_scan
  PROVE  /\ Transmits' /\ fw.sendMode = 0 /\ fw'.sendMode = 0 /\ (OneLate' => OneLate)
         /\ kb' = kb /\ fw'.sendError = fw.sendError
  <1>1. fw.sendMode = 0
    BY DEF Basic, Shaped, SetLed, SendReturns, Answer, NoAnswer, Booted, matrix_scan
  <1>2. /\ fw'.sendMode = fw.sendMode /\ fw'.sendError = fw.sendError
        /\ fw'.line = fw.line /\ kb' = kb
        /\ hist'.lost = hist.lost /\ hist'.stray = hist.stray /\ hist'.late = hist.late
    <2>1. CASE \E led \in Leds : SetLed(led)
      BY <2>1 DEF Basic, TypeOK, HostHistory, SetLed
    <2>2. CASE SendReturns
      BY <2>2, ReturnsBasic DEF Rest
    <2>3. CASE Answer
      BY <2>3, AnswerBasic DEF Rest
    <2>4. CASE NoAnswer
      BY <2>4, NoAnswerBasic
    <2>5. CASE Booted
      BY <2>5, BootedBasic
    <2>6. CASE matrix_scan
      BY <2>6, ScanBasic DEF Rest
    <2> QED  BY <2>1, <2>2, <2>3, <2>4, <2>5, <2>6
  <1> QED  BY <1>1, <1>2 DEF Transmits, OneLate, Clean

LEMMA TypeTransmits ==
  ASSUME Basic, Transmits, NEW b \in Keys, Type(b)
  PROVE  /\ Transmits' /\ (OneLate' => OneLate) /\ UNCHANGED <<fw, main>>
         /\ kb'.mode = kb.mode /\ kb'.bits = kb.bits /\ kb'.answer = kb.answer
         /\ kb'.wants = kb.wants /\ kb'.lamps = kb.lamps
         /\ hist'.lost = hist.lost /\ hist'.late = hist.late /\ hist'.alien = hist.alien
         /\ hist'.stray = hist.stray /\ hist'.cut = hist.cut /\ hist'.stale = hist.stale
         /\ hist'.misread = hist.misread
         /\ (NextByte # <<>> => NextByte' # <<>> /\ Head(NextByte') = Head(NextByte))
  <1>1. kb \in KeyboardState /\ kb.keys \in Seq(Keys) /\ b \in ByteBits
        /\ hist \in HostHistory
    BY KeysTyped DEF Basic, TypeOK, Shaped
  <1>2. kb' = [kb EXCEPT !.keys = Append(kb.keys, b)] /\ UNCHANGED <<fw, main>>
        /\ hist' = [hist EXCEPT !.typed = hist.typed + 1]
    BY DEF Type
  <1>3. /\ kb'.mode = kb.mode /\ kb'.bits = kb.bits /\ kb'.answer = kb.answer
        /\ kb'.wants = kb.wants /\ kb'.lamps = kb.lamps /\ kb'.keys = Append(kb.keys, b)
    BY <1>1, <1>2 DEF KeyboardState
  <1>4. /\ hist'.lost = hist.lost /\ hist'.late = hist.late /\ hist'.alien = hist.alien
        /\ hist'.stray = hist.stray /\ hist'.cut = hist.cut /\ hist'.stale = hist.stale
        /\ hist'.misread = hist.misread
    BY <1>1, <1>2 DEF HostHistory
  <1>5. NextByte # <<>> => NextByte' # <<>> /\ Head(NextByte') = Head(NextByte)
    <2>1. kb.keys # <<>> => Append(kb.keys, b) # <<>>
                            /\ Head(Append(kb.keys, b)) = Head(kb.keys)
      BY <1>1, AppendProperties, HeadTailProperties, EmptySeq DEF KeyboardState
    <2> QED  BY <1>3, <2>1 DEF NextByte
  <1>6. ToSend' = ToSend
    BY <1>2 DEF ToSend
  <1>7. Carries' <=> Carries
    BY <1>2, <1>3, <1>4, <1>6 DEF Carries, Exact
  <1> QED  BY <1>2, <1>3, <1>4, <1>5, <1>7 DEF Transmits, OneLate, Clean

-----------------------------------------------------------------------------
(* The receiver.                                                           *)

LEMMA StandsInit ==
  ASSUME NEW f, NEW b \in ByteBits
  PROVE  Stands(f, b, INIT) <=> /\ f.state = INIT /\ f.data = NoByte /\ f.parity = 1
                                /\ f.inhibit = 0 /\ f.errState = 0
  <1>1. DataAt(b, INIT) = NoByte /\ ParityAt(b, INIT) = 1 /\ InhibitAt(INIT) = 0
    <2>1. <<>> \in Seq(ByteBits) /\ INIT \in INIT .. PARITY
      BY EmptySeq
    <2>2. Stand(<<>>, b, INIT).data = DataAt(b, INIT) /\ Stand(<<>>, b, INIT).data = NoByte
      BY <2>1, StandTyped, StandInit
    <2>3. Stand(<<>>, b, INIT).parity = ParityAt(b, INIT) /\ Stand(<<>>, b, INIT).parity = 1
      BY <2>1, StandTyped, StandInit
    <2> QED  BY <2>2, <2>3 DEF InhibitAt
  <1> QED  BY <1>1 DEF Stands

\* The firmware f hears what a receiver v takes.
Alike(f, v) ==
  /\ f.state = v.state /\ f.data = v.data /\ f.parity = v.parity
  /\ f.inhibit = v.inhibit /\ f.errState = v.errState

LEMMA AlikeHears ==
  ASSUME NEW f, NEW v \in Views, NEW bit \in Bit, NEW g, Alike(f, v), Hears(f, bit, g),
         Advance(v, bit).errState = 0, v.errState = 0
  PROVE  /\ Alike(g, Advance(v, bit))
         /\ v.state < PARITY => g.pbuf = f.pbuf
         /\ v.state = PARITY =>
              g.pbuf = IF Len(f.pbuf) < Capacity THEN Append(f.pbuf, v.data) ELSE f.pbuf
  <1> DEFINE w == Advance(v, bit)
             s == v.state + 1
  <1>1. Taken(v, bit, w)
    BY AdvanceCases
  <1>2. w.errState = 0
    OBVIOUS
  <1> HIDE DEF w
  <1>3. f.state + 1 = s /\ (Rejects(f, s, bit) <=> Rejects(v, s, bit)) /\ f.errState = 0
    BY DEF Alike, Rejects
  <1>4. ~Rejects(v, s, bit)
    BY <1>1, <1>2 DEF Taken
  <1>5. s \in START .. STOP
    BY <1>1, <1>4 DEF Taken
  <1>6. v.state \in Nat
    BY DEF Views, Receiver
  <1>7. s = START \/ s \in BIT0 .. BIT7 \/ s = PARITY \/ s = STOP
    BY <1>5
  <1>8. CASE s = START
    <2>1. /\ g.state = s /\ g.data = f.data /\ g.parity = f.parity
          /\ g.inhibit = 1 /\ g.pbuf = f.pbuf /\ g.errState = 0
      BY <1>3, <1>4, <1>8 DEF Hears
    <2>2. w.state = s /\ w.data = v.data /\ w.parity = v.parity /\ w.inhibit = 1
      BY <1>1, <1>4, <1>8 DEF Taken
    <2>3. v.state = INIT
      BY <1>6, <1>8
    <2> QED  BY <1>2, <2>1, <2>2, <2>3 DEF Alike, w
  <1>9. CASE s \in BIT0 .. BIT7
    <2>1. /\ g.state = s /\ g.data = Shift(f.data, bit) /\ g.parity = CountOne(f.parity, bit)
          /\ g.inhibit = f.inhibit /\ g.pbuf = f.pbuf /\ g.errState = 0
      BY <1>3, <1>4, <1>9 DEF Hears
    <2>2. w.state = s /\ w.data = Shift(v.data, bit) /\ w.parity = CountOne(v.parity, bit)
          /\ w.inhibit = v.inhibit
      BY <1>1, <1>4, <1>9 DEF Taken
    <2>3. v.state # PARITY
      BY <1>6, <1>9
    <2> QED  BY <1>2, <2>1, <2>2, <2>3 DEF Alike, w
  <1>10. CASE s = PARITY
    <2>1. /\ g.state = s /\ g.data = f.data /\ g.parity = f.parity
          /\ g.inhibit = f.inhibit /\ g.pbuf = f.pbuf /\ g.errState = 0
      BY <1>3, <1>4, <1>10 DEF Hears
    <2>2. w.state = s /\ w.data = v.data /\ w.parity = v.parity /\ w.inhibit = v.inhibit
      BY <1>1, <1>4, <1>10 DEF Taken
    <2>3. v.state # PARITY
      BY <1>6, <1>10
    <2> QED  BY <1>2, <2>1, <2>2, <2>3 DEF Alike, w
  <1>11. CASE s = STOP
    <2>1. /\ g.state = INIT /\ g.data = NoByte /\ g.parity = 1 /\ g.inhibit = 0
          /\ g.errState = 0
          /\ g.pbuf = IF Len(f.pbuf) < Capacity THEN Append(f.pbuf, f.data) ELSE f.pbuf
      BY <1>3, <1>4, <1>11 DEF Hears
    <2>2. w.state = INIT /\ w.data = NoByte /\ w.parity = 1 /\ w.inhibit = 0
      BY <1>1, <1>4, <1>11 DEF Taken
    <2>3. v.state = PARITY /\ f.data = v.data
      BY <1>6, <1>11 DEF Alike
    <2> QED  BY <1>2, <2>1, <2>2, <2>3 DEF Alike, w
  <1> QED  BY <1>7, <1>8, <1>9, <1>10, <1>11

\* A bit of a frame, heard by a receiver in step with it.
LEMMA HearsFrame ==
  ASSUME NEW f, NEW g, NEW b \in ByteBits, NEW n \in INIT .. PARITY, Stands(f, b, n),
         Hears(f, Frame(b)[n + 1], g)
  PROVE  /\ n < PARITY => Stands(g, b, n + 1) /\ g.pbuf = f.pbuf
         /\ n = PARITY =>
              /\ Stands(g, NoByte, INIT)
              /\ g.pbuf = IF Len(f.pbuf) < Capacity THEN Append(f.pbuf, b) ELSE f.pbuf
  <1> DEFINE none == <<>>
             v == Stand(none, b, n)
             bit == Frame(b)[n + 1]
             w == Advance(v, bit)
  <1>1. none \in Seq(ByteBits) /\ NoByte \in ByteBits /\ n + 1 \in 1 .. 11
    BY EmptySeq, NoByteTyped
  <1> HIDE DEF none
  <1>2. bit \in Bit
    BY <1>1, FrameBits, ElementOfSeq
  <1>3. /\ v \in Views /\ v.state = n /\ v.data = DataAt(b, n) /\ v.parity = ParityAt(b, n)
        /\ v.inhibit = InhibitAt(n) /\ v.errState = 0 /\ v.accepted = none
    BY <1>1, StandTyped
  <1>4. Alike(f, v)
    BY <1>3 DEF Alike, Stands
  <1>5. Hears(f, bit, g)
    OBVIOUS
  <1>6. ASSUME n < PARITY
        PROVE  Stands(g, b, n + 1) /\ g.pbuf = f.pbuf
    <2>0. n \in INIT .. BIT7 /\ n + 1 \in INIT .. PARITY
      BY <1>6
    <2>1. w = Stand(none, b, n + 1)
      BY <1>1, <2>0, StandAdvances
    <2>2. /\ w.state = n + 1 /\ w.data = DataAt(b, n + 1) /\ w.parity = ParityAt(b, n + 1)
          /\ w.inhibit = InhibitAt(n + 1) /\ w.errState = 0
      BY <1>1, <2>0, <2>1, StandTyped
    <2> HIDE DEF v, bit
    <2>3. Alike(g, w) /\ g.pbuf = f.pbuf
      BY <1>2, <1>3, <1>4, <1>5, <1>6, <2>2, AlikeHears
    <2> QED  BY <2>2, <2>3 DEF Alike, Stands
  <1>7. ASSUME n = PARITY
        PROVE  /\ Stands(g, NoByte, INIT)
               /\ g.pbuf = IF Len(f.pbuf) < Capacity THEN Append(f.pbuf, b) ELSE f.pbuf
    <2>1. bit = 1
      BY <1>7, FrameBits
    <2> DEFINE one == Append(none, b)
               z == Stand(one, NoByte, INIT)
    <2>2. w = z /\ one \in Seq(ByteBits)
      BY <1>1, <1>7, <2>1, StandCompletes, AppendProperties
    <2> HIDE DEF one
    <2>3. /\ z.state = INIT /\ z.data = NoByte /\ z.parity = 1
          /\ z.inhibit = 0 /\ z.errState = 0 /\ z.accepted = one
      BY <1>1, <2>2, StandInit
    <2> HIDE DEF z
    <2>7. /\ w.state = INIT /\ w.data = NoByte /\ w.parity = 1
          /\ w.inhibit = 0 /\ w.errState = 0 /\ w.accepted = one
      BY <2>2, <2>3
    <2>4. v.data = b
      <3>1. Taken(v, bit, w)
        BY <1>2, <1>3, AdvanceCases
      <3> DEFINE d == v.data
                 e == v.accepted
      <3>2. w.accepted = Append(e, d)
        <4>1. v.state + 1 = STOP
          BY <1>3, <1>7
        <4> HIDE DEF v, w
        <4>2. ~Rejects(v, v.state + 1, bit)
          BY <1>3, <2>7, <3>1 DEF Taken
        <4> QED  BY <1>3, <3>1, <4>1, <4>2 DEF Taken
      <3>3. e = none /\ d \in ByteBits
        <4> HIDE DEF v
        <4> QED  BY <1>3 DEF Views, Receiver
      <3>4. Append(none, b) = Append(none, d)
        BY <2>7, <3>2, <3>3 DEF one
      <3> HIDE DEF d
      <3>5. Append(none, b)[1] = b /\ Append(none, d)[1] = d
        <4>1. Len(none) = 0 /\ Len(none) + 1 = 1
          BY EmptySeq DEF none
        <4> QED  BY <1>1, <3>3, <4>1, AppendProperties
      <3> QED  BY <3>4, <3>5 DEF d
    <2> HIDE DEF v, bit
    <2>5. /\ Alike(g, w)
          /\ g.pbuf = IF Len(f.pbuf) < Capacity THEN Append(f.pbuf, v.data) ELSE f.pbuf
      BY <1>2, <1>3, <1>4, <1>5, <1>7, <2>7, AlikeHears
    <2>6. Stands(g, NoByte, INIT)
      BY <1>1, <2>5, <2>7, StandsInit DEF Alike
    <2> QED  BY <2>4, <2>5, <2>6
  <1> QED  BY <1>6, <1>7

\* A bit of the command but the last leaves the rest alone.
LEMMA MiddleBit ==
  ASSUME Basic, Carries, NEW way \in Ways, KeyboardTakes(way), fw.sendMode = 1,
         way # "lost", Len(kb.bits) < 10
  PROVE  /\ Stays(fw') = Stays(fw) /\ Partial(fw') = Partial(fw)
         /\ kb'.mode = "taking" /\ kb'.answer = kb.answer /\ kb'.wants = kb.wants
         /\ kb'.lamps = kb.lamps /\ kb'.bits # <<>>
         /\ fw'.sendError = 0 => fw.sendError = 0
  <1> DEFINE bit == IF Acknowledges THEN 0 ELSE 1
  <1>1. PICK level \in Bit : kb' = Look(kb, level)
    BY TakesBasic
  <1>2. bit \in Bit /\ fw' \in AfterEdge(bit, way) /\ TypeOK /\ Shaped
    BY TakesBasic DEF Basic, Bit
  <1> HIDE DEF bit
  <1>3. PICK bad \in Verdicts(way) : Sends(fw, bad, fw')
    BY <1>2, EdgeCases
  <1>4. fw.bitNum < 10 /\ fw.sendError \in Bit
    BY DEF Carries, Basic, TypeOK, Firmware
  <1>5. kb \in KeyboardState /\ kb.keys \in Seq(Keys) /\ kb.mode = "taking"
        /\ Len(kb.bits) <= 10 /\ kb.bits \in Seq(Bit)
    BY TakesBasic DEF Basic, TypeOK, Shaped, KeyboardState
  <1>6. /\ kb'.mode = "taking" /\ kb'.answer = kb.answer /\ kb'.wants = kb.wants
        /\ kb'.lamps = kb.lamps /\ kb'.bits = Append(kb.bits, level)
    BY <1>1, <1>5, LookCases
  <1>7. Append(kb.bits, level) # <<>>
    BY <1>5, AppendProperties, EmptySeq
  <1>8. Stays(fw') = Stays(fw) /\ Partial(fw') = Partial(fw)
        /\ (fw.sendError = 1 => fw'.sendError = 1)
    BY <1>3, <1>4 DEF Sends
  <1> QED  BY <1>4, <1>6, <1>7, <1>8 DEF Bit

\* What a receiver that stands still shows.
LEMMA StandsSame ==
  ASSUME NEW f, NEW g, NEW b, NEW n, Stands(f, b, n), g.state = f.state, g.data = f.data,
         g.parity = f.parity, g.inhibit = f.inhibit, f.errState = 0 => g.errState = 0
  PROVE  Stands(g, b, n)
  BY DEF Stands

LEMMA StaysShows ==
  ASSUME NEW f, NEW g, Stays(g) = Stays(f)
  PROVE  g.state = f.state /\ g.inhibit = f.inhibit /\ g.errState = f.errState
         /\ g.pbuf = f.pbuf
  BY DEF Stays

LEMMA PartialShows ==
  ASSUME NEW f, NEW g, Partial(g) = Partial(f)
  PROVE  g.data = f.data /\ g.parity = f.parity /\ g.sendMode = f.sendMode
         /\ g.dataToSend = f.dataToSend
  BY DEF Partial

LEMMA TypeReceives ==
  ASSUME Basic, Transmits, Receives, NEW b \in Keys, Type(b)
  PROVE  Receives'
  <1> SUFFICES ASSUME OneLate', ~hist'.cut PROVE Receives'
    BY DEF Receives
  <1>1. OneLate /\ ~hist.cut /\ kb'.mode = kb.mode /\ kb'.bits = kb.bits /\ fw' = fw
    BY TypeTransmits
  <1>2. CASE kb.mode = "sending"
    <2>1. Head(NextByte') = Head(NextByte)
      BY <1>2, TypeTransmits DEF Basic, Framed
    <2> QED  BY <1>1, <1>2, <2>1 DEF Receives
  <1>3. CASE kb.mode # "sending"
    BY <1>1, <1>3 DEF Receives
  <1> QED  BY <1>2, <1>3

LEMMA NoticesReceives ==
  ASSUME Basic, Transmits, Receives, KeyboardNotices
  PROVE  Receives' /\ fw'.pbuf = fw.pbuf
  <1>1. hist' = hist /\ kb.mode = "idle" /\ kb'.mode = "taking"
    BY NoticesBasic DEF KeyboardNotices
  <1>2. Stays(fw') = Stays(fw) /\ Partial(fw') = Partial(fw)
    BY NoticesBasic
  <1>3. /\ fw'.state = fw.state /\ fw'.inhibit = fw.inhibit /\ fw'.errState = fw.errState
        /\ fw'.data = fw.data /\ fw'.parity = fw.parity /\ fw'.pbuf = fw.pbuf
    BY <1>2, StaysShows, PartialShows
  <1>4. OneLate /\ ~hist.cut => Stands(fw, NoByte, INIT)
    BY <1>1 DEF Receives
  <1> QED  BY <1>1, <1>3, <1>4, StandsSame DEF Receives, OneLate, Clean

LEMMA TakesReceives ==
  ASSUME Basic, Transmits, Receives, NEW way \in Ways, KeyboardTakes(way)
  PROVE  Receives' /\ (OneLate' => fw'.pbuf = fw.pbuf)
  <1>1. OneLate' => OneLate /\ way # "lost" /\ fw.sendMode = 1 /\ Carries
    BY TakesTransmits
  <1>2. kb.mode = "taking" /\ hist'.cut = hist.cut /\ kb'.mode # "sending"
    BY TakesBasic
  <1> SUFFICES ASSUME OneLate'
               PROVE  (~hist'.cut => Stands(fw', NoByte, INIT)) /\ fw'.pbuf = fw.pbuf
    BY <1>2 DEF Receives
  <1>3. ~hist.cut => Stands(fw, NoByte, INIT)
    BY <1>1, <1>2 DEF Receives
  <1>4. CASE Len(kb.bits) < 10
    <2>1. Stays(fw') = Stays(fw) /\ Partial(fw') = Partial(fw)
      BY <1>1, <1>4, MiddleBit
    <2>2. /\ fw'.state = fw.state /\ fw'.inhibit = fw.inhibit /\ fw'.errState = fw.errState
          /\ fw'.data = fw.data /\ fw'.parity = fw.parity /\ fw'.pbuf = fw.pbuf
      BY <2>1, StaysShows, PartialShows
    <2> QED  BY <1>2, <1>3, <2>2, StandsSame
  <1>5. CASE ~(Len(kb.bits) < 10)
    <2>1. Stays(fw') = Stays(fw) /\ fw'.data = NoByte /\ fw'.parity = 1
      BY <1>1, <1>5, LastBit
    <2>2. /\ fw'.state = fw.state /\ fw'.inhibit = fw.inhibit /\ fw'.errState = fw.errState
          /\ fw'.pbuf = fw.pbuf
      BY <2>1, StaysShows
    <2> QED  BY <1>2, <1>3, <2>1, <2>2, StandsInit, NoByteTyped
  <1> QED  BY <1>4, <1>5

LEMMA BeginsReceives ==
  ASSUME Basic, Transmits, Receives, KeyboardBegins
  PROVE  Receives' /\ fw'.pbuf = fw.pbuf
  <1>1. hist' = hist /\ kb.mode = "idle"
    BY DEF KeyboardBegins
  <1>2. kb'.mode = "sending" /\ Len(kb'.bits) = 11 /\ NextByte' = NextByte
        /\ Stays(fw') = Stays(fw) /\ Partial(fw') = Partial(fw)
    BY BeginsBasic
  <1>3. /\ fw'.state = fw.state /\ fw'.inhibit = fw.inhibit /\ fw'.errState = fw.errState
        /\ fw'.data = fw.data /\ fw'.parity = fw.parity /\ fw'.pbuf = fw.pbuf
    BY <1>2, StaysShows, PartialShows
  <1>4. Head(NextByte) \in ByteBits
    BY NextByteTyped DEF KeyboardBegins
  <1>5. OneLate /\ ~hist.cut => Stands(fw', NoByte, INIT)
    BY <1>1, <1>3, StandsSame DEF Receives
  <1>6. OneLate /\ ~hist.cut => Stands(fw', Head(NextByte'), INIT)
    BY <1>2, <1>4, <1>5, StandsInit, NoByteTyped
  <1>7. 11 - Len(kb'.bits) = INIT
    BY <1>2
  <1> QED  BY <1>1, <1>2, <1>3, <1>6, <1>7 DEF Receives, OneLate, Clean

LEMMA SendsReceives ==
  ASSUME Basic, Transmits, Receives, NEW way \in {"prompt", "lost"}, KeyboardSends(way)
  PROVE  /\ Receives'
         /\ OneLate' /\ ~hist'.cut =>
              /\ Len(kb.bits) > 1 => fw'.pbuf = fw.pbuf
              /\ ~(Len(kb.bits) > 1) =>
                   fw'.pbuf = IF Len(fw.pbuf) < Capacity
                              THEN Append(fw.pbuf, Head(NextByte)) ELSE fw.pbuf
  <1> DEFINE n == Len(kb.bits)
             b == Head(NextByte)
  <1>1. /\ kb.mode = "sending" /\ n \in 1 .. 11 /\ Head(kb.bits) = Frame(b)[12 - n]
        /\ hist'.cut = hist.cut
    BY SendsBasic
  <1>2. b \in ByteBits
    BY <1>1, NextByteTyped DEF Basic, Framed
  <1>3. n > 1 => kb'.mode = "sending" /\ Len(kb'.bits) = n - 1 /\ NextByte' = NextByte
    BY SendsBasic
  <1>4. ~(n > 1) => n = 1 /\ kb'.mode = "idle"
    BY SendsBasic
  <1> SUFFICES ASSUME OneLate', ~hist'.cut
               PROVE  /\ n > 1 => Stands(fw', b, 11 - (n - 1)) /\ fw'.pbuf = fw.pbuf
                      /\ ~(n > 1) =>
                           /\ Stands(fw', NoByte, INIT)
                           /\ fw'.pbuf = IF Len(fw.pbuf) < Capacity
                                         THEN Append(fw.pbuf, b) ELSE fw.pbuf
    BY <1>3, <1>4 DEF Receives
  <1>5. OneLate /\ Hears(fw, Head(kb.bits), fw')
    BY SendsTransmits
  <1>6. Stands(fw, b, 11 - n)
    BY <1>1, <1>5 DEF Receives
  <1> HIDE DEF n, b
  <1> DEFINE m == 11 - n
  <1>7. m \in INIT .. PARITY /\ m + 1 = 12 - n /\ m + 1 = 11 - (n - 1)
    BY <1>1
  <1>8. n > 1 <=> m < PARITY
    BY <1>1
  <1>9. Stands(fw, b, m) /\ Hears(fw, Frame(b)[m + 1], fw')
    BY <1>1, <1>5, <1>6, <1>7
  <1>10. m < PARITY \/ m = PARITY
    BY <1>7
  <1> HIDE DEF m
  <1>11. /\ m < PARITY => Stands(fw', b, m + 1) /\ fw'.pbuf = fw.pbuf
         /\ m = PARITY => /\ Stands(fw', NoByte, INIT)
                          /\ fw'.pbuf = IF Len(fw.pbuf) < Capacity
                                        THEN Append(fw.pbuf, b) ELSE fw.pbuf
    BY <1>2, <1>7, <1>9, HearsFrame
  <1> QED  BY <1>7, <1>8, <1>10, <1>11

LEMMA BeginReceives ==
  ASSUME Basic, Transmits, Receives, NEW stray \in {"none", "before", "after"}, BeginSend(stray)
  PROVE  Receives' /\ (OneLate' => fw'.pbuf = fw.pbuf)
  <1>1. OneLate' => OneLate /\ stray = "none"
    BY BeginTransmits
  <1>2. kb'.mode = "idle" /\ hist'.cut = (hist.cut \/ Len(kb.bits) \in 1 .. 10)
    BY BeginBasic
  <1> SUFFICES ASSUME OneLate'
               PROVE  (~hist'.cut => Stands(fw', NoByte, INIT)) /\ fw'.pbuf = fw.pbuf
    BY <1>2 DEF Receives
  <1>3. Stays(fw') = Stays(fw) /\ fw'.data = fw.data /\ fw'.parity = fw.parity
    BY <1>1, BeginBasic
  <1>4. fw'.state = fw.state /\ fw'.inhibit = fw.inhibit /\ fw'.errState = fw.errState
        /\ fw'.pbuf = fw.pbuf
    BY <1>3, StaysShows
  <1>5. ~hist'.cut => Stands(fw, NoByte, INIT)
    <2> SUFFICES ASSUME ~hist'.cut PROVE Stands(fw, NoByte, INIT)
      OBVIOUS
    <2>1. ~hist.cut /\ ~(Len(kb.bits) \in 1 .. 10)
      BY <1>2
    <2>2. CASE kb.mode # "sending"
      BY <1>1, <2>1, <2>2 DEF Receives
    <2>3. CASE kb.mode = "sending"
      <3> DEFINE n == Len(kb.bits)
      <3>1. n \in Nat /\ n # 0 /\ n <= 11
        BY <2>3, LenProperties, EmptySeq DEF Basic, Framed, TypeOK, KeyboardState
      <3>2. ~(n \in 1 .. 10)
        BY <2>1
      <3>3. Stands(fw, Head(NextByte), 11 - n)
        BY <1>1, <2>1, <2>3 DEF Receives
      <3> HIDE DEF n
      <3>4. 11 - n = INIT
        BY <3>1, <3>2
      <3>5. Head(NextByte) \in ByteBits
        BY <2>3, NextByteTyped DEF Basic, Framed
      <3>6. Stands(fw, Head(NextByte), INIT)
        BY <3>3, <3>4
      <3> QED  BY <3>5, <3>6, StandsInit, NoByteTyped
    <2> QED  BY <2>2, <2>3
  <1> QED  BY <1>3, <1>4, <1>5, StandsSame

LEMMA LoopReceives ==
  ASSUME Basic, Transmits, Receives,
         \/ \E led \in Leds : SetLed(led)
         \/ SendReturns \/ Answer \/ NoAnswer \/ Booted \/ matrix_scan
  PROVE  Receives'
  <1>1. OneLate' => OneLate
    BY LoopTransmits
  <1>2. kb' = kb
    BY LoopTransmits
  <1>3. /\ fw'.state = fw.state /\ fw'.inhibit = fw.inhibit
        /\ fw.errState = 0 => fw'.errState = 0
        /\ fw'.data = fw.data /\ fw'.parity = fw.parity /\ hist'.cut = hist.cut
    <2>1. CASE \E led \in Leds : SetLed(led)
      BY <2>1 DEF Basic, TypeOK, HostHistory, SetLed
    <2>2. CASE SendReturns
      BY <2>2, ReturnsBasic
    <2>3. CASE Answer
      BY <2>3, AnswerBasic
    <2>4. CASE NoAnswer
      BY <2>4, NoAnswerBasic
    <2>5. CASE Booted
      BY <2>5, BootedBasic
    <2>6. CASE matrix_scan
      BY <2>6, ScanBasic
    <2> QED  BY <2>1, <2>2, <2>3, <2>4, <2>5, <2>6
  <1>4. NextByte' = NextByte
    BY <1>2 DEF NextByte
  <1> QED  BY <1>1, <1>2, <1>3, <1>4, StandsSame DEF Receives

-----------------------------------------------------------------------------
(* The answers.                                                            *)

LEMMA ObeyAnswers ==
  ASSUME NEW k \in KeyboardState, NEW b, NEW p
  PROVE  Obey(k, b, p).answer \in {<<PS2_ACK>>, <<PS2_ACK, BAT_OK>>, <<PS2_RESEND>>}
  <1> DEFINE z == Obey(k, b, p)
  <1>1. CASE p # ParityOf(b)
    <2>1. z = [k EXCEPT !.answer = <<PS2_RESEND>>]
      BY <1>1 DEF Obey
    <2> QED  BY <2>1 DEF KeyboardState
  <1>2. CASE p = ParityOf(b) /\ b = PS2_SET_LED
    <2>1. z = [k EXCEPT !.answer = <<PS2_ACK>>, !.wants = "lamps"]
      BY <1>2, CodesTyped DEF Obey
    <2> QED  BY <2>1 DEF KeyboardState
  <1>3. CASE p = ParityOf(b) /\ b = RESET
    <2>1. z = [k EXCEPT !.answer = <<PS2_ACK, BAT_OK>>, !.wants = "command",
                        !.lamps = NoLamps, !.keys = <<>>]
      BY <1>3, CodesTyped DEF Obey
    <2> QED  BY <2>1 DEF KeyboardState
  <1>4. CASE p = ParityOf(b) /\ b \in LampBytes /\ k.wants = "lamps"
    <2>1. z = [k EXCEPT !.answer = <<PS2_ACK>>, !.wants = "command", !.lamps = b]
      BY <1>4, CodesTyped DEF Obey
    <2> QED  BY <2>1 DEF KeyboardState
  <1>5. CASE p = ParityOf(b) /\ b # PS2_SET_LED /\ b # RESET
             /\ ~(b \in LampBytes /\ k.wants = "lamps")
    <2>1. z = [k EXCEPT !.answer = <<PS2_RESEND>>]
      BY <1>5 DEF Obey
    <2> QED  BY <2>1 DEF KeyboardState
  <1> QED  BY <1>1, <1>2, <1>3, <1>4, <1>5

\* What an answer is told apart by.
LEMMA AnswersDiffer ==
  ASSUME NEW a \in {PS2_ACK, PS2_RESEND}
  PROVE  /\ a \notin Plain /\ a \in ByteBits
         /\ <<a>> # <<>> /\ <<a, BAT_OK>> # <<>> /\ <<BAT_OK>> # <<>>
         /\ <<a>> # <<BAT_OK>> /\ <<a, BAT_OK>> # <<BAT_OK>>
         /\ Head(<<a>>) = a /\ Head(<<a, BAT_OK>>) = a /\ Head(<<BAT_OK>>) = BAT_OK
         /\ Tail(<<a>>) = <<>> /\ Tail(<<a, BAT_OK>>) = <<BAT_OK>> /\ Tail(<<BAT_OK>>) = <<>>
  <1>1. a \in ByteBits /\ a # BAT_OK /\ a \notin Keys
    BY CodesTyped, KeysTyped
  <1>2. a \notin Plain
    BY <1>1 DEF Plain
  <1>3. <<a>> # <<>> /\ <<a, BAT_OK>> # <<>> /\ <<BAT_OK>> # <<>>
    <2>1. Len(<<a>>) = 1 /\ Len(<<a, BAT_OK>>) = 2 /\ Len(<<BAT_OK>>) = 1 /\ Len(<<>>) = 0
      OBVIOUS
    <2> QED  BY <2>1
  <1>4. <<a>> # <<BAT_OK>>
    <2>1. <<a>>[1] = a /\ <<BAT_OK>>[1] = BAT_OK
      OBVIOUS
    <2> QED  BY <1>1, <2>1
  <1>5. <<a, BAT_OK>> # <<BAT_OK>>
    <2>1. Len(<<a, BAT_OK>>) = 2 /\ Len(<<BAT_OK>>) = 1
      OBVIOUS
    <2> QED  BY <2>1
  <1>6. Head(<<a>>) = a /\ Head(<<a, BAT_OK>>) = a /\ Head(<<BAT_OK>>) = BAT_OK
    OBVIOUS
  <1>7. Tail(<<a>>) = <<>> /\ Tail(<<BAT_OK>>) = <<>>
    OBVIOUS
  <1>8. Tail(<<a, BAT_OK>>) = <<BAT_OK>>
    OBVIOUS
  <1> QED  BY <1>1, <1>2, <1>3, <1>4, <1>5, <1>6, <1>7, <1>8

\* A byte at the end of pbuf.
LEMMA PlainAppended ==
  ASSUME NEW p, NEW e \in Plain
  PROVE  /\ p \in Seq(Plain) => Append(p, e) \in Seq(Plain)
         /\ p \in Seq(ByteBits) /\ p # <<>> /\ Tail(p) \in Seq(Plain) =>
              /\ Append(p, e) # <<>> /\ Head(Append(p, e)) = Head(p)
              /\ Tail(Append(p, e)) \in Seq(Plain)
  <1>1. ASSUME p \in Seq(Plain)
        PROVE  Append(p, e) \in Seq(Plain)
    BY <1>1, AppendProperties
  <1>2. ASSUME p \in Seq(ByteBits), p # <<>>, Tail(p) \in Seq(Plain)
        PROVE  /\ Append(p, e) # <<>> /\ Head(Append(p, e)) = Head(p)
               /\ Tail(Append(p, e)) \in Seq(Plain)
    <2> DEFINE q == Append(p, e)
               n == Len(p)
    <2>1. e \in ByteBits
      BY CodesTyped, KeysTyped DEF Plain
    <2>2. /\ q \in Seq(ByteBits) /\ q # <<>> /\ Len(q) = n + 1 /\ q[n + 1] = e
          /\ \A i \in 1 .. n : q[i] = p[i]
      BY <1>2, <2>1, AppendProperties
    <2>3. n \in Nat /\ n # 0
      BY <1>2, LenProperties, EmptySeq
    <2>4. Head(q) = q[1] /\ Head(p) = p[1]
      BY <1>2, <2>2, HeadTailProperties
    <2>5. q[1] = p[1]
      <3> HIDE DEF q, n
      <3>1. 1 \in 1 .. n
        BY <2>3
      <3> QED  BY <2>2, <3>1
    <2> DEFINE t == Tail(p)
               u == Tail(q)
    <2>6. /\ u \in Seq(ByteBits) /\ Len(u) = Len(q) - 1
          /\ \A i \in 1 .. Len(q) - 1 : u[i] = q[i + 1]
      BY <2>2, HeadTailProperties, LenProperties
    <2>7. Len(t) = n - 1 /\ \A i \in 1 .. n - 1 : t[i] = p[i + 1]
      BY <1>2, HeadTailProperties, LenProperties
    <2>8. t \in Seq(Plain)
      BY <1>2
    <2> HIDE DEF q, n, t, u
    <2>9. Len(u) = n
      BY <2>2, <2>3, <2>6
    <2>10. \A i \in 1 .. n : u[i] \in Plain
      <3> SUFFICES ASSUME NEW i \in 1 .. n PROVE u[i] \in Plain
        OBVIOUS
      <3>1. u[i] = q[i + 1]
        BY <2>2, <2>3, <2>6
      <3>2. CASE i = n
        BY <2>2, <3>1, <3>2
      <3>3. CASE i # n
        <4>1. i \in 1 .. n - 1 /\ i + 1 \in 1 .. n
          BY <2>3, <3>3
        <4>2. u[i] = t[i]
          BY <2>2, <2>7, <3>1, <4>1
        <4>3. t[i] \in Plain
          BY <2>7, <2>8, <4>1, ElementOfSeq
        <4> QED  BY <4>2, <4>3
      <3> QED  BY <3>2, <3>3
    <2>11. u \in Seq(Plain)
      <3>1. u = [i \in 1 .. n |-> u[i]]
        BY <2>6, <2>9, LenProperties
      <3>2. u \in [1 .. n -> Plain]
        BY <2>10, <3>1
      <3> QED  BY <2>3, <3>2, SeqDef
    <2> QED  BY <2>2, <2>4, <2>5, <2>11 DEF q, u
  <1> QED  BY <1>1, <1>2

\* The steps that leave pbuf, the answer and where the main loop is.
LEMMA AnswersStay ==
  ASSUME Answers, OneLate' => OneLate, hist'.cut = hist.cut, hist'.stale = hist.stale,
         hist'.misread = hist.misread, main' = main, fw'.sendMode = fw.sendMode,
         fw'.pbuf = fw.pbuf, kb'.answer = kb.answer
  PROVE  Answers' /\ (\A a : Answered(a) => Answered(a)')
  BY DEF Answers, Waits, Answered

LEMMA TypeAnswers ==
  ASSUME Basic, Transmits, Answers, NEW b \in Keys, Type(b)
  PROVE  Answers' /\ (\A a : Answered(a) => Answered(a)')
  <1>1. /\ (OneLate' => OneLate) /\ fw' = fw /\ main' = main /\ kb'.answer = kb.answer
        /\ hist'.cut = hist.cut /\ hist'.stale = hist.stale /\ hist'.misread = hist.misread
    BY TypeTransmits
  <1> QED  BY <1>1, AnswersStay

LEMMA NoticesAnswers ==
  ASSUME Basic, Transmits, Receives, Answers, KeyboardNotices
  PROVE  Answers' /\ (OneLate' => OneLate /\ fw.sendMode = 1 /\ fw'.sendMode = 1)
  <1>1. (OneLate => fw.sendMode = 1) /\ main' = main /\ hist' = hist
    BY NoticesTransmits
  <1>2. fw'.sendMode = fw.sendMode /\ fw'.pbuf = fw.pbuf
    BY NoticesBasic, NoticesReceives, PartialShows
  <1>3. OneLate => main.pc = "sending"
    BY <1>1 DEF Transmits, Carries
  <1>4. OneLate' => OneLate
    BY <1>1 DEF OneLate, Clean
  <1> QED  BY <1>1, <1>2, <1>3, <1>4 DEF Answers, Waits

LEMMA TakesAnswers ==
  ASSUME Basic, Transmits, Receives, Answers, NEW way \in Ways, KeyboardTakes(way)
  PROVE  Answers'
  <1> SUFFICES ASSUME OneLate', ~hist'.cut, ~hist'.stale PROVE Answers'
    BY DEF Answers
  <1>1. OneLate /\ way # "lost" /\ fw.sendMode = 1 /\ Carries
    BY TakesTransmits
  <1>2. /\ main' = main /\ hist'.cut = hist.cut /\ hist'.stale = hist.stale
        /\ hist'.misread = hist.misread
    BY TakesBasic
  <1>3. fw'.pbuf = fw.pbuf /\ main.pc = "sending" /\ fw.pbuf = <<>> /\ ~hist.misread
    BY <1>1, <1>2, TakesReceives DEF Carries, Answers
  <1>4. CASE Len(kb.bits) < 10
    <2>1. fw'.sendMode = fw.sendMode
      BY <1>1, <1>4, MiddleBit, PartialShows
    <2> QED  BY <1>1, <1>2, <1>3, <2>1 DEF Answers, Waits
  <1>5. CASE ~(Len(kb.bits) < 10)
    <2>1. fw'.sendMode = 0
      BY <1>1, <1>5, LastBit
    <2>2. kb'.answer \in {<<PS2_ACK>>, <<PS2_ACK, BAT_OK>>, <<PS2_RESEND>>}
      <3>1. kb \in KeyboardState /\ kb.keys \in Seq(Keys) /\ main \in MainState
        BY DEF Basic, TypeOK, Shaped
      <3>2. ToSend \in ByteBits /\ ParityOf(ToSend) \in Bit
        BY <3>1, ToSendTyped, FrameBits
      <3>3. CASE Obeys
        <4> DEFINE o == Obey(kb, ToSend, ParityOf(ToSend))
        <4>1. kb' = [o EXCEPT !.mode = "idle", !.bits = <<>>]
          BY <1>1, <1>5, <3>3, LastBit
        <4>2. o \in KeyboardState
               /\ o.answer \in {<<PS2_ACK>>, <<PS2_ACK, BAT_OK>>, <<PS2_RESEND>>}
          BY <3>1, <3>2, ObeyTyped, ObeyAnswers
        <4> HIDE DEF o
        <4>3. kb'.answer = o.answer
          BY <4>1, <4>2 DEF KeyboardState
        <4> QED  BY <4>2, <4>3
      <3>4. CASE ~Obeys
        <4>1. kb' = [kb EXCEPT !.answer = <<PS2_RESEND>>, !.mode = "idle", !.bits = <<>>]
          BY <1>1, <1>5, <3>4, LastBit
        <4> QED  BY <3>1, <4>1 DEF KeyboardState
      <3> QED  BY <3>3, <3>4
    <2>3. fw'.pbuf = <<>>
      BY <1>3
    <2>4. (Answered(PS2_ACK) \/ Answered(PS2_RESEND))'
      BY <2>2, <2>3 DEF Answered
    <2>5. ~hist'.misread /\ main'.pc = "sending"
      BY <1>2, <1>3
    <2> QED  BY <2>1, <2>3, <2>4, <2>5 DEF Answers
  <1> QED  BY <1>4, <1>5

LEMMA BeginsAnswers ==
  ASSUME Basic, Transmits, Receives, Answers, KeyboardBegins
  PROVE  Answers' /\ (\A a : Answered(a) => Answered(a)')
  <1>1. main' = main /\ hist' = hist
    BY BeginsTransmits
  <1>2. fw'.sendMode = fw.sendMode /\ fw'.pbuf = fw.pbuf /\ kb'.answer = kb.answer
    BY BeginsBasic, BeginsReceives, PartialShows
  <1>3. OneLate' => OneLate
    BY <1>1 DEF OneLate, Clean
  <1> QED  BY <1>1, <1>2, <1>3, AnswersStay

LEMMA SendsAnswers ==
  ASSUME Basic, Transmits, Receives, Answers, NEW way \in {"prompt", "lost"},
         KeyboardSends(way)
  PROVE  /\ Answers'
         /\ OneLate' /\ ~hist'.cut =>
              \A a \in {PS2_ACK, PS2_RESEND} : Answered(a) => Answered(a)'
  <1> DEFINE b == Head(NextByte)
             n == Len(kb.bits)
  <1> SUFFICES ASSUME OneLate', ~hist'.cut
               PROVE  /\ Answers'
                      /\ \A a \in {PS2_ACK, PS2_RESEND} : Answered(a) => Answered(a)'
    BY DEF Answers
  <1>1. OneLate /\ fw.sendMode = 0 /\ fw'.sendMode = 0
    BY SendsTransmits
  <1>2. /\ main' = main /\ hist'.cut = hist.cut /\ hist'.stale = hist.stale
        /\ hist'.misread = hist.misread
    BY SendsBasic
  <1>3. CASE n > 1
    <2>1. kb'.answer = kb.answer /\ fw'.pbuf = fw.pbuf
      BY <1>3, SendsBasic, SendsReceives
    <2> QED  BY <1>1, <1>2, <2>1, AnswersStay
  <1>4. CASE ~(n > 1)
    <2>1. /\ kb'.answer = IF kb.answer # <<>> THEN Tail(kb.answer) ELSE kb.answer
          /\ kb.answer = <<>> => b \in Keys
          /\ kb.answer # <<>> => b = Head(kb.answer)
      BY <1>4, SendsBasic
    <2>2. fw'.pbuf = IF Len(fw.pbuf) < Capacity THEN Append(fw.pbuf, b) ELSE fw.pbuf
      BY <1>4, SendsReceives
    <2> HIDE DEF b
    <2>3. fw.pbuf \in Seq(ByteBits)
      BY DEF Basic, TypeOK, Firmware
    <2>4. kb.answer \in {<<>>, <<BAT_OK>>} => b \in Plain /\ kb'.answer = <<>>
      <3>1. <<BAT_OK>> # <<>> /\ Head(<<BAT_OK>>) = BAT_OK /\ Tail(<<BAT_OK>>) = <<>>
        BY AnswersDiffer
      <3>2. CASE kb.answer = <<>>
        BY <2>1, <3>2 DEF Plain
      <3>3. CASE kb.answer = <<BAT_OK>>
        BY <2>1, <3>1, <3>3 DEF Plain
      <3> QED  BY <3>2, <3>3
    <2>5. ASSUME NEW a \in {PS2_ACK, PS2_RESEND}, Answered(a)
          PROVE  Answered(a)'
      <3>1. CASE kb.answer \in {<<a>>, <<a, BAT_OK>>} /\ fw.pbuf = <<>>
        <4>1. kb.answer # <<>> /\ Head(kb.answer) = a /\ Tail(kb.answer) \in {<<>>, <<BAT_OK>>}
          BY <3>1, AnswersDiffer
        <4>2. b = a /\ kb'.answer \in {<<>>, <<BAT_OK>>}
          BY <2>1, <4>1
        <4>3. fw'.pbuf = Append(<<>>, a)
          <5>1. Len(<<>>) < Capacity
            BY HostBounds, EmptySeq
          <5> QED  BY <2>2, <3>1, <4>2, <5>1
        <4>4. Append(<<>>, a) = <<a>> /\ <<a>> # <<>> /\ Head(<<a>>) = a /\ Tail(<<a>>) = <<>>
          BY AnswersDiffer
        <4>5. <<>> \in Seq(Plain)
          BY EmptySeq
        <4> QED  BY <4>2, <4>3, <4>4, <4>5 DEF Answered
      <3>2. CASE /\ fw.pbuf # <<>> /\ Head(fw.pbuf) = a /\ Tail(fw.pbuf) \in Seq(Plain)
                 /\ kb.answer \in {<<>>, <<BAT_OK>>}
        <4>1. b \in Plain /\ kb'.answer = <<>>
          BY <2>4, <3>2
        <4>2. fw'.pbuf # <<>> /\ Head(fw'.pbuf) = a /\ Tail(fw'.pbuf) \in Seq(Plain)
          BY <2>2, <2>3, <3>2, <4>1, PlainAppended
        <4> QED  BY <4>1, <4>2 DEF Answered
      <3> QED  BY <2>5, <3>1, <3>2 DEF Answered
    <2>6. Answers'
      <3> SUFFICES ASSUME ~hist'.stale PROVE Answers'
        BY DEF Answers
      <3>1. Waits' => (Answered(PS2_ACK) \/ Answered(PS2_RESEND))'
        <4> SUFFICES ASSUME Waits' PROVE (Answered(PS2_ACK) \/ Answered(PS2_RESEND))'
          OBVIOUS
        <4>1. Waits
          BY <1>1, <1>2 DEF Waits
        <4>2. Answered(PS2_ACK) \/ Answered(PS2_RESEND)
          BY <1>1, <1>2, <4>1 DEF Answers
        <4>3. CASE Answered(PS2_ACK)
          BY <2>5, <4>3
        <4>4. CASE Answered(PS2_RESEND)
          BY <2>5, <4>4
        <4> QED  BY <4>2, <4>3, <4>4
      <3>2. main'.pc \in {"loop", "begin", "booting"} =>
              fw'.pbuf \in Seq(Plain) /\ kb'.answer \in {<<>>, <<BAT_OK>>}
        <4> SUFFICES ASSUME main.pc \in {"loop", "begin", "booting"}
                     PROVE  fw'.pbuf \in Seq(Plain) /\ kb'.answer \in {<<>>, <<BAT_OK>>}
          BY <1>2
        <4>1. fw.pbuf \in Seq(Plain) /\ kb.answer \in {<<>>, <<BAT_OK>>}
          BY <1>1, <1>2 DEF Answers
        <4>2. b \in Plain /\ kb'.answer = <<>>
          BY <2>4, <4>1
        <4> QED  BY <2>2, <4>1, <4>2, PlainAppended
      <3>3. ~hist'.misread
        BY <1>1, <1>2 DEF Answers
      <3> QED  BY <1>1, <3>1, <3>2, <3>3 DEF Answers
    <2> QED  BY <2>5, <2>6
  <1> QED  BY <1>3, <1>4

LEMMA BeginAnswers ==
  ASSUME Basic, Transmits, Receives, Answers, NEW stray \in {"none", "before", "after"},
         BeginSend(stray)
  PROVE  Answers'
  <1> SUFFICES ASSUME OneLate', ~hist'.cut, ~hist'.stale PROVE Answers'
    BY DEF Answers
  <1>1. OneLate /\ stray = "none" /\ fw'.pbuf = fw.pbuf
    BY BeginTransmits, BeginReceives
  <1>2. /\ main'.pc = "sending" /\ fw'.sendMode = 1 /\ hist'.misread = hist.misread
        /\ ~hist.cut /\ ~hist.stale /\ fw.pbuf = <<>>
    BY <1>1, BeginBasic
  <1> QED  BY <1>1, <1>2 DEF Answers, Waits

\* What the main loop finds when it takes an answer.
LEMMA TakenAnswer ==
  ASSUME Answers, OneLate, ~hist.cut, ~hist.stale, main.pc = "answer", fw.sendMode = 0,
         fw.pbuf # <<>>
  PROVE  /\ Tail(fw.pbuf) \in Seq(Plain) /\ kb.answer \in {<<>>, <<BAT_OK>>}
         /\ \A a : Answered(a) => Head(fw.pbuf) = a
  <1>1. Answered(PS2_ACK) \/ Answered(PS2_RESEND)
    BY DEF Answers, Waits
  <1> QED  BY <1>1 DEF Answered

LEMMA NoAnswerNever ==
  ASSUME Answers, OneLate, main.pc = "answer", fw.sendMode = 0, fw.pbuf = <<>>,
         kb.answer \in {<<>>, <<BAT_OK>>}
  PROVE  hist.cut \/ hist.stale
  <1> SUFFICES ASSUME ~hist.cut, ~hist.stale PROVE FALSE
    OBVIOUS
  <1>1. PICK a \in {PS2_ACK, PS2_RESEND} : Answered(a)
    BY DEF Answers, Waits
  <1>2. kb.answer \in {<<a>>, <<a, BAT_OK>>}
    BY <1>1 DEF Answered
  <1>3. <<a>> # <<>> /\ <<a, BAT_OK>> # <<>> /\ <<a>> # <<BAT_OK>> /\ <<a, BAT_OK>> # <<BAT_OK>>
    BY AnswersDiffer
  <1> QED  BY <1>2, <1>3

LEMMA LoopAnswers ==
  ASSUME Basic, Transmits, Answers,
         \/ \E led \in Leds : SetLed(led)
         \/ SendReturns \/ Answer \/ NoAnswer \/ Booted \/ matrix_scan
  PROVE  Answers'
  <1> SUFFICES ASSUME OneLate', ~hist'.cut, ~hist'.stale PROVE Answers'
    BY DEF Answers
  <1>1. /\ OneLate /\ fw.sendMode = 0 /\ fw'.sendMode = 0 /\ kb' = kb
    BY LoopTransmits
  <1>2. hist \in HostHistory /\ main \in MainState
    BY DEF Basic, TypeOK
  <1>3. CASE \E led \in Leds : SetLed(led)
    <2>1. /\ main.pc = "loop" /\ main'.pc = "begin" /\ UNCHANGED <<fw, kb>>
          /\ hist'.cut = hist.cut /\ hist'.stale = hist.stale /\ hist'.misread = hist.misread
      BY <1>2, <1>3 DEF SetLed, HostHistory
    <2> QED  BY <1>1, <2>1 DEF Answers, Waits
  <1>4. CASE SendReturns
    <2>1. main.pc = "sending" /\ main'.pc = "answer" /\ hist' = hist /\ fw'.pbuf = fw.pbuf
      BY <1>4, ReturnsBasic
    <2>2. Waits
      BY <1>1, <2>1 DEF Waits
    <2> QED  BY <1>1, <2>1, <2>2 DEF Answers, Waits, Answered
  <1>5. CASE Answer
    <2>1. /\ main.pc = "answer" /\ fw.pbuf # <<>> /\ hist' = hist
          /\ main' = Proceed(main, Head(fw.pbuf) = PS2_ACK) /\ fw'.pbuf = Tail(fw.pbuf)
      BY <1>5, AnswerBasic
    <2>2. main'.pc \in {"begin", "loop", "booting"}
      <3>1. main.phase \in {"reset", "command", "argument"}
        BY <1>2 DEF MainState
      <3> QED  BY <1>2, <2>1, <3>1, ProceedCases
    <2>3. Tail(fw.pbuf) \in Seq(Plain) /\ kb.answer \in {<<>>, <<BAT_OK>>}
      BY <1>1, <2>1, TakenAnswer
    <2>4. ~hist'.misread
      BY <1>1, <2>1 DEF Answers
    <2> QED  BY <1>1, <2>1, <2>2, <2>3, <2>4 DEF Answers, Waits
  <1>6. CASE NoAnswer
    <2>1. /\ main.pc = "answer" /\ fw.pbuf = <<>> /\ kb.answer \in {<<>>, <<BAT_OK>>}
          /\ hist' = hist
      BY <1>6, NoAnswerBasic
    <2> QED  BY <1>1, <2>1, NoAnswerNever
  <1>7. CASE Booted
    <2>1. main.pc = "booting" /\ main'.pc = "loop" /\ UNCHANGED <<fw, kb, hist>>
      BY <1>7, BootedBasic
    <2> QED  BY <1>1, <2>1 DEF Answers, Waits
  <1>8. CASE matrix_scan
    <2>1. /\ main.pc = "loop" /\ main' = main /\ hist'.cut = hist.cut
          /\ hist'.stale = hist.stale
          /\ fw'.pbuf = (IF fw.pbuf = <<>> THEN <<>> ELSE Tail(fw.pbuf))
          /\ (hist'.misread =>
                hist.misread \/ (fw.pbuf # <<>> /\ Head(fw.pbuf) \in {PS2_ACK, PS2_RESEND}))
      BY <1>8, ScanBasic
    <2>2. fw.pbuf \in Seq(Plain) /\ kb.answer \in {<<>>, <<BAT_OK>>} /\ ~hist.misread
      BY <1>1, <2>1 DEF Answers
    <2>3. fw'.pbuf \in Seq(Plain)
      BY <2>1, <2>2, HeadTailProperties, EmptySeq
    <2>4. ~hist'.misread
      <3>1. fw.pbuf # <<>> => Head(fw.pbuf) \in Plain
        BY <2>2, HeadTailProperties
      <3>2. PS2_ACK \notin Plain /\ PS2_RESEND \notin Plain
        BY AnswersDiffer
      <3> QED  BY <2>1, <2>2, <3>1, <3>2
    <2> QED  BY <1>1, <2>1, <2>2, <2>3, <2>4 DEF Answers, Waits
  <1> QED  BY <1>3, <1>4, <1>5, <1>6, <1>7, <1>8

-----------------------------------------------------------------------------
(* The lamps.                                                              *)

LEMMA ObeyLamps ==
  ASSUME NEW k \in KeyboardState, NEW b \in ByteBits
  PROVE  /\ b = RESET => Obey(k, b, ParityOf(b)).lamps = NoLamps
         /\ b = PS2_SET_LED => Obey(k, b, ParityOf(b)).wants = "lamps"
         /\ b \in LampBytes /\ k.wants = "lamps" => Obey(k, b, ParityOf(b)).lamps = b
         /\ b \in LampBytes /\ k.wants # "lamps" => Obey(k, b, ParityOf(b)).lamps = k.lamps
  <1> DEFINE z == Obey(k, b, ParityOf(b))
  <1>1. CASE b = PS2_SET_LED
    <2>1. z = [k EXCEPT !.answer = <<PS2_ACK>>, !.wants = "lamps"]
      BY <1>1, CodesTyped DEF Obey
    <2>2. z.wants = "lamps"
      BY <2>1 DEF KeyboardState
    <2> QED  BY <1>1, <2>2, CodesTyped
  <1>2. CASE b = RESET
    <2>1. z = [k EXCEPT !.answer = <<PS2_ACK, BAT_OK>>, !.wants = "command",
                        !.lamps = NoLamps, !.keys = <<>>]
      BY <1>2, CodesTyped DEF Obey
    <2>2. z.lamps = NoLamps
      BY <2>1 DEF KeyboardState
    <2> QED  BY <1>2, <2>2, CodesTyped
  <1>3. CASE b \in LampBytes /\ k.wants = "lamps"
    <2>1. z = [k EXCEPT !.answer = <<PS2_ACK>>, !.wants = "command", !.lamps = b]
      BY <1>3, CodesTyped DEF Obey
    <2>2. z.lamps = b
      BY <2>1 DEF KeyboardState
    <2> QED  BY <1>3, <2>2, CodesTyped
  <1>4. CASE b \in LampBytes /\ k.wants # "lamps"
    <2>1. z = [k EXCEPT !.answer = <<PS2_RESEND>>]
      BY <1>4, CodesTyped DEF Obey
    <2>2. z.lamps = k.lamps
      BY <2>1 DEF KeyboardState
    <2> QED  BY <1>4, <2>2, CodesTyped
  <1> QED  BY <1>1, <1>2, <1>3, <1>4

\* The steps that leave what the lamps depend on, and whether an answer is awaited.
LEMMA LightsStay ==
  ASSUME Lights, OneLate' => OneLate, hist'.cut = hist.cut, hist'.stale = hist.stale,
         hist'.late = hist.late, main' = main, fw'.sendMode = fw.sendMode,
         fw'.sendError = fw.sendError, kb'.lamps = kb.lamps, kb'.wants = kb.wants,
         OneLate' /\ ~hist'.cut /\ Waits /\ Answered(PS2_RESEND) => Answered(PS2_RESEND)',
         OneLate' /\ fw.sendMode = 1 /\ Exact(ToSend) => Exact(ToSend)'
  PROVE  Lights'
  <1>1. Attained' <=> Attained
    BY DEF Attained
  <1>2. Waits' <=> Waits
    BY DEF Waits
  <1> SUFFICES ASSUME OneLate', ~hist'.cut, ~hist'.stale PROVE Lights'
    BY DEF Lights
  <1>3. /\ main.phase = "reset" => main.led = NoLamps /\ kb.lamps = NoLamps
        /\ main.phase = "argument" => kb.lamps = main.led \/ kb.wants = "lamps"
        /\ main.pc \in {"loop", "booting"} => kb.lamps = main.led
        /\ main.pc = "loop" => main.phase = "argument"
    BY DEF Lights
  <1>4. ~Attained =>
         /\ main.pc = "begin" => main.tries >= Tries - hist.late
         /\ fw.sendMode = 1 => \/ main.tries >= Tries - 1
                               \/ hist.late = 1 /\ fw.sendError = 0 /\ Exact(ToSend)
         /\ Waits => main.tries >= Tries - 1 /\ hist.late = 1 /\ Answered(PS2_RESEND)
    BY DEF Lights
  <1>5. ASSUME ~Attained'
        PROVE  /\ main'.pc = "begin" => main'.tries >= Tries - hist'.late
               /\ fw'.sendMode = 1 => \/ main'.tries >= Tries - 1
                                      \/ hist'.late = 1 /\ fw'.sendError = 0 /\ Exact(ToSend)'
               /\ Waits' => main'.tries >= Tries - 1 /\ hist'.late = 1 /\ Answered(PS2_RESEND)'
    <2>1. ~Attained
      BY <1>1, <1>5
    <2>2. main'.pc = "begin" => main'.tries >= Tries - hist'.late
      BY <1>4, <2>1
    <2>3. fw'.sendMode = 1 => \/ main'.tries >= Tries - 1
                              \/ hist'.late = 1 /\ fw'.sendError = 0 /\ Exact(ToSend)'
      BY <1>4, <2>1
    <2>4. Waits' => main'.tries >= Tries - 1 /\ hist'.late = 1 /\ Answered(PS2_RESEND)'
      BY <1>2, <1>4, <2>1
    <2> QED  BY <2>2, <2>3, <2>4
  <1> QED  BY <1>3, <1>5 DEF Lights

LEMMA TypeLights ==
  ASSUME Basic, Transmits, Answers, Lights, NEW b \in Keys, Type(b)
  PROVE  Lights'
  <1>1. /\ (OneLate' => OneLate) /\ fw' = fw /\ main' = main /\ kb'.bits = kb.bits
        /\ kb'.wants = kb.wants /\ kb'.lamps = kb.lamps
        /\ hist'.cut = hist.cut /\ hist'.stale = hist.stale /\ hist'.late = hist.late
    BY TypeTransmits
  <1>2. Answered(PS2_RESEND) => Answered(PS2_RESEND)'
    BY TypeAnswers
  <1>3. Exact(ToSend) => Exact(ToSend)'
    BY <1>1 DEF Exact, ToSend
  <1> QED  BY <1>1, <1>2, <1>3, LightsStay

LEMMA NoticesLights ==
  ASSUME Basic, Transmits, Receives, Answers, Lights, KeyboardNotices
  PROVE  Lights'
  <1>1. main' = main /\ hist' = hist
    BY NoticesTransmits
  <1>2. /\ fw'.sendMode = fw.sendMode /\ fw'.sendError = fw.sendError
        /\ kb'.wants = kb.wants /\ kb'.lamps = kb.lamps
    BY NoticesBasic, PartialShows
  <1>3. OneLate' => OneLate /\ fw.sendMode = 1
    BY NoticesAnswers
  <1>4. OneLate' => ~Waits
    BY <1>3 DEF Waits
  <1>5. kb'.bits = kb.bits
    BY NoticesBasic DEF Basic, Shaped, KeyboardNotices
  <1>6. Exact(ToSend) => Exact(ToSend)'
    BY <1>1, <1>5 DEF Exact, ToSend
  <1> QED  BY <1>1, <1>2, <1>3, <1>4, <1>6, LightsStay

LEMMA BeginsLights ==
  ASSUME Basic, Transmits, Receives, Answers, Lights, KeyboardBegins
  PROVE  Lights'
  <1>1. main' = main /\ hist' = hist /\ (OneLate => fw.sendMode = 0)
    BY BeginsTransmits
  <1>2. /\ fw'.sendMode = fw.sendMode /\ fw'.sendError = fw.sendError
        /\ kb'.wants = kb.wants /\ kb'.lamps = kb.lamps
    BY BeginsBasic, PartialShows
  <1>3. Answered(PS2_RESEND) => Answered(PS2_RESEND)'
    BY BeginsAnswers
  <1>4. OneLate' => OneLate
    BY <1>1 DEF OneLate, Clean
  <1>5. ~(OneLate' /\ fw.sendMode = 1)
    BY <1>1, <1>4
  <1> QED  BY <1>1, <1>2, <1>3, <1>4, <1>5, LightsStay

LEMMA SendsLights ==
  ASSUME Basic, Transmits, Receives, Answers, Lights, NEW way \in {"prompt", "lost"},
         KeyboardSends(way)
  PROVE  Lights'
  <1> SUFFICES ASSUME OneLate' PROVE Lights'
    BY DEF Lights
  <1>1. OneLate /\ fw.sendMode = 0 /\ fw'.sendMode = 0 /\ Hears(fw, Head(kb.bits), fw')
    BY SendsTransmits
  <1>2. fw'.sendError = fw.sendError
    BY <1>1 DEF Hears, Rest
  <1>3. /\ main' = main /\ hist'.cut = hist.cut /\ hist'.stale = hist.stale
        /\ hist'.late = hist.late /\ kb'.wants = kb.wants /\ kb'.lamps = kb.lamps
    BY SendsBasic
  <1>4. OneLate' /\ ~hist'.cut /\ Answered(PS2_RESEND) => Answered(PS2_RESEND)'
    BY SendsAnswers
  <1>5. fw.sendMode # 1 /\ fw'.sendMode = fw.sendMode
    BY <1>1
  <1> QED  BY <1>1, <1>2, <1>3, <1>4, <1>5, LightsStay

LEMMA TakesLights ==
  ASSUME Basic, Transmits, Receives, Answers, Answers', Lights, NEW way \in Ways,
         KeyboardTakes(way)
  PROVE  Lights'
  <1> SUFFICES ASSUME OneLate', ~hist'.cut, ~hist'.stale PROVE Lights'
    BY DEF Lights
  <1>1. OneLate /\ way # "lost" /\ fw.sendMode = 1 /\ Carries
    BY TakesTransmits
  <1>2. /\ main' = main /\ hist'.cut = hist.cut /\ hist'.stale = hist.stale
        /\ hist'.late = IF way \in {"late", "pcint"} THEN hist.late + 1 ELSE hist.late
        /\ kb'.mode # "sending"
    BY TakesBasic
  <1>3. hist.late \in Nat /\ hist'.late <= 1 /\ main \in MainState /\ kb \in KeyboardState
        /\ kb.keys \in Seq(Keys)
    BY DEF OneLate, Basic, TypeOK, HostHistory, Shaped
  <1>4. /\ main.phase = "reset" => main.led = NoLamps /\ kb.lamps = NoLamps
        /\ main.phase = "argument" => kb.lamps = main.led \/ kb.wants = "lamps"
        /\ main.pc = "sending" /\ main'.pc = "sending"
        /\ ~Attained => \/ main.tries >= Tries - 1
                        \/ hist.late = 1 /\ fw.sendError = 0 /\ Exact(ToSend)
    BY <1>1, <1>2 DEF Lights, Carries
  <1>5. CASE Len(kb.bits) < 10
    <2>1. kb'.lamps = kb.lamps /\ kb'.wants = kb.wants
      BY <1>1, <1>5, MiddleBit
    <2>2. /\ fw'.sendMode = 1
          /\ way = "prompt" /\ fw.sendError = 0 /\ Exact(ToSend) =>
               fw'.sendError = 0 /\ Exact(ToSend)'
      BY <1>1, <1>3, <1>5, NextBit
    <2>3. Attained' <=> Attained
      BY <1>2, <2>1 DEF Attained
    <2>4. ~Attained => \/ main'.tries >= Tries - 1
                       \/ hist'.late = 1 /\ fw'.sendError = 0 /\ Exact(ToSend)'
      <3> SUFFICES ASSUME ~Attained, ~(main.tries >= Tries - 1)
                   PROVE  hist'.late = 1 /\ fw'.sendError = 0 /\ Exact(ToSend)'
        BY <1>2
      <3>1. hist.late = 1 /\ fw.sendError = 0 /\ Exact(ToSend)
        BY <1>4
      <3>2. way = "prompt" /\ hist'.late = 1
        BY <1>1, <1>2, <1>3, <3>1 DEF Ways
      <3> QED  BY <2>2, <3>1, <3>2
    <2> QED  BY <1>2, <1>4, <2>1, <2>2, <2>3, <2>4 DEF Lights, Waits
  <1>6. CASE ~(Len(kb.bits) < 10)
    <2>1. fw'.sendMode = 0
      BY <1>1, <1>6, LastBit
    <2>2. fw'.pbuf = <<>>
      <3>1. fw.pbuf = <<>>
        BY <1>1, <1>2 DEF Answers
      <3> QED  BY <3>1, TakesReceives
    <2>3. CASE Obeys
      <3> DEFINE o == Obey(kb, ToSend, ParityOf(ToSend))
      <3>1. kb' = [o EXCEPT !.mode = "idle", !.bits = <<>>]
        BY <1>1, <1>6, <2>3, LastBit
      <3>2. ToSend \in ByteBits /\ ParityOf(ToSend) \in Bit
        BY <1>3, ToSendTyped, FrameBits
      <3>3. o \in KeyboardState
        BY <1>3, <3>2, ObeyTyped
      <3>4. kb'.lamps = o.lamps /\ kb'.wants = o.wants
        <4> HIDE DEF o
        <4> QED  BY <3>1, <3>3 DEF KeyboardState
      <3>5. main.phase \in {"reset", "command", "argument"} /\ main.led \in LampBytes
        BY <1>3 DEF MainState
      <3>6. /\ Attained'
            /\ main'.phase = "reset" => main'.led = NoLamps /\ kb'.lamps = NoLamps
            /\ main'.phase = "argument" => kb'.lamps = main'.led \/ kb'.wants = "lamps"
        <4>1. CASE main.phase = "reset"
          <5>1. o.lamps = NoLamps
            BY <1>3, <3>2, <4>1, ToSendTyped, ObeyLamps
          <5> QED  BY <1>2, <1>4, <3>4, <4>1, <5>1 DEF Attained
        <4>2. CASE main.phase = "command"
          <5>1. o.wants = "lamps"
            BY <1>3, <3>2, <4>2, ToSendTyped, ObeyLamps
          <5> QED  BY <1>2, <3>4, <4>2, <5>1 DEF Attained
        <4>3. CASE main.phase = "argument"
          <5>1. ToSend = main.led
            BY <1>3, <4>3, ToSendTyped
          <5>2. o.lamps = main.led
            <6>1. CASE kb.wants = "lamps"
              BY <1>3, <3>2, <3>5, <5>1, <6>1, ObeyLamps
            <6>2. CASE kb.wants # "lamps"
              BY <1>3, <1>4, <3>2, <3>5, <4>3, <5>1, <6>2, ObeyLamps
            <6> QED  BY <6>1, <6>2
          <5> QED  BY <1>2, <3>4, <4>3, <5>2 DEF Attained
        <4> QED  BY <3>5, <4>1, <4>2, <4>3
      <3> QED  BY <1>4, <3>6 DEF Lights
    <2>4. CASE ~Obeys
      <3>1. kb' = [kb EXCEPT !.answer = <<PS2_RESEND>>, !.mode = "idle", !.bits = <<>>]
            /\ ~Exact(ToSend)
        BY <1>1, <1>6, <2>4, LastBit
      <3>2. kb'.lamps = kb.lamps /\ kb'.wants = kb.wants /\ kb'.answer = <<PS2_RESEND>>
        BY <1>3, <3>1 DEF KeyboardState
      <3>3. Attained' <=> Attained
        BY <1>2, <3>2 DEF Attained
      <3>4. Answered(PS2_RESEND)'
        BY <2>2, <3>2 DEF Answered
      <3>5. hist'.late = 1
        <4>1. hist.late # 0
          BY <1>1, <3>1 DEF Carries
        <4> QED  BY <1>2, <1>3, <4>1
      <3>6. ~Attained => main'.tries >= Tries - 1
        BY <1>2, <1>4, <3>1
      <3> QED  BY <1>2, <1>4, <2>1, <3>2, <3>3, <3>4, <3>5, <3>6 DEF Lights
    <2> QED  BY <2>3, <2>4
  <1> QED  BY <1>5, <1>6

LEMMA BeginLights ==
  ASSUME Basic, Transmits, Lights, NEW stray \in {"none", "before", "after"}, BeginSend(stray)
  PROVE  Lights'
  <1> SUFFICES ASSUME OneLate', ~hist'.cut, ~hist'.stale PROVE Lights'
    BY DEF Lights
  <1>1. OneLate /\ stray = "none"
    BY BeginTransmits
  <1>2. /\ main.pc = "begin" /\ main'.pc = "sending" /\ main'.tries = main.tries - 1
        /\ main'.phase = main.phase /\ main'.led = main.led
        /\ fw'.sendMode = 1 /\ fw'.sendError = 0 /\ kb'.bits = <<>>
        /\ kb'.wants = kb.wants /\ kb'.lamps = kb.lamps
        /\ hist'.late = hist.late /\ ~hist.cut /\ ~hist.stale
    BY <1>1, BeginBasic
  <1>3. Attained' <=> Attained
    BY <1>2 DEF Attained
  <1>4. Exact(ToSend)'
    <2>1. Len(kb'.bits) = 0
      BY <1>2, EmptySeq
    <2> QED  BY <2>1 DEF Exact
  <1>5. hist.late \in Nat /\ hist.late <= 1 /\ main.tries \in Nat /\ Tries \in Nat
    BY <1>1, HostBounds DEF OneLate, Basic, TypeOK, HostHistory, MainState
  <1>6. ~Attained => main'.tries >= Tries - 1 \/ hist'.late = 1
    <2> SUFFICES ASSUME ~Attained PROVE main'.tries >= Tries - 1 \/ hist'.late = 1
      OBVIOUS
    <2>1. main.tries >= Tries - hist.late
      BY <1>1, <1>2 DEF Lights
    <2> QED  BY <1>2, <1>5, <2>1
  <1> QED  BY <1>1, <1>2, <1>3, <1>4, <1>6 DEF Lights, Waits

LEMMA LoopLights ==
  ASSUME Basic, Transmits, Answers, Lights,
         \/ \E led \in Leds : SetLed(led)
         \/ SendReturns \/ Answer \/ NoAnswer \/ Booted \/ matrix_scan
  PROVE  Lights'
  <1> SUFFICES ASSUME OneLate', ~hist'.cut, ~hist'.stale PROVE Lights'
    BY DEF Lights
  <1>1. /\ OneLate /\ fw.sendMode = 0 /\ fw'.sendMode = 0 /\ kb' = kb
        /\ fw'.sendError = fw.sendError
    BY LoopTransmits
  <1>2. hist \in HostHistory /\ main \in MainState /\ Tries \in Nat /\ hist.late \in Nat
    BY HostBounds DEF Basic, TypeOK, HostHistory
  <1>3. CASE \E led \in Leds : SetLed(led)
    <2>1. /\ main'.pc = "begin" /\ main'.phase = "command" /\ main'.tries = Tries
          /\ hist'.late = hist.late
      BY <1>2, <1>3 DEF SetLed, HostHistory
    <2>2. Tries >= Tries - hist'.late
      BY <1>2, <2>1
    <2> QED  BY <1>1, <2>1, <2>2 DEF Lights, Waits
  <1>4. CASE SendReturns
    <2>1. /\ main.pc = "sending" /\ main'.pc = "answer" /\ main'.phase = main.phase
          /\ main'.tries = main.tries /\ main'.led = main.led
          /\ hist' = hist /\ fw'.pbuf = fw.pbuf
      BY <1>4, ReturnsBasic
    <2>2. Waits
      BY <1>1, <2>1 DEF Waits
    <2>3. Attained' <=> Attained
      BY <1>1, <2>1 DEF Attained
    <2>4. Answered(PS2_RESEND)' <=> Answered(PS2_RESEND)
      BY <1>1, <2>1 DEF Answered
    <2> QED  BY <1>1, <2>1, <2>2, <2>3, <2>4 DEF Lights
  <1>5. CASE Answer
    <2> DEFINE ack == Head(fw.pbuf) = PS2_ACK
    <2>1. /\ main.pc = "answer" /\ fw.pbuf # <<>> /\ hist' = hist
          /\ main' = Proceed(main, ack)
      BY <1>5, AnswerBasic
    <2>2. Waits
      BY <1>1, <2>1 DEF Waits
    <2>3. main.phase \in {"reset", "command", "argument"} /\ main.tries \in Nat
      BY <1>2 DEF MainState
    <2>4. /\ main.phase = "reset" => main.led = NoLamps /\ kb.lamps = NoLamps
          /\ main.phase = "argument" => kb.lamps = main.led \/ kb.wants = "lamps"
      BY <1>1, <2>1 DEF Lights
    <2>5. ~Attained => main.tries >= Tries - 1 /\ hist.late = 1 /\ ~ack /\ main.phase # "reset"
      <3> SUFFICES ASSUME ~Attained
                   PROVE  main.tries >= Tries - 1 /\ hist.late = 1 /\ ~ack /\ main.phase # "reset"
        OBVIOUS
      <3>1. main.tries >= Tries - 1 /\ hist.late = 1 /\ Answered(PS2_RESEND)
        BY <1>1, <2>1, <2>2 DEF Lights
      <3>2. Head(fw.pbuf) = PS2_RESEND
        BY <1>1, <2>1, <3>1, TakenAnswer
      <3>3. ~ack
        BY <3>2, CodesTyped
      <3>4. main.phase # "reset"
        BY <2>4 DEF Attained
      <3> QED  BY <3>1, <3>3, <3>4
    <2> HIDE DEF ack
    <2>6. ack \in BOOLEAN
      BY DEF ack
    <2>7. main'.led = main.led /\ main'.pc \in {"begin", "loop", "booting"}
      BY <1>2, <2>1, <2>3, <2>6, ProceedCases
    <2>8. ~Waits'
      BY <2>7 DEF Waits
    <2>9. CASE main.phase = "reset"
      <3>1. main'.pc = "booting" /\ main'.phase = "reset"
        BY <1>2, <2>1, <2>6, <2>9, ProceedCases
      <3>2. Attained'
        BY <1>1, <2>4, <2>7, <2>9, <3>1 DEF Attained
      <3> QED  BY <1>1, <2>4, <2>7, <2>9, <3>1, <3>2 DEF Lights
    <2>10. CASE main.phase # "reset" /\ main.tries > 0 /\ ~ack
      <3>1. main'.pc = "begin" /\ main'.phase = main.phase /\ main'.tries = main.tries
        BY <1>2, <2>1, <2>6, <2>10, ProceedCases
      <3>2. Attained' <=> Attained
        BY <1>1, <2>7, <3>1 DEF Attained
      <3>3. ~Attained => main'.tries >= Tries - hist'.late
        BY <1>2, <2>1, <2>5, <3>1
      <3> QED  BY <1>1, <2>4, <2>7, <2>8, <3>1, <3>2, <3>3 DEF Lights
    <2>11. CASE main.phase # "reset" /\ ~(main.tries > 0 /\ ~ack)
      <3>1. Attained
        <4>1. ~Attained => main.tries > 0
          BY <2>5, HostBounds, <2>3
        <4> QED  BY <2>5, <2>11, <4>1
      <3>2. CASE main.phase = "command"
        <4>1. main'.pc = "begin" /\ main'.phase = "argument" /\ main'.tries = Tries
          BY <1>2, <2>1, <2>6, <2>11, <3>2, ProceedCases
        <4>2. kb.wants = "lamps"
          BY <3>1, <3>2 DEF Attained
        <4>3. Tries >= Tries - hist'.late
          BY <1>2, <2>1
        <4> QED  BY <1>1, <2>8, <4>1, <4>2, <4>3 DEF Lights
      <3>3. CASE main.phase = "argument"
        <4>1. main'.pc = "loop" /\ main'.phase = "argument"
          BY <1>2, <2>1, <2>6, <2>11, <3>3, ProceedCases
        <4>2. kb.lamps = main.led
          BY <3>1, <3>3 DEF Attained
        <4>3. Attained'
          BY <1>1, <2>7, <4>1, <4>2 DEF Attained
        <4> QED  BY <1>1, <2>7, <4>1, <4>2, <4>3 DEF Lights
      <3> QED  BY <2>3, <2>11, <3>2, <3>3
    <2> QED  BY <2>9, <2>10, <2>11
  <1>6. CASE NoAnswer
    <2>1. /\ main.pc = "answer" /\ fw.pbuf = <<>> /\ kb.answer \in {<<>>, <<BAT_OK>>}
          /\ hist' = hist
      BY <1>6, NoAnswerBasic
    <2> QED  BY <1>1, <2>1, NoAnswerNever
  <1>7. CASE Booted
    <2>1. /\ main.pc = "booting" /\ main'.pc = "loop" /\ main'.phase = "argument"
          /\ main'.led = main.led /\ UNCHANGED <<fw, kb, hist>>
      BY <1>7, BootedBasic
    <2>2. kb.lamps = main.led
      BY <1>1, <2>1 DEF Lights
    <2>3. Attained'
      BY <2>1, <2>2 DEF Attained
    <2> QED  BY <2>1, <2>2, <2>3 DEF Lights
  <1>8. CASE matrix_scan
    <2>1. /\ main.pc = "loop" /\ main' = main /\ hist'.cut = hist.cut
          /\ hist'.stale = hist.stale /\ hist'.late = hist.late
      BY <1>8, ScanBasic
    <2>2. ~Waits
      BY <2>1 DEF Waits
    <2> QED  BY <1>1, <2>1, <2>2, LightsStay
  <1> QED  BY <1>3, <1>4, <1>5, <1>6, <1>7, <1>8

-----------------------------------------------------------------------------
(* The inductive invariant.                                                *)

Inv == /\ Basic /\ Transmits /\ NoAlienCommand
       /\ Receives /\ Answers /\ Lights

LEMMA InitInv == Init => Inv
  <1> SUFFICES ASSUME Init PROVE Inv
    OBVIOUS
  <1>1. /\ <<>> \in Seq(ByteBits) /\ <<>> \in Seq(Bit) /\ <<>> \in Seq(Keys)
        /\ <<>> \in Seq(Plain) /\ NoLamps \in ByteBits /\ NoLamps \in LampBytes
        /\ NoLamps = NoByte /\ 0 \in Bit /\ 1 \in Bit /\ INIT \in Nat /\ 1 \in 0 .. Tries
    BY EmptySeq, NoByteTyped, CodesTyped, HostBounds DEF Bit
  <1>2. fw \in Firmware
    BY <1>1 DEF Init, Firmware
  <1>3. main \in MainState /\ kb \in KeyboardState /\ hist \in HostHistory
    BY <1>1 DEF Init, MainState, KeyboardState, HostHistory
  <1>4. /\ fw.state = INIT /\ fw.data = NoByte /\ fw.parity = 1 /\ fw.inhibit = 0
        /\ fw.errState = 0 /\ fw.pbuf = <<>> /\ fw.sendMode = 0 /\ fw.sendError = 0
        /\ fw.line = 1
    BY <1>1 DEF Init
  <1>5. /\ main.pc = "begin" /\ main.phase = "reset" /\ main.tries = 1 /\ main.led = NoLamps
        /\ kb.mode = "idle" /\ kb.bits = <<>> /\ kb.answer = <<>> /\ kb.keys = <<>>
        /\ kb.lamps = NoLamps /\ ~hist.alien /\ ~hist.misread
    BY DEF Init
  <1>6. Basic
    BY <1>1, <1>2, <1>3, <1>4, <1>5 DEF Basic, TypeOK, Shaped, Framed
  <1>7. Transmits /\ NoAlienCommand
    BY <1>4, <1>5 DEF Transmits, NoAlienCommand
  <1>8. Receives
    BY <1>1, <1>4, <1>5, StandsInit DEF Receives
  <1>9. Answers
    BY <1>1, <1>4, <1>5 DEF Answers, Waits
  <1>10. Lights
    BY <1>4, <1>5 DEF Lights, Attained, Waits
  <1> QED  BY <1>6, <1>7, <1>8, <1>9, <1>10 DEF Inv

\* Only a clock of a command makes the keyboard obey.
LEMMA NoAlienStays ==
  ASSUME NoAlienCommand, OneLate' => OneLate, hist'.alien = hist.alien
  PROVE  NoAlienCommand'
  BY DEF NoAlienCommand, OneLate, Clean

LEMMA KeyboardInv ==
  ASSUME Inv, Keyboard
  PROVE  Inv'
  <1>0. Basic /\ Transmits /\ NoAlienCommand /\ Receives /\ Answers /\ Lights
    BY DEF Inv
  <1>1. CASE KeyboardNotices
    <2>1. Basic' /\ Transmits' /\ Receives' /\ Answers' /\ Lights'
      BY <1>0, <1>1, NoticesBasic, NoticesTransmits, NoticesReceives, NoticesAnswers,
         NoticesLights
    <2>2. hist' = hist
      BY <1>1 DEF KeyboardNotices
    <2>3. NoAlienCommand'
      BY <1>0, <2>2, NoAlienStays DEF OneLate, Clean
    <2> QED  BY <2>1, <2>3 DEF Inv
  <1>2. ASSUME NEW way \in Ways, KeyboardTakes(way)
        PROVE  Inv'
    <2>1. Basic'
      BY <1>0, <1>2, TakesBasic
    <2>2. Transmits' /\ NoAlienCommand'
      BY <1>0, <1>2, TakesTransmits
    <2>3. Receives'
      BY <1>0, <1>2, TakesReceives
    <2>4. Answers'
      BY <1>0, <1>2, TakesAnswers
    <2>5. Lights'
      BY <1>0, <1>2, <2>4, TakesLights
    <2> QED  BY <2>1, <2>2, <2>3, <2>4, <2>5 DEF Inv
  <1>3. CASE KeyboardBegins
    <2>1. Basic' /\ Transmits' /\ Receives' /\ Answers' /\ Lights'
      BY <1>0, <1>3, BeginsBasic, BeginsTransmits, BeginsReceives, BeginsAnswers,
         BeginsLights
    <2>2. hist' = hist
      BY <1>3 DEF KeyboardBegins
    <2>3. NoAlienCommand'
      BY <1>0, <2>2, NoAlienStays DEF OneLate, Clean
    <2> QED  BY <2>1, <2>3 DEF Inv
  <1>4. ASSUME NEW way \in {"prompt", "lost"}, KeyboardSends(way)
        PROVE  Inv'
    <2>1. Basic' /\ hist'.alien = hist.alien
      BY <1>0, <1>4, SendsBasic
    <2>2. Transmits' /\ (OneLate' => OneLate)
      BY <1>0, <1>4, SendsTransmits
    <2>3. NoAlienCommand'
      BY <1>0, <2>1, <2>2, NoAlienStays
    <2>4. Receives'
      BY <1>0, <1>4, SendsReceives
    <2>5. Answers'
      BY <1>0, <1>4, SendsAnswers
    <2>6. Lights'
      BY <1>0, <1>4, SendsLights
    <2> QED  BY <2>1, <2>2, <2>3, <2>4, <2>5, <2>6 DEF Inv
  <1> QED  BY <1>1, <1>2, <1>3, <1>4 DEF Keyboard

LEMMA LoopInv ==
  ASSUME Inv, \/ \E led \in Leds : SetLed(led)
              \/ SendReturns \/ Answer \/ NoAnswer \/ Booted \/ matrix_scan
  PROVE  Inv'
  <1>0. Basic /\ Transmits /\ NoAlienCommand /\ Receives /\ Answers /\ Lights
    BY DEF Inv
  <1>1. Basic' /\ hist'.alien = hist.alien
    <2>1. CASE \E led \in Leds : SetLed(led)
      <3>1. Basic'
        BY <1>0, <2>1, SetLedBasic
      <3>2. hist'.alien = hist.alien
        BY <1>0, <2>1 DEF Basic, TypeOK, HostHistory, SetLed
      <3> QED  BY <3>1, <3>2
    <2>2. CASE SendReturns
      BY <1>0, <2>2, ReturnsBasic
    <2>3. CASE Answer
      BY <1>0, <2>3, AnswerBasic
    <2>4. CASE NoAnswer
      BY <1>0, <2>4, NoAnswerBasic
    <2>5. CASE Booted
      BY <1>0, <2>5, BootedBasic
    <2>6. CASE matrix_scan
      BY <1>0, <2>6, ScanBasic
    <2> QED  BY <2>1, <2>2, <2>3, <2>4, <2>5, <2>6
  <1>2. Transmits' /\ (OneLate' => OneLate)
    BY <1>0, LoopTransmits
  <1>3. NoAlienCommand'
    BY <1>0, <1>1, <1>2, NoAlienStays
  <1>4. Receives' /\ Answers' /\ Lights'
    BY <1>0, LoopReceives, LoopAnswers, LoopLights
  <1> QED  BY <1>1, <1>2, <1>3, <1>4 DEF Inv

LEMMA NextInv == Inv /\ [Next]_vars => Inv'
  <1> SUFFICES ASSUME Inv, [Next]_vars PROVE Inv'
    OBVIOUS
  <1>0. Basic /\ Transmits /\ NoAlienCommand /\ Receives /\ Answers /\ Lights
    BY DEF Inv
  <1>1. ASSUME NEW b \in Keys, Type(b)
        PROVE  Inv'
    <2>1. Basic'
      BY <1>0, <1>1, TypeBasic
    <2>2. Transmits' /\ (OneLate' => OneLate) /\ hist'.alien = hist.alien
      BY <1>0, <1>1, TypeTransmits
    <2>3. NoAlienCommand'
      BY <1>0, <2>2, NoAlienStays
    <2>4. Receives'
      BY <1>0, <1>1, TypeReceives
    <2>5. Answers'
      BY <1>0, <1>1, TypeAnswers
    <2>6. Lights'
      BY <1>0, <1>1, TypeLights
    <2> QED  BY <2>1, <2>2, <2>3, <2>4, <2>5, <2>6 DEF Inv
  <1>2. CASE \E led \in Leds : SetLed(led)
    BY <1>2, LoopInv
  <1>3. CASE Keyboard
    BY <1>3, KeyboardInv
  <1>4. ASSUME NEW stray \in {"none", "before", "after"}, BeginSend(stray)
        PROVE  Inv'
    <2>1. Basic' /\ hist'.alien = hist.alien
      BY <1>0, <1>4, BeginBasic
    <2>2. Transmits' /\ (OneLate' => OneLate)
      BY <1>0, <1>4, BeginTransmits
    <2>3. NoAlienCommand'
      BY <1>0, <2>1, <2>2, NoAlienStays
    <2>4. Receives'
      BY <1>0, <1>4, BeginReceives
    <2>5. Answers'
      BY <1>0, <1>4, BeginAnswers
    <2>6. Lights'
      BY <1>0, <1>4, BeginLights
    <2> QED  BY <2>1, <2>2, <2>3, <2>4, <2>5, <2>6 DEF Inv
  <1>5. CASE SendReturns \/ Answer \/ NoAnswer \/ Booted \/ matrix_scan
    BY <1>5, LoopInv
  <1>6. CASE UNCHANGED vars
    BY <1>0, <1>6
    DEF Inv, vars, Basic, TypeOK, Shaped, Framed, NextByte, Transmits, OneLate, Clean, Carries,
        ToSend, Exact, NoAlienCommand, Receives, Stands, Answers, Waits, Answered, Lights,
        Attained
  <1> QED  BY <1>1, <1>2, <1>3, <1>4, <1>5, <1>6 DEF Next, MainLoop

LEMMA AlwaysInv == Spec => []Inv
  BY InitInv, NextInv, PTL DEF Spec

-----------------------------------------------------------------------------
(* What holds whatever the constants.                                      *)

\* Whatever edges come late, are lost or are made up, the firmware's globals, the
\* main loop and the keyboard keep their types: a bit number stays within a
\* command's eleven clocks, retries do not run below zero.
THEOREM HostTypes == Spec => []TypeOK
  <1>1. Inv => TypeOK
    BY DEF Inv, Basic
  <1> QED  BY <1>1, AlwaysInv, PTL

\* sendBit's zeros and wrong parity do their work: with at most one bit late, the
\* keyboard obeys only what ps2_host_send was told to send.
THEOREM OnlyWhatWasSent == Spec => []NoAlienCommand
  <1>1. Inv => NoAlienCommand
    BY DEF Inv
  <1> QED  BY <1>1, AlwaysInv, PTL

\* The bits of a command, and the answer to it, leave handleBit at the start of a
\* frame with no error latched.
THEOREM CommandsKeepStep == Spec => []ReceiverInStep
  <1>1. Inv => ReceiverInStep
    <2> SUFFICES ASSUME Inv, OneLate, ~hist.cut
                 PROVE  /\ fw.errState = 0
                        /\ kb.mode # "sending" => fw.state = INIT /\ fw.inhibit = 0
      BY DEF ReceiverInStep, OneLate
    <2>1. CASE kb.mode = "sending"
      <3>1. Stands(fw, Head(NextByte), 11 - Len(kb.bits))
        BY <2>1 DEF Inv, Receives
      <3> QED  BY <2>1, <3>1 DEF Stands
    <2>2. CASE kb.mode # "sending"
      <3>1. Stands(fw, NoByte, INIT)
        BY <2>2 DEF Inv, Receives
      <3> QED  BY <3>1, StandsInit, NoByteTyped
    <2> QED  BY <2>1, <2>2
  <1> QED  BY <1>1, AlwaysInv, PTL

\* matrix_scan never meets an answer, unless a byte left in pbuf was taken in its
\* place or a command cut a frame short, for what the receiver makes of the rest
\* depends on the bits of the key.
THEOREM AnswersReachTheCommand == Spec => []AnswersConsumed
  <1>1. Inv => AnswersConsumed
    BY DEF Inv, Answers, AnswersConsumed, OneLate
  <1> QED  BY <1>1, AlwaysInv, PTL

\* When ps2_host_set_led has returned the lamps are as it was told, for as many
\* retries as it may be given: one late bit costs one.
THEOREM LampsAsSet == Spec => []LampsFollow
  <1>1. Inv => LampsFollow
    BY DEF Inv, Lights, LampsFollow, OneLate
  <1> QED  BY <1>1, AlwaysInv, PTL
=============================================================================
