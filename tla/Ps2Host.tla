------------------------------ MODULE Ps2Host ------------------------------
(***************************************************************************)
(* Commands to the keyboard (ps2_interrupt.c), bit by bit, and the answers *)
(* to them.  The main loop pulls the clock low and starts a command; the   *)
(* keyboard then clocks the bits out of sendBit, one per falling edge, and *)
(* answers in a frame that the receiver (Ps2Frame) takes in.  Sender and   *)
(* receiver share their interrupts, parity, data and ps2_error.            *)
(*                                                                         *)
(* A USB packet may hold up an edge until the keyboard has looked at the   *)
(* data line ("late"), bring it by PCINT1 ("pcint") or forget it ("lost"); *)
(* between such accidents an edge and its handler are one step, because    *)
(* the next edge is at least 60 us away.  How edges travel from the clock  *)
(* to handleBit is the subject of Ps2Receiver.                             *)
(***************************************************************************)
EXTENDS Ps2Frame

CONSTANTS Leds,        \* arguments ps2_host_set_led is called with
          Keys,        \* bytes a user's typing makes the keyboard send
          Tries,       \* retryCount, 5 in the code
          MaxCommands, \* bound: calls of ps2_host_set_led
          MaxTyped,    \* bound: bytes typed
          MaxAccidents \* bound: edges that come late, by PCINT1 or not at all, and
                       \* edges of our own clock_lo taken for the keyboard's

NoLamps == [i \in 1 .. 8 |-> 0]
LampBytes == {b \in ByteBits : \A i \in 4 .. 8 : b[i] = 0}

PS2_ACK     == <<0, 1, 0, 1, 1, 1, 1, 1>>   \* FA
PS2_RESEND  == <<0, 1, 1, 1, 1, 1, 1, 1>>   \* FE
PS2_SET_LED == <<1, 0, 1, 1, 0, 1, 1, 1>>   \* ED
RESET       == <<1, 1, 1, 1, 1, 1, 1, 1>>   \* FF
BAT_OK      == <<0, 1, 0, 1, 0, 1, 0, 1>>   \* AA, the self-test passed

\* No key's code is an answer's; a refused byte is sent again at least once.
ASSUME LedsAssumption == Leds \subseteq LampBytes
ASSUME KeysAssumption == Keys \subseteq ByteBits \ {PS2_ACK, PS2_RESEND}
ASSUME HostBounds ==
  /\ Capacity \in Nat \ {0} /\ Tries \in Nat /\ Tries >= 2
  /\ MaxCommands \in Nat /\ MaxTyped \in Nat /\ MaxAccidents \in Nat

VARIABLES
  fw,    \* the globals of ps2_interrupt.c and the data line as driven by us
  main,  \* where the main loop is in ps2_host_set_led, and its arguments
  kb,    \* the keyboard
  hist   \* history: accidents, and what went wrong

vars == <<fw, main, kb, hist>>

-----------------------------------------------------------------------------
(* The firmware's functions.                                               *)

\* The data line: pulled low, or left to its pull-up.
data_lo(f) == [f EXCEPT !.line = 0]
data_hi(f) == [f EXCEPT !.line = 1]
data_release(f) == [f EXCEPT !.line = 1]
Drive(f, level) == IF level = 1 THEN data_hi(f) ELSE data_lo(f)

\* The accepted bytes of the receiver are not kept here.
Received(f, bit) == [handleBit(f, bit) EXCEPT !.accepted = <<>>]

\* Variants: the operators named ...Bug stand for a plausible mistake in the code
\* that the definition after them models; no specification uses them.
GiveUpBug(f) ==
  [f EXCEPT !.line = CASE f.bitNum = 8 -> 1 - f.odd [] f.bitNum = 9 -> 1 [] OTHER -> 0,
            !.bitNum = @ + 1]

\* Giving up in the middle of a byte: zeros, the other parity, no stop bit.
GiveUp(f) ==
  [Drive(f, IF f.bitNum = 8 THEN 1 - f.odd ELSE 0) EXCEPT !.bitNum = @ + 1]

\* Bit 10: the data line is released and must be held low by the keyboard.
CheckAck(f, level) ==
  [data_release(f) EXCEPT !.error = IF level = 1 THEN 10 ELSE @, !.sendMode = 0,
            !.sendError = 0, !.dataToSend = NoLamps, !.data = NoLamps, !.parity = 1,
            !.odd = 1, !.timer = "any", !.bitNum = @ + 1]

PutBitBug(f) ==
  LET bit == IF f.bitNum <= 7 THEN f.dataToSend[f.bitNum + 1]
             ELSE IF f.bitNum = 8 THEN f.odd % 2 ELSE 1
  IN  [f EXCEPT !.line = bit, !.bitNum = @ + 1,
                !.odd = IF f.bitNum <= 7 THEN @ + bit ELSE @]

\* Bits 0 to 7, the parity and the stop bit.
PutBit(f) ==
  LET bit == IF f.bitNum <= 7 THEN f.dataToSend[f.bitNum + 1]
             ELSE IF f.bitNum = 8 THEN f.odd ELSE 1
  IN  [Drive(f, bit) EXCEPT !.bitNum = @ + 1,
                            !.odd = IF f.bitNum <= 7 THEN (@ + bit) % 2 ELSE @]

sendBitEarlyBug(f, bad, level) ==
  LET g == [f EXCEPT !.sendError = IF bad THEN 1 ELSE @, !.timer = "short"]
  IN  IF g.bitNum = 9 THEN CheckAck(g, level)
      ELSE IF g.sendError = 1 THEN GiveUp(g)
      ELSE PutBit(g)

sendBitStuckBug(f, bad, level) ==
  LET g == [f EXCEPT !.sendError = IF bad THEN 1 ELSE @, !.timer = "short"]
  IN  IF g.sendError = 1 THEN [GiveUp(g) EXCEPT !.bitNum = IF @ > 10 THEN 10 ELSE @]
      ELSE IF g.bitNum = 10 THEN CheckAck(g, level)
      ELSE PutBit(g)

\* sendBit; bad is its verdict on the bit's timing, level what data_in reads.
sendBit(f, bad, level) ==
  LET g == [f EXCEPT !.sendError = IF bad THEN 1 ELSE @, !.timer = "short"]
  IN  IF g.bitNum = 10 THEN CheckAck(g, level)
      ELSE IF g.sendError = 1 THEN GiveUp(g)
      ELSE PutBit(g)

\* init_ps2_host_send, from the request to send on: what comes before, the error
\* cleared and an edge it may make, is in BeginSend.  odd is the truth value of
\* parity: a count left by the receiver is at least 1, hence true.
init_ps2_host_send(f, byte) ==
  [data_lo(f) EXCEPT !.sendMode = 1, !.bitNum = 0,
            !.dataToSend = byte, !.odd = 1, !.timer = "any"]

\* After ps2_host_send, and in matrix_scan: an error takes the latch with it.
Unlatch(f) == IF f.error # 0 THEN [f EXCEPT !.error = 0, !.errState = 0] ELSE f

pbuf_has_data(f) == f.pbuf # <<>>
pbuf_dequeue(f) == [f EXCEPT !.pbuf = IF @ = <<>> THEN @ ELSE Tail(@)]
ps2_host_recv(f) == IF pbuf_has_data(f) THEN pbuf_dequeue(f) ELSE f

\* The clock line pulled low for 100 us: the keyboard stops what it is clocking.
clock_lo(k) == [k EXCEPT !.mode = "idle", !.bits = <<>>]

-----------------------------------------------------------------------------
(* The keyboard.                                                           *)

\* A byte with eleven clocks is complete: obeyed, or asked for again.
Obey(k, byte, parity) ==
  IF parity # ParityOf(byte) THEN [k EXCEPT !.answer = <<PS2_RESEND>>]
  ELSE CASE byte = PS2_SET_LED -> [k EXCEPT !.answer = <<PS2_ACK>>, !.wants = "lamps"]
    [] byte = RESET -> [k EXCEPT !.answer = <<PS2_ACK, BAT_OK>>, !.wants = "command",
                                 !.lamps = NoLamps, !.keys = <<>>]
    [] k.wants = "lamps" /\ byte \in LampBytes ->
         [k EXCEPT !.answer = <<PS2_ACK>>, !.wants = "command", !.lamps = byte]
    [] OTHER -> [k EXCEPT !.answer = <<PS2_RESEND>>]

\* It looks at the data line once per clock: eight bits, parity, stop.  After a
\* stop bit it acknowledges on the eleventh clock; without one it goes on
\* clocking until the line is high, and asks for the byte again.
Look(k, level) ==
  IF Len(k.bits) < 10 THEN [k EXCEPT !.bits = Append(@, level)]
  ELSE IF k.bits[10] = 1
    THEN [Obey(k, SubSeq(k.bits, 1, 8), k.bits[9]) EXCEPT !.mode = "idle", !.bits = <<>>]
  ELSE IF level = 1
    THEN [k EXCEPT !.answer = <<PS2_RESEND>>, !.mode = "idle", !.bits = <<>>]
  ELSE k

\* The keyboard holds the line low on the clock that acknowledges.
Acknowledges == kb.mode = "taking" /\ Len(kb.bits) = 10 /\ kb.bits[10] = 1

\* The byte the next clock makes the keyboard obey, if it does.
Obeys == Acknowledges /\ kb.bits[9] = ParityOf(SubSeq(kb.bits, 1, 8))

-----------------------------------------------------------------------------
Init ==
  /\ fw = [state |-> INIT, data |-> NoLamps, parity |-> 1, inhibit |-> 0,
           error |-> 0, errState |-> 0, pbuf |-> <<>>, accepted |-> <<>>,
           dropped |-> FALSE, sendMode |-> 0, dataToSend |-> NoLamps, bitNum |-> 0,
           odd |-> 1, sendError |-> 0, timer |-> "any", line |-> 1]
  /\ main = [pc |-> "begin", phase |-> "reset", tries |-> 1, led |-> NoLamps]
  /\ kb = [mode |-> "idle", bits |-> <<>>, answer |-> <<>>, keys |-> <<>>,
           wants |-> "command", lamps |-> NoLamps]
  /\ hist = [commands |-> 0, typed |-> 0, late |-> 0, lost |-> 0, stray |-> 0,
             cut |-> FALSE, stale |-> FALSE, misread |-> FALSE, alien |-> FALSE]

\* Keys are not pressed before the firmware is up.
Type(b) ==
  /\ main.phase # "reset" /\ hist.typed < MaxTyped
  /\ kb' = [kb EXCEPT !.keys = Append(@, b)]
  /\ hist' = [hist EXCEPT !.typed = @ + 1]
  /\ UNCHANGED <<fw, main>>

-----------------------------------------------------------------------------
(* Edges of the keyboard's clock.                                          *)

Bounded == hist'.late + hist'.lost + hist'.stray <= MaxAccidents

\* sendBit's possible verdicts.  Bit 0 has no bit before it to measure from and
\* is only distrusted when PCINT1 brings it; later ones when the timer, which
\* says nothing once it has wrapped, has run for more than 28 ticks.
Verdicts(way) ==
  IF fw.bitNum = 0
    THEN IF way = "prompt" THEN {FALSE} ELSE IF way = "pcint" THEN {TRUE} ELSE BOOLEAN
  ELSE IF way = "late" \/ fw.timer = "long" THEN {TRUE}
  ELSE IF fw.timer = "any" THEN BOOLEAN
  ELSE {FALSE}

\* What data_in may read when the keyboard puts bit on the line: a line that is
\* being released at this moment may still read low.
Readings(bit) == IF bit = 0 THEN {0} ELSE IF fw.line = 0 THEN Bit ELSE {1}

LineLevel(bit) == IF fw.line = 0 THEN 0 ELSE bit

\* The states of the firmware after an edge at which the keyboard drives bit.
AfterEdge(bit, way) ==
  IF way = "lost" THEN {[fw EXCEPT !.timer = IF fw.sendMode = 1 THEN "long" ELSE @]}
  ELSE IF fw.sendMode = 1
    THEN {sendBit(fw, bad, level) : bad \in Verdicts(way), level \in Readings(bit)}
  ELSE {Received(fw, LineLevel(bit))}

\* The keyboard sees data low and clock high: a command.  It drops an answer it
\* has not sent.
KeyboardNotices ==
  /\ kb.mode = "idle" /\ fw.line = 0
  /\ kb' = [kb EXCEPT !.mode = "taking", !.answer = <<>>]
  /\ fw' = [fw EXCEPT !.timer = "any"]
  /\ UNCHANGED <<main, hist>>

\* A clock of a command: a prompt edge puts the new bit on the line before the
\* keyboard looks, a late one may do so, a lost one does not.
KeyboardTakes(way) ==
  LET bit == IF Acknowledges THEN 0 ELSE 1
      seen(new) == IF way \in {"prompt", "pcint"} THEN {new.line}
                   ELSE IF way = "lost" THEN {fw.line} ELSE {fw.line, new.line}
  IN
  /\ kb.mode = "taking"
  /\ way = "pcint" => fw.bitNum = 0
  /\ way \in {"late", "pcint"} => fw.sendMode = 1
  /\ \E new \in AfterEdge(bit, way) :
       /\ fw' = new
       /\ \E level \in seen(new) : kb' = Look(kb, level)
  /\ hist' = [hist EXCEPT
       !.late = IF way \in {"late", "pcint"} THEN @ + 1 ELSE @,
       !.lost = IF way = "lost" THEN @ + 1 ELSE @,
       !.alien = @ \/ (Obeys /\ SubSeq(kb.bits, 1, 8) # fw.dataToSend)]
  /\ Bounded
  /\ UNCHANGED main

\* Answers come first; keys wait while a command waits for its argument.
NextByte ==
  IF kb.answer # <<>> THEN kb.answer
  ELSE IF kb.wants = "command" THEN kb.keys ELSE <<>>

KeyboardBegins ==
  /\ kb.mode = "idle" /\ fw.line = 1 /\ NextByte # <<>>
  /\ kb' = [kb EXCEPT !.mode = "sending", !.bits = Frame(Head(NextByte))]
  /\ fw' = [fw EXCEPT !.timer = "any"]
  /\ UNCHANGED <<main, hist>>

\* A clock of a frame.  A byte counts as sent after the last one.
KeyboardSends(way) ==
  /\ kb.mode = "sending"
  /\ fw' \in AfterEdge(Head(kb.bits), way)
  /\ kb' = IF Len(kb.bits) > 1 THEN [kb EXCEPT !.bits = Tail(@)]
           ELSE [kb EXCEPT !.bits = <<>>, !.mode = "idle",
                           !.answer = IF @ # <<>> THEN Tail(@) ELSE @,
                           !.keys = IF kb.answer = <<>> THEN Tail(@) ELSE @]
  /\ hist' = [hist EXCEPT !.lost = IF way = "lost" THEN @ + 1 ELSE @]
  /\ Bounded
  /\ UNCHANGED main

-----------------------------------------------------------------------------
(* The main loop.                                                          *)

\* ps2_host_set_led, called by adjustKeyboardLeds when the host has changed a lamp.
SetLed(led) ==
  /\ main.pc = "loop" /\ led # main.led /\ hist.commands < MaxCommands
  /\ main' = [pc |-> "begin", phase |-> "command", tries |-> Tries, led |-> led]
  /\ hist' = [hist EXCEPT !.commands = @ + 1]
  /\ UNCHANGED <<fw, kb>>

ToSend == CASE main.phase = "reset" -> RESET
            [] main.phase = "command" -> PS2_SET_LED
            [] OTHER -> main.led

\* ps2_host_send.  A keyboard that has clocked out a part of a frame sends the byte
\* again later.  The error is cleared first.  The edge is our own; a USB packet may
\* pick it up before EIFR is cleared, and PCINT1 handle it as a bit received (before
\* sendMode is set, and an error it makes stays) or as bit 0 of the command (after).
BeginSend(stray) ==
  LET f == [fw EXCEPT !.error = 0, !.sendError = IF main.phase = "reset" THEN @ ELSE 0] IN
  /\ main.pc = "begin"
  /\ CASE stray = "none"   -> fw' = init_ps2_host_send(f, ToSend)
       [] stray = "before" -> \E level \in IF kb.mode = "sending" THEN Bit ELSE {1} :
                                fw' = init_ps2_host_send(Received(f, level), ToSend)
       [] OTHER            -> fw' = sendBit(init_ps2_host_send(f, ToSend), TRUE, 0)
  /\ kb' = clock_lo(kb)
  /\ main' = [main EXCEPT !.pc = "sending", !.tries = @ - 1]
  /\ hist' = [hist EXCEPT !.stray = IF stray = "none" THEN @ ELSE @ + 1,
                          !.cut = @ \/ Len(kb.bits) \in 1 .. 10,
                          !.stale = @ \/ pbuf_has_data(fw)]
  /\ Bounded

\* ps2_host_send returns, 3 ms after sendMode has ended: by then the keyboard
\* has clocked the command to its end.
SendReturns ==
  /\ main.pc = "sending" /\ fw.sendMode = 0
  /\ kb.mode # "taking"
  /\ fw' = Unlatch(fw)
  /\ main' = [main EXCEPT !.pc = "answer"]
  /\ UNCHANGED <<kb, hist>>

ProceedBug(m, ack) ==
  CASE m.phase = "reset"   -> [m EXCEPT !.pc = "booting"]
    [] m.phase = "command" -> [m EXCEPT !.pc = "begin", !.phase = "argument",
                                        !.tries = Tries]
    [] OTHER               -> [m EXCEPT !.pc = "loop"]

\* What ps2_host_set_led (and ps2_host_init) does with an answer.
Proceed(m, ack) ==
  IF m.phase = "reset" THEN [m EXCEPT !.pc = "booting"]
  ELSE IF m.tries > 0 /\ ~ack THEN [m EXCEPT !.pc = "begin"]
  ELSE IF m.phase = "command"
    THEN [m EXCEPT !.pc = "begin", !.phase = "argument", !.tries = Tries]
  ELSE [m EXCEPT !.pc = "loop"]

\* ps2_host_recv_response takes the first byte in pbuf, whatever it is, ...
Answer ==
  /\ main.pc = "answer" /\ pbuf_has_data(fw)
  /\ main' = Proceed(main, Head(fw.pbuf) = PS2_ACK)
  /\ fw' = pbuf_dequeue(fw)
  /\ UNCHANGED <<kb, hist>>

NoAnswerBug ==
  /\ main.pc = "answer" /\ ~pbuf_has_data(fw)
  /\ main' = Proceed(main, FALSE)
  /\ UNCHANGED <<fw, kb, hist>>

\* ... or gives up after 25 ms.  A keyboard that will answer has done so by then,
\* its self-test apart.
NoAnswer ==
  /\ main.pc = "answer" /\ ~pbuf_has_data(fw)
  /\ kb.answer \in {<<>>, <<BAT_OK>>} /\ kb.mode # "taking"
  /\ main' = Proceed(main, FALSE)
  /\ UNCHANGED <<fw, kb, hist>>

\* The 2.5 s at the end of ps2_host_init.
Booted ==
  /\ main.pc = "booting" /\ kb.answer = <<>> /\ kb.mode = "idle"
  /\ main' = [main EXCEPT !.pc = "loop", !.phase = "argument"]
  /\ UNCHANGED <<fw, kb, hist>>

\* matrix_scan, as far as it is about the receiver: a byte is fetched, and
\* decoded or forgotten with the error.
matrix_scan ==
  /\ main.pc = "loop"
  /\ fw' = Unlatch(ps2_host_recv(fw))
  /\ hist' = [hist EXCEPT !.misread =
       @ \/ (fw.error = 0 /\ pbuf_has_data(fw) /\ Head(fw.pbuf) \in {PS2_ACK, PS2_RESEND})]
  /\ UNCHANGED <<main, kb>>

-----------------------------------------------------------------------------
Ways == {"prompt", "pcint", "late", "lost"}

Keyboard ==
  \/ KeyboardNotices
  \/ \E way \in Ways : KeyboardTakes(way)
  \/ KeyboardBegins
  \/ \E way \in {"prompt", "lost"} : KeyboardSends(way)

MainLoop ==
  \/ \E stray \in {"none", "before", "after"} : BeginSend(stray)
  \/ SendReturns \/ Answer \/ NoAnswer \/ Booted \/ matrix_scan

Next ==
  \/ \E b \in Keys : Type(b)
  \/ \E led \in Leds : SetLed(led)
  \/ Keyboard
  \/ MainLoop

Spec == Init /\ [][Next]_vars

\* The keyboard clocks what it has begun and answers; the main loop goes on.
FairSpec == Spec /\ WF_vars(Keyboard) /\ WF_vars(MainLoop)

-----------------------------------------------------------------------------
(* Properties.                                                             *)

Firmware ==
  [state : Nat, data : ByteBits, parity : Bit, inhibit : Bit, error : Nat,
   errState : Bit, pbuf : Seq(ByteBits), accepted : Seq(ByteBits), dropped : BOOLEAN,
   sendMode : Bit, dataToSend : ByteBits, bitNum : 0 .. 11, odd : Bit,
   sendError : Bit, timer : {"short", "long", "any"}, line : Bit]
MainState == [pc : {"loop", "begin", "sending", "answer", "booting"},
              phase : {"reset", "command", "argument"}, tries : 0 .. Tries,
              led : LampBytes]
KeyboardState == [mode : {"idle", "sending", "taking"}, bits : Seq(Bit),
                  answer : Seq(ByteBits), keys : Seq(ByteBits),
                  wants : {"command", "lamps"}, lamps : LampBytes]
HostHistory == [commands : Nat, typed : Nat, late : Nat, lost : Nat, stray : Nat,
                cut : BOOLEAN, stale : BOOLEAN, misread : BOOLEAN, alien : BOOLEAN]

TypeOK == /\ fw \in Firmware /\ main \in MainState
          /\ kb \in KeyboardState /\ hist \in HostHistory

\* No edge was forgotten or invented.
Clean == hist.lost = 0 /\ hist.stray = 0

\* The keyboard never obeys a byte that was not sent: one that a late bit has
\* spoilt has no stop bit, and is refused.
NoAlienCommand == Clean /\ hist.late <= 1 => ~hist.alien

\* When ps2_host_set_led has returned, the lamps are as it was told, also when
\* USB held up a bit; only a byte that was left in pbuf and taken for an answer
\* may spoil it, or a cut frame: what is left of it and the answer's first bits
\* may make a byte that passes for an acknowledgement, depending on the key.
LampsFollow ==
  main.pc = "loop" /\ Clean /\ ~hist.stale /\ ~hist.cut /\ hist.late <= 1 =>
    kb.lamps = main.led

\* No answer is left for matrix_scan, which would take it for a key, unless a
\* byte left in pbuf, or one that a cut frame made up, was taken in its place.
AnswersConsumed ==
  Clean /\ hist.late <= 1 /\ ~hist.stale /\ ~hist.cut => ~hist.misread

\* A command leaves the receiver where it was: at the start of a frame and with
\* no error, whatever bits came late and whatever was answered, unless it cut a
\* frame.
ReceiverInStep ==
  Clean /\ ~hist.cut /\ hist.late <= 1 =>
    /\ fw.errState = 0
    /\ kb.mode # "sending" => fw.state = INIT /\ fw.inhibit = 0

\* The comment at ps2_interrupt.c:127: pulling the clock low terminates a
\* transmission.  What is left of it must not make the receiver deaf with nothing
\* that tells matrix_scan.
DeafIsNoticed ==
  Clean /\ main.pc = "loop" => (fw.errState = 1 => fw.error # 0)

\* Every command ends: sendMode waits for edges without a timeout.
CommandEnds == main.pc # "loop" ~> main.pc = "loop"
=============================================================================
