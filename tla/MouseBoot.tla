----------------------------- MODULE MouseBoot -----------------------------
(***************************************************************************)
(* How the mouse is started: ps2_mouse_init sends it a reset and commands  *)
(* that make a wheel mouse of it, waits for every answer without a bound,  *)
(* and never looks at one.  A command is put on the line bit by bit in     *)
(* step with the mouse's clock; a wait that takes too long cuts it, and    *)
(* what the mouse makes of the rest, and of its own answer, nobody asks.   *)
(* Afterwards the interrupts are off for a quarter of a second, and the    *)
(* USART keeps two bytes.                                                  *)
(***************************************************************************)
EXTENDS ByteQueue

CONSTANTS PbufRoom,     \* bytes that fit in pbuf, PBUF_SIZE - 1
          CounterSize,  \* values of mod3BytesCounter, 256
          MaxFaults     \* bound: commands cut, bytes spoilt or lost

ASSUME BootAssumption ==
  /\ PbufRoom \in Nat /\ MaxFaults \in Nat
  /\ CounterSize \in Nat /\ CounterSize > PbufRoom + 4

VARIABLES
  ps2,      \* the mouse: its mode
  unsent,   \* bytes the mouse has yet to send
  held,     \* bytes in the USART that no interrupt has taken
  pbuf,     \* bytes received
  mod3BytesCounter,
  boot,     \* ps2_mouse_init and main: where they are, rcv, bytes left in pbuf at the end
  faults    \* history: commands cut, bytes spoilt or lost

line == <<ps2, unsent, held>>

\* The queue of ps2_usart.c.
pbuf_has_data == pbuf # <<>>
pbuf_enqueue(b) == Put(pbuf, b, PbufRoom)
pbuf_dequeue == Rest(pbuf)

-----------------------------------------------------------------------------
(* The script.                                                             *)

Read == -1
WHEEL == 3   \* the type of a mouse with a wheel

ScriptBug == <<\hFF, Read, \hF3, \hC8, \hF3, \h64, \hF3, \h50, \hF2, Read,
               \hF3, \h64, \hE8, \h03, \hF4>>

ScriptTwiceBug == <<\hFF, Read, Read, Read, \hF3, \hC8, \hF3, \h64, \hF3, \h50, \hF2, Read,
                    \hF3, \h64, \hE8, \h03, \hF4>>

\* Commands, each with its answer, and bytes that are read besides: the result of the
\* self-test and the type after the reset, the type after F2.
Script == <<\hFF, Read, Read, \hF3, \hC8, \hF3, \h64, \hF3, \h50, \hF2, Read,
            \hF3, \h64, \hE8, \h03, \hF4>>

Booting == boot.pc \in {"step", "answer"}
Step(pc) == boot' = [boot EXCEPT !.pc = pc]
NextStep == boot' = [boot EXCEPT !.at = @ + 1, !.pc = "step"]

-----------------------------------------------------------------------------
(* The mouse.                                                              *)

ACK == \hFA
RESEND == \hFE
TESTED == <<\hAA, 0>>
Spoilt == 256   \* a byte that reaches the USART out of step: it has an error
Rates == {10, 20, 40, 60, 80, 100, 200}

Knock == <<200, 100, 80>>

Fresh(mode) == [mode |-> mode, await |-> "command", knocks |-> 0, type |-> 0, on |-> FALSE]

\* Three rates in a row turn a mouse that has a wheel into one that reports it.
SetRate(m, rate) ==
  LET knocks == CASE m.knocks < 3 /\ rate = Knock[m.knocks + 1] -> m.knocks + 1
                  [] OTHER -> IF rate = Knock[1] THEN 1 ELSE 0
  IN [m EXCEPT !.await = "command", !.knocks = knocks, !.type = IF knocks = 3 THEN WHEEL ELSE @]

\* The mouse after a byte, and its answer.
Obey(m, b) ==
  CASE b = \hFF                              -> <<Fresh("test"), <<ACK>>>>
    [] m.await = "rate" /\ b \in Rates       -> <<SetRate(m, b), <<ACK>>>>
    [] m.await = "resolution" /\ b \in 0 .. 3 -> <<[m EXCEPT !.await = "command"], <<ACK>>>>
    [] m.await = "command" /\ b = \hF3       -> <<[m EXCEPT !.await = "rate"], <<ACK>>>>
    [] m.await = "command" /\ b = \hE8       -> <<[m EXCEPT !.await = "resolution"], <<ACK>>>>
    [] m.await = "command" /\ b = \hF2       -> <<m, <<ACK, m.type>>>>
    [] m.await = "command" /\ b = \hF4       -> <<[m EXCEPT !.on = TRUE], <<ACK>>>>
    [] OTHER                                 -> <<[m EXCEPT !.await = "command"], <<RESEND>>>>

\* The self-test that follows a reset ends.
SelfTest ==
  /\ ps2.mode = "test"
  /\ ps2' = [ps2 EXCEPT !.mode = "ready"]
  /\ unsent' = unsent \o TESTED
  /\ UNCHANGED <<held, pbuf, mod3BytesCounter, boot, faults>>

-----------------------------------------------------------------------------
(* ps2_host_send_mouse.                                                    *)

Weight == <<1, 2, 4, 8, 16, 32, 64, 128>>
BitOf(b, n) == (b \div Weight[n + 1]) % 2
Ones(b) == BitOf(b, 0) + BitOf(b, 1) + BitOf(b, 2) + BitOf(b, 3)
           + BitOf(b, 4) + BitOf(b, 5) + BitOf(b, 6) + BitOf(b, 7)
OddParity(b) == (Ones(b) + 1) % 2

\* A wait that times out releases the line: the mouse, which goes on with its clock,
\* reads ones.  cut is the number of bits, parity included, it has read till then.
CutByte(b, cut) == IF cut < 8 THEN (b % Weight[cut + 1]) + (256 - Weight[cut + 1]) ELSE b
CutParity(b, cut) == IF cut <= 8 THEN 1 ELSE OddParity(b)
WholeCommand == 10   \* the command and the start of the acknowledge bit

\* A byte as the mouse sends it, and what the USART makes of eleven bits.
FrameOf(b) == <<0>> \o [i \in 1 .. 8 |-> BitOf(b, i - 1)] \o <<OddParity(b), 1>>
PS2_USART_ERROR(f) ==
  \/ f[11] = 0
  \/ (f[2] + f[3] + f[4] + f[5] + f[6] + f[7] + f[8] + f[9] + f[10]) % 2 = 0
UsartByte(f) ==
  IF PS2_USART_ERROR(f) THEN Spoilt
  ELSE f[2] + 2*f[3] + 4*f[4] + 8*f[5] + 16*f[6] + 32*f[7] + 64*f[8] + 128*f[9]

\* A byte that is taken to begin with the acknowledge bit before it.
Shifted(b) == UsartByte(<<0>> \o SubSeq(FrameOf(b), 1, 10))

\* What a command that is cut there makes of the mouse, and its answer.
Understood(b, cut) ==
  IF CutParity(b, cut) = OddParity(CutByte(b, cut)) THEN Obey(ps2, CutByte(b, cut))
  ELSE <<ps2, <<RESEND>>>>

Command == Script[boot.at]
InScript == boot.pc = "step" /\ boot.at <= Len(Script)
AtCommand == InScript /\ Command # Read
Waits == boot.pc = "answer" \/ (InScript /\ Command = Read)

\* All waits see what they wait for; ps2_host_recv_response_mouse is next.  The
\* request makes the mouse drop what it has not sent.
SendWhole ==
  /\ AtCommand /\ ps2.mode = "ready"
  /\ ps2' = Obey(ps2, Command)[1] /\ unsent' = Obey(ps2, Command)[2]
  /\ Step("answer")
  /\ UNCHANGED <<held, pbuf, mod3BytesCounter, faults>>

\* The mouse does not clock within 10 ms, as in its self-test, and ps2_mouse_init
\* goes on.
SendUnheard ==
  /\ AtCommand
  /\ \/ ps2.mode = "test" /\ UNCHANGED faults
     \/ ps2.mode = "ready" /\ faults < MaxFaults /\ faults' = faults + 1
  /\ NextStep
  /\ UNCHANGED <<line, pbuf, mod3BytesCounter>>

\* A wait within the command times out.  The USART, switched on before the mouse
\* acknowledges, takes the acknowledge bit for a start bit; after that bit, the
\* answer arrives whole.
SendCut(cut) ==
  /\ AtCommand /\ ps2.mode = "ready" /\ faults < MaxFaults
  /\ LET u == Understood(Command, cut) IN
     /\ ps2' = u[1]
     /\ unsent' = IF cut = WholeCommand THEN u[2] ELSE <<Shifted(Head(u[2]))>> \o Tail(u[2])
  /\ faults' = faults + 1
  /\ NextStep
  /\ UNCHANGED <<held, pbuf, mod3BytesCounter>>

-----------------------------------------------------------------------------
(* ps2_mouse_init and main.                                                *)

\* ps2_host_recv_response_mouse: for a command or for a byte besides.
TakeAnswer ==
  /\ Waits /\ pbuf_has_data
  /\ boot' = [boot EXCEPT !.at = @ + 1, !.pc = "step", !.rcv = First(pbuf)]
  /\ pbuf' = pbuf_dequeue
  /\ UNCHANGED <<line, mod3BytesCounter, faults>>

\* The end of ps2_mouse_init: mod3BytesCounter = 0, cli.  What is in pbuf stays.
InitDone ==
  /\ boot.pc = "step" /\ boot.at > Len(Script)
  /\ mod3BytesCounter' = 0
  /\ boot' = [boot EXCEPT !.pc = "off", !.rcv = 0, !.early = Len(pbuf)]
  /\ UNCHANGED <<line, pbuf, faults>>

\* main: sei, after the quarter of a second that makes the host see a disconnect.
Connect ==
  /\ boot.pc = "off" /\ Step("run")
  /\ UNCHANGED <<line, pbuf, mod3BytesCounter, faults>>

MainBoots ==
  SendWhole \/ SendUnheard \/ (\E cut \in 0 .. WholeCommand : SendCut(cut))
  \/ TakeAnswer \/ InitDone \/ Connect

-----------------------------------------------------------------------------
(* The USART.                                                              *)

\* A byte arrives and is taken at once, or is held while the interrupts are off.
Hold ==
  /\ boot.pc = "off" /\ unsent # <<>> /\ Len(held) < 2
  /\ held' = Append(held, Head(unsent)) /\ unsent' = Tail(unsent)
  /\ UNCHANGED <<ps2, pbuf, mod3BytesCounter, boot, faults>>

\* ISR(PS2_USART_RX_VECT): a byte is counted, and stored if it has no error and
\* there is room.
Take(b) ==
  LET isLost == b # Spoilt /\ Len(pbuf) = PbufRoom IN
  /\ isLost => faults < MaxFaults
  /\ mod3BytesCounter' = (mod3BytesCounter + 1) % CounterSize
  /\ pbuf' = IF b = Spoilt THEN pbuf ELSE pbuf_enqueue(b)
  /\ faults' = IF isLost THEN faults + 1 ELSE faults
  /\ UNCHANGED <<ps2, boot>>

Receive ==
  /\ boot.pc # "off"
  /\ \/ held # <<>> /\ Take(Head(held)) /\ held' = Tail(held) /\ UNCHANGED unsent
     \/ held = <<>> /\ unsent # <<>> /\ Take(Head(unsent)) /\ unsent' = Tail(unsent)
        /\ UNCHANGED held

\* A byte is spoilt on the line.
Spoil ==
  /\ unsent # <<>> /\ Head(unsent) # Spoilt /\ faults < MaxFaults
  /\ unsent' = <<Spoilt>> \o Tail(unsent)
  /\ faults' = faults + 1
  /\ UNCHANGED <<ps2, held, pbuf, mod3BytesCounter, boot>>

\* A byte is overwritten by a later one before the interrupt runs.
Overwritten ==
  /\ unsent # <<>> /\ faults < MaxFaults
  /\ unsent' = Tail(unsent)
  /\ faults' = faults + 1
  /\ UNCHANGED <<ps2, held, pbuf, mod3BytesCounter, boot>>

Usart == Hold \/ Receive \/ Spoil \/ Overwritten

\* When ps2_host_init_mouse switches the USART on the mouse has tested itself, as a
\* rule: ps2_host_init has waited 2500 ms.
BootInit ==
  /\ \/ ps2 = Fresh("ready") /\ faults = 0
     \/ ps2 = Fresh("test") /\ faults = 1 /\ MaxFaults > 0
  /\ unsent = <<>> /\ held = <<>> /\ pbuf = <<>> /\ mod3BytesCounter = 0
  /\ boot = [at |-> 1, pc |-> "step", rcv |-> 0, early |-> 0]

-----------------------------------------------------------------------------
(* Properties.                                                             *)

UByte == 0 .. 255
MouseType == [mode : {"ready", "test"}, await : {"command", "rate", "resolution"},
              knocks : 0 .. 3, type : {0, WHEEL}, on : BOOLEAN]
BootType == [at : Nat, pc : {"step", "answer", "off", "run"}, rcv : UByte, early : Nat]

BytesOK ==
  /\ ps2 \in MouseType
  /\ unsent \in Seq(UByte \cup {Spoilt}) /\ held \in Seq(UByte \cup {Spoilt})
  /\ pbuf \in Seq(UByte)
  /\ mod3BytesCounter \in 0 .. CounterSize - 1
  /\ boot \in BootType
  /\ faults \in Nat

\* Whenever a command is sent, every answer to those before it has been taken, the
\* self-test is over, and what is read as the type of the mouse is the type of one
\* with a wheel; unless a command was cut or a byte spoilt or lost.
AnswersInStep ==
  faults = 0 =>
    /\ AtCommand => pbuf = <<>> /\ unsent = <<>> /\ ps2.mode = "ready"
    /\ boot.pc = "step" /\ boot.at > 1 /\ Script[boot.at - 1] = Read /\ AtCommand =>
         boot.rcv = ps2.type
    /\ boot.pc \in {"off", "run"} => ps2.on /\ ps2.type = WHEEL
=============================================================================
