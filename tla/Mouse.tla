------------------------------- MODULE Mouse -------------------------------
(***************************************************************************)
(* The mouse at work: the receive interrupt stores its bytes in pbuf and    *)
(* counts them, mouse_task takes a packet of four bytes when the counter    *)
(* says that one is there and makes a report of it, reports wait in mbuf    *)
(* for endpoint 3, which the system control reports of the keyboard share.  *)
(* Counter and queue are two pieces of state that only agree if every byte  *)
(* that is counted is stored, and if counting is not interrupted.           *)
(***************************************************************************)
EXTENDS MouseBoot

CONSTANTS Motions,      \* what a packet may say: buttons, x, y, wheel, overflows
          MbufRoom,     \* reports that fit in mbuf, MBUF_SIZE - 1
          MaxPackets,   \* bound: packets the mouse sends
          MaxEarly,     \* bound: bytes of them that come before the counter is reset
          MaxControls   \* bound: presses and releases of a system key

MotionType == [buttons : 0 .. 7, x : -256 .. 255, y : -256 .. 255, v : -128 .. 127,
               xOvf : BOOLEAN, yOvf : BOOLEAN]

ASSUME MouseAssumption ==
  /\ Motions \subseteq MotionType
  /\ MbufRoom \in Nat /\ MaxPackets \in Nat /\ MaxEarly \in Nat /\ MaxControls \in Nat

VARIABLES
  motions,  \* what the mouse has packed so far
  task,     \* mouse_task: where it is, what it has read
  mbuf,     \* reports waiting
  tx3,      \* endpoint 3: <<>> or the report in it
  system,   \* the system key: what is held, sent, and known to the host
  host,     \* mouse reports the host has
  hist      \* history: accidents

bytes == <<ps2, unsent, held, pbuf, mod3BytesCounter, boot, faults>>
vars == <<bytes, motions, task, mbuf, tx3, system, host, hist>>

-----------------------------------------------------------------------------
(* From packets to reports.                                                *)

Bit(b, n) == (b \div n) % 2 = 1
Flag(b, n) == IF b THEN n ELSE 0

\* A packet: sign and overflow bits and buttons, eight bits of each motion.
Packet(m) ==
  << Flag(m.yOvf, 128) + Flag(m.xOvf, 64) + Flag(m.y < 0, 32) + Flag(m.x < 0, 16) + 8 + m.buttons,
     m.x % 256, m.y % 256, m.v % 256 >>

\* A byte as the signed eight-bit number of the report's fields.
Int8(b) == IF b % 256 > 127 THEN (b % 256) - 256 ELSE b % 256

\* mouse_task: a motion that the sign bit and the byte do not make a number of
\* -127 .. 127 is limited.
Limit(isNeg, isOvf, b) ==
  IF isNeg THEN (IF ~isOvf /\ -127 <= b /\ b <= -1 THEN b ELSE -127)
  ELSE (IF ~isOvf /\ 0 <= b /\ b <= 127 THEN b ELSE 127)

MakeReport(p) ==
  [buttons |-> p[1] % 8,
   x |-> Limit(Bit(p[1], 16), Bit(p[1], 64), Int8(p[2])),
   y |-> -Limit(Bit(p[1], 32), Bit(p[1], 128), Int8(p[3])),
   v |-> Int8(-Int8(p[4]))]

-----------------------------------------------------------------------------
NoReport == [buttons |-> 0, x |-> 0, y |-> 0, v |-> 0]
Controls == {0, 1}

Init ==
  /\ BootInit
  /\ motions = <<>>
  /\ task = [pc |-> "idle", packet |-> <<>>, old |-> 0]
  /\ mbuf = <<>> /\ tx3 = <<>> /\ host = <<>>
  /\ system = [held |-> 0, last |-> 0, host |-> 0]
  /\ hist = [races |-> 0, dropped |-> FALSE, refused |-> FALSE, controls |-> 0]

\* The user moves the mouse.
Move(m) ==
  /\ ps2.on /\ unsent = <<>> /\ Len(motions) < MaxPackets
  /\ motions' = Append(motions, m)
  /\ unsent' = SubSeq(Packet(m), 1, IF ps2.type = WHEEL THEN 4 ELSE 3)
  /\ UNCHANGED <<ps2, held, pbuf, mod3BytesCounter, boot, faults, task, mbuf, tx3, system, host, hist>>

\* The steps of MouseBoot: main until the loop begins, the mouse and the USART.
Boot ==
  /\ MainBoots
  /\ UNCHANGED <<motions, task, mbuf, tx3, system, host, hist>>

Bytes ==
  /\ SelfTest \/ Usart
  /\ Booting /\ motions # <<>> => Len(pbuf') <= MaxEarly
  /\ UNCHANGED <<motions, task, mbuf, tx3, system, host, hist>>

-----------------------------------------------------------------------------
(* mouse_task.                                                             *)

TaskBeginsBug ==
  /\ boot.pc = "run" /\ task.pc = "idle" /\ mod3BytesCounter >= 3
  /\ task' = [task EXCEPT !.pc = "read", !.packet = <<>>]
  /\ UNCHANGED <<bytes, motions, mbuf, tx3, system, host, hist>>

TaskBegins ==
  /\ boot.pc = "run" /\ task.pc = "idle" /\ mod3BytesCounter >= 4
  /\ task' = [task EXCEPT !.pc = "read", !.packet = <<>>]
  /\ UNCHANGED <<bytes, motions, mbuf, tx3, system, host, hist>>

\* ps2_host_recv_response_mouse waits as long as pbuf is empty.
ReadByte ==
  /\ task.pc = "read" /\ pbuf_has_data
  /\ pbuf' = pbuf_dequeue
  /\ task' = [task EXCEPT !.packet = Append(@, First(pbuf)),
                          !.pc = IF Len(task.packet) = 3 THEN "count" ELSE "read"]
  /\ UNCHANGED <<line, mod3BytesCounter, boot, faults, motions, mbuf, tx3, system, host, hist>>

\* mod3BytesCounter -= 4: the counter is read ...
LoadCounter ==
  /\ task.pc = "count"
  /\ task' = [task EXCEPT !.pc = "store", !.old = mod3BytesCounter]
  /\ UNCHANGED <<bytes, motions, mbuf, tx3, system, host, hist>>

StoreCounterBug ==
  /\ task.pc = "store"
  /\ mod3BytesCounter' = 0
  /\ hist' = [hist EXCEPT !.races = @ + IF mod3BytesCounter # task.old THEN 1 ELSE 0]
  /\ mbuf' = Put(mbuf, MakeReport(task.packet), MbufRoom)
  /\ task' = [task EXCEPT !.pc = "idle", !.packet = <<>>, !.old = 0]
  /\ UNCHANGED <<line, pbuf, boot, faults, motions, tx3, system, host>>

\* ... and written, whatever the interrupt has added since; send_mouse.
StoreCounter ==
  /\ task.pc = "store"
  /\ mod3BytesCounter' = (task.old - 4) % CounterSize
  /\ mbuf' = Put(mbuf, MakeReport(task.packet), MbufRoom)
  /\ hist' = [hist EXCEPT !.races = @ + ((mod3BytesCounter - task.old) % CounterSize),
                          !.dropped = @ \/ Len(mbuf) = MbufRoom]
  /\ task' = [task EXCEPT !.pc = "idle", !.packet = <<>>, !.old = 0]
  /\ UNCHANGED <<line, pbuf, boot, faults, motions, tx3, system, host>>

mouse_task == TaskBegins \/ ReadByte \/ LoadCounter \/ StoreCounter

-----------------------------------------------------------------------------
(* Endpoint 3.                                                             *)

MouseReport(r) == [kind |-> "mouse", report |-> r, control |-> 0]
SystemReport(c) == [kind |-> "system", report |-> NoReport, control |-> c]

TransferBug ==
  /\ boot.pc = "run" /\ task.pc = "idle" /\ mbuf # <<>>
  /\ tx3' = <<MouseReport(Head(mbuf))>>
  /\ mbuf' = Tail(mbuf)
  /\ UNCHANGED <<bytes, motions, task, system, host, hist>>

vusb_transfer_mouse ==
  /\ boot.pc = "run" /\ task.pc = "idle" /\ tx3 = <<>> /\ mbuf # <<>>
  /\ tx3' = <<MouseReport(Head(mbuf))>>
  /\ mbuf' = Tail(mbuf)
  /\ UNCHANGED <<bytes, motions, task, system, host, hist>>

\* A system key is pressed or released and matrix_scan calls send_system: the
\* report is not sent if the endpoint still holds another one.
SystemKey(c) ==
  /\ boot.pc = "run" /\ task.pc = "idle" /\ c # system.held /\ hist.controls < MaxControls
  /\ system' = [system EXCEPT !.held = c, !.last = c]
  /\ tx3' = IF tx3 = <<>> /\ c # system.last THEN <<SystemReport(c)>> ELSE tx3
  /\ hist' = [hist EXCEPT !.controls = @ + 1, !.refused = (tx3 # <<>>)]
  /\ UNCHANGED <<bytes, motions, task, mbuf, host>>

\* The host polls endpoint 3.
Poll ==
  /\ tx3 # <<>>
  /\ tx3' = <<>>
  /\ IF tx3[1].kind = "mouse"
       THEN host' = Append(host, tx3[1].report) /\ UNCHANGED system
       ELSE system' = [system EXCEPT !.host = tx3[1].control] /\ UNCHANGED host
  /\ UNCHANGED <<bytes, motions, task, mbuf, hist>>

Next ==
  \/ \E m \in Motions : Move(m)
  \/ Boot \/ Bytes
  \/ mouse_task
  \/ vusb_transfer_mouse
  \/ \E c \in Controls : SystemKey(c)
  \/ Poll

Spec == Init /\ [][Next]_vars

\* The main program runs for ever and the host polls; a mouse ends its self-test and
\* sends what it has begun, and packs another motion only when it is moved.
FairSpec ==
  /\ Spec
  /\ WF_vars(Boot)
  /\ WF_vars(Bytes)
  /\ WF_vars(mouse_task)
  /\ SF_vars(vusb_transfer_mouse)
  /\ WF_vars(Poll)

-----------------------------------------------------------------------------
(* Properties.                                                             *)

ReportType == [buttons : 0 .. 7, x : -127 .. 127, y : -127 .. 127, v : -128 .. 127]
TaskType == [pc : {"idle", "read", "count", "store"}, packet : Seq(UByte),
             old : 0 .. CounterSize - 1]
Tx3Type == [kind : {"mouse", "system"}, report : ReportType, control : Controls]

TypeOK ==
  /\ BytesOK
  /\ motions \in Seq(Motions)
  /\ task \in TaskType
  /\ mbuf \in Seq(ReportType) /\ host \in Seq(ReportType) /\ tx3 \in Seq(Tx3Type)
  /\ system \in [held : Controls, last : Controls, host : Controls]
  /\ hist \in [races : Nat, dropped : BOOLEAN, refused : BOOLEAN, controls : Nat]

\* Bytes of counted packets that mouse_task has taken out of pbuf.
Taken == Len(task.packet)

\* mouse_task never finds pbuf empty while it reads a packet, so that the main loop
\* goes on, unless a byte was counted and not stored; although the counter is
\* changed by the interrupt between its reading and its writing, and bytes that came
\* before it was reset are in the queue.
NeverWaits == faults = 0 /\ task.pc = "read" => pbuf_has_data

\* What a lost increment or an early byte costs: the counter is behind the queue by
\* that many bytes, for ever, and never ahead of it.
CounterLags ==
  faults = 0 /\ boot.pc \in {"off", "run"} =>
    Len(pbuf) + Taken = mod3BytesCounter + hist.races + boot.early

\* The report the HID descriptor promises for a motion.
Clamp(n) == IF n > 127 THEN 127 ELSE IF n < -127 THEN -127 ELSE n
Wanted(m) ==
  [buttons |-> m.buttons,
   x |-> Clamp(IF m.xOvf THEN (IF m.x < 0 THEN -256 ELSE 255) ELSE m.x),
   y |-> -Clamp(IF m.yOvf THEN (IF m.y < 0 THEN -256 ELSE 255) ELSE m.y),
   v |-> Int8(-m.v)]

\* The reports the host gets say what the mouse said, packet by packet, with the
\* ninth bit and the overflows made a limit, as long as no byte was lost and no
\* report found mbuf full.
InTx3 == IF tx3 # <<>> /\ tx3[1].kind = "mouse" THEN <<tx3[1].report>> ELSE <<>>
Out == host \o (InTx3 \o mbuf)
ReportsExact ==
  faults = 0 /\ ~hist.dropped =>
    /\ Len(Out) <= Len(motions)
    /\ \A i \in DOMAIN Out : Out[i] = Wanted(motions[i])

\* Without a cut command, a lost byte or increment and an early byte the main loop
\* begins, although every answer is waited for without a bound, and all the mouse
\* has said reaches the host.
AllReported ==
  <>[](\/ faults + hist.races + boot.early > 0 \/ hist.dropped
       \/ boot.pc = "run" /\ Len(host) = Len(motions))

\* In the end the host knows whether the system key is held, unless its last
\* press or release found the endpoint busy: that one is noted as sent and lost.
SystemKeyTold == <>[](hist.refused \/ system.host = system.held)
=============================================================================
