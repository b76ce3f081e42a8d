---------------------------- MODULE Ps2Receiver ----------------------------
(***************************************************************************)
(* The receiver of keyboard bytes (ps2_interrupt.c), one action per step   *)
(* that another interrupt can see.  The keyboard clocks a frame of eleven  *)
(* bits; every falling edge raises INTF1.  Three parties take the edge:    *)
(*   - the INT1 handler, which samples the data line, enables interrupts   *)
(*     and then runs handleBit, so that it can be interrupted in it;       *)
(*   - the USB packet handler (usbdrvasm.S), which runs with interrupts    *)
(*     off, clears INTF1 and keeps up to two samples in r22/r23; at its    *)
(*     end it leaves them in requestBit/requestBitPrev and raises PCINT1,  *)
(*     unless it ends on a path that forgets them;                         *)
(*   - the PCINT1 handler, which hands these samples to handleBit.         *)
(* The main loop fetches bytes (matrix_scan) and releases the error latch. *)
(* Timing is abstracted to what it makes possible: the edges of a frame    *)
(* are 60 us or more apart, longer than any handler but the USB one.       *)
(***************************************************************************)
EXTENDS Ps2Frame

CONSTANTS Bytes,      \* the bytes the keyboard may send
          MaxFrames,  \* bound: frames sent
          MaxLost,    \* bound: edges the USB handler may lose
          MaxOvertaken \* bound: times a bit is handled before an earlier one

ASSUME BytesAssumption == Bytes \subseteq ByteBits
ASSUME BoundsAssumption ==
  Capacity \in Nat \ {0} /\ MaxFrames \in Nat /\ MaxLost \in Nat /\ MaxOvertaken \in Nat

VARIABLES
  rx,        \* state, data, parity, inhibit, ps2_error, ps2_err_state and pbuf
  handlers,  \* the INT1 handlers that have not returned, innermost first
  intf1,     \* an edge waits in EIFR
  pcint,     \* PCINT1 is pending
  inPcint,   \* the PCINT1 handler is between its two looks for edges
  mailbox,   \* the samples in requestBit and requestBitPrev
  masked,    \* INT0 is masked until PCINT1 has run
  usb,       \* the USB handler: open, its samples, edges seen in the packet
  code,      \* what matrix_scan fetched and has not decoded: <<>> or <<byte>>
  scan,      \* where matrix_scan is: "idle", "fetched" a byte, "noted" it
  line,      \* bits of the current frame still to be clocked
  level,     \* the data line
  hist       \* history: what was sent, accepted, decoded, and the accidents

vars == <<rx, handlers, intf1, pcint, inPcint, mailbox, masked, usb, code,
          scan, line, level, hist>>

-----------------------------------------------------------------------------
Init ==
  /\ rx = Idle
  /\ handlers = <<>>
  /\ intf1 = FALSE
  /\ pcint = FALSE
  /\ inPcint = FALSE
  /\ mailbox = <<>>
  /\ masked = FALSE
  /\ usb = [open |-> FALSE, samples |-> <<>>, late |-> FALSE, edges |-> 0]
  /\ code = <<>>
  /\ scan = "idle"
  /\ line = <<>>
  /\ level = 1
  /\ hist = [sent |-> <<>>, decoded |-> <<>>, lost |-> 0,
             overtaken |-> 0, resync |-> FALSE]

\* No interrupt is pending or blocks the interrupted code.
Quiet == ~intf1 /\ ~pcint /\ ~inPcint /\ ~usb.open
Inner == handlers[1]

\* The keyboard has a byte to send.
BeginFrame(b) ==
  /\ line = <<>>
  /\ Len(hist.sent) < MaxFrames
  /\ line' = Frame(b)
  /\ hist' = [hist EXCEPT !.sent = Append(@, b)]
  /\ UNCHANGED <<rx, handlers, intf1, pcint, inPcint, mailbox, masked, usb,
                 code, scan, level>>

\* A falling clock edge.  The previous edge has been taken, a packet sees at
\* most two, and a handler is still running only if a packet held it up.
Clock ==
  /\ line # <<>>
  /\ ~intf1
  /\ handlers # <<>> => hist.overtaken < MaxOvertaken
  /\ \/ usb.open /\ usb.edges < 2
     \/ ~usb.open /\ ~pcint /\ \A i \in DOMAIN handlers : handlers[i].heldUp
  /\ intf1' = TRUE
  /\ level' = Head(line)
  /\ line' = Tail(line)
  /\ usb' = IF usb.open THEN [usb EXCEPT !.edges = @ + 1] ELSE usb
  /\ UNCHANGED <<rx, handlers, pcint, inPcint, mailbox, masked, code, scan, hist>>

-----------------------------------------------------------------------------
(* The USB packet handler.                                                 *)

\* r22 and r23 at the start of a packet; an edge may be waiting already.
NewPacket(open) ==
  [open |-> open, samples |-> <<>>, late |-> FALSE, edges |-> IF intf1 THEN 1 ELSE 0]

\* n edges are forgotten for good; more than MaxLost are not explored.
MayLose(n) == hist.lost + n <= MaxLost
Lose(n) == hist' = [hist EXCEPT !.lost = @ + n]

\* INT0 has the highest priority; it interrupts the main loop and INT1's
\* handler.  haveTwoBitsK clears the samples.
PacketBegins ==
  /\ ~usb.open /\ ~masked /\ ~inPcint
  /\ usb' = NewPacket(TRUE)
  /\ handlers' = [i \in DOMAIN handlers |-> [handlers[i] EXCEPT !.heldUp = TRUE]]
  /\ UNCHANGED <<rx, intf1, pcint, inPcint, mailbox, masked, code, scan,
                 line, level, hist>>

\* Between two bytes of the packet INTF1 is found set: it is cleared and the
\* data line sampled.  A second edge in the packet's last byte leaves r22 in
\* an intermediate value (late), which PCINT1 does not understand.
SampleEdge(late) ==
  /\ usb.open /\ intf1
  /\ late => Len(usb.samples) = 1 /\ MayLose(2 + Len(mailbox))
  /\ intf1' = FALSE
  /\ usb' = [usb EXCEPT !.samples = Append(@, level), !.late = late]
  /\ UNCHANGED <<rx, handlers, pcint, inPcint, mailbox, masked, code, scan,
                 line, level, hist>>

\* ignorePacket, and the end of a transmission; the next packet follows at once
\* if it has already begun (again, the jump to waitForJ).  Samples are left for PCINT1,
\* over those of a packet that ran just before.  A late second sample makes
\* both unreadable.
PacketEnds(again) ==
  /\ usb.open
  /\ IF usb.samples = <<>>
       THEN UNCHANGED <<mailbox, pcint, masked, hist>>
       ELSE /\ mailbox' = IF usb.late THEN <<>> ELSE usb.samples
            /\ pcint' = TRUE
            /\ masked' = TRUE
            /\ Lose(Len(mailbox) + IF usb.late THEN 2 ELSE 0)
  /\ again => hist'.lost + Len(mailbox') <= MaxLost
  /\ usb' = NewPacket(again)
  /\ UNCHANGED <<rx, handlers, intf1, inPcint, code, scan, line, level>>

\* doReturn straight from a SETUP or OUT token, or from a data packet that is
\* not for this device: r22 and r23 are popped and the samples are gone.
PacketForgets(again) ==
  /\ usb.open
  /\ usb.samples # <<>>
  /\ MayLose(Len(usb.samples) + Len(mailbox))
  /\ Lose(Len(usb.samples))
  /\ usb' = NewPacket(again)
  /\ UNCHANGED <<rx, handlers, intf1, pcint, inPcint, mailbox, masked, code,
                 scan, line, level>>

-----------------------------------------------------------------------------
(* The INT1 handler.                                                       *)

\* Samples the line and enables interrupts.
INT1 ==
  /\ intf1 /\ ~usb.open /\ ~inPcint
  /\ intf1' = FALSE
  /\ handlers' = <<[bit |-> level, pc |-> "enter", s |-> 0, heldUp |-> FALSE]>> \o handlers
  /\ hist' = [hist EXCEPT !.overtaken = IF handlers # <<>> THEN @ + 1 ELSE @]
  /\ UNCHANGED <<rx, pcint, inPcint, mailbox, masked, usb, code, scan, line, level>>

\* handleBit returns at once while an error is latched.
BitIgnored ==
  /\ Quiet /\ handlers # <<>> /\ Inner.pc = "enter" /\ rx.errState = 1
  /\ handlers' = Tail(handlers)
  /\ UNCHANGED <<rx, intf1, pcint, inPcint, mailbox, masked, usb, code,
                 scan, line, level, hist>>

\* state++ reads state ...
ReadState ==
  /\ Quiet /\ handlers # <<>> /\ Inner.pc = "enter" /\ rx.errState = 0
  /\ handlers' = [handlers EXCEPT ![1].pc = "read", ![1].s = rx.state + 1]
  /\ UNCHANGED <<rx, intf1, pcint, inPcint, mailbox, masked, usb, code,
                 scan, line, level, hist>>

\* ... and writes it back.
WriteState ==
  /\ Quiet /\ handlers # <<>> /\ Inner.pc = "read"
  /\ handlers' = [handlers EXCEPT ![1].pc = "written"]
  /\ rx' = [rx EXCEPT !.state = Inner.s]
  /\ UNCHANGED <<intf1, pcint, inPcint, mailbox, masked, usb, code, scan,
                 line, level, hist>>

\* The switch on the state just written, and the return.
SwitchState ==
  /\ Quiet /\ handlers # <<>> /\ Inner.pc = "written"
  /\ handlers' = Tail(handlers)
  /\ rx' = Switch(rx, Inner.s, Inner.bit)
  /\ UNCHANGED <<intf1, pcint, inPcint, mailbox, masked, usb, code, scan,
                 line, level, hist>>

-----------------------------------------------------------------------------
(* The PCINT1 handler runs with interrupts off.                            *)

\* The samples, at most two, in the order they were taken.
HandleSamplesBug(r, samples) ==
  CASE samples = <<>>     -> r
    [] Len(samples) = 1   -> handleBit(r, samples[1])
    [] OTHER              -> handleBit(handleBit(r, samples[2]), samples[1])

HandleSamples(r, samples) ==
  CASE samples = <<>>     -> r
    [] Len(samples) = 1   -> handleBit(r, samples[1])
    [] OTHER              -> handleBit(handleBit(r, samples[1]), samples[2])

\* INT1 has priority; it enables interrupts before it calls handleBit, so
\* PCINT1 still comes before the bit INT1 sampled.
PCINT1 ==
  /\ pcint /\ ~intf1 /\ ~usb.open
  /\ pcint' = FALSE
  /\ inPcint' = TRUE
  /\ masked' = FALSE
  /\ mailbox' = <<>>
  /\ rx' = HandleSamples(rx, mailbox)
  /\ hist' = [hist EXCEPT !.overtaken =
                 IF handlers # <<>> /\ Inner.heldUp THEN @ + 1 ELSE @]
  /\ UNCHANGED <<handlers, intf1, usb, code, scan, line, level>>

\* An edge that came meanwhile is handled here and its flag cleared.
PCINT1Return ==
  /\ inPcint
  /\ inPcint' = FALSE
  /\ rx' = IF intf1 THEN handleBit(rx, level) ELSE rx
  /\ intf1' = FALSE
  /\ UNCHANGED <<handlers, pcint, mailbox, masked, usb, code, scan, line, level, hist>>

-----------------------------------------------------------------------------
(* The main loop.                                                          *)

\* matrix_scan fetches a byte if there is one ...
Fetch ==
  /\ Quiet /\ handlers = <<>> /\ scan = "idle"
  /\ scan' = "fetched"
  /\ code' = IF rx.pbuf = <<>> THEN <<>> ELSE <<Head(rx.pbuf)>>
  /\ rx' = [rx EXCEPT !.pbuf = IF @ = <<>> THEN @ ELSE Tail(@)]
  /\ UNCHANGED <<handlers, intf1, pcint, inPcint, mailbox, masked, usb, line,
                 level, hist>>

UnlatchBug(r) == [r EXCEPT !.error = 0]
Unlatch(r) == [r EXCEPT !.error = 0, !.errState = 0]

\* ... looks at ps2_error: when an error is recorded, the error and the latch are
\* cleared and the byte is forgotten.  While the latch is set no bit changes
\* anything, so clearing the error and then the latch is one step.
LookAtError ==
  /\ Quiet /\ handlers = <<>> /\ scan = "fetched"
  /\ IF rx.error # 0
       THEN /\ rx' = Unlatch(rx)
            /\ scan' = "idle" /\ code' = <<>>
            /\ hist' = [hist EXCEPT !.resync = @ \/ Len(line) \in 1 .. 10]
       ELSE /\ scan' = IF code = <<>> THEN "idle" ELSE "noted"
            /\ UNCHANGED <<rx, code, hist>>
  /\ UNCHANGED <<handlers, intf1, pcint, inPcint, mailbox, masked, usb, line, level>>

\* ... notes a byte down and decodes it, unless an error was made meanwhile: then the
\* byte is forgotten, and the error left to the next scan.
Decode ==
  /\ Quiet /\ handlers = <<>> /\ scan = "noted"
  /\ scan' = "idle" /\ code' = <<>>
  /\ hist' = [hist EXCEPT !.decoded = IF rx.error = 0 THEN @ \o code ELSE @]
  /\ UNCHANGED <<rx, handlers, intf1, pcint, inPcint, mailbox, masked, usb, line, level>>

Handler == INT1 \/ BitIgnored \/ ReadState \/ WriteState \/ SwitchState
Packet  == \E again \in BOOLEAN : PacketEnds(again) \/ PacketForgets(again)
Device  == Clock \/ \E b \in Bytes : BeginFrame(b)

Next ==
  \/ Device
  \/ PacketBegins
  \/ \E late \in BOOLEAN : SampleEdge(late)
  \/ Packet
  \/ Handler
  \/ PCINT1
  \/ PCINT1Return
  \/ Fetch
  \/ LookAtError
  \/ Decode

Spec == Init /\ [][Next]_vars

\* Interrupt handlers and the main loop are never held up for ever: between
\* packets the bus leaves time, since the host does not send back to back
\* without end (strong fairness), and a packet has an end.  Nothing is assumed
\* of the keyboard beyond finishing a frame it has begun, nor that packets come.
Fairness ==
  /\ SF_vars(Handler)
  /\ SF_vars(PCINT1)
  /\ WF_vars(PCINT1Return)
  /\ SF_vars(Fetch)
  /\ SF_vars(LookAtError)
  /\ SF_vars(Decode)
  /\ SF_vars(Clock)
  /\ SF_vars(\E again \in BOOLEAN : PacketEnds(again))

FairSpec == Spec /\ Fairness

-----------------------------------------------------------------------------
(* Properties.                                                             *)

HandlerState == [bit : Bit, pc : {"enter", "read", "written"}, s : Nat,
                 heldUp : BOOLEAN]
PacketState == [open : BOOLEAN, samples : Seq(Bit), late : BOOLEAN, edges : 0 .. 2]
History == [sent : Seq(ByteBits), decoded : Seq(ByteBits), lost : 0 .. MaxLost,
            overtaken : Nat, resync : BOOLEAN]

TypeOK ==
  /\ rx \in Receiver
  /\ handlers \in Seq(HandlerState)
  /\ intf1 \in BOOLEAN /\ pcint \in BOOLEAN /\ inPcint \in BOOLEAN
  /\ mailbox \in Seq(Bit)
  /\ masked \in BOOLEAN
  /\ usb \in PacketState
  /\ code \in Seq(ByteBits)
  /\ scan \in {"idle", "fetched", "noted"}
  /\ line \in Seq(Bit)
  /\ level \in Bit
  /\ hist \in History

\* No edge was forgotten and no bit overtook an earlier one.
Undamaged == hist.lost = 0 /\ hist.overtaken = 0

AtRest == Quiet /\ handlers = <<>>

\* Bits of the current frame that have been clocked, and the finished frames.
Clocked == (11 - Len(line)) % 11
Finished == IF line = <<>> THEN hist.sent ELSE SubSeq(hist.sent, 1, Len(hist.sent) - 1)

\* As long as no accident happened, the three ways an edge can be taken add up
\* to exactly one handleBit per edge, in order: whenever no bit is on its way
\* the receiver has accepted exactly the finished frames, stands where the
\* keyboard stands in the current one, and has recorded no error.
ExactReception ==
  Undamaged /\ AtRest =>
    /\ rx.accepted = Finished
    /\ rx.state = Clocked
    /\ rx.errState = 0

\* s is what is left of t when some elements are taken out.
IsSubsequence(s, t) ==
  \E f \in [1 .. Len(s) -> 1 .. Len(t)] :
    /\ \A i, j \in 1 .. Len(s) : i < j => f[i] < f[j]
    /\ \A i \in 1 .. Len(s) : s[i] = t[f[i]]

\* A single forgotten edge makes the receiver lose bytes but never invent one,
\* as long as the latch is not released in the middle of a frame.
NoFabrication ==
  hist.lost <= 1 /\ hist.overtaken = 0 /\ ~hist.resync =>
    IsSubsequence(rx.accepted, hist.sent)

\* An error that makes handleBit ignore every bit is one that matrix_scan sees,
\* whatever was lost or overtaken: the receiver never stays deaf.
LatchVisible == rx.errState = 1 => rx.error # 0

\* inhibit, which holds back keyboard reports, is set only in a frame: with no
\* bit on its way the two agree, unless a bit was overtaken.
InhibitTracksFrame ==
  AtRest /\ hist.overtaken = 0 => (rx.inhibit = 1 <=> rx.state # INIT)

\* The latch is always released.
LatchReleased == rx.errState = 1 ~> rx.errState = 0

\* Every byte the keyboard sends is decoded, unless an accident happens or pbuf
\* is full.
EveryByteDecoded ==
  \A n \in 1 .. MaxFrames :
    Len(hist.sent) >= n ~> (Len(hist.decoded) >= n \/ ~Undamaged \/ rx.dropped)
=============================================================================
