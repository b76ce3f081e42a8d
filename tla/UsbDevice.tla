----------------------------- MODULE UsbDevice -----------------------------
(***************************************************************************)
(* The USB device: the C part of the driver (usbdrv.c) that the main loop  *)
(* runs by usbPoll, the requests of main.c, and what the packet handler    *)
(* (asmcommon.inc) does with tokens and data while the main loop is        *)
(* anywhere in it; against a host that makes control transfers, abandons   *)
(* them, resets the bus and polls the interrupt endpoints.  A transaction  *)
(* (token, data, handshake) is one step of the packet handler; the host    *)
(* may fail to see its answer, or the device may miss it altogether.       *)
(*                                                                         *)
(* The driver does no CRC check and no toggle check on what it receives,   *)
(* takes what it has sent for received, and does not answer while usbPoll  *)
(* has a packet to look at.                                                *)
(***************************************************************************)
EXTENDS Integers, Sequences, FiniteSets

CONSTANTS PacketSize,  \* bytes in a data packet, 8
          Reads,       \* <<has, wants>>: length of a reply and wLength of its request
          Kinds,       \* kinds of requests the host makes
          Endpoints,   \* interrupt-IN endpoints, 1 and 3
          MaxRequests, \* bound: control transfers
          MaxReports,  \* bound: reports put in each endpoint
          MaxFaults,   \* bound: transactions one side misses
          MaxBreaks    \* bound: transfers abandoned and bus resets

AllKinds == {"address", "configuration", "interface", "read", "lamps", "report"}
NO_MSG == 255

ASSUME UsbAssumption ==
  /\ PacketSize \in 1 .. 8
  /\ Reads \subseteq (0 .. NO_MSG - 1) \X Nat
  /\ Kinds \subseteq AllKinds
  /\ MaxRequests \in Nat /\ MaxReports \in Nat /\ MaxFaults \in Nat /\ MaxBreaks \in Nat

VARIABLES
  dev,   \* the driver's globals
  pc,    \* where the main loop is in usbPoll
  host,  \* the host: its transfer, its view of the device, reports it has taken
  se0,   \* a reset of the bus: "off", or how much of usbPoll has run since it began
  hist   \* history: counts and accidents

vars == <<dev, pc, host, se0, hist>>

InReset == se0 # "off"

Least(m, n) == IF m < n THEN m ELSE n
Toggle(t) == 1 - t

\* usbTxLen with a handshake in it, and the packet in usbTxBuf.
Handshake(k) == [kind |-> k, pid |-> 0, id |-> 0, from |-> 0, len |-> 0]
NAK == Handshake("NAK")
STALL == Handshake("STALL")

NoRequest == [kind |-> "none", id |-> 0, has |-> 0, wLength |-> 0]

-----------------------------------------------------------------------------
(* usbProcessRx, usbDriverSetup, usbFunctionSetup, usbFunctionWrite and     *)
(* usbBuildTxBlock, as functions of the driver's globals.                   *)

\* The interrupt endpoints after usbInit: the first report goes out with the other token.
usbInit == [e \in Endpoints |-> [tok |-> 1, full |-> FALSE, report |-> 0]]

\* usbResetDataToggling.
ResetToggles(d) == [d EXCEPT !.ep = [e \in Endpoints |-> [@[e] EXCEPT !.tok = 1]]]

\* Standard requests; the length of the reply is the request's rq.has.
usbDriverSetup(d, rq) ==
  CASE rq.kind = "address"       -> [d EXCEPT !.newAddr = rq.id]
    [] rq.kind = "configuration" -> [d EXCEPT !.config = 1]
    [] rq.kind = "interface"     -> ResetToggles(d)
    [] OTHER                     -> d

\* Class requests.  Every SET_REPORT has its data passed to usbFunctionWrite; the
\* one for the keyboard's output report is for the lamps.
usbFunctionSetup(d, rq) ==
  IF rq.kind = "lamps" THEN [d EXCEPT !.reqKind = "SET_LED", !.reqLen = 1] ELSE d

\* bmRequestType: every SET_REPORT is a class request; the reads stand for the standard
\* ones and GET_REPORT and GET_IDLE alike.
TypeOf(rq) == IF rq.kind \in {"lamps", "report"} THEN "class" ELSE "standard"
IsClass(rq) == TypeOf(rq) # "standard"

DoRequestBug(d, rq) ==
  LET after == IF IsClass(rq) THEN usbFunctionSetup(d, rq) ELSE usbDriverSetup(d, rq)
  IN  [after EXCEPT !.msgLen = Least(rq.has, rq.wLength), !.id = rq.id, !.from = 0]

\* The request in the setup packet.  msgLen is what will be replied, limited to
\* what the host wants; requests with data to the device have NO_MSG.
DoRequest(d, rq) ==
  IF IsClass(rq)
  THEN [usbFunctionSetup(d, rq) EXCEPT !.msgLen = NO_MSG, !.rw = TRUE, !.id = rq.id, !.from = 0]
  ELSE [usbDriverSetup(d, rq) EXCEPT !.msgLen = Least(rq.has, rq.wLength), !.id = rq.id,
                                     !.from = 0]

SetupBug(d) ==
  DoRequest([d EXCEPT !.tok = 0, !.rw = FALSE], d.rx)

\* A setup packet aborts what is about to be sent.
Setup(d) ==
  DoRequest([d EXCEPT !.tok = 0, !.tx = NAK, !.rw = FALSE], d.rx)

\* usbFunctionWrite on a data packet, and what usbProcessRx makes of its answer.
Write(d) ==
  IF d.reqLen = 0 \/ d.reqKind # "SET_LED" THEN [d EXCEPT !.tx = STALL]
  ELSE [d EXCEPT !.leds = d.rx.id, !.reqLen = 0, !.msgLen = 0]

usbProcessRx(d) ==
  IF d.rxToken = "SETUP" THEN Setup(d)
  ELSE IF d.rw THEN Write(d)
  ELSE d

BuildAllBug(d) ==
  [d EXCEPT !.tok = Toggle(@),
            !.tx = [kind |-> "DATA", pid |-> Toggle(d.tok), id |-> d.id,
                    from |-> d.from, len |-> d.msgLen],
            !.msgLen = NO_MSG]

BuildBug(d) ==
  LET len == Least(d.msgLen, PacketSize)
  IN  [d EXCEPT !.tok = Toggle(@),
                !.tx = [kind |-> "DATA", pid |-> Toggle(d.tok), id |-> d.id,
                        from |-> d.from, len |-> len],
                !.from = @ + len,
                !.msgLen = IF d.msgLen <= PacketSize THEN NO_MSG ELSE @ - len]

\* A packet that is not full ends the message; a full last packet is followed by
\* an empty one.
usbBuildTxBlock(d) ==
  LET len == Least(d.msgLen, PacketSize)
  IN  [d EXCEPT !.tok = Toggle(@),
                !.tx = [kind |-> "DATA", pid |-> Toggle(d.tok), id |-> d.id,
                        from |-> d.from, len |-> len],
                !.from = @ + len,
                !.msgLen = IF len < PacketSize THEN NO_MSG ELSE @ - len]

usbInterruptIsReady(d, e) == ~d.ep[e].full

\* usbGenericSetInterrupt; its callers have asked usbInterruptIsReady.
usbSetInterruptBug(d, e, r) ==
  [d EXCEPT !.ep[e].full = TRUE, !.ep[e].report = r]
usbSetInterrupt(d, e, r) ==
  [d EXCEPT !.ep[e].tok = Toggle(@), !.ep[e].full = TRUE, !.ep[e].report = r]

-----------------------------------------------------------------------------
(* The packet handler: state of the device after a transaction addressed to *)
(* it, and its answer.                                                      *)

\* SETUP and OUT: not while a packet waits for usbPoll.  Empty data packets are
\* acknowledged and forgotten.
Receive(d, token, data) ==
  IF d.rxLen # 0 THEN [dev |-> d, answer |-> "NAK"]
  ELSE IF data.kind = "none" THEN [dev |-> d, answer |-> "ACK"]
  ELSE [dev |-> [d EXCEPT !.rxLen = 1, !.rxToken = token, !.rx = data], answer |-> "ACK"]

\* IN on endpoint 0: the packet counts as received; sending data makes a new
\* address valid.
HandleIn(d) ==
  IF d.rxLen # 0 THEN [dev |-> d, answer |-> NAK]
  ELSE IF d.tx.kind # "DATA" THEN [dev |-> d, answer |-> d.tx]
  ELSE [dev |-> [d EXCEPT !.tx = NAK, !.addr = d.newAddr], answer |-> d.tx]

\* IN on an interrupt endpoint.
CanSendReport(d, e) == d.rxLen = 0 /\ d.ep[e].full
ReportSentBug(d, e) == [d EXCEPT !.addr = d.newAddr]
ReportSent(d, e) == [d EXCEPT !.ep[e].full = FALSE, !.addr = d.newAddr]

-----------------------------------------------------------------------------
Init ==
  /\ dev = [rxLen |-> 0, rxToken |-> "OUT", rx |-> NoRequest, tok |-> 0, tx |-> NAK,
            msgLen |-> NO_MSG, rw |-> FALSE, id |-> 0, from |-> 0, newAddr |-> 0,
            addr |-> 0, config |-> 0, leds |-> 0, reqKind |-> "NONE", reqLen |-> 0,
            ep |-> usbInit]
  /\ pc = "rx"
  /\ host = [stage |-> "idle", rq |-> NoRequest, got |-> 0, tok |-> 0, addr |-> 0,
             config |-> FALSE, known |-> TRUE, lamps |-> 0,
             expect |-> [e \in Endpoints |-> 0], reports |-> [e \in Endpoints |-> <<>>]]
  /\ se0 = "off"
  /\ hist = [requests |-> 0, put |-> [e \in Endpoints |-> 0], faults |-> 0,
             breaks |-> 0, resyncs |-> 0, foreign |-> FALSE,
             gap |-> FALSE, refused |-> FALSE, lampIds |-> {0}, orphan |-> FALSE]

-----------------------------------------------------------------------------
(* The main loop.                                                          *)

\* usbPoll: a packet that has been received, ...
PollRx ==
  /\ pc = "rx"
  /\ dev' = IF dev.rxLen # 0 THEN [usbProcessRx(dev) EXCEPT !.rxLen = 0] ELSE dev
  /\ se0' = IF se0 = "held" THEN "polled" ELSE se0
  /\ pc' = "tx"
  /\ UNCHANGED <<host, hist>>

PollTxBug ==
  /\ pc = "tx"
  /\ dev' = IF dev.msgLen # NO_MSG THEN usbBuildTxBlock(dev) ELSE dev
  /\ pc' = "reset"
  /\ UNCHANGED <<host, se0, hist>>

\* ... the next packet of a reply, ...
PollTx ==
  /\ pc = "tx"
  /\ dev' = IF dev.tx.kind # "DATA" /\ dev.msgLen # NO_MSG THEN usbBuildTxBlock(dev)
            ELSE dev
  /\ pc' = "reset"
  /\ UNCHANGED <<host, se0, hist>>

PollResetBug ==
  /\ pc = "reset"
  /\ dev' = IF InReset THEN [dev EXCEPT !.addr = 0] ELSE dev
  /\ se0' = IF se0 = "polled" THEN "seen" ELSE se0
  /\ pc' = "rx"
  /\ UNCHANGED <<host, hist>>

\* ... and a reset of the bus.
PollReset ==
  /\ pc = "reset"
  /\ dev' = IF InReset THEN [dev EXCEPT !.newAddr = 0, !.addr = 0] ELSE dev
  /\ se0' = IF se0 = "polled" THEN "seen" ELSE se0
  /\ pc' = "rx"
  /\ UNCHANGED <<host, hist>>

\* The rest of the loop has a report for an endpoint that is ready.
Report(e) ==
  /\ pc = "rx" /\ dev.config # 0 /\ usbInterruptIsReady(dev, e)
  /\ hist.put[e] < MaxReports
  /\ dev' = usbSetInterrupt(dev, e, hist.put[e] + 1)
  /\ hist' = [hist EXCEPT !.put[e] = @ + 1]
  /\ UNCHANGED <<pc, host, se0>>

-----------------------------------------------------------------------------
(* The host.                                                               *)

\* Whether the device takes a transaction, and whether the host sees the answer.
Fates == {"seen", "missed", "unseen"}
Fault(fate) == IF fate = "seen" THEN 0 ELSE 1
MayFail(fate) == ~InReset /\ hist.faults + Fault(fate) <= MaxFaults
Reached(fate) == fate # "missed" /\ dev.addr = host.addr

\* Requests a host makes: an address once, then a configuration.
Request(kind) ==
  LET id == hist.requests + 1
      IsAllowed == CASE kind = "address" -> host.addr = 0
                     [] kind = "configuration" -> host.addr # 0 /\ ~host.config
                     [] kind = "read" -> TRUE
                     [] OTHER -> host.config
  IN
  /\ host.stage = "idle" /\ ~InReset /\ hist.requests < MaxRequests /\ host.known
  /\ IsAllowed
  /\ \E r \in IF kind = "read" THEN Reads ELSE {<<0, 0>>} :
       host' = [host EXCEPT !.stage = "setup", !.got = 0, !.tok = 1,
                            !.rq = [kind |-> kind, id |-> id, has |-> r[1],
                                    wLength |-> r[2]]]
  /\ hist' = [hist EXCEPT !.requests = @ + 1,
                          !.resyncs = IF kind \in {"configuration", "interface"}
                                      THEN @ + 1 ELSE @,
                          !.lampIds = IF kind = "lamps" THEN @ \cup {id} ELSE @]
  /\ UNCHANGED <<dev, pc, se0>>

\* After a successful transfer the host sees the device in a new light.
Succeed(h) ==
  CASE h.rq.kind = "address" -> [h EXCEPT !.stage = "idle", !.addr = h.rq.id]
    [] h.rq.kind = "configuration" ->
         [h EXCEPT !.stage = "idle", !.config = TRUE, !.expect = [e \in Endpoints |-> 0]]
    [] h.rq.kind = "interface" ->
         [h EXCEPT !.stage = "idle", !.expect = [e \in Endpoints |-> 0]]
    [] h.rq.kind = "lamps" -> [h EXCEPT !.stage = "idle", !.lamps = h.rq.id]
    [] OTHER -> [h EXCEPT !.stage = "idle"]

\* The host has all it wants, or a packet that is not full.
AfterData(h, len) ==
  IF len < PacketSize \/ h.got + len >= h.rq.wLength
  THEN [h EXCEPT !.stage = "statusOut", !.got = @ + len, !.tok = Toggle(@)]
  ELSE [h EXCEPT !.got = @ + len, !.tok = Toggle(@)]

IsCutShort(h) ==
  h.stage = "statusOut" /\ h.got # Least(h.rq.has, h.rq.wLength)

StageAfterSetup(rq) ==
  CASE rq.kind = "read" /\ rq.wLength > 0 -> "in"
    [] rq.kind \in {"lamps", "report"} -> "out"
    [] OTHER -> "statusIn"

\* SETUP, the data packet of a SET_REPORT, and the empty packet after a read.
SendSetup(fate) ==
  LET r == Receive(dev, "SETUP", host.rq) IN
  /\ host.stage = "setup" /\ MayFail(fate)
  /\ dev' = IF Reached(fate) THEN r.dev ELSE dev
  /\ host' = IF Reached(fate) /\ fate = "seen" /\ r.answer = "ACK"
             THEN [host EXCEPT !.stage = StageAfterSetup(host.rq)] ELSE host
  /\ hist' = [hist EXCEPT !.faults = @ + Fault(fate)]
  /\ UNCHANGED <<pc, se0>>

SendData(fate) ==
  LET r == Receive(dev, "OUT", host.rq) IN
  /\ host.stage = "out" /\ MayFail(fate)
  /\ dev' = IF Reached(fate) THEN r.dev ELSE dev
  /\ host' = IF Reached(fate) /\ fate = "seen" /\ r.answer = "ACK"
             THEN [host EXCEPT !.stage = "statusIn"] ELSE host
  /\ hist' = [hist EXCEPT !.faults = @ + Fault(fate)]
  /\ UNCHANGED <<pc, se0>>

StatusOut(fate) ==
  LET r == Receive(dev, "OUT", NoRequest) IN
  /\ host.stage = "statusOut" /\ MayFail(fate)
  /\ dev' = IF Reached(fate) THEN r.dev ELSE dev
  /\ host' = IF Reached(fate) /\ fate = "seen" /\ r.answer = "ACK"
             THEN Succeed(host) ELSE host
  /\ hist' = [hist EXCEPT !.faults = @ + Fault(fate)]
  /\ UNCHANGED <<pc, se0>>

\* IN on endpoint 0.  A packet with the token of the last one is a repetition to
\* the host: it acknowledges and ignores it.
ReadControl(fate) ==
  LET r == HandleIn(dev)
      p == r.answer
      IsSeen == Reached(fate) /\ fate = "seen"
      IsTaken == IsSeen /\ p.kind = "DATA" /\ p.pid = host.tok
  IN
  /\ host.stage \in {"in", "statusIn"} /\ MayFail(fate)
  /\ dev' = IF Reached(fate) THEN r.dev ELSE dev
  /\ host' = IF IsTaken THEN IF host.stage = "in" THEN AfterData(host, p.len)
                             ELSE Succeed(host)
             ELSE IF IsSeen /\ p.kind = "STALL" THEN [host EXCEPT !.stage = "idle"]
             ELSE host
  /\ hist' = [hist EXCEPT
       !.faults = @ + Fault(fate),
       !.foreign = @ \/ (IsTaken /\ (p.id # host.rq.id \/ (host.stage = "statusIn" /\ p.len # 0))),
       !.gap = @ \/ (IsTaken /\ host.stage = "in" /\
                   (p.from # host.got \/ IsCutShort(AfterData(host, p.len)))),
       !.refused = @ \/ (IsSeen /\ p.kind = "STALL" /\ host.rq.kind # "report")]
  /\ UNCHANGED <<pc, se0>>

\* IN on an interrupt endpoint of a device the host has configured.
ReadReport(e, fate) ==
  LET p == dev.ep[e] IN
  /\ host.config /\ MayFail(fate) /\ Reached(fate) /\ CanSendReport(dev, e)
  /\ dev' = ReportSent(dev, e)
  /\ host' = IF fate = "seen" /\ p.tok = host.expect[e]
             THEN [host EXCEPT !.expect[e] = Toggle(@), !.reports[e] = Append(@, p.report)]
             ELSE host
  /\ hist' = [hist EXCEPT !.faults = @ + Fault(fate)]
  /\ UNCHANGED <<pc, se0>>

\* The host gives up a transfer; it no longer knows whether an address was taken.
Abandon ==
  /\ host.stage # "idle" /\ ~InReset /\ hist.breaks < MaxBreaks
  /\ host' = [host EXCEPT !.stage = "idle", !.known = @ /\ host.rq.kind # "address"]
  /\ hist' = [hist EXCEPT !.breaks = @ + 1, !.orphan = @ \/ host.rq.kind = "lamps"]
  /\ UNCHANGED <<dev, pc, se0>>

\* A reset ends every transfer; it is held for a round of usbPoll at least.
ResetBegins ==
  /\ ~InReset /\ hist.breaks < MaxBreaks
  /\ se0' = "held"
  /\ host' = [host EXCEPT !.stage = "idle", !.addr = 0, !.config = FALSE, !.known = TRUE]
  /\ hist' = [hist EXCEPT !.breaks = @ + 1,
                          !.orphan = @ \/ (host.rq.kind = "lamps" /\ host.stage # "idle")]
  /\ UNCHANGED <<dev, pc>>

ResetEnds ==
  /\ se0 = "seen"
  /\ se0' = "off"
  /\ UNCHANGED <<dev, pc, host, hist>>

Transaction(fate) ==
  \/ SendSetup(fate) \/ SendData(fate) \/ StatusOut(fate) \/ ReadControl(fate)

usbPoll == PollRx \/ PollTx \/ PollReset

Next ==
  \/ usbPoll
  \/ \E e \in Endpoints : Report(e)
  \/ \E kind \in Kinds : Request(kind)
  \/ \E fate \in Fates : Transaction(fate)
  \/ \E e \in Endpoints, fate \in {"seen", "unseen"} : ReadReport(e, fate)
  \/ Abandon \/ ResetBegins \/ ResetEnds

Spec == Init /\ [][Next]_vars

\* The main loop calls usbPoll in every round; the host repeats a transaction
\* until it is answered, polls, and ends a reset.
FairSpec ==
  /\ Spec
  /\ WF_vars(usbPoll)
  /\ WF_vars(Transaction("seen"))
  /\ WF_vars(ResetEnds)

-----------------------------------------------------------------------------
(* Properties.                                                             *)

RequestType == [kind : AllKinds \cup {"none"}, id : Nat, has : Nat, wLength : Nat]
PacketType == [kind : {"NAK", "STALL", "DATA"}, pid : {0, 1}, id : Nat, from : Nat,
               len : 0 .. PacketSize]
Driver ==
  [rxLen : {0, 1}, rxToken : {"SETUP", "OUT"}, rx : RequestType, tok : {0, 1},
   tx : PacketType, msgLen : 0 .. NO_MSG, rw : BOOLEAN, id : Nat, from : Nat,
   newAddr : Nat, addr : Nat, config : {0, 1}, leds : Nat,
   reqKind : {"NONE", "SET_LED"}, reqLen : {0, 1},
   ep : [Endpoints -> [tok : {0, 1}, full : BOOLEAN, report : Nat]]]

TypeOK ==
  /\ dev \in Driver
  /\ pc \in {"rx", "tx", "reset"}
  /\ se0 \in {"off", "held", "polled", "seen"}
  /\ host.stage \in {"idle", "setup", "in", "out", "statusIn", "statusOut"}

\* What the host takes for the answer to a request is never a packet made for
\* another one, whatever was abandoned, reset or missed before.
OwnData == ~hist.foreign

\* Without a missed transaction a request the device implements is not stalled, and
\* a reply arrives complete and in order.
AnsweredInFull == hist.faults = 0 => ~hist.refused /\ ~hist.gap

\* Between transfers the device answers to the address the host knows it by.
AddressAgrees ==
  host.stage = "idle" /\ host.known /\ ~InReset => dev.addr = host.addr

\* A lamp request the host was told has succeeded is in force, or a later one is;
\* and the lamps are only ever what a request for the lamps carried, although
\* usbFunctionWrite is called for the data of every SET_REPORT, unless the host
\* gave up a request for the lamps before its data.
LampsAsTold ==
  /\ host.lamps <= dev.leds
  /\ ~hist.orphan => dev.leds \in hist.lampIds

\* Every missed transaction costs two reports at most (the report, and the next
\* one, which the host takes for its repetition), and so does every configuration
\* or interface request after the first one: the toggles find each other again.
LossBounded ==
  \A e \in Endpoints :
    hist.put[e] - Len(host.reports[e]) - (IF dev.ep[e].full THEN 1 ELSE 0)
      <= 2 * hist.faults + 2 * (IF hist.resyncs > 0 THEN hist.resyncs - 1 ELSE 0)

\* Reports arrive at most once and in the order they were made.
Boxes == INSTANCE Mailboxes WITH
  Reports <- 1 .. MaxReports,
  box <- [e \in Endpoints |-> IF dev.ep[e].full THEN <<dev.ep[e].report>> ELSE <<>>],
  delivered <- host.reports
ImplementsMailboxes == Boxes!Spec

\* A transfer ends, in success or in a stall, unless a transaction is missed.
TransferEnds ==
  host.stage # "idle" /\ hist.faults = 0 ~> host.stage = "idle" \/ hist.faults > 0
=============================================================================
