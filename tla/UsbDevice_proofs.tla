-------------------------- MODULE UsbDevice_proofs --------------------------
(***************************************************************************)
(* The USB device for every packet size, set of requests and endpoints,    *)
(* and number of requests, reports, missed transactions and breaks: the    *)
(* safety properties of UsbDevice and the refinement of Mailboxes.         *)
(***************************************************************************)
EXTENDS UsbDevice, SequenceTheorems, TLAPS

-----------------------------------------------------------------------------
(* The inductive invariant.                                                *)

HostState ==
  [stage : {"idle", "setup", "in", "out", "statusIn", "statusOut"}, rq : RequestType,
   got : Nat, tok : {0, 1}, addr : Nat, config : BOOLEAN, known : BOOLEAN, lamps : Nat,
   expect : [Endpoints -> {0, 1}], reports : [Endpoints -> Seq(1 .. MaxReports)]]
History ==
  [requests : Nat, put : [Endpoints -> 0 .. MaxReports], faults : Nat, breaks : Nat,
   resyncs : Nat, foreign : BOOLEAN, gap : BOOLEAN, refused : BOOLEAN,
   lampIds : SUBSET Nat, orphan : BOOLEAN]

Typed ==
  /\ TypeOK /\ host \in HostState /\ hist \in History
  /\ \A e \in Endpoints : dev.ep[e].full => dev.ep[e].report \in 1 .. MaxReports

\* Requests the host makes: only a read has a reply, shorter than NO_MSG.
IsRequest(rq) ==
  /\ rq \in RequestType /\ rq.has < NO_MSG
  /\ rq.kind # "read" => rq.has = 0 /\ rq.wLength = 0
WantsData(rq) == rq.kind = "read" /\ rq.wLength > 0

InFlight(kind) == host.stage # "idle" /\ host.rq.kind = kind

\* What the host's variables say of each other.
HostConsistent ==
  /\ IsRequest(host.rq)
  /\ host.stage # "idle" => host.rq.kind # "none" /\ host.rq.id > 0
  /\ host.stage = "setup" => host.got = 0 /\ host.tok = 1
  /\ host.stage = "in" => WantsData(host.rq)
  /\ host.stage = "out" => host.rq.kind \in {"lamps", "report"}
  /\ host.stage = "statusIn" => ~WantsData(host.rq)
  /\ host.stage = "statusOut" => host.rq.kind = "read"
  /\ host.rq.id <= hist.requests /\ host.lamps <= host.rq.id
  /\ host.config => host.addr # 0
  /\ InFlight("address") => host.addr = 0
  /\ InFlight("configuration") => host.addr # 0 /\ ~host.config
  /\ InReset => host.stage = "idle" /\ host.addr = 0 /\ ~host.config /\ host.known

\* The device has SETUP before it when the host goes on after the acknowledgement ...
Pending(token) == dev.rxLen = 1 /\ dev.rxToken = token
SetupPending == Pending("SETUP") /\ dev.rx = host.rq /\ host.got = 0 /\ host.tok = 1

\* ... and from when it has looked at it, all it has to send is for this request.
Served ==
  /\ dev.rxLen = 1 => /\ dev.rxToken = "OUT" /\ dev.rx = host.rq
                      /\ host.rq.kind \in {"lamps", "report"}
  /\ dev.id = host.rq.id
  /\ dev.tx.kind = "DATA" => dev.tx.id = host.rq.id
  /\ dev.tx.kind = "STALL" => host.rq.kind \in {"lamps", "report"}
  /\ ~WantsData(host.rq) => /\ dev.msgLen \in {0, NO_MSG}
                            /\ dev.tx.kind = "DATA" => dev.tx.len = 0
  /\ host.rq.kind = "address" => dev.newAddr = host.rq.id
  /\ host.rq.kind = "lamps" =>
       /\ dev.reqKind = "SET_LED"
       /\ dev.tx.kind # "NAK" \/ dev.msgLen # NO_MSG => dev.reqLen = 0
       /\ dev.reqLen = 0 => dev.leds = host.rq.id

IsUnderway == host.stage \in {"in", "out", "statusIn", "statusOut"}
TransferServed == IsUnderway => SetupPending \/ Served

\* Without missed transactions, host and device agree how far a reply has got, in
\* number of bytes and in toggles.
Wanted == Least(host.rq.has, host.rq.wLength)
InStep ==
  IF dev.tx.kind = "DATA"
    THEN /\ dev.tx.from = host.got /\ dev.tx.pid = host.tok /\ dev.tok = host.tok
         /\ dev.from = host.got + dev.tx.len
         /\ IF dev.msgLen = NO_MSG
              THEN dev.tx.len < PacketSize /\ dev.from = Wanted
              ELSE dev.tx.len = PacketSize /\ dev.from + dev.msgLen = Wanted
    ELSE /\ dev.from = host.got /\ Toggle(dev.tok) = host.tok
         /\ dev.msgLen # NO_MSG /\ dev.from + dev.msgLen = Wanted

Faultless == hist.faults = 0
ReplyInStep ==
  Faultless =>
    /\ ~hist.refused /\ ~hist.gap
    /\ IsUnderway /\ ~Pending("SETUP") =>
         /\ dev.tx.kind = "STALL" => host.rq.kind = "report"
         /\ host.stage = "in" => InStep
         /\ host.stage = "out" => dev.rxLen = 0
         /\ host.rq.kind = "lamps" /\ (host.stage = "out" \/ dev.rxLen = 1) => dev.reqLen = 1

\* A new address is in force at the device and not yet at the host only while the
\* host asks for it, or after it has lost track.
AddressInStep ==
  host.known /\ ~InReset =>
    /\ Pending("SETUP") /\ dev.rx.kind = "address" => InFlight("address") /\ dev.rx = host.rq
    /\ \/ dev.addr = host.addr /\ dev.newAddr = host.addr
       \/ /\ InFlight("address") /\ dev.newAddr = host.rq.id
          /\ dev.addr \in {host.addr, host.rq.id}

\* A reset leaves the device without packets and address once usbPoll has run in it.
ResetClears ==
  /\ se0 \in {"polled", "seen"} => dev.rxLen = 0
  /\ se0 = "seen" => dev.addr = 0 /\ dev.newAddr = 0

\* usbFunctionWrite expects data only for a request for the lamps.
LampsInStep ==
  /\ host.lamps <= dev.leds
  /\ IsRequest(dev.rx)
  /\ dev.rxLen = 1 => host.lamps <= dev.rx.id
  /\ host.rq.kind = "lamps" => host.rq.id \in hist.lampIds
  /\ dev.rx.kind = "lamps" => dev.rx.id \in hist.lampIds
  /\ ~hist.orphan =>
       /\ dev.leds \in hist.lampIds
       /\ ~InFlight("lamps") => dev.reqLen = 0 /\ ~(Pending("SETUP") /\ dev.rx.kind = "lamps")
       /\ Pending("OUT") /\ dev.reqLen = 1 => dev.rx.kind = "lamps"

\* 1 if the toggles of host and device differ: the next report is taken for a repetition.
NextToken(e) == IF dev.ep[e].full THEN dev.ep[e].tok ELSE Toggle(dev.ep[e].tok)
OutOfStep(e) == IF NextToken(e) = host.expect[e] THEN 0 ELSE 1
Lost(e) == hist.put[e] - Len(host.reports[e]) - (IF dev.ep[e].full THEN 1 ELSE 0)
One(b) == IF b THEN 1 ELSE 0

\* What may still put the toggles out of step: the host resets its own at the end of
\* a configuration or interface request, the device at the setup of the latter.
ResetsToggles == InFlight("configuration") \/ InFlight("interface")
HostWill == ResetsToggles /\ hist.resyncs > 1
SetupWill == host.stage = "setup" /\ host.rq.kind = "interface"
DeviceWill == Pending("SETUP") /\ dev.rx.kind = "interface"
Resets == One(HostWill) + One(SetupWill) + One(DeviceWill)

Allowed == 2 * hist.faults + 2 * (IF hist.resyncs > 0 THEN hist.resyncs - 1 ELSE 0)
LossesWithin == \A e \in Endpoints : Lost(e) + OutOfStep(e) + Resets <= Allowed

\* The host's toggles are at zero until the first configuration; every other reset of
\* the toggles comes later.
ResyncsCounted ==
  /\ host.config => hist.resyncs > 0
  /\ ResetsToggles => hist.resyncs > 0
  /\ InFlight("interface") => hist.resyncs > 1
  /\ hist.resyncs = 0 \/ (ResetsToggles /\ hist.resyncs = 1) =>
       host.expect = [e \in Endpoints |-> 0]
  /\ Pending("SETUP") /\ dev.rx.kind = "interface" => hist.resyncs > 1

LossesPaid == LossesWithin /\ ResyncsCounted

IInv ==
  /\ Typed /\ HostConsistent /\ TransferServed /\ OwnData /\ ReplyInStep
  /\ AddressInStep /\ ResetClears /\ LampsInStep /\ LossesPaid

-----------------------------------------------------------------------------
(* What the driver's functions do to its globals.                          *)

LEMMA RequestFields ==
  ASSUME NEW rq, IsRequest(rq)
  PROVE  /\ rq.kind \in AllKinds \cup {"none"} /\ rq.id \in Nat
         /\ rq.has \in 0 .. NO_MSG - 1 /\ rq.wLength \in Nat
         /\ Least(rq.has, rq.wLength) \in 0 .. NO_MSG - 1
         /\ ~WantsData(rq) => Least(rq.has, rq.wLength) = 0
  BY DEF IsRequest, RequestType, Least, WantsData, NO_MSG

LEMMA PacketFields ==
  /\ NAK \in PacketType /\ NAK.kind = "NAK"
  /\ STALL \in PacketType /\ STALL.kind = "STALL"
  BY UsbAssumption DEF NAK, STALL, Handshake, PacketType

LEMMA EndpointsReset ==
  ASSUME NEW d \in Driver
  PROVE  LET n == ResetToggles(d) IN
         /\ n.ep \in [Endpoints -> [tok : {0, 1}, full : BOOLEAN, report : Nat]]
         /\ \A e \in Endpoints : /\ n.ep[e].full = d.ep[e].full
                                 /\ n.ep[e].report = d.ep[e].report
         /\ n = [d EXCEPT !.ep = n.ep]
  BY DEF ResetToggles, Driver

\* n is s with a reply of l bytes to request i before it, and nothing received.
ReplyFacts(n, s, l, i) ==
  /\ n \in Driver
  /\ n.rxLen = 0 /\ n.id = i /\ n.from = 0 /\ n.msgLen = l
  /\ n.rxToken = s.rxToken /\ n.rx = s.rx /\ n.tok = s.tok /\ n.tx = s.tx
  /\ n.newAddr = s.newAddr /\ n.addr = s.addr /\ n.leds = s.leds
  /\ n.reqKind = s.reqKind /\ n.reqLen = s.reqLen /\ n.ep = s.ep

ExpectFacts(n, d, k, l) ==
  /\ n \in Driver
  /\ n.rx = d.rx /\ n.tok = d.tok /\ n.tx = d.tx /\ n.rxToken = d.rxToken
  /\ n.addr = d.addr /\ n.leds = d.leds /\ n.newAddr = d.newAddr
  /\ n.reqKind = k /\ n.reqLen = l /\ n.ep = d.ep

LEMMA ExpectData ==
  ASSUME NEW d \in Driver, NEW k \in {"NONE", "SET_LED"}, NEW l \in {0, 1},
         NEW n, n = [d EXCEPT !.reqKind = k, !.reqLen = l]
  PROVE  ExpectFacts(n, d, k, l)
  BY DEF ExpectFacts, Driver

LEMMA ReplyFields ==
  ASSUME NEW s \in Driver, NEW l \in 0 .. NO_MSG, NEW i \in Nat, NEW w \in BOOLEAN,
         NEW n, n = [s EXCEPT !.msgLen = l, !.rw = w, !.id = i, !.from = 0, !.rxLen = 0]
  PROVE  ReplyFacts(n, s, l, i)
  <1>1. n \in Driver
    BY DEF Driver
  <1>2. /\ n.rxLen = 0 /\ n.id = i /\ n.from = 0 /\ n.msgLen = l
        /\ n.rxToken = s.rxToken /\ n.rx = s.rx /\ n.tok = s.tok /\ n.tx = s.tx
        /\ n.newAddr = s.newAddr /\ n.addr = s.addr /\ n.leds = s.leds
        /\ n.reqKind = s.reqKind /\ n.reqLen = s.reqLen /\ n.ep = s.ep
    BY DEF Driver
  <1> QED  BY <1>1, <1>2 DEF ReplyFacts

\* usbProcessRx and usbPoll's usbRxLen = 0 after a setup packet.
SetupFacts(n, d, k) ==
  /\ n \in Driver
  /\ n.rxLen = 0 /\ n.rxToken = "SETUP" /\ n.rx = d.rx /\ n.tok = 0 /\ n.tx = NAK
  /\ n.id = d.rx.id /\ n.from = 0 /\ n.addr = d.addr /\ n.leds = d.leds
  /\ n.msgLen = IF k \in {"lamps", "report"} THEN NO_MSG
                ELSE Least(d.rx.has, d.rx.wLength)
  /\ n.newAddr = IF k = "address" THEN d.rx.id ELSE d.newAddr
  /\ n.reqKind = IF k = "lamps" THEN "SET_LED" ELSE d.reqKind
  /\ n.reqLen = IF k = "lamps" THEN 1 ELSE d.reqLen
  /\ \A e \in Endpoints : /\ n.ep[e].full = d.ep[e].full
                          /\ n.ep[e].report = d.ep[e].report
  /\ k # "interface" => n.ep = d.ep

LEMMA SetupEffect ==
  ASSUME NEW d \in Driver, IsRequest(d.rx), d.rxToken = "SETUP",
         NEW n, n = [usbProcessRx(d) EXCEPT !.rxLen = 0],
         NEW k, k = d.rx.kind
  PROVE  SetupFacts(n, d, k)
  <1> DEFINE b == [d EXCEPT !.tok = 0, !.tx = NAK, !.rw = FALSE]
  <1>1. /\ b \in Driver /\ b.rx = d.rx /\ b.tok = 0 /\ b.tx = NAK /\ b.rxToken = "SETUP"
        /\ b.addr = d.addr /\ b.leds = d.leds /\ b.newAddr = d.newAddr
        /\ b.reqKind = d.reqKind /\ b.reqLen = d.reqLen /\ b.ep = d.ep /\ b.rw = FALSE
    BY PacketFields DEF Driver
  <1>2. usbProcessRx(d) = DoRequest(b, d.rx)
    BY DEF usbProcessRx, Setup, Driver
  <1> HIDE DEF b
  <1> DEFINE l == Least(d.rx.has, d.rx.wLength)
  <1>3. /\ k \in AllKinds \cup {"none"} /\ d.rx.id \in Nat
        /\ l \in 0 .. NO_MSG /\ NO_MSG \in 0 .. NO_MSG
    BY RequestFields DEF NO_MSG
  <1>4. CASE k = "lamps"
    <2> DEFINE s == [b EXCEPT !.reqKind = "SET_LED", !.reqLen = 1]
    <2>1. n = [s EXCEPT !.msgLen = NO_MSG, !.rw = TRUE, !.id = d.rx.id, !.from = 0,
                        !.rxLen = 0]
      BY <1>1, <1>2, <1>4 DEF DoRequest, IsClass, TypeOf, usbFunctionSetup, Driver
    <2>2. ExpectFacts(s, b, "SET_LED", 1)
      <3>1. s = [b EXCEPT !.reqKind = "SET_LED", !.reqLen = 1]
        OBVIOUS
      <3> HIDE DEF s
      <3> QED  BY <1>1, <3>1, ExpectData
    <2> HIDE DEF s
    <2>4. ReplyFacts(n, s, NO_MSG, d.rx.id)
      BY <1>3, <2>1, <2>2, ReplyFields DEF ExpectFacts
    <2> QED  BY <1>1, <1>3, <1>4, <2>2, <2>4 DEF ReplyFacts, ExpectFacts, SetupFacts
  <1>5. CASE k = "report"
    <2>1. n = [b EXCEPT !.msgLen = NO_MSG, !.rw = TRUE, !.id = d.rx.id, !.from = 0, !.rxLen = 0]
      BY <1>1, <1>2, <1>5 DEF DoRequest, IsClass, TypeOf, usbFunctionSetup, Driver
    <2>2. ReplyFacts(n, b, NO_MSG, d.rx.id)
      BY <1>1, <1>3, <2>1, ReplyFields
    <2> QED  BY <1>1, <1>3, <1>5, <2>2 DEF ReplyFacts, SetupFacts
  <1>6. CASE k \notin {"lamps", "report"}
    <2> DEFINE s == usbDriverSetup(b, d.rx)
    <2>1. /\ s \in Driver /\ s.rx = d.rx /\ s.tok = 0 /\ s.tx = NAK /\ s.rxToken = "SETUP"
          /\ s.addr = d.addr /\ s.leds = d.leds /\ s.rw = FALSE
          /\ s.newAddr = IF k = "address" THEN d.rx.id ELSE d.newAddr
          /\ s.reqKind = d.reqKind /\ s.reqLen = d.reqLen
          /\ \A e \in Endpoints : /\ s.ep[e].full = d.ep[e].full
                                  /\ s.ep[e].report = d.ep[e].report
          /\ k # "interface" => s.ep = d.ep
      <3>1. CASE k = "interface"
        <4>1. s = ResetToggles(b)
          BY <3>1 DEF usbDriverSetup
        <4>2. /\ s.ep \in [Endpoints -> [tok : {0, 1}, full : BOOLEAN, report : Nat]]
              /\ \A e \in Endpoints : /\ s.ep[e].full = b.ep[e].full
                                      /\ s.ep[e].report = b.ep[e].report
              /\ s = [b EXCEPT !.ep = s.ep]
          BY <1>1, <4>1, EndpointsReset
        <4> HIDE DEF s
        <4> QED  BY <1>1, <3>1, <4>2 DEF Driver
      <3>2. CASE k # "interface"
        BY <1>1, <1>3, <3>2 DEF usbDriverSetup, Driver
      <3> QED  BY <3>1, <3>2
    <2>2. n = [s EXCEPT !.msgLen = l, !.rw = FALSE, !.id = d.rx.id, !.from = 0, !.rxLen = 0]
      <3>1. usbProcessRx(d) = [s EXCEPT !.msgLen = l, !.id = d.rx.id, !.from = 0]
        BY <1>1, <1>2, <1>6 DEF DoRequest, IsClass, TypeOf
      <3> HIDE DEF s, l
      <3>2. s.rw = FALSE /\ s \in Driver
        BY <2>1
      <3>3. s = [s EXCEPT !.rw = FALSE]
        BY <3>2 DEF Driver
      <3>4. n = [[[s EXCEPT !.rw = FALSE] EXCEPT !.msgLen = l, !.id = d.rx.id, !.from = 0]
                  EXCEPT !.rxLen = 0]
        BY <3>1, <3>3
      <3> QED  BY <3>2, <3>4 DEF Driver
    <2> HIDE DEF s, l
    <2>3. ReplyFacts(n, s, l, d.rx.id)
      BY <1>3, <2>1, <2>2, ReplyFields
    <2> QED  BY <1>3, <1>6, <2>1, <2>3 DEF ReplyFacts, SetupFacts, l
  <1> QED  BY <1>4, <1>5, <1>6

\* The same after the data packet of a SET_REPORT or of anything else.
DataFacts(n, d) ==
  /\ n \in Driver
  /\ n.rxLen = 0 /\ n.rxToken = "OUT" /\ n.rx = d.rx /\ n.tok = d.tok /\ n.id = d.id
  /\ n.from = d.from /\ n.addr = d.addr /\ n.newAddr = d.newAddr /\ n.ep = d.ep
  /\ n.reqKind = d.reqKind
  /\ \/ /\ n.tx = d.tx /\ n.msgLen = d.msgLen /\ n.leds = d.leds
        /\ n.reqLen = d.reqLen /\ ~d.rw
     \/ /\ n.tx = STALL /\ n.msgLen = d.msgLen /\ n.leds = d.leds
        /\ n.reqLen = d.reqLen /\ (d.reqLen = 0 \/ d.reqKind # "SET_LED")
     \/ /\ d.reqLen = 1 /\ d.reqKind = "SET_LED" /\ n.leds = d.rx.id
        /\ n.reqLen = 0 /\ n.msgLen = 0 /\ n.tx = d.tx

LEMMA DataEffect ==
  ASSUME NEW d \in Driver, IsRequest(d.rx), d.rxToken = "OUT",
         NEW n, n = [usbProcessRx(d) EXCEPT !.rxLen = 0]
  PROVE  DataFacts(n, d)
  <1>1. d.rx.id \in Nat
    BY RequestFields
  <1>2. CASE ~d.rw
    BY <1>2 DEF usbProcessRx, Driver, DataFacts
  <1>3. CASE d.rw /\ (d.reqLen = 0 \/ d.reqKind # "SET_LED")
    BY <1>3, PacketFields DEF usbProcessRx, Write, Driver, DataFacts
  <1>4. CASE d.rw /\ d.reqLen # 0 /\ d.reqKind = "SET_LED"
    <2>1. n = [d EXCEPT !.leds = d.rx.id, !.reqLen = 0, !.msgLen = 0, !.rxLen = 0]
      BY <1>4 DEF usbProcessRx, Write, Driver
    <2>2. 0 \in 0 .. NO_MSG
      BY DEF NO_MSG
    <2> QED  BY <1>1, <1>4, <2>1, <2>2 DEF Driver, DataFacts
  <1> QED  BY <1>2, <1>3, <1>4

\* usbBuildTxBlock.
BuildFacts(n, d, len) ==
  /\ n \in Driver
  /\ n.rxLen = d.rxLen /\ n.rxToken = d.rxToken /\ n.rx = d.rx /\ n.id = d.id
  /\ n.addr = d.addr /\ n.newAddr = d.newAddr /\ n.ep = d.ep /\ n.leds = d.leds
  /\ n.reqKind = d.reqKind /\ n.reqLen = d.reqLen
  /\ n.tok = Toggle(d.tok) /\ n.from = d.from + len
  /\ n.msgLen = IF len < PacketSize THEN NO_MSG ELSE d.msgLen - PacketSize
  /\ n.tx.kind = "DATA" /\ n.tx.pid = Toggle(d.tok) /\ n.tx.id = d.id
  /\ n.tx.from = d.from /\ n.tx.len = len /\ len \in 0 .. PacketSize
  /\ len <= d.msgLen /\ (len < PacketSize => len = d.msgLen)

LEMMA BuildEffect ==
  ASSUME NEW d \in Driver, d.msgLen # NO_MSG,
         NEW n, n = usbBuildTxBlock(d),
         NEW len, len = Least(d.msgLen, PacketSize)
  PROVE  BuildFacts(n, d, len)
  <1> DEFINE m == IF len < PacketSize THEN NO_MSG ELSE d.msgLen - PacketSize
             t == Toggle(d.tok)
             p == [kind |-> "DATA", pid |-> t, id |-> d.id, from |-> d.from, len |-> len]
  <1>1. /\ len \in 0 .. PacketSize /\ len <= d.msgLen
        /\ len < PacketSize => len = d.msgLen
        /\ m \in 0 .. NO_MSG
    BY UsbAssumption DEF Driver, Least, NO_MSG
  <1>2. t \in {0, 1} /\ d.from + len \in Nat
    BY <1>1, UsbAssumption DEF Toggle, Driver
  <1>3. p \in PacketType
    BY <1>1, <1>2 DEF PacketType, Driver
  <1>4. n = [d EXCEPT !.tok = t, !.tx = p, !.from = d.from + len, !.msgLen = m]
    <2>1. len >= PacketSize => len = PacketSize
      BY <1>1, UsbAssumption
    <2>2. m = IF len < PacketSize THEN NO_MSG ELSE d.msgLen - len
      BY <1>1, <2>1, UsbAssumption
    <2>3. n = [d EXCEPT !.tok = Toggle(d.tok), !.tx = p, !.from = d.from + len,
                        !.msgLen = IF len < PacketSize THEN NO_MSG ELSE d.msgLen - len]
      BY Zenon DEF usbBuildTxBlock
    <2> QED  BY <2>2, <2>3
  <1>5. p.kind = "DATA" /\ p.pid = t /\ p.id = d.id /\ p.from = d.from /\ p.len = len
    OBVIOUS
  <1> HIDE DEF m, t, p
  <1>6. n \in Driver
    BY <1>1, <1>2, <1>3, <1>4 DEF Driver
  <1>7. /\ n.rxLen = d.rxLen /\ n.rxToken = d.rxToken /\ n.rx = d.rx /\ n.id = d.id
        /\ n.addr = d.addr /\ n.newAddr = d.newAddr /\ n.ep = d.ep /\ n.leds = d.leds
        /\ n.reqKind = d.reqKind /\ n.reqLen = d.reqLen
        /\ n.tok = t /\ n.from = d.from + len /\ n.msgLen = m /\ n.tx = p
    BY <1>4 DEF Driver
  <1> QED  BY <1>1, <1>5, <1>6, <1>7 DEF m, t, BuildFacts

-----------------------------------------------------------------------------
(* What the host's steps do to the host and to the history.                *)

Stages == {"idle", "setup", "in", "out", "statusIn", "statusOut"}

\* h is g in another stage.
StageFacts(h, g, s) ==
  /\ h \in HostState
  /\ h.stage = s /\ h.rq = g.rq /\ h.got = g.got /\ h.tok = g.tok /\ h.addr = g.addr
  /\ h.config = g.config /\ h.known = g.known /\ h.lamps = g.lamps
  /\ h.expect = g.expect /\ h.reports = g.reports

LEMMA StageEffect ==
  ASSUME NEW g \in HostState, NEW s \in Stages, NEW h, h = [g EXCEPT !.stage = s]
  PROVE  StageFacts(h, g, s)
  <1>1. h \in HostState
    BY DEF HostState, Stages
  <1>2. /\ h.stage = s /\ h.rq = g.rq /\ h.got = g.got /\ h.tok = g.tok /\ h.addr = g.addr
        /\ h.config = g.config /\ h.known = g.known /\ h.lamps = g.lamps
        /\ h.expect = g.expect /\ h.reports = g.reports
    BY DEF HostState
  <1> QED  BY <1>1, <1>2 DEF StageFacts

\* Succeed.
SucceedFacts(h, g, k) ==
  /\ h \in HostState
  /\ h.stage = "idle" /\ h.rq = g.rq /\ h.got = g.got /\ h.tok = g.tok /\ h.known = g.known
  /\ h.reports = g.reports
  /\ h.addr = IF k = "address" THEN g.rq.id ELSE g.addr
  /\ h.config = IF k = "configuration" THEN TRUE ELSE g.config
  /\ h.expect = IF k \in {"configuration", "interface"} THEN [e \in Endpoints |-> 0]
                ELSE g.expect
  /\ h.lamps = IF k = "lamps" THEN g.rq.id ELSE g.lamps

LEMMA SucceedEffect ==
  ASSUME NEW g \in HostState, NEW h, h = Succeed(g), NEW k, k = g.rq.kind
  PROVE  SucceedFacts(h, g, k)
  <1> DEFINE zero == [e \in Endpoints |-> 0]
             idle == "idle"
  <1>1. g.rq.id \in Nat /\ zero \in [Endpoints -> {0, 1}] /\ idle \in Stages
    BY DEF HostState, RequestType, Stages
  <1>2. CASE k = "address"
    <2>1. h = [g EXCEPT !.stage = idle, !.addr = g.rq.id]
      BY <1>2 DEF Succeed
    <2> HIDE DEF idle
    <2>2. h \in HostState
      BY <1>1, <2>1 DEF HostState, Stages
    <2>3. /\ h.stage = idle /\ h.rq = g.rq /\ h.got = g.got /\ h.tok = g.tok
          /\ h.addr = g.rq.id /\ h.config = g.config /\ h.known = g.known
          /\ h.lamps = g.lamps /\ h.expect = g.expect /\ h.reports = g.reports
      BY <2>1 DEF HostState
    <2> QED  BY <1>2, <2>2, <2>3 DEF SucceedFacts, idle
  <1>3. CASE k = "configuration"
    <2>1. h = [g EXCEPT !.stage = idle, !.config = TRUE, !.expect = zero]
      BY <1>3 DEF Succeed
    <2> HIDE DEF idle, zero
    <2>2. h \in HostState
      BY <1>1, <2>1 DEF HostState, Stages
    <2>3. /\ h.stage = idle /\ h.rq = g.rq /\ h.got = g.got /\ h.tok = g.tok
          /\ h.addr = g.addr /\ h.config = TRUE /\ h.known = g.known
          /\ h.lamps = g.lamps /\ h.expect = zero /\ h.reports = g.reports
      BY <2>1 DEF HostState
    <2> QED  BY <1>3, <2>2, <2>3 DEF SucceedFacts, idle, zero
  <1>4. CASE k = "interface"
    <2>1. h = [g EXCEPT !.stage = idle, !.expect = zero]
      BY <1>4 DEF Succeed
    <2> HIDE DEF idle, zero
    <2>2. h \in HostState
      BY <1>1, <2>1 DEF HostState, Stages
    <2>3. /\ h.stage = idle /\ h.rq = g.rq /\ h.got = g.got /\ h.tok = g.tok
          /\ h.addr = g.addr /\ h.config = g.config /\ h.known = g.known
          /\ h.lamps = g.lamps /\ h.expect = zero /\ h.reports = g.reports
      BY <2>1 DEF HostState
    <2> QED  BY <1>4, <2>2, <2>3 DEF SucceedFacts, idle, zero
  <1>5. CASE k = "lamps"
    <2>1. h = [g EXCEPT !.stage = idle, !.lamps = g.rq.id]
      BY <1>5 DEF Succeed
    <2> HIDE DEF idle
    <2>2. h \in HostState
      BY <1>1, <2>1 DEF HostState, Stages
    <2>3. /\ h.stage = idle /\ h.rq = g.rq /\ h.got = g.got /\ h.tok = g.tok
          /\ h.addr = g.addr /\ h.config = g.config /\ h.known = g.known
          /\ h.lamps = g.rq.id /\ h.expect = g.expect /\ h.reports = g.reports
      BY <2>1 DEF HostState
    <2> QED  BY <1>5, <2>2, <2>3 DEF SucceedFacts, idle
  <1>6. CASE k \notin {"address", "configuration", "interface", "lamps"}
    <2>1. h = [g EXCEPT !.stage = idle]
      BY <1>6 DEF Succeed
    <2> HIDE DEF idle
    <2>2. StageFacts(h, g, idle)
      BY <1>1, <2>1, StageEffect
    <2> QED  BY <1>6, <2>2 DEF StageFacts, SucceedFacts, idle
  <1> QED  BY <1>2, <1>3, <1>4, <1>5, <1>6

\* AfterData.
TakenFacts(h, g, len) ==
  /\ h \in HostState
  /\ h.stage = IF len < PacketSize \/ g.got + len >= g.rq.wLength THEN "statusOut" ELSE g.stage
  /\ h.rq = g.rq /\ h.got = g.got + len /\ h.tok = Toggle(g.tok) /\ h.addr = g.addr
  /\ h.config = g.config /\ h.known = g.known /\ h.lamps = g.lamps
  /\ h.expect = g.expect /\ h.reports = g.reports

LEMMA TakenEffect ==
  ASSUME NEW g \in HostState, NEW len \in 0 .. PacketSize, NEW h, h = AfterData(g, len)
  PROVE  TakenFacts(h, g, len)
  <1> DEFINE s == IF len < PacketSize \/ g.got + len >= g.rq.wLength THEN "statusOut"
                  ELSE g.stage
             n == g.got + len
             t == Toggle(g.tok)
  <1>1. g.stage \in Stages /\ g.got \in Nat /\ g.tok \in {0, 1}
    BY DEF HostState, Stages
  <1>2. s \in Stages /\ n \in Nat /\ t \in {0, 1}
    BY <1>1, UsbAssumption DEF Stages, Toggle
  <1>3. h = [g EXCEPT !.stage = s, !.got = n, !.tok = t]
    BY DEF AfterData, HostState
  <1> HIDE DEF s, n, t
  <1>4. h \in HostState
    BY <1>2, <1>3 DEF HostState, Stages
  <1>5. /\ h.stage = s /\ h.rq = g.rq /\ h.got = n /\ h.tok = t /\ h.addr = g.addr
        /\ h.config = g.config /\ h.known = g.known /\ h.lamps = g.lamps
        /\ h.expect = g.expect /\ h.reports = g.reports
    BY <1>3 DEF HostState
  <1> QED  BY <1>4, <1>5 DEF TakenFacts, s, n, t

\* The history after a transaction.
CountedFacts(y, x, n, a, b, c) ==
  /\ y \in History
  /\ y.requests = x.requests /\ y.put = x.put /\ y.faults = n /\ y.breaks = x.breaks
  /\ y.resyncs = x.resyncs /\ y.foreign = a /\ y.gap = b /\ y.refused = c
  /\ y.lampIds = x.lampIds /\ y.orphan = x.orphan

LEMMA CountedEffect ==
  ASSUME NEW x \in History, NEW n \in Nat, NEW a \in BOOLEAN, NEW b \in BOOLEAN,
         NEW c \in BOOLEAN, NEW y,
         y = [x EXCEPT !.faults = n, !.foreign = a, !.gap = b, !.refused = c]
  PROVE  CountedFacts(y, x, n, a, b, c)
  <1>1. y \in History
    BY DEF History
  <1>2. /\ y.requests = x.requests /\ y.put = x.put /\ y.faults = n /\ y.breaks = x.breaks
        /\ y.resyncs = x.resyncs /\ y.foreign = a /\ y.gap = b /\ y.refused = c
        /\ y.lampIds = x.lampIds /\ y.orphan = x.orphan
    BY DEF History
  <1> QED  BY <1>1, <1>2 DEF CountedFacts

LEMMA FaultEffect ==
  ASSUME NEW x \in History, NEW n \in Nat, NEW y, y = [x EXCEPT !.faults = n]
  PROVE  CountedFacts(y, x, n, x.foreign, x.gap, x.refused)
  BY DEF History, CountedFacts

-----------------------------------------------------------------------------
(* What the packet handler, the reports and a reset do to the driver.      *)

\* A packet has been received.
ReceivedFacts(n, d, token, data) ==
  /\ n \in Driver
  /\ n.rxLen = 1 /\ n.rxToken = token /\ n.rx = data
  /\ n.tok = d.tok /\ n.tx = d.tx /\ n.msgLen = d.msgLen /\ n.id = d.id /\ n.from = d.from
  /\ n.newAddr = d.newAddr /\ n.addr = d.addr /\ n.leds = d.leds
  /\ n.reqKind = d.reqKind /\ n.reqLen = d.reqLen /\ n.ep = d.ep

LEMMA ReceivedEffect ==
  ASSUME NEW d \in Driver, NEW token \in {"SETUP", "OUT"}, NEW data \in RequestType,
         NEW n, n = [d EXCEPT !.rxLen = 1, !.rxToken = token, !.rx = data]
  PROVE  ReceivedFacts(n, d, token, data)
  <1> DEFINE one == 1
  <1>1. one \in {0, 1}
    OBVIOUS
  <1>2. n = [d EXCEPT !.rxLen = one, !.rxToken = token, !.rx = data]
    OBVIOUS
  <1> HIDE DEF one
  <1>3. n \in Driver
    BY <1>1, <1>2 DEF Driver
  <1>4. /\ n.rxLen = one /\ n.rxToken = token /\ n.rx = data
        /\ n.tok = d.tok /\ n.tx = d.tx /\ n.msgLen = d.msgLen /\ n.id = d.id /\ n.from = d.from
        /\ n.newAddr = d.newAddr /\ n.addr = d.addr /\ n.leds = d.leds
        /\ n.reqKind = d.reqKind /\ n.reqLen = d.reqLen /\ n.ep = d.ep
    BY <1>2 DEF Driver
  <1> QED  BY <1>3, <1>4 DEF ReceivedFacts, one

\* A packet has been sent, or addresses have changed: all other fields stay.
SentFacts(n, d, tx, new, addr) ==
  /\ n \in Driver
  /\ n.tx = tx /\ n.newAddr = new /\ n.addr = addr
  /\ n.rxLen = d.rxLen /\ n.rxToken = d.rxToken /\ n.rx = d.rx
  /\ n.tok = d.tok /\ n.msgLen = d.msgLen /\ n.id = d.id /\ n.from = d.from
  /\ n.leds = d.leds /\ n.reqKind = d.reqKind /\ n.reqLen = d.reqLen /\ n.ep = d.ep

LEMMA SentEffect ==
  ASSUME NEW d \in Driver, NEW n, n = [d EXCEPT !.tx = NAK, !.addr = d.newAddr]
  PROVE  SentFacts(n, d, NAK, d.newAddr, d.newAddr)
  <1>1. n \in Driver
    BY PacketFields DEF Driver
  <1>2. /\ n.tx = NAK /\ n.newAddr = d.newAddr /\ n.addr = d.newAddr
        /\ n.rxLen = d.rxLen /\ n.rxToken = d.rxToken /\ n.rx = d.rx
        /\ n.tok = d.tok /\ n.msgLen = d.msgLen /\ n.id = d.id /\ n.from = d.from
        /\ n.leds = d.leds /\ n.reqKind = d.reqKind /\ n.reqLen = d.reqLen /\ n.ep = d.ep
    BY DEF Driver
  <1> QED  BY <1>1, <1>2 DEF SentFacts

LEMMA ResetEffect ==
  ASSUME NEW d \in Driver, NEW n, n = [d EXCEPT !.newAddr = 0, !.addr = 0]
  PROVE  SentFacts(n, d, d.tx, 0, 0)
  <1>1. n \in Driver
    BY DEF Driver
  <1>2. /\ n.tx = d.tx /\ n.newAddr = 0 /\ n.addr = 0
        /\ n.rxLen = d.rxLen /\ n.rxToken = d.rxToken /\ n.rx = d.rx
        /\ n.tok = d.tok /\ n.msgLen = d.msgLen /\ n.id = d.id /\ n.from = d.from
        /\ n.leds = d.leds /\ n.reqKind = d.reqKind /\ n.reqLen = d.reqLen /\ n.ep = d.ep
    BY DEF Driver
  <1> QED  BY <1>1, <1>2 DEF SentFacts

\* usbSetInterrupt, and a report on its way: one endpoint has another report, token
\* and state.
EndpointFacts(n, d, e, tok, full, report, addr) ==
  /\ n \in Driver
  /\ \A f \in Endpoints \ {e} : n.ep[f] = d.ep[f]
  /\ n.ep[e].tok = tok /\ n.ep[e].full = full /\ n.ep[e].report = report
  /\ n.addr = addr
  /\ n.rxLen = d.rxLen /\ n.rxToken = d.rxToken /\ n.rx = d.rx
  /\ n.tok = d.tok /\ n.tx = d.tx /\ n.msgLen = d.msgLen /\ n.id = d.id /\ n.from = d.from
  /\ n.newAddr = d.newAddr /\ n.leds = d.leds
  /\ n.reqKind = d.reqKind /\ n.reqLen = d.reqLen

EndpointType == [tok : {0, 1}, full : BOOLEAN, report : Nat]

LEMMA EndpointEffect ==
  ASSUME NEW d \in Driver, NEW e \in Endpoints, NEW x \in EndpointType, NEW a \in Nat,
         NEW n, n = [d EXCEPT !.ep = [d.ep EXCEPT ![e] = x], !.addr = a]
  PROVE  EndpointFacts(n, d, e, x.tok, x.full, x.report, a)
  <1> DEFINE p == [d.ep EXCEPT ![e] = x]
  <1>1. p \in [Endpoints -> EndpointType] /\ p[e] = x
        /\ \A f \in Endpoints \ {e} : p[f] = d.ep[f]
    BY DEF Driver, EndpointType
  <1> HIDE DEF p
  <1>2. n = [d EXCEPT !.ep = p, !.addr = a]
    BY DEF p
  <1>3. n \in Driver
    BY <1>1, <1>2 DEF Driver, EndpointType
  <1>4. /\ n.ep = p /\ n.addr = a
        /\ n.rxLen = d.rxLen /\ n.rxToken = d.rxToken /\ n.rx = d.rx
        /\ n.tok = d.tok /\ n.tx = d.tx /\ n.msgLen = d.msgLen /\ n.id = d.id /\ n.from = d.from
        /\ n.newAddr = d.newAddr /\ n.leds = d.leds
        /\ n.reqKind = d.reqKind /\ n.reqLen = d.reqLen
    BY <1>2 DEF Driver
  <1> QED  BY <1>1, <1>3, <1>4 DEF EndpointFacts

LEMMA SetInterruptEffect ==
  ASSUME NEW d \in Driver, NEW e \in Endpoints, NEW r \in Nat,
         NEW n, n = usbSetInterrupt(d, e, r)
  PROVE  EndpointFacts(n, d, e, Toggle(d.ep[e].tok), TRUE, r, d.addr)
  <1> DEFINE t == Toggle(d.ep[e].tok)
             b == TRUE
             x == [d.ep[e] EXCEPT !.tok = t, !.full = b, !.report = r]
  <1>1. d.ep \in [Endpoints -> EndpointType] /\ d.addr \in Nat
    BY DEF Driver, EndpointType
  <1>2. t \in {0, 1} /\ b \in BOOLEAN
    BY <1>1 DEF EndpointType, Toggle
  <1>3. n.ep = [d.ep EXCEPT ![e].tok = t, ![e].full = b, ![e].report = r]
    BY DEF usbSetInterrupt, Driver
  <1>4. n = [d EXCEPT !.ep = n.ep, !.addr = d.addr]
    BY DEF usbSetInterrupt, Driver
  <1> HIDE DEF t, b
  <1>5. x \in EndpointType /\ x.tok = t /\ x.full = b /\ x.report = r
    BY <1>1, <1>2 DEF EndpointType
  <1> HIDE DEF x
  <1>6. n.ep = [d.ep EXCEPT ![e] = x]
    BY <1>1, <1>3 DEF x
  <1>7. EndpointFacts(n, d, e, x.tok, x.full, x.report, d.addr)
    BY <1>1, <1>4, <1>5, <1>6, EndpointEffect
  <1> QED  BY <1>5, <1>7 DEF t, b

LEMMA ReportSentEffect ==
  ASSUME NEW d \in Driver, NEW e \in Endpoints, NEW n, n = ReportSent(d, e)
  PROVE  EndpointFacts(n, d, e, d.ep[e].tok, FALSE, d.ep[e].report, d.newAddr)
  <1> DEFINE x == [d.ep[e] EXCEPT !.full = FALSE]
  <1>1. d.ep \in [Endpoints -> EndpointType] /\ d.newAddr \in Nat
    BY DEF Driver, EndpointType
  <1>2. x \in EndpointType
    BY <1>1 DEF EndpointType
  <1>3. n.ep = [d.ep EXCEPT ![e] = x]
    BY <1>1 DEF ReportSent, EndpointType, Driver
  <1>4. n = [d EXCEPT !.ep = n.ep, !.addr = d.newAddr]
    BY DEF ReportSent, Driver
  <1>5. x.tok = d.ep[e].tok /\ x.full = FALSE /\ x.report = d.ep[e].report
    BY <1>1 DEF EndpointType
  <1> HIDE DEF x
  <1>6. EndpointFacts(n, d, e, x.tok, x.full, x.report, d.newAddr)
    BY <1>1, <1>2, <1>3, <1>4, EndpointEffect
  <1> QED  BY <1>5, <1>6

-----------------------------------------------------------------------------
(* What the steps of a transaction do.                                     *)

NewCounts(a, b, c) ==
  /\ hist'.faults \in Nat /\ hist'.faults >= hist.faults
  /\ CountedFacts(hist', hist, hist'.faults, a, b, c)
SameCounts == NewCounts(hist.foreign, hist.gap, hist.refused)

LEMMA FateCounts ==
  ASSUME hist \in History, NEW fate \in Fates
  PROVE  /\ hist.faults + Fault(fate) \in Nat
         /\ hist.faults + Fault(fate) >= hist.faults
         /\ fate # "seen" => hist.faults + Fault(fate) = hist.faults + 1
         /\ fate = "seen" => hist.faults + Fault(fate) = hist.faults
         /\ /\ hist' = [hist EXCEPT !.faults = hist.faults + Fault(fate)]
            => SameCounts /\ hist'.faults = hist.faults + Fault(fate)
  <1>1. hist.faults \in Nat /\ Fault(fate) \in {0, 1}
    BY DEF History, Fault
  <1>2. /\ fate # "seen" => Fault(fate) = 1
        /\ fate = "seen" => Fault(fate) = 0
    BY DEF Fault
  <1> DEFINE n == hist.faults + Fault(fate)
  <1>3. n \in Nat /\ n >= hist.faults
    BY <1>1
  <1>4. ASSUME hist' = [hist EXCEPT !.faults = n]
        PROVE  SameCounts /\ hist'.faults = n
    <2> HIDE DEF n
    <2>1. CountedFacts(hist', hist, n, hist.foreign, hist.gap, hist.refused)
      BY <1>3, <1>4, FaultEffect
    <2>2. hist'.faults = n
      BY <2>1 DEF CountedFacts
    <2> QED  BY <1>3, <2>1, <2>2 DEF SameCounts, NewCounts
  <1> QED  BY <1>1, <1>2, <1>3, <1>4

LEMMA ReceiveSplit ==
  ASSUME dev \in Driver, NEW token \in {"SETUP", "OUT"}, NEW data \in RequestType,
         NEW r, r = Receive(dev, token, data)
  PROVE  \/ r.dev = dev /\ (r.answer = "ACK" => dev.rxLen = 0 /\ data.kind = "none")
         \/ /\ dev.rxLen = 0 /\ data.kind # "none"
            /\ ReceivedFacts(r.dev, dev, token, data)
  <1>1. CASE dev.rxLen # 0
    BY <1>1 DEF Receive
  <1>2. CASE dev.rxLen = 0 /\ data.kind = "none"
    BY <1>2 DEF Receive
  <1>3. CASE dev.rxLen = 0 /\ data.kind # "none"
    <2>1. r.dev = [dev EXCEPT !.rxLen = 1, !.rxToken = token, !.rx = data]
      BY <1>3 DEF Receive
    <2> QED  BY <1>3, <2>1, ReceivedEffect
  <1> QED  BY <1>1, <1>2, <1>3

\* SETUP, or the data of a SET_REPORT.
SendStep(token, from, to) ==
  /\ ~InReset /\ pc' = pc /\ se0' = se0 /\ host.stage = from /\ SameCounts
  /\ \/ dev' = dev /\ host' = host
     \/ /\ dev.rxLen = 0 /\ dev.addr = host.addr
        /\ ReceivedFacts(dev', dev, token, host.rq)
        /\ \/ host' = host /\ hist'.faults > hist.faults
           \/ StageFacts(host', host, to)

LEMMA SetupStep ==
  ASSUME dev \in Driver, host \in HostState, hist \in History, HostConsistent,
         NEW fate \in Fates, SendSetup(fate)
  PROVE  SendStep("SETUP", "setup", StageAfterSetup(host.rq))
  <1> DEFINE r == Receive(dev, "SETUP", host.rq)
             to == StageAfterSetup(host.rq)
  <1>1. /\ host.stage = "setup" /\ ~InReset /\ pc' = pc /\ se0' = se0
        /\ hist' = [hist EXCEPT !.faults = hist.faults + Fault(fate)]
        /\ dev' = IF Reached(fate) THEN r.dev ELSE dev
        /\ host' = IF Reached(fate) /\ fate = "seen" /\ r.answer = "ACK"
                   THEN [host EXCEPT !.stage = to] ELSE host
    BY DEF SendSetup, MayFail
  <1>2. SameCounts /\ hist.faults \in Nat
        /\ (fate # "seen" => hist'.faults = hist.faults + 1)
    BY <1>1, FateCounts DEF History
  <1>3. host.rq \in RequestType /\ host.rq.kind # "none" /\ to \in Stages
    BY <1>1 DEF HostConsistent, HostState, StageAfterSetup, Stages
  <1> HIDE DEF to
  <1>4. \/ r.dev = dev /\ r.answer # "ACK"
        \/ dev.rxLen = 0 /\ ReceivedFacts(r.dev, dev, "SETUP", host.rq)
    <2> HIDE DEF r
    <2> QED  BY <1>3, ReceiveSplit DEF r
  <1>5. dev.rxLen = 0 => r.answer = "ACK"
    BY DEF Receive
  <1> HIDE DEF r
  <1>6. host' = [host EXCEPT !.stage = to] => StageFacts(host', host, to)
    BY <1>3, StageEffect
  <1>7. Reached(fate) => dev.addr = host.addr
    BY DEF Reached
  <1> QED  BY <1>1, <1>2, <1>4, <1>5, <1>6, <1>7 DEF SendStep, to

LEMMA DataStep ==
  ASSUME dev \in Driver, host \in HostState, hist \in History, HostConsistent,
         NEW fate \in Fates, SendData(fate)
  PROVE  SendStep("OUT", "out", "statusIn")
  <1> DEFINE r == Receive(dev, "OUT", host.rq)
             to == "statusIn"
  <1>1. /\ host.stage = "out" /\ ~InReset /\ pc' = pc /\ se0' = se0
        /\ hist' = [hist EXCEPT !.faults = hist.faults + Fault(fate)]
        /\ dev' = IF Reached(fate) THEN r.dev ELSE dev
        /\ host' = IF Reached(fate) /\ fate = "seen" /\ r.answer = "ACK"
                   THEN [host EXCEPT !.stage = to] ELSE host
    BY DEF SendData, MayFail
  <1>2. SameCounts /\ hist.faults \in Nat
        /\ (fate # "seen" => hist'.faults = hist.faults + 1)
    BY <1>1, FateCounts DEF History
  <1>3. host.rq \in RequestType /\ host.rq.kind # "none" /\ to \in Stages
    BY <1>1 DEF HostConsistent, HostState, Stages
  <1> HIDE DEF to
  <1>4. \/ r.dev = dev /\ r.answer # "ACK"
        \/ dev.rxLen = 0 /\ ReceivedFacts(r.dev, dev, "OUT", host.rq)
    <2> HIDE DEF r
    <2> QED  BY <1>3, ReceiveSplit DEF r
  <1>5. dev.rxLen = 0 => r.answer = "ACK"
    BY DEF Receive
  <1> HIDE DEF r
  <1>6. host' = [host EXCEPT !.stage = to] => StageFacts(host', host, to)
    BY <1>3, StageEffect
  <1>7. Reached(fate) => dev.addr = host.addr
    BY DEF Reached
  <1> QED  BY <1>1, <1>2, <1>4, <1>5, <1>6, <1>7 DEF SendStep, to

\* The empty packet after a read.
StatusStep ==
  /\ ~InReset /\ pc' = pc /\ se0' = se0 /\ host.stage = "statusOut" /\ SameCounts
  /\ dev' = dev
  /\ \/ host' = host
     \/ dev.rxLen = 0 /\ dev.addr = host.addr /\ SucceedFacts(host', host, host.rq.kind)

LEMMA StatusOutStep ==
  ASSUME dev \in Driver, host \in HostState, hist \in History,
         NEW fate \in Fates, StatusOut(fate)
  PROVE  StatusStep
  <1> DEFINE r == Receive(dev, "OUT", NoRequest)
  <1>1. /\ host.stage = "statusOut" /\ ~InReset /\ pc' = pc /\ se0' = se0
        /\ hist' = [hist EXCEPT !.faults = hist.faults + Fault(fate)]
        /\ dev' = IF Reached(fate) THEN r.dev ELSE dev
        /\ host' = IF Reached(fate) /\ fate = "seen" /\ r.answer = "ACK"
                   THEN Succeed(host) ELSE host
    BY DEF StatusOut, MayFail
  <1>2. SameCounts
    BY <1>1, FateCounts
  <1>3. r.dev = dev /\ (r.answer = "ACK" => dev.rxLen = 0)
    BY DEF Receive, NoRequest
  <1>4. host' = Succeed(host) => SucceedFacts(host', host, host.rq.kind)
    BY SucceedEffect
  <1>5. Reached(fate) => dev.addr = host.addr
    BY DEF Reached
  <1> HIDE DEF r
  <1> QED  BY <1>1, <1>2, <1>3, <1>4, <1>5 DEF StatusStep

\* IN on endpoint 0: nothing happens but a fault perhaps, ...
Unanswered == dev' = dev /\ host' = host /\ SameCounts

\* ... the host sees a STALL, ...
Stalled ==
  /\ dev' = dev /\ dev.rxLen = 0 /\ dev.tx.kind = "STALL" /\ StageFacts(host', host, "idle")
  /\ NewCounts(hist.foreign, hist.gap, hist.refused \/ host.rq.kind # "report")

\* ... a packet is lost or ignored, ...
SendsPacket ==
  /\ dev.rxLen = 0 /\ dev.tx.kind = "DATA" /\ dev.addr = host.addr
  /\ SentFacts(dev', dev, NAK, dev.newAddr, dev.newAddr)
NotTaken ==
  /\ SendsPacket /\ host' = host /\ SameCounts
  /\ hist'.faults > hist.faults \/ dev.tx.pid # host.tok

\* ... or it is taken for data, or for the end of the transfer.
DataTaken ==
  /\ SendsPacket /\ dev.tx.pid = host.tok /\ host.stage = "in"
  /\ TakenFacts(host', host, dev.tx.len)
  /\ NewCounts(hist.foreign \/ dev.tx.id # host.rq.id,
               hist.gap \/ dev.tx.from # host.got \/ IsCutShort(host'), hist.refused)
StatusTaken ==
  /\ SendsPacket /\ dev.tx.pid = host.tok /\ host.stage = "statusIn"
  /\ SucceedFacts(host', host, host.rq.kind)
  /\ NewCounts(hist.foreign \/ dev.tx.id # host.rq.id \/ dev.tx.len # 0, hist.gap,
               hist.refused)

LEMMA CountsEffect ==
  ASSUME hist \in History, NEW n \in Nat, n >= hist.faults, NEW a \in BOOLEAN,
         NEW b \in BOOLEAN, NEW c \in BOOLEAN,
         hist' = [hist EXCEPT !.faults = n, !.foreign = a, !.gap = b, !.refused = c]
  PROVE  NewCounts(a, b, c) /\ hist'.faults = n
  <1>1. CountedFacts(hist', hist, n, a, b, c)
    BY CountedEffect
  <1>2. hist'.faults = n
    BY <1>1 DEF CountedFacts
  <1> QED  BY <1>1, <1>2 DEF NewCounts

LEMMA ReadControlStep ==
  ASSUME dev \in Driver, host \in HostState, hist \in History,
         NEW fate \in Fates, ReadControl(fate)
  PROVE  /\ ~InReset /\ pc' = pc /\ se0' = se0 /\ host.stage \in {"in", "statusIn"}
         /\ Unanswered \/ Stalled \/ NotTaken \/ DataTaken \/ StatusTaken
  <1> DEFINE r == HandleIn(dev)
             p == r.answer
             IsSeen == Reached(fate) /\ fate = "seen"
             IsTaken == IsSeen /\ p.kind = "DATA" /\ p.pid = host.tok
             n == hist.faults + Fault(fate)
             a == hist.foreign \/ (IsTaken /\ (p.id # host.rq.id
                                               \/ (host.stage = "statusIn" /\ p.len # 0)))
             b == hist.gap \/ (IsTaken /\ host.stage = "in"
                               /\ (p.from # host.got \/ IsCutShort(AfterData(host, p.len))))
             c == hist.refused \/ (IsSeen /\ p.kind = "STALL" /\ host.rq.kind # "report")
  <1>1. /\ host.stage \in {"in", "statusIn"} /\ ~InReset /\ pc' = pc /\ se0' = se0
        /\ dev' = IF Reached(fate) THEN r.dev ELSE dev
        /\ host' = IF IsTaken
                   THEN IF host.stage = "in" THEN AfterData(host, p.len) ELSE Succeed(host)
                   ELSE IF IsSeen /\ p.kind = "STALL" THEN [host EXCEPT !.stage = "idle"]
                   ELSE host
        /\ hist' = [hist EXCEPT !.faults = n, !.foreign = a, !.gap = b, !.refused = c]
    BY DEF ReadControl, MayFail
  <1>2. a \in BOOLEAN /\ b \in BOOLEAN /\ c \in BOOLEAN
    BY DEF History
  <1>3. /\ n \in Nat /\ n >= hist.faults /\ hist.faults \in Nat
        /\ fate # "seen" => n = hist.faults + 1
    BY FateCounts DEF History
  <1>4. NewCounts(a, b, c) /\ hist'.faults = n
    <2> HIDE DEF a, b, c, n
    <2> QED  BY <1>1, <1>2, <1>3, CountsEffect
  <1>5. Reached(fate) => dev.addr = host.addr
    BY DEF Reached
  <1>6. /\ dev.rxLen # 0 => r.dev = dev /\ p.kind = "NAK"
        /\ dev.rxLen = 0 /\ dev.tx.kind # "DATA" => r.dev = dev /\ p = dev.tx
        /\ dev.rxLen = 0 /\ dev.tx.kind = "DATA" =>
             r.dev = [dev EXCEPT !.tx = NAK, !.addr = dev.newAddr] /\ p = dev.tx
    BY PacketFields DEF HandleIn
  <1>7. dev.tx \in PacketType /\ dev.tx.len \in 0 .. PacketSize
    BY DEF Driver, PacketType
  <1>8. CASE ~Reached(fate) \/ dev.rxLen # 0 \/ dev.tx.kind = "NAK"
             \/ (dev.tx.kind = "STALL" /\ fate # "seen")
    <2>1. ~IsTaken /\ ~(IsSeen /\ p.kind = "STALL")
      BY <1>6, <1>8
    <2>2. dev' = dev /\ host' = host
      BY <1>1, <1>6, <1>8, <2>1
    <2>3. (a <=> hist.foreign) /\ (b <=> hist.gap) /\ (c <=> hist.refused)
      BY <2>1
    <2>4. a = hist.foreign /\ b = hist.gap /\ c = hist.refused
      BY <1>2, <2>3 DEF History
    <2> QED  BY <1>1, <1>4, <2>2, <2>4 DEF Unanswered, SameCounts
  <1>9. CASE Reached(fate) /\ dev.rxLen = 0 /\ dev.tx.kind = "STALL" /\ fate = "seen"
    <2>1. p.kind = "STALL" /\ ~IsTaken /\ IsSeen /\ r.dev = dev
      BY <1>6, <1>9
    <2>2. dev' = dev /\ host' = [host EXCEPT !.stage = "idle"]
      BY <1>1, <1>9, <2>1
    <2>3. StageFacts(host', host, "idle")
      BY <2>2, StageEffect DEF Stages
    <2>4. (a <=> hist.foreign) /\ (b <=> hist.gap)
          /\ (c <=> (hist.refused \/ host.rq.kind # "report"))
      BY <2>1
    <2>5. a = hist.foreign /\ b = hist.gap /\ c = (hist.refused \/ host.rq.kind # "report")
      BY <1>2, <2>4 DEF History
    <2> QED  BY <1>1, <1>4, <1>9, <2>2, <2>3, <2>5 DEF Stalled
  <1>10. CASE Reached(fate) /\ dev.rxLen = 0 /\ dev.tx.kind = "DATA"
    <2>1. p = dev.tx /\ SendsPacket
      BY <1>1, <1>5, <1>6, <1>10, SentEffect DEF SendsPacket
    <2>2. CASE fate # "seen" \/ dev.tx.pid # host.tok
      <3>1. ~IsTaken /\ ~(IsSeen /\ p.kind = "STALL")
        BY <1>10, <2>1, <2>2
      <3>2. host' = host
        BY <1>1, <3>1
      <3>3. (a <=> hist.foreign) /\ (b <=> hist.gap) /\ (c <=> hist.refused)
        BY <3>1
      <3>4. a = hist.foreign /\ b = hist.gap /\ c = hist.refused
        BY <1>2, <3>3 DEF History
      <3>5. hist'.faults > hist.faults \/ dev.tx.pid # host.tok
        BY <1>3, <1>4, <2>2
      <3> QED  BY <1>1, <1>4, <2>1, <3>2, <3>4, <3>5 DEF NotTaken, SameCounts
    <2>3. CASE fate = "seen" /\ dev.tx.pid = host.tok /\ host.stage = "in"
      <3>1. IsTaken
        BY <1>10, <2>1, <2>3
      <3>2. host' = AfterData(host, dev.tx.len)
        BY <1>1, <2>1, <2>3, <3>1
      <3>3. TakenFacts(host', host, dev.tx.len)
        BY <1>7, <3>2, TakenEffect
      <3>4. /\ a <=> hist.foreign \/ dev.tx.id # host.rq.id
            /\ b <=> hist.gap \/ dev.tx.from # host.got \/ IsCutShort(host')
            /\ c <=> hist.refused
        BY <1>10, <2>1, <2>3, <3>1, <3>2
      <3>5. /\ a = (hist.foreign \/ dev.tx.id # host.rq.id)
            /\ b = (hist.gap \/ dev.tx.from # host.got \/ IsCutShort(host'))
            /\ c = hist.refused
        BY <1>2, <3>4 DEF History
      <3> QED  BY <1>1, <1>4, <2>1, <2>3, <3>3, <3>5 DEF DataTaken
    <2>4. CASE fate = "seen" /\ dev.tx.pid = host.tok /\ host.stage = "statusIn"
      <3>1. IsTaken
        BY <1>10, <2>1, <2>4
      <3>2. host' = Succeed(host)
        BY <1>1, <2>4, <3>1
      <3>3. SucceedFacts(host', host, host.rq.kind)
        BY <3>2, SucceedEffect
      <3>4. /\ a <=> hist.foreign \/ dev.tx.id # host.rq.id \/ dev.tx.len # 0
            /\ b <=> hist.gap
            /\ c <=> hist.refused
        BY <1>10, <2>1, <2>4, <3>1
      <3>5. /\ a = (hist.foreign \/ dev.tx.id # host.rq.id \/ dev.tx.len # 0)
            /\ b = hist.gap /\ c = hist.refused
        BY <1>2, <3>4 DEF History
      <3> QED  BY <1>1, <1>4, <2>1, <2>4, <3>3, <3>5 DEF StatusTaken
    <2> QED  BY <1>1, <2>2, <2>3, <2>4
  <1>11. dev.tx.kind \in {"NAK", "STALL", "DATA"}
    BY <1>7 DEF PacketType
  <1> QED  BY <1>8, <1>9, <1>10, <1>11

-----------------------------------------------------------------------------
(* What the steps of the main loop do, and the other steps of the host.    *)

\* usbPoll's three steps.
RxStep ==
  /\ pc' \in {"rx", "tx", "reset"} /\ host' = host /\ hist' = hist
  /\ se0' = IF se0 = "held" THEN "polled" ELSE se0
  /\ \/ dev' = dev /\ dev.rxLen = 0
     \/ dev.rxLen = 1 /\ dev.rxToken = "SETUP" /\ SetupFacts(dev', dev, dev.rx.kind)
     \/ dev.rxLen = 1 /\ dev.rxToken = "OUT" /\ DataFacts(dev', dev)

LEMMA PollRxStep ==
  ASSUME dev \in Driver, IsRequest(dev.rx), PollRx
  PROVE  RxStep
  <1>1. dev.rxLen \in {0, 1} /\ dev.rxToken \in {"SETUP", "OUT"}
    BY DEF Driver
  <1>2. /\ dev.rxLen = 0 => dev' = dev
        /\ dev.rxLen = 1 => dev' = [usbProcessRx(dev) EXCEPT !.rxLen = 0]
        /\ pc' \in {"rx", "tx", "reset"} /\ host' = host /\ hist' = hist
        /\ se0' = IF se0 = "held" THEN "polled" ELSE se0
    BY DEF PollRx
  <1>3. CASE dev.rxLen = 0
    BY <1>2, <1>3 DEF RxStep
  <1>4. CASE dev.rxLen = 1 /\ dev.rxToken = "SETUP"
    <2>1. SetupFacts(dev', dev, dev.rx.kind)
      BY <1>2, <1>4, SetupEffect
    <2> QED  BY <1>2, <1>4, <2>1 DEF RxStep
  <1>5. CASE dev.rxLen = 1 /\ dev.rxToken = "OUT"
    <2>1. DataFacts(dev', dev)
      BY <1>2, <1>5, DataEffect
    <2> QED  BY <1>2, <1>5, <2>1 DEF RxStep
  <1> QED  BY <1>1, <1>3, <1>4, <1>5

TxStep ==
  /\ pc' \in {"rx", "tx", "reset"} /\ host' = host /\ hist' = hist /\ se0' = se0
  /\ \/ dev' = dev
     \/ /\ dev.tx.kind # "DATA" /\ dev.msgLen # NO_MSG
        /\ BuildFacts(dev', dev, Least(dev.msgLen, PacketSize))

LEMMA PollTxStep ==
  ASSUME dev \in Driver, PollTx
  PROVE  TxStep
  <1>1. /\ pc' \in {"rx", "tx", "reset"} /\ host' = host /\ hist' = hist /\ se0' = se0
        /\ \/ dev' = dev
           \/ /\ dev.tx.kind # "DATA" /\ dev.msgLen # NO_MSG
              /\ dev' = usbBuildTxBlock(dev)
    BY DEF PollTx
  <1>2. dev.msgLen # NO_MSG /\ dev' = usbBuildTxBlock(dev) =>
          BuildFacts(dev', dev, Least(dev.msgLen, PacketSize))
    BY BuildEffect
  <1> QED  BY <1>1, <1>2 DEF TxStep

ResetStep ==
  /\ pc' \in {"rx", "tx", "reset"} /\ host' = host /\ hist' = hist
  /\ se0' = IF se0 = "polled" THEN "seen" ELSE se0
  /\ \/ dev' = dev /\ ~InReset
     \/ SentFacts(dev', dev, dev.tx, 0, 0) /\ InReset

LEMMA PollResetStep ==
  ASSUME dev \in Driver, PollReset
  PROVE  ResetStep
  <1>1. /\ pc' \in {"rx", "tx", "reset"} /\ host' = host /\ hist' = hist
        /\ se0' = IF se0 = "polled" THEN "seen" ELSE se0
        /\ dev' = IF InReset THEN [dev EXCEPT !.newAddr = 0, !.addr = 0] ELSE dev
    BY DEF PollReset
  <1>2. dev' = [dev EXCEPT !.newAddr = 0, !.addr = 0] =>
          SentFacts(dev', dev, dev.tx, 0, 0)
    BY ResetEffect
  <1> QED  BY <1>1, <1>2 DEF ResetStep

\* A report is put in an endpoint, ...
PutStep(e) ==
  /\ pc' = pc /\ se0' = se0 /\ host' = host
  /\ ~dev.ep[e].full /\ hist.put[e] < MaxReports
  /\ EndpointFacts(dev', dev, e, Toggle(dev.ep[e].tok), TRUE, hist.put[e] + 1, dev.addr)
  /\ hist' \in History
  /\ hist'.put = [hist.put EXCEPT ![e] = @ + 1]
  /\ hist'.requests = hist.requests /\ hist'.faults = hist.faults
  /\ hist'.resyncs = hist.resyncs /\ hist'.foreign = hist.foreign /\ hist'.gap = hist.gap
  /\ hist'.refused = hist.refused /\ hist'.lampIds = hist.lampIds
  /\ hist'.orphan = hist.orphan

LEMMA ReportStep ==
  ASSUME dev \in Driver, hist \in History, NEW e \in Endpoints, Report(e)
  PROVE  PutStep(e)
  <1> DEFINE p == [hist.put EXCEPT ![e] = @ + 1]
  <1>1. /\ pc' = pc /\ se0' = se0 /\ host' = host
        /\ ~dev.ep[e].full /\ hist.put[e] < MaxReports
        /\ dev' = usbSetInterrupt(dev, e, hist.put[e] + 1)
        /\ hist' = [hist EXCEPT !.put = p]
    BY DEF Report, usbInterruptIsReady
  <1>2. hist.put \in [Endpoints -> 0 .. MaxReports] /\ hist.put[e] + 1 \in Nat
    BY DEF History
  <1>3. EndpointFacts(dev', dev, e, Toggle(dev.ep[e].tok), TRUE, hist.put[e] + 1, dev.addr)
    BY <1>1, <1>2, SetInterruptEffect
  <1>4. p \in [Endpoints -> 0 .. MaxReports]
    BY <1>1, <1>2, UsbAssumption
  <1> HIDE DEF p
  <1>5. hist' \in History
    BY <1>1, <1>4 DEF History
  <1>6. /\ hist'.put = p
        /\ hist'.requests = hist.requests /\ hist'.faults = hist.faults
        /\ hist'.resyncs = hist.resyncs /\ hist'.foreign = hist.foreign /\ hist'.gap = hist.gap
        /\ hist'.refused = hist.refused /\ hist'.lampIds = hist.lampIds
        /\ hist'.orphan = hist.orphan
    BY <1>1 DEF History
  <1> QED  BY <1>1, <1>3, <1>5, <1>6 DEF PutStep, p

\* ... and sent; the host may take it.
ReadFacts(h, g, e, r) ==
  /\ h \in HostState
  /\ h.expect = [g.expect EXCEPT ![e] = Toggle(@)]
  /\ h.reports = [g.reports EXCEPT ![e] = Append(@, r)]
  /\ h.stage = g.stage /\ h.rq = g.rq /\ h.got = g.got /\ h.tok = g.tok /\ h.addr = g.addr
  /\ h.config = g.config /\ h.known = g.known /\ h.lamps = g.lamps

LEMMA ReadEffect ==
  ASSUME NEW g \in HostState, NEW e \in Endpoints, NEW r \in 1 .. MaxReports,
         NEW h, h = [g EXCEPT !.expect[e] = Toggle(@), !.reports[e] = Append(@, r)]
  PROVE  ReadFacts(h, g, e, r)
  <1> DEFINE x == [g.expect EXCEPT ![e] = Toggle(@)]
             s == [g.reports EXCEPT ![e] = Append(@, r)]
  <1>1. g.expect \in [Endpoints -> {0, 1}] /\ g.reports \in [Endpoints -> Seq(1 .. MaxReports)]
    BY DEF HostState
  <1>2. x \in [Endpoints -> {0, 1}]
    BY <1>1 DEF Toggle
  <1>3. s \in [Endpoints -> Seq(1 .. MaxReports)]
    BY <1>1, AppendProperties
  <1>4. h = [g EXCEPT !.expect = x, !.reports = s]
    BY DEF HostState
  <1> HIDE DEF x, s
  <1>5. h \in HostState
    BY <1>2, <1>3, <1>4 DEF HostState
  <1>6. /\ h.expect = x /\ h.reports = s
        /\ h.stage = g.stage /\ h.rq = g.rq /\ h.got = g.got /\ h.tok = g.tok
        /\ h.addr = g.addr /\ h.config = g.config /\ h.known = g.known /\ h.lamps = g.lamps
    BY <1>4 DEF HostState
  <1> QED  BY <1>5, <1>6 DEF ReadFacts, x, s

GetStep(e) ==
  /\ ~InReset /\ pc' = pc /\ se0' = se0 /\ SameCounts
  /\ host.config /\ dev.rxLen = 0 /\ dev.addr = host.addr /\ dev.ep[e].full
  /\ EndpointFacts(dev', dev, e, dev.ep[e].tok, FALSE, dev.ep[e].report, dev.newAddr)
  /\ \/ host' = host /\ (hist'.faults > hist.faults \/ dev.ep[e].tok # host.expect[e])
     \/ dev.ep[e].tok = host.expect[e] /\ ReadFacts(host', host, e, dev.ep[e].report)

LEMMA ReadReportStep ==
  ASSUME Typed, NEW e \in Endpoints, NEW fate \in {"seen", "unseen"}, ReadReport(e, fate)
  PROVE  GetStep(e)
  <1> DEFINE p == dev.ep[e]
  <1>1. dev \in Driver /\ host \in HostState /\ hist \in History /\ fate \in Fates
    BY DEF Typed, TypeOK, Fates
  <1>2. /\ ~InReset /\ pc' = pc /\ se0' = se0 /\ host.config /\ dev.rxLen = 0
        /\ dev.addr = host.addr /\ p.full /\ dev' = ReportSent(dev, e)
        /\ host' = IF fate = "seen" /\ p.tok = host.expect[e]
                   THEN [host EXCEPT !.expect[e] = Toggle(@), !.reports[e] = Append(@, p.report)]
                   ELSE host
        /\ hist' = [hist EXCEPT !.faults = hist.faults + Fault(fate)]
    BY DEF ReadReport, MayFail, Reached, CanSendReport
  <1>3. /\ SameCounts /\ hist.faults \in Nat
        /\ (fate # "seen" => hist'.faults = hist.faults + 1)
    BY <1>1, <1>2, FateCounts DEF History
  <1>4. EndpointFacts(dev', dev, e, dev.ep[e].tok, FALSE, dev.ep[e].report, dev.newAddr)
    BY <1>1, <1>2, ReportSentEffect
  <1>5. p.report \in 1 .. MaxReports
    BY <1>2 DEF Typed
  <1> HIDE DEF p
  <1>6. CASE fate = "seen" /\ p.tok = host.expect[e]
    <2>1. ReadFacts(host', host, e, p.report)
      BY <1>1, <1>2, <1>5, <1>6, ReadEffect
    <2> QED  BY <1>2, <1>3, <1>4, <1>6, <2>1 DEF GetStep, p
  <1>7. CASE fate # "seen" \/ p.tok # host.expect[e]
    <2>1. host' = host
      BY <1>2, <1>7
    <2>2. hist'.faults > hist.faults \/ p.tok # host.expect[e]
      BY <1>3, <1>7
    <2> QED  BY <1>2, <1>3, <1>4, <2>1, <2>2 DEF GetStep, p
  <1> QED  BY <1>6, <1>7

\* A request, with its number and the lengths of a read.
RequestStep(kind) ==
  /\ ~InReset /\ dev' = dev /\ pc' = pc /\ se0' = se0
  /\ host.stage = "idle" /\ host.known /\ kind \in AllKinds
  /\ kind = "address" => host.addr = 0
  /\ kind = "configuration" => host.addr # 0 /\ ~host.config
  /\ kind = "interface" => host.config
  /\ host' \in HostState /\ host'.stage = "setup" /\ host'.got = 0 /\ host'.tok = 1
  /\ host'.rq.kind = kind /\ host'.rq.id = hist.requests + 1 /\ IsRequest(host'.rq)
  /\ host'.addr = host.addr /\ host'.config = host.config /\ host'.known = host.known
  /\ host'.lamps = host.lamps /\ host'.expect = host.expect
  /\ host'.reports = host.reports
  /\ hist' \in History /\ hist'.requests = hist.requests + 1
  /\ hist'.resyncs = IF kind \in {"configuration", "interface"} THEN hist.resyncs + 1
                     ELSE hist.resyncs
  /\ hist'.lampIds = IF kind = "lamps" THEN hist.lampIds \cup {hist.requests + 1}
                     ELSE hist.lampIds
  /\ hist'.put = hist.put /\ hist'.faults = hist.faults /\ hist'.foreign = hist.foreign
  /\ hist'.gap = hist.gap /\ hist'.refused = hist.refused /\ hist'.orphan = hist.orphan

LEMMA RequestMade ==
  ASSUME host \in HostState, hist \in History, NEW kind \in Kinds, Request(kind)
  PROVE  RequestStep(kind)
  <1> DEFINE id == hist.requests + 1
             y == IF kind \in {"configuration", "interface"} THEN hist.resyncs + 1
                  ELSE hist.resyncs
             l == IF kind = "lamps" THEN hist.lampIds \cup {id} ELSE hist.lampIds
             setup == "setup"
             one == 1
  <1>1. /\ ~InReset /\ dev' = dev /\ pc' = pc /\ se0' = se0
        /\ host.stage = "idle" /\ host.known /\ kind \in AllKinds
        /\ hist' = [hist EXCEPT !.requests = id, !.resyncs = y, !.lampIds = l]
    BY UsbAssumption DEF Request
  <1>2. /\ kind = "address" => host.addr = 0
        /\ kind = "configuration" => host.addr # 0 /\ ~host.config
        /\ kind = "interface" => host.config
    BY DEF Request
  <1>3. PICK r \in IF kind = "read" THEN Reads ELSE {<<0, 0>>} :
          host' = [host EXCEPT !.stage = setup, !.got = 0, !.tok = one,
                               !.rq = [kind |-> kind, id |-> id, has |-> r[1],
                                       wLength |-> r[2]]]
    BY DEF Request
  <1> DEFINE q == [kind |-> kind, id |-> id, has |-> r[1], wLength |-> r[2]]
  <1>4. /\ r[1] \in 0 .. NO_MSG - 1 /\ r[2] \in Nat
        /\ kind # "read" => r[1] = 0 /\ r[2] = 0
    BY <1>3, UsbAssumption DEF NO_MSG
  <1>5. id \in Nat /\ y \in Nat /\ l \in SUBSET Nat
    BY DEF History
  <1>6. IsRequest(q) /\ q.kind = kind /\ q.id = id
    <2> HIDE DEF id
    <2> QED  BY <1>1, <1>4, <1>5 DEF IsRequest, RequestType, NO_MSG
  <1>7. q \in RequestType /\ setup \in Stages /\ one \in {0, 1}
    BY <1>6 DEF IsRequest, Stages
  <1>8. /\ host' \in HostState
        /\ host'.stage = setup /\ host'.got = 0 /\ host'.tok = one /\ host'.rq = q
        /\ host'.addr = host.addr /\ host'.config = host.config /\ host'.known = host.known
        /\ host'.lamps = host.lamps /\ host'.expect = host.expect
        /\ host'.reports = host.reports
    <2>1. host' = [host EXCEPT !.stage = setup, !.got = 0, !.tok = one, !.rq = q]
      BY <1>3
    <2> HIDE DEF setup, one, q
    <2>2. host' \in HostState
      BY <1>7, <2>1 DEF HostState, Stages
    <2>3. /\ host'.stage = setup /\ host'.got = 0 /\ host'.tok = one /\ host'.rq = q
          /\ host'.addr = host.addr /\ host'.config = host.config
          /\ host'.known = host.known /\ host'.lamps = host.lamps
          /\ host'.expect = host.expect /\ host'.reports = host.reports
      BY <2>1 DEF HostState
    <2> QED  BY <2>2, <2>3
  <1>9. /\ hist' \in History
        /\ hist'.requests = id /\ hist'.resyncs = y /\ hist'.lampIds = l
        /\ hist'.put = hist.put /\ hist'.faults = hist.faults
        /\ hist'.foreign = hist.foreign /\ hist'.gap = hist.gap
        /\ hist'.refused = hist.refused /\ hist'.orphan = hist.orphan
    <2> HIDE DEF id, y, l
    <2>1. hist' \in History
      BY <1>1, <1>5 DEF History
    <2>2. /\ hist'.requests = id /\ hist'.resyncs = y /\ hist'.lampIds = l
          /\ hist'.put = hist.put /\ hist'.faults = hist.faults
          /\ hist'.foreign = hist.foreign /\ hist'.gap = hist.gap
          /\ hist'.refused = hist.refused /\ hist'.orphan = hist.orphan
      BY <1>1 DEF History
    <2> QED  BY <2>1, <2>2
  <1> HIDE DEF q
  <1> QED  BY <1>1, <1>2, <1>6, <1>8, <1>9 DEF RequestStep

\* The transfer is given up, by the host or by a reset.
GivenUp(addr, config, known) ==
  /\ ~InReset /\ dev' = dev /\ pc' = pc
  /\ host' \in HostState /\ host'.stage = "idle" /\ host'.addr = addr
  /\ host'.config = config /\ host'.known = known
  /\ host'.rq = host.rq /\ host'.got = host.got /\ host'.tok = host.tok
  /\ host'.lamps = host.lamps /\ host'.expect = host.expect
  /\ host'.reports = host.reports
  /\ hist' \in History /\ hist'.orphan = (hist.orphan \/ InFlight("lamps"))
  /\ hist'.requests = hist.requests /\ hist'.resyncs = hist.resyncs
  /\ hist'.lampIds = hist.lampIds /\ hist'.put = hist.put /\ hist'.faults = hist.faults
  /\ hist'.foreign = hist.foreign /\ hist'.gap = hist.gap /\ hist'.refused = hist.refused

LEMMA GiveUpEffect ==
  ASSUME host \in HostState, hist \in History, ~InReset, dev' = dev, pc' = pc,
         NEW a \in Nat, NEW c \in BOOLEAN, NEW k \in BOOLEAN, NEW n \in Nat,
         NEW o, o = (hist.orphan \/ InFlight("lamps")),
         host' = [host EXCEPT !.stage = "idle", !.addr = a, !.config = c, !.known = k],
         hist' = [hist EXCEPT !.breaks = n, !.orphan = o]
  PROVE  GivenUp(a, c, k)
  <1> DEFINE idle == "idle"
  <1>1. idle \in Stages /\ o \in BOOLEAN
    BY DEF Stages, History
  <1>2. host' = [host EXCEPT !.stage = idle, !.addr = a, !.config = c, !.known = k]
    OBVIOUS
  <1> HIDE DEF idle
  <1>3. host' \in HostState
    BY <1>1, <1>2 DEF HostState, Stages
  <1>4. /\ host'.stage = idle /\ host'.addr = a /\ host'.config = c /\ host'.known = k
        /\ host'.rq = host.rq /\ host'.got = host.got /\ host'.tok = host.tok
        /\ host'.lamps = host.lamps /\ host'.expect = host.expect
        /\ host'.reports = host.reports
    BY <1>2 DEF HostState
  <1>5. hist' \in History
    BY <1>1 DEF History
  <1>6. /\ hist'.orphan = o
        /\ hist'.requests = hist.requests /\ hist'.resyncs = hist.resyncs
        /\ hist'.lampIds = hist.lampIds /\ hist'.put = hist.put
        /\ hist'.faults = hist.faults /\ hist'.foreign = hist.foreign
        /\ hist'.gap = hist.gap /\ hist'.refused = hist.refused
    BY DEF History
  <1> QED  BY <1>3, <1>4, <1>5, <1>6 DEF GivenUp, idle

LEMMA AbandonStep ==
  ASSUME host \in HostState, hist \in History, Abandon
  PROVE  /\ se0' = se0
         /\ \E k \in BOOLEAN : /\ k => host.known /\ ~InFlight("address")
                               /\ GivenUp(host.addr, host.config, k)
  <1> DEFINE k == host.known /\ host.rq.kind # "address"
             a == host.addr
             c == host.config
             n == hist.breaks + 1
             o == hist.orphan \/ InFlight("lamps")
  <1>1. /\ ~InReset /\ dev' = dev /\ pc' = pc /\ se0' = se0 /\ host.stage # "idle"
        /\ host' = [host EXCEPT !.stage = "idle", !.known = k]
        /\ hist' = [hist EXCEPT !.breaks = n, !.orphan = @ \/ host.rq.kind = "lamps"]
    BY DEF Abandon
  <1>2. n \in Nat /\ a \in Nat /\ c \in BOOLEAN /\ k \in BOOLEAN
    BY DEF History, HostState
  <1>3. o = (hist.orphan \/ host.rq.kind = "lamps")
    BY <1>1 DEF InFlight
  <1>4. hist' = [hist EXCEPT !.breaks = n, !.orphan = o]
    BY <1>1, <1>3 DEF History
  <1>5. host' = [host EXCEPT !.stage = "idle", !.addr = a, !.config = c, !.known = k]
    BY <1>1 DEF HostState
  <1>6. k => host.known /\ ~InFlight("address")
    BY DEF InFlight
  <1> HIDE DEF a, c, k, n, o
  <1>7. GivenUp(a, c, k)
    <2>1. ~InReset /\ dev' = dev /\ pc' = pc
      BY <1>1
    <2>2. o = (hist.orphan \/ InFlight("lamps"))
      BY DEF o
    <2> QED  BY <1>2, <1>4, <1>5, <2>1, <2>2, GiveUpEffect
  <1> QED  BY <1>1, <1>2, <1>6, <1>7 DEF a, c

LEMMA ResetBeginsStep ==
  ASSUME host \in HostState, hist \in History, ResetBegins
  PROVE  se0' = "held" /\ GivenUp(0, FALSE, TRUE)
  <1> DEFINE n == hist.breaks + 1
             o == hist.orphan \/ InFlight("lamps")
  <1>1. /\ ~InReset /\ dev' = dev /\ pc' = pc /\ se0' = "held"
        /\ host' = [host EXCEPT !.stage = "idle", !.addr = 0, !.config = FALSE,
                                !.known = TRUE]
        /\ hist' = [hist EXCEPT !.breaks = n,
                                !.orphan = @ \/ (host.rq.kind = "lamps" /\ host.stage # "idle")]
    BY DEF ResetBegins
  <1>2. n \in Nat
    BY DEF History
  <1>3. o = (hist.orphan \/ (host.rq.kind = "lamps" /\ host.stage # "idle"))
    BY DEF InFlight
  <1>4. hist' = [hist EXCEPT !.breaks = n, !.orphan = o]
    BY <1>1, <1>3 DEF History
  <1> HIDE DEF n, o
  <1> QED  BY <1>1, <1>2, <1>4, GiveUpEffect DEF o

-----------------------------------------------------------------------------
(* Every step is one of these.                                             *)

ControlStep ==
  /\ ~InReset /\ pc' = pc /\ se0' = se0 /\ host.stage \in {"in", "statusIn"}
  /\ Unanswered \/ Stalled \/ NotTaken \/ DataTaken \/ StatusTaken
AbandonFacts ==
  /\ se0' = se0
  /\ \E k \in BOOLEAN : /\ k => host.known /\ ~InFlight("address")
                        /\ GivenUp(host.addr, host.config, k)
ResetFacts == se0' = "held" /\ GivenUp(0, FALSE, TRUE)
EndFacts == se0 = "seen" /\ se0' = "off" /\ UNCHANGED <<dev, pc, host, hist>>

Step ==
  \/ UNCHANGED vars
  \/ RxStep \/ TxStep \/ ResetStep
  \/ \E e \in Endpoints : PutStep(e)
  \/ \E kind \in Kinds : RequestStep(kind)
  \/ SendStep("SETUP", "setup", StageAfterSetup(host.rq))
  \/ SendStep("OUT", "out", "statusIn")
  \/ StatusStep \/ ControlStep
  \/ \E e \in Endpoints : GetStep(e)
  \/ AbandonFacts \/ ResetFacts \/ EndFacts

LEMMA EveryStep ==
  ASSUME IInv, [Next]_vars
  PROVE  Step
  <1>1. dev \in Driver /\ host \in HostState /\ hist \in History /\ Typed
    BY DEF IInv, Typed, TypeOK
  <1>2. HostConsistent /\ IsRequest(dev.rx)
    BY DEF IInv, LampsInStep
  <1>3. CASE UNCHANGED vars
    BY <1>3 DEF Step
  <1>4. CASE usbPoll
    BY <1>1, <1>2, <1>4, PollRxStep, PollTxStep, PollResetStep DEF usbPoll, Step
  <1>5. ASSUME NEW e \in Endpoints, Report(e) PROVE Step
    BY <1>1, <1>5, ReportStep DEF Step
  <1>6. ASSUME NEW kind \in Kinds, Request(kind) PROVE Step
    BY <1>1, <1>6, RequestMade DEF Step
  <1>7. ASSUME NEW fate \in Fates, Transaction(fate) PROVE Step
    <2>1. CASE SendSetup(fate)
      BY <1>1, <1>2, <2>1, SetupStep DEF Step
    <2>2. CASE SendData(fate)
      BY <1>1, <1>2, <2>2, DataStep DEF Step
    <2>3. CASE StatusOut(fate)
      BY <1>1, <2>3, StatusOutStep DEF Step
    <2>4. CASE ReadControl(fate)
      BY <1>1, <2>4, ReadControlStep DEF Step, ControlStep
    <2> QED  BY <1>7, <2>1, <2>2, <2>3, <2>4 DEF Transaction
  <1>8. ASSUME NEW e \in Endpoints, NEW fate \in {"seen", "unseen"}, ReadReport(e, fate)
        PROVE  Step
    BY <1>1, <1>8, ReadReportStep DEF Step
  <1>9. CASE Abandon
    BY <1>1, <1>9, AbandonStep DEF Step, AbandonFacts
  <1>10. CASE ResetBegins
    BY <1>1, <1>10, ResetBeginsStep DEF Step, ResetFacts
  <1>11. CASE ResetEnds
    BY <1>11 DEF ResetEnds, Step, EndFacts
  <1> QED  BY <1>3, <1>4, <1>5, <1>6, <1>7, <1>8, <1>9, <1>10, <1>11 DEF Next

-----------------------------------------------------------------------------
(* Types.                                                                  *)

LEMMA TypedStep ==
  ASSUME IInv, Step
  PROVE  Typed'
  <1>1. /\ dev \in Driver /\ host \in HostState /\ hist \in History
        /\ pc \in {"rx", "tx", "reset"} /\ se0 \in {"off", "held", "polled", "seen"}
        /\ \A e \in Endpoints : dev.ep[e].full => dev.ep[e].report \in 1 .. MaxReports
    BY DEF IInv, Typed, TypeOK
  <1>2. dev' \in Driver
    BY <1>1 DEF Step, vars, RxStep, TxStep, ResetStep, PutStep, RequestStep, SendStep,
         StatusStep, ControlStep, GetStep, AbandonFacts, ResetFacts, EndFacts, SetupFacts,
         DataFacts, BuildFacts, SentFacts, EndpointFacts, ReceivedFacts, Unanswered, Stalled,
         NotTaken, DataTaken, StatusTaken, SendsPacket, GivenUp
  <1>3. host' \in HostState
    BY <1>1 DEF Step, vars, RxStep, TxStep, ResetStep, PutStep, RequestStep, SendStep,
         StatusStep, ControlStep, GetStep, AbandonFacts, ResetFacts, EndFacts, StageFacts,
         SucceedFacts, TakenFacts, ReadFacts, Unanswered, Stalled, NotTaken, DataTaken,
         StatusTaken, GivenUp
  <1>4. hist' \in History
    BY <1>1 DEF Step, vars, RxStep, TxStep, ResetStep, PutStep, RequestStep, SendStep,
         StatusStep, ControlStep, GetStep, AbandonFacts, ResetFacts, EndFacts, SameCounts,
         NewCounts, CountedFacts, Unanswered, Stalled, NotTaken, DataTaken, StatusTaken,
         GivenUp
  <1>5. pc' \in {"rx", "tx", "reset"} /\ se0' \in {"off", "held", "polled", "seen"}
    BY <1>1 DEF Step, vars, RxStep, TxStep, ResetStep, PutStep, RequestStep, SendStep,
         StatusStep, ControlStep, GetStep, AbandonFacts, ResetFacts, EndFacts, GivenUp
  <1>6. ASSUME NEW f \in Endpoints, dev'.ep[f].full
        PROVE  dev'.ep[f].report \in 1 .. MaxReports
    <2>1. CASE \E e \in Endpoints : PutStep(e)
      <3>1. PICK e \in Endpoints : PutStep(e)
        BY <2>1
      <3>2. hist.put[e] + 1 \in 1 .. MaxReports
        BY <1>1, <3>1, UsbAssumption DEF PutStep, History
      <3> QED  BY <1>1, <1>6, <3>1, <3>2 DEF PutStep, EndpointFacts
    <2>2. CASE \E e \in Endpoints : GetStep(e)
      BY <1>1, <1>6, <2>2 DEF GetStep, EndpointFacts
    <2>3. CASE /\ dev'.ep[f].full = dev.ep[f].full
               /\ dev'.ep[f].report = dev.ep[f].report
      BY <1>1, <1>6, <2>3
    <2>4. \/ \E e \in Endpoints : PutStep(e)
          \/ \E e \in Endpoints : GetStep(e)
          \/ dev'.ep[f].full = dev.ep[f].full /\ dev'.ep[f].report = dev.ep[f].report
      BY DEF Step, vars, RxStep, TxStep, ResetStep, RequestStep, SendStep, StatusStep,
           ControlStep, AbandonFacts, ResetFacts, EndFacts, SetupFacts, DataFacts, BuildFacts,
           SentFacts, ReceivedFacts, Unanswered, Stalled, NotTaken, DataTaken, StatusTaken,
           SendsPacket, GivenUp
    <2> QED  BY <2>1, <2>2, <2>3, <2>4
  <1>7. host'.stage \in Stages
    BY <1>3 DEF HostState, Stages
  <1> QED  BY <1>2, <1>3, <1>4, <1>5, <1>6, <1>7 DEF Typed, TypeOK, Stages

-----------------------------------------------------------------------------
(* The host's variables.                                                   *)

LEMMA HostConsistentStep ==
  ASSUME IInv, Step
  PROVE  HostConsistent'
  <1>1. HostConsistent /\ host \in HostState /\ hist.requests \in Nat /\ hist \in History
    BY DEF IInv, Typed, History
  <1>2. host.rq.id \in Nat /\ host.lamps \in Nat /\ host.addr \in Nat
    BY <1>1 DEF HostState, RequestType
  <1>4. CASE UNCHANGED vars \/ RxStep \/ TxStep \/ ResetStep \/ EndFacts
    BY <1>1, <1>4 DEF vars, RxStep, TxStep, ResetStep, EndFacts, HostConsistent, InFlight, InReset
  <1>5. CASE \E e \in Endpoints : PutStep(e)
    BY <1>1, <1>5 DEF PutStep, HostConsistent, InFlight, InReset
  <1>6. ASSUME NEW kind \in Kinds, RequestStep(kind)
        PROVE  HostConsistent'
    <2>1. host.lamps <= hist.requests
      BY <1>1, <1>2 DEF HostConsistent
    <2>2. kind # "none"
      BY <1>6 DEF RequestStep, AllKinds
    <2> QED  BY <1>1, <1>2, <1>6, <2>1, <2>2 DEF RequestStep, HostConsistent, InFlight, InReset
  <1>7. CASE SendStep("SETUP", "setup", StageAfterSetup(host.rq))
    <2>1. StageAfterSetup(host.rq) \in Stages
      BY DEF StageAfterSetup, Stages
    <2>2. /\ StageAfterSetup(host.rq) \notin {"idle", "setup", "statusOut"}
          /\ StageAfterSetup(host.rq) = "in" => WantsData(host.rq)
          /\ StageAfterSetup(host.rq) = "out" => host.rq.kind \in {"lamps", "report"}
          /\ StageAfterSetup(host.rq) = "statusIn" => ~WantsData(host.rq)
      BY DEF StageAfterSetup, WantsData
    <2> QED  BY <1>1, <1>2, <1>7, <2>1, <2>2 DEF SendStep, StageFacts, SameCounts, NewCounts,
                CountedFacts, HostConsistent, InFlight, InReset
  <1>8. CASE SendStep("OUT", "out", "statusIn")
    BY <1>1, <1>2, <1>8 DEF SendStep, StageFacts, SameCounts, NewCounts,
       CountedFacts, HostConsistent, InFlight, InReset, WantsData
  <1>9. ASSUME SucceedFacts(host', host, host.rq.kind), hist'.requests = hist.requests,
               ~InReset, se0' = se0, host.stage # "idle"
        PROVE  HostConsistent'
    BY <1>1, <1>2, <1>9 DEF SucceedFacts, HostConsistent, InFlight, InReset
  <1>10. CASE StatusStep
    BY <1>1, <1>9, <1>10 DEF StatusStep, SameCounts, NewCounts, CountedFacts,
       HostConsistent, InFlight, InReset
  <1>11. CASE ControlStep
    <2>1. CASE Unanswered \/ NotTaken
      BY <1>1, <1>11, <2>1 DEF ControlStep, Unanswered, NotTaken, SameCounts, NewCounts,
         CountedFacts, HostConsistent, InFlight, InReset
    <2>2. CASE Stalled
      BY <1>1, <1>11, <2>2 DEF ControlStep, Stalled, StageFacts, NewCounts,
         CountedFacts, HostConsistent, InFlight, InReset
    <2>3. CASE DataTaken
      BY <1>1, <1>11, <2>3 DEF ControlStep, DataTaken, TakenFacts, NewCounts,
         CountedFacts, HostConsistent, InFlight, InReset, WantsData
    <2>4. CASE StatusTaken
      BY <1>1, <1>9, <1>11, <2>4 DEF ControlStep, StatusTaken, NewCounts, CountedFacts
    <2> QED  BY <1>11, <2>1, <2>2, <2>3, <2>4 DEF ControlStep
  <1>12. CASE \E e \in Endpoints : GetStep(e)
    <2>1. /\ host'.stage = host.stage /\ host'.rq = host.rq /\ host'.got = host.got
          /\ host'.tok = host.tok /\ host'.addr = host.addr /\ host'.config = host.config
          /\ host'.known = host.known /\ host'.lamps = host.lamps
          /\ hist'.requests = hist.requests /\ se0' = se0
      BY <1>12 DEF GetStep, ReadFacts, SameCounts, NewCounts, CountedFacts
    <2> QED  BY <1>1, <2>1 DEF HostConsistent, InFlight, InReset
  <1>13. CASE AbandonFacts
    BY <1>1, <1>2, <1>13 DEF AbandonFacts, GivenUp, HostConsistent, InFlight, InReset
  <1>14. CASE ResetFacts
    BY <1>1, <1>2, <1>14 DEF ResetFacts, GivenUp, HostConsistent, InFlight, InReset
  <1> QED  BY <1>4, <1>5, <1>6, <1>7, <1>8, <1>10, <1>11, <1>12, <1>13, <1>14 DEF Step

-----------------------------------------------------------------------------
(* What the driver has to send.                                            *)

\* Nothing but the endpoints, the address, the reports and the history change.
Still ==
  /\ dev'.rxLen = dev.rxLen /\ dev'.rxToken = dev.rxToken /\ dev'.rx = dev.rx
  /\ dev'.tok = dev.tok /\ dev'.tx = dev.tx /\ dev'.msgLen = dev.msgLen /\ dev'.id = dev.id
  /\ dev'.from = dev.from /\ dev'.newAddr = dev.newAddr /\ dev'.leds = dev.leds
  /\ dev'.reqKind = dev.reqKind /\ dev'.reqLen = dev.reqLen
  /\ host'.stage = host.stage /\ host'.rq = host.rq /\ host'.got = host.got
  /\ host'.tok = host.tok /\ host'.addr = host.addr /\ host'.config = host.config
  /\ host'.known = host.known /\ host'.lamps = host.lamps

LEMMA StillSteps ==
  /\ dev' = dev /\ host' = host => Still
  /\ \A e \in Endpoints : PutStep(e) => Still
  /\ \A e \in Endpoints : GetStep(e) => Still
  <1>1. ASSUME NEW e \in Endpoints, GetStep(e) PROVE Still
    <2>1. CASE host' = host
      BY <1>1, <2>1 DEF GetStep, EndpointFacts, Still
    <2>2. CASE ReadFacts(host', host, e, dev.ep[e].report)
      BY <1>1, <2>2 DEF GetStep, EndpointFacts, ReadFacts, Still
    <2> QED  BY <1>1, <2>1, <2>2 DEF GetStep
  <1> QED  BY <1>1 DEF Still, PutStep, EndpointFacts

LEMMA TransferServedStep ==
  ASSUME IInv, Step
  PROVE  TransferServed'
  <1>1. TransferServed /\ HostConsistent /\ IsRequest(host.rq) /\ dev \in Driver
        /\ host \in HostState
    BY DEF IInv, HostConsistent, Typed, TypeOK
  <1>2. ASSUME Still PROVE TransferServed'
    BY <1>1, <1>2 DEF Still, TransferServed, IsUnderway, SetupPending, Pending, Served,
       WantsData
  <1>3. ASSUME host'.stage \in {"idle", "setup"} PROVE TransferServed'
    BY <1>3 DEF TransferServed, IsUnderway
  <1>4. ASSUME RxStep, dev.rxLen = 1, dev.rxToken = "SETUP", IsUnderway,
               SetupFacts(dev', dev, dev.rx.kind)
        PROVE  TransferServed'
    <2>1. dev.rx = host.rq /\ host' = host
      BY <1>1, <1>4 DEF TransferServed, SetupPending, Served, RxStep
    <2>2. ~WantsData(host.rq) => dev'.msgLen \in {0, NO_MSG}
      BY <1>1, <1>4, <2>1, RequestFields DEF SetupFacts
    <2>3. Served'
      BY <1>4, <2>1, <2>2, PacketFields DEF Served, SetupFacts, WantsData
    <2> QED  BY <2>3 DEF TransferServed
  <1>5. ASSUME RxStep, dev.rxLen = 1, dev.rxToken = "OUT", IsUnderway, DataFacts(dev', dev)
        PROVE  TransferServed'
    <2>1. Served /\ host' = host
      BY <1>1, <1>5 DEF TransferServed, SetupPending, Pending, RxStep
    <2>2. Served'
      BY <1>5, <2>1, PacketFields DEF Served, DataFacts, WantsData
    <2> QED  BY <2>2 DEF TransferServed
  <1>6. CASE RxStep
    <2>1. IsUnderway' = IsUnderway
      BY <1>6 DEF RxStep, IsUnderway
    <2>2. CASE ~IsUnderway
      BY <2>1, <2>2 DEF TransferServed
    <2>3. CASE IsUnderway
      BY <1>2, <1>4, <1>5, <1>6, <2>3, StillSteps DEF RxStep
    <2> QED  BY <2>2, <2>3
  <1>7. CASE TxStep
    <2>1. CASE dev' = dev
      BY <1>2, <1>7, <2>1, StillSteps DEF TxStep
    <2>2. CASE dev.msgLen # NO_MSG /\ BuildFacts(dev', dev, Least(dev.msgLen, PacketSize))
      <3>1. SetupPending => SetupPending'
        BY <1>7, <2>2 DEF SetupPending, Pending, TxStep, BuildFacts
      <3>2. ASSUME Served PROVE Served'
        <4>1. ASSUME dev.msgLen = 0
              PROVE  dev'.tx.len = 0 /\ dev'.msgLen = NO_MSG
          <5>1. Least(dev.msgLen, PacketSize) = 0
            BY <4>1, UsbAssumption DEF Least
          <5> QED  BY <2>2, <5>1, UsbAssumption DEF BuildFacts
        <4>2. ~WantsData(host.rq) => dev.msgLen = 0
          BY <2>2, <3>2 DEF Served
        <4>3. /\ dev'.rxLen = dev.rxLen /\ dev'.rxToken = dev.rxToken /\ dev'.rx = dev.rx
              /\ dev'.id = dev.id /\ dev'.newAddr = dev.newAddr /\ dev'.leds = dev.leds
              /\ dev'.reqKind = dev.reqKind /\ dev'.reqLen = dev.reqLen
              /\ dev'.tx.kind = "DATA" /\ dev'.tx.id = dev.id /\ host' = host
          BY <1>7, <2>2 DEF BuildFacts, TxStep
        <4> QED  BY <2>2, <3>2, <4>1, <4>2, <4>3 DEF Served, WantsData
      <3>3. IsUnderway' = IsUnderway
        BY <1>7 DEF TxStep, IsUnderway
      <3> QED  BY <1>1, <3>1, <3>2, <3>3 DEF TransferServed
    <2> QED  BY <1>7, <2>1, <2>2 DEF TxStep
  <1>8. CASE ResetStep
    <2>1. CASE dev' = dev
      BY <1>2, <1>8, <2>1, StillSteps DEF ResetStep
    <2>2. CASE InReset
      BY <1>1, <1>3, <1>8, <2>2 DEF ResetStep, HostConsistent
    <2> QED  BY <1>8, <2>1, <2>2 DEF ResetStep
  <1>9. CASE SendStep("SETUP", "setup", StageAfterSetup(host.rq))
    <2>1. CASE host' = host
      BY <1>3, <1>9, <2>1 DEF SendStep
    <2>2. CASE ReceivedFacts(dev', dev, "SETUP", host.rq)
               /\ StageFacts(host', host, StageAfterSetup(host.rq))
      <3>1. SetupPending'
        BY <1>1, <1>9, <2>2 DEF SendStep, ReceivedFacts, StageFacts, HostConsistent,
           SetupPending, Pending
      <3> QED  BY <3>1 DEF TransferServed
    <2> QED  BY <1>9, <2>1, <2>2 DEF SendStep
  <1>10. CASE SendStep("OUT", "out", "statusIn")
    <2>1. CASE dev' = dev /\ host' = host
      BY <1>2, <2>1, StillSteps
    <2>2. CASE dev.rxLen = 0 /\ ReceivedFacts(dev', dev, "OUT", host.rq)
      <3>1. Served /\ host.rq.kind \in {"lamps", "report"}
        BY <1>1, <1>10, <2>2 DEF SendStep, HostConsistent, TransferServed, IsUnderway,
           SetupPending, Pending
      <3>2. host'.rq = host.rq
        BY <1>10, <2>2 DEF SendStep, StageFacts
      <3>3. Served'
        BY <2>2, <3>1, <3>2 DEF Served, ReceivedFacts, WantsData
      <3> QED  BY <3>3 DEF TransferServed
    <2> QED  BY <1>10, <2>1, <2>2 DEF SendStep
  <1>11. CASE StatusStep
    BY <1>2, <1>3, <1>11, StillSteps DEF StatusStep, SucceedFacts
  <1>12. ASSUME ControlStep, SendsPacket, host'.rq = host.rq PROVE TransferServed'
    <2>1. Served
      BY <1>1, <1>12 DEF ControlStep, SendsPacket, TransferServed, IsUnderway, SetupPending,
         Pending
    <2>2. Served'
      BY <1>12, <2>1, PacketFields DEF SendsPacket, SentFacts, Served, WantsData
    <2> QED  BY <2>2 DEF TransferServed
  <1>13. CASE ControlStep
    <2>1. CASE Unanswered
      BY <1>2, <2>1, StillSteps DEF Unanswered
    <2>2. CASE Stalled \/ StatusTaken
      BY <1>3, <2>2 DEF Stalled, StatusTaken, StageFacts, SucceedFacts
    <2>3. CASE NotTaken \/ DataTaken
      BY <1>12, <1>13, <2>3 DEF NotTaken, DataTaken, TakenFacts
    <2> QED  BY <1>13, <2>1, <2>2, <2>3 DEF ControlStep
  <1>14. CASE UNCHANGED vars \/ EndFacts \/ (\E e \in Endpoints : PutStep(e) \/ GetStep(e))
    BY <1>2, <1>14, StillSteps DEF vars, EndFacts
  <1>15. CASE (\E kind \in Kinds : RequestStep(kind)) \/ AbandonFacts \/ ResetFacts
    BY <1>3, <1>15 DEF RequestStep, AbandonFacts, ResetFacts, GivenUp
  <1> QED  BY <1>6, <1>7, <1>8, <1>9, <1>10, <1>11, <1>13, <1>14, <1>15 DEF Step

LEMMA OwnDataStep ==
  ASSUME IInv, Step
  PROVE  OwnData'
  <1>1. OwnData /\ TransferServed /\ HostConsistent
    BY DEF IInv
  <1>2. ASSUME hist'.foreign = hist.foreign PROVE OwnData'
    BY <1>1, <1>2 DEF OwnData
  <1>3. CASE ControlStep
    <2>1. SendsPacket => Served
      BY <1>1, <1>3 DEF ControlStep, SendsPacket, TransferServed, IsUnderway, SetupPending,
         Pending
    <2>2. CASE DataTaken
      <3>1. dev.tx.id = host.rq.id
        BY <2>1, <2>2 DEF DataTaken, SendsPacket, Served
      <3>2. hist'.foreign = (hist.foreign \/ dev.tx.id # host.rq.id)
        BY <2>2 DEF DataTaken, NewCounts, CountedFacts
      <3> QED  BY <1>1, <3>1, <3>2 DEF OwnData
    <2>3. CASE StatusTaken
      <3>1. dev.tx.id = host.rq.id /\ dev.tx.len = 0
        BY <1>1, <2>1, <2>3 DEF StatusTaken, SendsPacket, Served, HostConsistent
      <3>2. hist'.foreign = (hist.foreign \/ dev.tx.id # host.rq.id \/ dev.tx.len # 0)
        BY <2>3 DEF StatusTaken, NewCounts, CountedFacts
      <3> QED  BY <1>1, <3>1, <3>2 DEF OwnData
    <2>4. CASE Unanswered \/ Stalled \/ NotTaken
      BY <1>2, <2>4 DEF Unanswered, Stalled, NotTaken, SameCounts, NewCounts, CountedFacts
    <2> QED  BY <1>3, <2>2, <2>3, <2>4 DEF ControlStep
  <1>4. ControlStep \/ hist'.foreign = hist.foreign
    BY DEF Step, vars, RxStep, TxStep, ResetStep, PutStep, RequestStep, SendStep, StatusStep,
       GetStep, AbandonFacts, ResetFacts, EndFacts, SameCounts, NewCounts, CountedFacts, GivenUp
  <1> QED  BY <1>2, <1>3, <1>4

-----------------------------------------------------------------------------
(* Resets and the address.                                                 *)

LEMMA ResetClearsStep ==
  ASSUME IInv, Step
  PROVE  ResetClears'
  <1>1. ResetClears /\ dev \in Driver
    BY DEF IInv, Typed, TypeOK
  <1>2. ASSUME se0' \in {"off", "held"} PROVE ResetClears'
    BY <1>2 DEF ResetClears
  <1>3. ASSUME Still, se0' = se0, dev'.addr = dev.addr PROVE ResetClears'
    BY <1>1, <1>3 DEF Still, ResetClears
  <1>4. CASE RxStep
    <2>1. dev'.rxLen = 0
      BY <1>4 DEF RxStep, SetupFacts, DataFacts
    <2>2. se0' = "seen" => se0 = "seen"
      BY <1>4 DEF RxStep
    <2>3. se0 = "seen" => dev' = dev
      BY <1>1, <1>4 DEF RxStep, ResetClears
    <2> QED  BY <1>1, <2>1, <2>2, <2>3 DEF ResetClears
  <1>5. CASE TxStep
    BY <1>1, <1>5 DEF TxStep, BuildFacts, ResetClears
  <1>6. CASE ResetStep
    BY <1>1, <1>6 DEF ResetStep, SentFacts, ResetClears, InReset
  <1>7. CASE \E e \in Endpoints : PutStep(e)
    BY <1>3, <1>7, StillSteps DEF PutStep, EndpointFacts
  <1>8. CASE UNCHANGED vars
    BY <1>3, <1>8, StillSteps DEF vars
  <1>9. \/ UNCHANGED vars \/ RxStep \/ TxStep \/ ResetStep
        \/ \E e \in Endpoints : PutStep(e)
        \/ se0' \in {"off", "held"}
    BY DEF Step, RequestStep, SendStep, StatusStep, ControlStep, GetStep, AbandonFacts,
       ResetFacts, EndFacts, GivenUp, InReset
  <1> QED  BY <1>2, <1>4, <1>5, <1>6, <1>7, <1>8, <1>9

LEMMA AddressInStepStep ==
  ASSUME IInv, Step
  PROVE  AddressInStep'
  <1>1. AddressInStep /\ HostConsistent /\ TransferServed /\ ResetClears
    BY DEF IInv
  <1>2. ASSUME Still, dev'.addr = dev.addr, se0' = se0 PROVE AddressInStep'
    BY <1>1, <1>2 DEF Still, AddressInStep, InFlight, Pending, InReset
  <1>3. ASSUME ~host'.known \/ InReset' PROVE AddressInStep'
    BY <1>3 DEF AddressInStep, InReset
  <1>4. CASE RxStep
    <2>1. host' = host /\ InReset' = InReset
      BY <1>4 DEF RxStep, InReset
    <2>2. CASE ~host.known \/ InReset
      BY <1>3, <2>1, <2>2 DEF InReset
    <2>3. CASE dev' = dev
      BY <1>1, <2>1, <2>3 DEF AddressInStep, InFlight, Pending, InReset
    <2>4. CASE DataFacts(dev', dev)
      BY <1>1, <2>1, <2>4 DEF DataFacts, AddressInStep, InFlight, Pending, InReset
    <2>5. CASE host.known /\ ~InReset /\ dev.rxLen = 1 /\ dev.rxToken = "SETUP"
               /\ SetupFacts(dev', dev, dev.rx.kind)
      <3>1. dev.rx.kind = "address" => InFlight("address") /\ dev.rx = host.rq
        BY <1>1, <2>5 DEF AddressInStep, Pending
      <3>2. /\ dev'.addr = dev.addr /\ dev'.rxLen = 0
            /\ dev'.newAddr = IF dev.rx.kind = "address" THEN dev.rx.id ELSE dev.newAddr
        BY <2>5 DEF SetupFacts
      <3> QED  BY <1>1, <2>1, <2>5, <3>1, <3>2 DEF AddressInStep, InFlight, Pending, InReset
    <2> QED  BY <1>4, <2>2, <2>3, <2>4, <2>5 DEF RxStep
  <1>5. CASE TxStep
    BY <1>1, <1>5 DEF TxStep, BuildFacts, AddressInStep, InFlight, Pending, InReset
  <1>6. CASE ResetStep
    <2>1. InReset => InReset'
      BY <1>6 DEF ResetStep, InReset
    <2>2. CASE InReset
      BY <1>3, <2>1, <2>2
    <2>3. CASE dev' = dev /\ ~InReset
      BY <1>1, <1>6, <2>3 DEF ResetStep, AddressInStep, InFlight, Pending, InReset
    <2> QED  BY <1>6, <2>2, <2>3 DEF ResetStep
  <1>7. CASE \E kind \in Kinds : RequestStep(kind)
    BY <1>1, <1>7 DEF RequestStep, AddressInStep, InFlight, Pending, InReset
  <1>8. CASE SendStep("SETUP", "setup", StageAfterSetup(host.rq))
    <2>1. CASE dev' = dev /\ host' = host
      BY <1>2, <1>8, <2>1, StillSteps DEF SendStep
    <2>2. CASE ReceivedFacts(dev', dev, "SETUP", host.rq)
      <3>1. host'.stage # "idle" /\ host'.rq = host.rq /\ host'.known = host.known
            /\ host'.addr = host.addr /\ host.stage # "idle" /\ se0' = se0
        BY <1>8, <2>2 DEF SendStep, StageFacts, StageAfterSetup
      <3> QED  BY <1>1, <2>2, <3>1 DEF ReceivedFacts, AddressInStep, InFlight, Pending, InReset
    <2> QED  BY <1>8, <2>1, <2>2 DEF SendStep
  <1>9. CASE SendStep("OUT", "out", "statusIn")
    <2>1. CASE dev' = dev /\ host' = host
      BY <1>2, <1>9, <2>1, StillSteps DEF SendStep
    <2>2. CASE ReceivedFacts(dev', dev, "OUT", host.rq)
      <3>1. host'.rq = host.rq /\ host'.known = host.known /\ host.rq.kind # "address"
            /\ host'.addr = host.addr /\ se0' = se0
        BY <1>1, <1>9, <2>2 DEF SendStep, StageFacts, HostConsistent
      <3> QED  BY <1>1, <2>2, <3>1 DEF ReceivedFacts, AddressInStep, InFlight, Pending, InReset
    <2> QED  BY <1>9, <2>1, <2>2 DEF SendStep
  <1>10. CASE StatusStep
    <2>1. CASE host' = host
      BY <1>2, <1>10, <2>1, StillSteps DEF StatusStep
    <2>2. CASE dev.rxLen = 0 /\ SucceedFacts(host', host, host.rq.kind)
      <3>1. host.rq.kind = "read" /\ dev' = dev /\ se0' = se0
        BY <1>1, <1>10 DEF StatusStep, HostConsistent
      <3> QED  BY <1>1, <2>2, <3>1 DEF SucceedFacts, AddressInStep, InFlight, Pending, InReset
    <2> QED  BY <1>10, <2>1, <2>2 DEF StatusStep
  <1>11. CASE ControlStep
    <2>1. se0' = se0 /\ host.stage \in {"in", "statusIn"}
      BY <1>11 DEF ControlStep
    <2>2. dev.rxLen = 0 => Served
      BY <1>1, <2>1 DEF TransferServed, IsUnderway, SetupPending, Pending
    <2>3. CASE Unanswered
      BY <1>2, <2>1, <2>3, StillSteps DEF Unanswered
    <2>4. CASE Stalled
      <3>1. host.rq.kind # "address" /\ dev' = dev /\ dev.rxLen = 0
        BY <2>2, <2>4 DEF Stalled, Served
      <3> QED  BY <1>1, <2>1, <2>4, <3>1 DEF Stalled, StageFacts, AddressInStep, InFlight,
                  Pending, InReset
    <2>5. ASSUME SendsPacket
          PROVE  /\ dev'.rxLen = 0 /\ dev'.newAddr = dev.newAddr /\ dev'.addr = dev.newAddr
                 /\ Served
      BY <2>2, <2>5 DEF SendsPacket, SentFacts
    <2>6. CASE NotTaken
      BY <1>1, <2>1, <2>5, <2>6 DEF NotTaken, AddressInStep, InFlight, Pending, InReset
    <2>7. CASE DataTaken
      <3>1. host.rq.kind = "read"
        BY <1>1, <2>7 DEF DataTaken, HostConsistent, WantsData
      <3> QED  BY <1>1, <2>1, <2>5, <2>7, <3>1 DEF DataTaken, TakenFacts, AddressInStep,
                  InFlight, Pending, InReset
    <2>8. CASE StatusTaken
      <3>1. host.rq.kind = "address" => dev.newAddr = host.rq.id
        BY <2>5, <2>8 DEF StatusTaken, Served
      <3> QED  BY <1>1, <2>1, <2>5, <2>8, <3>1 DEF StatusTaken, SucceedFacts, AddressInStep,
                  InFlight, Pending, InReset
    <2> QED  BY <1>11, <2>3, <2>4, <2>6, <2>7, <2>8 DEF ControlStep
  <1>12. CASE \E e \in Endpoints : GetStep(e)
    <2>1. PICK e \in Endpoints : GetStep(e)
      BY <1>12
    <2>2. Still /\ dev'.addr = dev.newAddr /\ se0' = se0
      BY <2>1, StillSteps DEF GetStep, EndpointFacts
    <2> QED  BY <1>1, <2>2 DEF Still, AddressInStep, InFlight, Pending, InReset
  <1>13. CASE AbandonFacts
    BY <1>1, <1>13 DEF AbandonFacts, GivenUp, AddressInStep, InFlight, Pending, InReset
  <1>14. CASE ResetFacts
    BY <1>3, <1>14 DEF ResetFacts, InReset
  <1>15. CASE EndFacts
    BY <1>1, <1>15 DEF EndFacts, ResetClears, HostConsistent, AddressInStep, Pending, InReset
  <1>16. CASE UNCHANGED vars \/ \E e \in Endpoints : PutStep(e)
    BY <1>2, <1>16, StillSteps DEF vars, PutStep, EndpointFacts
  <1> QED  BY <1>4, <1>5, <1>6, <1>7, <1>8, <1>9, <1>10, <1>11, <1>12, <1>13, <1>14, <1>15,
              <1>16 DEF Step

-----------------------------------------------------------------------------
(* The lamps.                                                              *)

LEMMA LampsInStepStep ==
  ASSUME IInv, Step
  PROVE  LampsInStep'
  <1>1. /\ LampsInStep /\ HostConsistent /\ TransferServed /\ dev \in Driver
        /\ host \in HostState /\ hist \in History
    BY DEF IInv, Typed, TypeOK
  <1>2. ASSUME Still, hist'.lampIds = hist.lampIds, hist'.orphan = hist.orphan
        PROVE  LampsInStep'
    BY <1>1, <1>2 DEF Still, LampsInStep, InFlight, Pending
  <1>3. SameCounts => hist'.lampIds = hist.lampIds /\ hist'.orphan = hist.orphan
    BY DEF SameCounts, NewCounts, CountedFacts
  <1>4. CASE RxStep
    <2>1. host' = host /\ hist' = hist
      BY <1>4 DEF RxStep
    <2>2. CASE dev' = dev
      BY <1>2, <2>1, <2>2, StillSteps
    <2>3. CASE dev.rxLen = 1 /\ dev.rxToken = "SETUP" /\ SetupFacts(dev', dev, dev.rx.kind)
      BY <1>1, <2>1, <2>3 DEF SetupFacts, LampsInStep, InFlight, Pending
    <2>4. CASE dev.rxLen = 1 /\ dev.rxToken = "OUT" /\ DataFacts(dev', dev)
      <3>1. /\ dev'.rxLen = 0 /\ dev'.rx = dev.rx
            /\ \/ dev'.leds = dev.leds /\ dev'.reqLen = dev.reqLen
               \/ dev.reqLen = 1 /\ dev'.leds = dev.rx.id /\ dev'.reqLen = 0
        BY <2>4 DEF DataFacts
      <3> QED  BY <1>1, <2>1, <2>4, <3>1 DEF LampsInStep, InFlight, Pending
    <2> QED  BY <1>4, <2>2, <2>3, <2>4 DEF RxStep
  <1>5. CASE TxStep
    BY <1>1, <1>5 DEF TxStep, BuildFacts, LampsInStep, InFlight, Pending
  <1>6. CASE ResetStep
    BY <1>1, <1>6 DEF ResetStep, SentFacts, LampsInStep, InFlight, Pending
  <1>7. CASE \E kind \in Kinds : RequestStep(kind)
    BY <1>1, <1>7 DEF RequestStep, LampsInStep, InFlight, Pending
  <1>8. CASE SendStep("SETUP", "setup", StageAfterSetup(host.rq))
    <2>1. CASE dev' = dev /\ host' = host
      BY <1>2, <1>3, <1>8, <2>1, StillSteps DEF SendStep
    <2>2. CASE ReceivedFacts(dev', dev, "SETUP", host.rq)
      <3>1. /\ host'.stage # "idle" /\ host'.rq = host.rq /\ host.stage # "idle"
            /\ host'.lamps = host.lamps /\ host.lamps <= host.rq.id /\ IsRequest(host.rq)
        BY <1>1, <1>8, <2>2 DEF SendStep, StageFacts, StageAfterSetup, HostConsistent
      <3>2. hist'.lampIds = hist.lampIds /\ hist'.orphan = hist.orphan
        BY <1>3, <1>8 DEF SendStep
      <3> QED  BY <1>1, <2>2, <3>1, <3>2 DEF ReceivedFacts, LampsInStep, InFlight, Pending
    <2> QED  BY <1>8, <2>1, <2>2 DEF SendStep
  <1>9. CASE SendStep("OUT", "out", "statusIn")
    <2>1. CASE dev' = dev /\ host' = host
      BY <1>2, <1>3, <1>9, <2>1, StillSteps DEF SendStep
    <2>2. CASE ReceivedFacts(dev', dev, "OUT", host.rq)
      <3>1. /\ host'.stage # "idle" /\ host'.rq = host.rq /\ host.stage # "idle"
            /\ host'.lamps = host.lamps /\ host.lamps <= host.rq.id /\ IsRequest(host.rq)
        BY <1>1, <1>9, <2>2 DEF SendStep, StageFacts, HostConsistent
      <3>2. hist'.lampIds = hist.lampIds /\ hist'.orphan = hist.orphan
        BY <1>3, <1>9 DEF SendStep
      <3> QED  BY <1>1, <2>2, <3>1, <3>2 DEF ReceivedFacts, LampsInStep, InFlight, Pending
    <2> QED  BY <1>9, <2>1, <2>2 DEF SendStep
  <1>10. CASE StatusStep
    <2>1. CASE host' = host
      BY <1>2, <1>3, <1>10, <2>1, StillSteps DEF StatusStep
    <2>2. CASE SucceedFacts(host', host, host.rq.kind)
      <3>1. /\ host.rq.kind = "read" /\ dev' = dev
            /\ hist'.lampIds = hist.lampIds /\ hist'.orphan = hist.orphan
        BY <1>1, <1>3, <1>10 DEF StatusStep, HostConsistent
      <3> QED  BY <1>1, <2>2, <3>1 DEF SucceedFacts, LampsInStep, InFlight, Pending
    <2> QED  BY <1>10, <2>1, <2>2 DEF StatusStep
  <1>11. CASE ControlStep
    <2>1. hist'.lampIds = hist.lampIds /\ hist'.orphan = hist.orphan
      BY <1>11 DEF ControlStep, Unanswered, Stalled, NotTaken, DataTaken, StatusTaken,
         SameCounts, NewCounts, CountedFacts
    <2>2. dev.rxLen = 0 => Served
      BY <1>1, <1>11 DEF ControlStep, TransferServed, IsUnderway, SetupPending, Pending
    <2>3. CASE Unanswered
      BY <1>2, <2>1, <2>3, StillSteps DEF Unanswered
    <2>4. CASE Stalled
      <3>1. host.rq.kind = "lamps" => dev.reqLen = 0
        BY <2>2, <2>4 DEF Stalled, Served
      <3> QED  BY <1>1, <2>1, <2>4, <3>1 DEF Stalled, StageFacts, LampsInStep, InFlight,
                  Pending
    <2>5. ASSUME SendsPacket
          PROVE  /\ dev'.rxLen = 0 /\ dev.rxLen = 0 /\ dev'.rx = dev.rx
                 /\ dev'.leds = dev.leds /\ dev'.reqLen = dev.reqLen
                 /\ host.rq.kind = "lamps" => dev.reqLen = 0 /\ dev.leds = host.rq.id
      BY <2>2, <2>5 DEF SendsPacket, SentFacts, Served
    <2>6. CASE NotTaken
      BY <1>1, <2>1, <2>5, <2>6 DEF NotTaken, LampsInStep, InFlight, Pending
    <2>7. CASE DataTaken
      <3>1. host.rq.kind = "read"
        BY <1>1, <2>7 DEF DataTaken, HostConsistent, WantsData
      <3> QED  BY <1>1, <2>1, <2>5, <2>7, <3>1 DEF DataTaken, TakenFacts, LampsInStep,
                  InFlight, Pending
    <2>8. CASE StatusTaken
      <3>1. dev.leds \in Nat
        BY <1>1 DEF Driver
      <3> QED  BY <1>1, <2>1, <2>5, <2>8, <3>1 DEF StatusTaken, SucceedFacts, LampsInStep,
                  InFlight, Pending
    <2> QED  BY <1>11, <2>3, <2>4, <2>6, <2>7, <2>8 DEF ControlStep
  <1>12. CASE AbandonFacts
    BY <1>1, <1>12 DEF AbandonFacts, GivenUp, LampsInStep, InFlight, Pending
  <1>13. CASE ResetFacts
    BY <1>1, <1>13 DEF ResetFacts, GivenUp, LampsInStep, InFlight, Pending
  <1>14. CASE UNCHANGED vars \/ EndFacts \/ (\E e \in Endpoints : PutStep(e) \/ GetStep(e))
    BY <1>2, <1>3, <1>14, StillSteps DEF vars, EndFacts, PutStep, GetStep
  <1> QED  BY <1>4, <1>5, <1>6, <1>7, <1>8, <1>9, <1>10, <1>11, <1>12, <1>13, <1>14 DEF Step

-----------------------------------------------------------------------------
(* Replies.                                                                *)

LEMMA ReplyInStepStep ==
  ASSUME IInv, Step
  PROVE  ReplyInStep'
  <1>1. /\ ReplyInStep /\ HostConsistent /\ TransferServed /\ dev \in Driver
        /\ host \in HostState /\ hist \in History
    BY DEF IInv, Typed, TypeOK
  <1>2. /\ host.rq.has \in Nat /\ host.rq.wLength \in Nat /\ host.got \in Nat
        /\ host.tok \in {0, 1} /\ dev.tok \in {0, 1} /\ dev.msgLen \in 0 .. NO_MSG
        /\ dev.from \in Nat /\ Wanted \in Nat /\ IsRequest(host.rq)
    BY <1>1 DEF HostState, RequestType, Driver, HostConsistent, Wanted, Least
  <1>3. Faultless' => Faultless
    <2>1. \/ hist'.faults = hist.faults
          \/ hist'.faults \in Nat /\ hist'.faults >= hist.faults
      BY DEF Step, vars, RxStep, TxStep, ResetStep, PutStep, RequestStep, SendStep, StatusStep,
         ControlStep, Unanswered, Stalled, NotTaken, DataTaken, StatusTaken, GetStep,
         AbandonFacts, ResetFacts, EndFacts, SameCounts, NewCounts, GivenUp
    <2>2. hist.faults \in Nat
      BY <1>1 DEF History
    <2> QED  BY <2>1, <2>2 DEF Faultless
  <1>4. ASSUME hist'.refused = hist.refused, hist'.gap = hist.gap, Still PROVE ReplyInStep'
    BY <1>1, <1>3, <1>4 DEF Still, ReplyInStep, IsUnderway, Pending, InStep, Wanted
  <1>5. SameCounts => hist'.refused = hist.refused /\ hist'.gap = hist.gap
    BY DEF SameCounts, NewCounts, CountedFacts
  <1>6. ASSUME hist'.refused = hist.refused, hist'.gap = hist.gap, ~IsUnderway' PROVE ReplyInStep'
    BY <1>1, <1>3, <1>6 DEF ReplyInStep
  <1>7. CASE RxStep
    <2>1. host' = host /\ hist' = hist
      BY <1>7 DEF RxStep
    <2>2. CASE dev' = dev
      BY <1>4, <2>1, <2>2, StillSteps
    <2>3. CASE ~IsUnderway
      BY <1>6, <2>1, <2>3 DEF IsUnderway
    <2>4. CASE IsUnderway /\ dev.rxLen = 1 /\ dev.rxToken = "SETUP"
               /\ SetupFacts(dev', dev, dev.rx.kind)
      <3>1. dev.rx = host.rq /\ host.got = 0 /\ host.tok = 1
        BY <1>1, <2>4 DEF TransferServed, SetupPending, Served
      <3>2. /\ dev'.tx.kind = "NAK" /\ dev'.rxLen = 0 /\ dev'.tok = 0 /\ dev'.from = 0
            /\ host.rq.kind = "lamps" => dev'.reqLen = 1
            /\ host.rq.kind = "read" => dev'.msgLen = Least(host.rq.has, host.rq.wLength)
        BY <2>4, <3>1, PacketFields DEF SetupFacts
      <3>3. Wanted \in 0 .. NO_MSG - 1 /\ NO_MSG \in Nat
        BY <1>2, RequestFields DEF Wanted, NO_MSG
      <3>4. host.stage = "in" => InStep'
        <4>1. host.stage = "in" => dev'.msgLen = Wanted
          BY <1>1, <3>2 DEF HostConsistent, WantsData, Wanted
        <4>2. Wanted' = Wanted
          BY <2>1 DEF Wanted
        <4> QED  BY <2>1, <3>1, <3>2, <3>3, <4>1, <4>2 DEF InStep, Toggle
      <3> QED  BY <1>1, <1>3, <2>1, <3>2, <3>4 DEF ReplyInStep
    <2>5. CASE IsUnderway /\ dev.rxLen = 1 /\ dev.rxToken = "OUT" /\ DataFacts(dev', dev)
      <3>1. Served /\ ~Pending("SETUP")
        BY <1>1, <2>5 DEF TransferServed, SetupPending, Pending
      <3>2. Faultless => /\ host.stage \notin {"in", "out"}
                         /\ dev.tx.kind = "STALL" => host.rq.kind = "report"
                         /\ host.rq.kind = "lamps" => dev.reqLen = 1
        BY <1>1, <2>5, <3>1 DEF ReplyInStep, HostConsistent, Served, WantsData
      <3>3. Faultless /\ dev'.tx.kind = "STALL" => host.rq.kind = "report"
        BY <2>5, <3>1, <3>2 DEF DataFacts, Served
      <3>4. dev'.rxLen = 0
        BY <2>5 DEF DataFacts
      <3> QED  BY <1>1, <1>3, <2>1, <3>2, <3>3, <3>4 DEF ReplyInStep
    <2> QED  BY <1>7, <2>2, <2>3, <2>4, <2>5 DEF RxStep
  <1>8. CASE TxStep
    <2>1. host' = host /\ hist' = hist
      BY <1>8 DEF TxStep
    <2>2. CASE dev' = dev
      BY <1>4, <2>1, <2>2, StillSteps
    <2>3. ASSUME NEW len, len = Least(dev.msgLen, PacketSize), BuildFacts(dev', dev, len),
                 dev.tx.kind # "DATA", dev.msgLen # NO_MSG
          PROVE  ReplyInStep'
      <3>1. /\ dev'.rxLen = dev.rxLen /\ dev'.rxToken = dev.rxToken
            /\ dev'.reqLen = dev.reqLen /\ dev'.tok = Toggle(dev.tok)
            /\ dev'.from = dev.from + len /\ dev'.tx.kind = "DATA"
            /\ dev'.tx.pid = Toggle(dev.tok) /\ dev'.tx.from = dev.from /\ dev'.tx.len = len
            /\ dev'.msgLen = IF len < PacketSize THEN NO_MSG ELSE dev.msgLen - PacketSize
            /\ len \in 0 .. PacketSize /\ len <= dev.msgLen
            /\ len < PacketSize => len = dev.msgLen
        BY <2>3 DEF BuildFacts
      <3>2. ASSUME InStep PROVE InStep'
        <4>1. /\ dev.from = host.got /\ Toggle(dev.tok) = host.tok
              /\ dev.from + dev.msgLen = Wanted
          BY <2>3, <3>2 DEF InStep
        <4>2. Wanted' = Wanted
          BY <2>1 DEF Wanted
        <4>3. /\ dev'.tx.from = host.got /\ dev'.tx.pid = host.tok /\ dev'.tok = host.tok
              /\ dev'.from = host.got + dev'.tx.len
          BY <3>1, <4>1
        <4>4. CASE len < PacketSize
          BY <1>2, <2>1, <3>1, <4>1, <4>2, <4>3, <4>4 DEF InStep
        <4>5. CASE ~(len < PacketSize)
          <5>1. len = PacketSize /\ PacketSize \in 1 .. 8
            BY <3>1, <4>5, UsbAssumption
          <5>2. dev'.msgLen = dev.msgLen - PacketSize
            BY <3>1, <4>5
          <5>3. dev'.msgLen # NO_MSG
            BY <1>2, <5>1, <5>2 DEF NO_MSG
          <5>4. dev'.from + dev'.msgLen = Wanted
            BY <1>2, <3>1, <4>1, <5>1, <5>2 DEF NO_MSG
          <5> QED  BY <2>1, <3>1, <4>2, <4>3, <5>1, <5>3, <5>4 DEF InStep
        <4> QED  BY <4>4, <4>5
      <3> QED  BY <1>1, <1>3, <2>1, <3>1, <3>2 DEF ReplyInStep, IsUnderway, Pending
    <2> QED  BY <1>8, <2>2, <2>3 DEF TxStep
  <1>9. CASE ResetStep
    <2>1. CASE dev' = dev
      BY <1>4, <1>9, <2>1, StillSteps DEF ResetStep
    <2>2. CASE InReset
      BY <1>1, <1>6, <1>9, <2>2 DEF ResetStep, HostConsistent, IsUnderway
    <2> QED  BY <1>9, <2>1, <2>2 DEF ResetStep
  <1>10. CASE SendStep("SETUP", "setup", StageAfterSetup(host.rq))
    <2>1. hist'.refused = hist.refused /\ hist'.gap = hist.gap
      BY <1>5, <1>10 DEF SendStep
    <2>2. CASE host' = host
      BY <1>6, <1>10, <2>1, <2>2 DEF SendStep, IsUnderway
    <2>3. CASE ReceivedFacts(dev', dev, "SETUP", host.rq)
      BY <1>1, <1>3, <2>1, <2>3 DEF ReceivedFacts, ReplyInStep, Pending
    <2> QED  BY <1>10, <2>2, <2>3 DEF SendStep
  <1>11. CASE SendStep("OUT", "out", "statusIn")
    <2>1. hist'.refused = hist.refused /\ hist'.gap = hist.gap
      BY <1>5, <1>11 DEF SendStep
    <2>2. CASE dev' = dev /\ host' = host
      BY <1>4, <2>1, <2>2, StillSteps
    <2>3. CASE hist'.faults > hist.faults
      <3>1. ~Faultless'
        BY <1>1, <2>3 DEF Faultless, History
      <3> QED  BY <3>1 DEF ReplyInStep
    <2>4. CASE dev.rxLen = 0 /\ ReceivedFacts(dev', dev, "OUT", host.rq)
               /\ StageFacts(host', host, "statusIn")
      <3>1. host.stage = "out" /\ ~Pending("SETUP") /\ IsUnderway
        BY <1>11, <2>4 DEF SendStep, Pending, IsUnderway
      <3> QED  BY <1>1, <1>3, <2>1, <2>4, <3>1 DEF ReceivedFacts, StageFacts, ReplyInStep
    <2> QED  BY <1>11, <2>2, <2>3, <2>4 DEF SendStep
  <1>12. CASE StatusStep
    <2>1. hist'.refused = hist.refused /\ hist'.gap = hist.gap
      BY <1>5, <1>12 DEF StatusStep
    <2> QED  BY <1>4, <1>6, <1>12, <2>1, StillSteps DEF StatusStep, SucceedFacts, IsUnderway
  <1>13. CASE ControlStep
    <2>1. host.stage \in {"in", "statusIn"} /\ IsUnderway
      BY <1>13 DEF ControlStep, IsUnderway
    <2>2. CASE Unanswered
      BY <1>4, <1>5, <2>2, StillSteps DEF Unanswered
    <2>3. CASE Stalled
      <3>1. Faultless => host.rq.kind = "report"
        BY <1>1, <2>1, <2>3 DEF Stalled, ReplyInStep, Pending
      <3>2. /\ hist'.refused = (hist.refused \/ host.rq.kind # "report")
            /\ hist'.gap = hist.gap /\ ~IsUnderway'
        BY <2>3 DEF Stalled, NewCounts, CountedFacts, StageFacts, IsUnderway
      <3> QED  BY <1>1, <1>3, <3>1, <3>2 DEF ReplyInStep
    <2>4. ASSUME SendsPacket
          PROVE  /\ dev'.rxLen = 0 /\ dev.rxLen = 0 /\ dev'.tx.kind = "NAK"
                 /\ dev'.reqLen = dev.reqLen /\ dev'.tok = dev.tok /\ dev'.from = dev.from
                 /\ dev'.msgLen = dev.msgLen /\ dev.tx.kind = "DATA"
                 /\ Faultless /\ host.stage = "in" => InStep
      BY <1>1, <2>1, <2>4, PacketFields DEF SendsPacket, SentFacts, ReplyInStep, Pending
    <2>5. CASE NotTaken
      <3>1. Faultless' => host.stage # "in"
        BY <1>1, <1>3, <2>4, <2>5 DEF NotTaken, InStep, Faultless, History
      <3>2. hist'.refused = hist.refused /\ hist'.gap = hist.gap /\ host' = host
        BY <1>5, <2>5 DEF NotTaken
      <3> QED  BY <1>1, <1>3, <2>1, <2>4, <2>5, <3>1, <3>2 DEF NotTaken, ReplyInStep
    <2>6. CASE DataTaken
      <3> DEFINE len == dev.tx.len
      <3>1. /\ host.stage = "in" /\ host'.rq = host.rq /\ host'.got = host.got + len
            /\ host'.tok = Toggle(host.tok)
            /\ host'.stage = IF len < PacketSize \/ host.got + len >= host.rq.wLength
                             THEN "statusOut" ELSE "in"
            /\ Faultless => InStep /\ dev.tx.kind = "DATA"
        BY <2>4, <2>6 DEF DataTaken, TakenFacts
      <3>2. len \in 0 .. PacketSize
        BY <1>1 DEF Driver, PacketType
      <3>3. Wanted' = Wanted /\ Wanted <= host.rq.wLength /\ NO_MSG \in Nat
        BY <1>2, <3>1 DEF Wanted, Least, NO_MSG
      <3>4. Faultless =>
              /\ dev.tx.from = host.got /\ dev.tok = host.tok /\ dev.from = host.got + len
              /\ IF dev.msgLen = NO_MSG THEN len < PacketSize /\ dev.from = Wanted
                 ELSE len = PacketSize /\ dev.from + dev.msgLen = Wanted
        BY <3>1 DEF InStep
      <3>5. Faultless /\ host'.stage = "statusOut" => host'.got = Wanted
        <4>1. CASE dev.msgLen = NO_MSG
          BY <3>1, <3>4, <4>1
        <4>2. CASE dev.msgLen # NO_MSG
          BY <1>2, <3>1, <3>2, <3>3, <3>4, <4>2, UsbAssumption
        <4> QED  BY <4>1, <4>2
      <3>6. Faultless => ~IsCutShort(host')
        BY <3>1, <3>5 DEF IsCutShort, Wanted
      <3>7. Faultless /\ host'.stage = "in" => InStep'
        <4> SUFFICES ASSUME Faultless, host'.stage = "in" PROVE InStep'
          OBVIOUS
        <4>1. len = PacketSize /\ dev.msgLen # NO_MSG
          BY <3>1, <3>2, <3>4, UsbAssumption
        <4>2. dev.from = host'.got /\ dev.from + dev.msgLen = Wanted
          BY <3>1, <3>4, <4>1
        <4>3. Toggle(dev.tok) = host'.tok
          BY <3>1, <3>4
        <4> QED  BY <2>4, <2>6, <3>3, <4>1, <4>2, <4>3 DEF InStep, DataTaken
      <3>8. /\ hist'.gap = (hist.gap \/ dev.tx.from # host.got \/ IsCutShort(host'))
            /\ hist'.refused = hist.refused
        BY <2>6 DEF DataTaken, NewCounts, CountedFacts
      <3>9. host.rq.kind = "read"
        BY <1>1, <3>1 DEF HostConsistent, WantsData
      <3>10. host'.stage # "out" /\ dev'.rxLen = 0 /\ dev'.tx.kind = "NAK"
        BY <2>4, <2>6, <3>1 DEF DataTaken
      <3>11. Faultless' => ~hist'.refused /\ ~hist'.gap
        BY <1>1, <1>3, <3>4, <3>6, <3>8 DEF ReplyInStep
      <3>12. Faultless' /\ host'.stage = "in" => InStep'
        BY <1>3, <3>7
      <3> QED  BY <3>1, <3>9, <3>10, <3>11, <3>12 DEF ReplyInStep
    <2>7. CASE StatusTaken
      BY <1>6, <2>7 DEF StatusTaken, SucceedFacts, IsUnderway, NewCounts, CountedFacts
    <2> QED  BY <1>13, <2>2, <2>3, <2>5, <2>6, <2>7 DEF ControlStep
  <1>14. CASE UNCHANGED vars \/ EndFacts \/ (\E e \in Endpoints : PutStep(e) \/ GetStep(e))
    BY <1>4, <1>5, <1>14, StillSteps DEF vars, EndFacts, PutStep, GetStep
  <1>15. CASE (\E kind \in Kinds : RequestStep(kind)) \/ AbandonFacts \/ ResetFacts
    BY <1>6, <1>15 DEF RequestStep, AbandonFacts, ResetFacts, GivenUp, IsUnderway
  <1> QED  BY <1>7, <1>8, <1>9, <1>10, <1>11, <1>12, <1>13, <1>14, <1>15 DEF Step

-----------------------------------------------------------------------------
(* Lost reports: what puts the toggles out of step is paid for by a missed *)
(* transaction or by a reset of the toggles.                               *)

Payment == IF hist.resyncs > 0 THEN hist.resyncs - 1 ELSE 0

LEMMA LossNumbers ==
  ASSUME Typed
  PROVE  /\ hist.faults \in Nat /\ hist.resyncs \in Nat /\ Payment \in Nat
         /\ Allowed = 2 * hist.faults + 2 * Payment /\ Allowed \in Nat
         /\ Resets \in Nat
         /\ \A e \in Endpoints :
              /\ hist.put[e] \in Nat /\ Len(host.reports[e]) \in Nat
              /\ Lost(e) \in Int /\ OutOfStep(e) \in {0, 1}
              /\ dev.ep[e].tok \in {0, 1} /\ host.expect[e] \in {0, 1}
  <1>1. hist.faults \in Nat /\ hist.resyncs \in Nat
    BY DEF Typed, History
  <1>2. ASSUME NEW e \in Endpoints
        PROVE  /\ hist.put[e] \in Nat /\ Len(host.reports[e]) \in Nat
               /\ dev.ep[e].tok \in {0, 1} /\ host.expect[e] \in {0, 1}
               /\ Lost(e) \in Int /\ OutOfStep(e) \in {0, 1}
    <2>1. host.reports[e] \in Seq(1 .. MaxReports)
      BY DEF Typed, HostState
    <2>2. hist.put[e] \in 0 .. MaxReports
      BY DEF Typed, History
    <2>3. Len(host.reports[e]) \in Nat
      BY <2>1, LenProperties
    <2>4. Lost(e) \in Int
      BY <2>2, <2>3 DEF Lost
    <2>5. dev.ep[e].tok \in {0, 1} /\ host.expect[e] \in {0, 1}
      BY DEF Typed, TypeOK, Driver, HostState
    <2> QED  BY <2>2, <2>3, <2>4, <2>5 DEF OutOfStep
  <1>3. Payment \in Nat
    BY <1>1 DEF Payment
  <1>4. Allowed = 2 * hist.faults + 2 * Payment
    BY DEF Allowed, Payment
  <1>5. Allowed \in Nat
    BY <1>1, <1>3, <1>4
  <1>6. Resets \in Nat
    BY DEF Resets, One
  <1> QED  BY <1>1, <1>2, <1>3, <1>4, <1>5, <1>6

LEMMA NextNumbers ==
  ASSUME Typed'
  PROVE  /\ hist'.faults \in Nat /\ hist'.resyncs \in Nat /\ Payment' \in Nat
         /\ Allowed' = 2 * hist'.faults + 2 * Payment' /\ Allowed' \in Nat
         /\ Resets' \in Nat
         /\ \A e \in Endpoints : Lost(e)' \in Int /\ OutOfStep(e)' \in {0, 1}
  <1>1. hist'.faults \in Nat /\ hist'.resyncs \in Nat
    BY DEF Typed, History
  <1>2. Payment' \in Nat
    BY <1>1 DEF Payment
  <1>3. Allowed' = 2 * hist'.faults + 2 * Payment'
    BY DEF Allowed, Payment
  <1>4. Allowed' \in Nat
    BY <1>1, <1>2, <1>3
  <1>5. Resets' \in Nat
    BY DEF Resets, One
  <1>6. ASSUME NEW e \in Endpoints PROVE Lost(e)' \in Int /\ OutOfStep(e)' \in {0, 1}
    <2>1. host'.reports[e] \in Seq(1 .. MaxReports) /\ hist'.put[e] \in 0 .. MaxReports
      BY DEF Typed, HostState, History
    <2>2. Len(host'.reports[e]) \in Nat
      BY <2>1, LenProperties
    <2> QED  BY <2>1, <2>2 DEF Lost, OutOfStep
  <1> QED  BY <1>1, <1>2, <1>3, <1>4, <1>5, <1>6

\* What an endpoint loses is paid for.
LEMMA Balance ==
  ASSUME IInv, Typed', NEW e \in Endpoints, NEW k \in Int,
         Lost(e)' + OutOfStep(e)' <= Lost(e) + OutOfStep(e) + k,
         Resets' + k <= Resets + (Allowed' - Allowed)
  PROVE  Lost(e)' + OutOfStep(e)' + Resets' <= Allowed'
  <1>1. Lost(e) + OutOfStep(e) + Resets <= Allowed
    BY DEF IInv, LossesPaid, LossesWithin
  <1>2. /\ Lost(e) \in Int /\ OutOfStep(e) \in {0, 1} /\ Allowed \in Nat /\ Resets \in Nat
        /\ Allowed' \in Nat /\ Resets' \in Nat
    <2>1. Typed
      BY DEF IInv
    <2>2. /\ Lost(e) \in Int /\ OutOfStep(e) \in {0, 1} /\ Allowed \in Nat
          /\ Resets \in Nat
      BY <2>1, LossNumbers
    <2>3. Allowed' \in Nat /\ Resets' \in Nat
      BY NextNumbers
    <2> QED  BY <2>2, <2>3
  <1>3. Lost(e)' \in Int /\ OutOfStep(e)' \in {0, 1}
    BY NextNumbers
  <1> DEFINE a == Lost(e) + OutOfStep(e)
             b == Lost(e)' + OutOfStep(e)'
             r == Resets
             m == Allowed
             s == Resets'
             n == Allowed'
  <1>4. a \in Int /\ b \in Int /\ r \in Nat /\ m \in Nat /\ s \in Nat /\ n \in Nat
    BY <1>2, <1>3
  <1>5. a + r <= m /\ b <= a + k /\ s + k <= r + (n - m)
    BY <1>1
  <1> HIDE DEF a, b, r, m, s, n
  <1>6. b + s <= n
    BY <1>4, <1>5
  <1> QED  BY <1>6 DEF b, s, n

\* Nothing of what the bound is made of gets worse.
SameLosses == \A e \in Endpoints : Lost(e)' = Lost(e) /\ OutOfStep(e)' = OutOfStep(e)
SameToggles ==
  /\ dev'.ep = dev.ep /\ host'.expect = host.expect /\ host'.reports = host.reports
  /\ hist'.put = hist.put

LEMMA TogglesKept ==
  ASSUME SameToggles
  PROVE  SameLosses
  BY DEF SameLosses, OutOfStep, NextToken, Lost, SameToggles

LEMMA LossesKept ==
  ASSUME IInv, Typed', SameLosses, Resets' <= Resets + (Allowed' - Allowed)
  PROVE  LossesWithin'
  <1> SUFFICES ASSUME NEW e \in Endpoints
               PROVE  Lost(e)' + OutOfStep(e)' + Resets' <= Allowed'
    BY DEF LossesWithin
  <1>1. Lost(e)' = Lost(e) /\ OutOfStep(e)' = OutOfStep(e)
    BY DEF SameLosses
  <1>2. Lost(e) \in Int /\ OutOfStep(e) \in {0, 1} /\ Resets' \in Nat
    <2>1. Typed
      BY DEF IInv
    <2>2. /\ Lost(e) \in Int /\ OutOfStep(e) \in {0, 1} /\ Allowed \in Nat
          /\ Resets \in Nat
      BY <2>1, LossNumbers
    <2>3. Allowed' \in Nat /\ Resets' \in Nat
      BY NextNumbers
    <2> QED  BY <2>2, <2>3
  <1> DEFINE a == Lost(e) + OutOfStep(e)
  <1>3. a \in Int /\ Lost(e)' + OutOfStep(e)' = a
    BY <1>1, <1>2
  <1> HIDE DEF a
  <1>4. a <= a + 0
    BY <1>3
  <1>5. Resets' + 0 <= Resets + (Allowed' - Allowed)
    BY <1>2
  <1>6. Lost(e)' + OutOfStep(e)' <= Lost(e) + OutOfStep(e) + 0
    BY <1>3, <1>4 DEF a
  <1> QED  BY <1>5, <1>6, Balance

LEMMA AllowedKept ==
  ASSUME Typed, Typed', hist'.resyncs = hist.resyncs, hist'.faults >= hist.faults
  PROVE  /\ Allowed' >= Allowed
         /\ hist'.faults > hist.faults => Allowed' >= Allowed + 2
  <1>1. Payment' = Payment
    BY DEF Payment
  <1>2. /\ hist.faults \in Nat /\ hist'.faults \in Nat /\ Payment \in Nat
        /\ Allowed = 2 * hist.faults + 2 * Payment
        /\ Allowed' = 2 * hist'.faults + 2 * Payment'
    BY LossNumbers, NextNumbers
  <1> QED  BY <1>1, <1>2

LEMMA ResyncsCountedStep ==
  ASSUME IInv, Step
  PROVE  ResyncsCounted'
  <1>1. /\ ResyncsCounted /\ HostConsistent /\ host \in HostState /\ hist.resyncs \in Nat
        /\ TransferServed
    BY LossNumbers DEF IInv, LossesPaid, Typed, History
  <1>2. ASSUME Still, hist'.resyncs = hist.resyncs, host'.expect = host.expect
        PROVE  ResyncsCounted'
    BY <1>1, <1>2 DEF Still, ResyncsCounted, ResetsToggles, InFlight, Pending
  <1>3. SameCounts => hist'.resyncs = hist.resyncs
    BY DEF SameCounts, NewCounts, CountedFacts
  <1>4. CASE RxStep
    <2>1. host' = host /\ hist' = hist
      BY <1>4 DEF RxStep
    <2>2. dev' = dev \/ dev'.rxLen = 0
      BY <1>4 DEF RxStep, SetupFacts, DataFacts
    <2> QED  BY <1>1, <2>1, <2>2 DEF ResyncsCounted, ResetsToggles, InFlight, Pending
  <1>5. CASE TxStep
    BY <1>1, <1>5 DEF TxStep, BuildFacts, ResyncsCounted, ResetsToggles, InFlight, Pending
  <1>6. CASE ResetStep
    BY <1>1, <1>6 DEF ResetStep, SentFacts, ResyncsCounted, ResetsToggles, InFlight, Pending
  <1>7. CASE \E kind \in Kinds : RequestStep(kind)
    BY <1>1, <1>7 DEF RequestStep, ResyncsCounted, ResetsToggles, InFlight, Pending
  <1>8. CASE SendStep("SETUP", "setup", StageAfterSetup(host.rq))
    <2>1. CASE dev' = dev /\ host' = host
      BY <1>2, <1>3, <1>8, <2>1, StillSteps DEF SendStep
    <2>2. CASE ReceivedFacts(dev', dev, "SETUP", host.rq)
      <3>1. /\ host'.stage # "idle" /\ host'.rq = host.rq /\ host.stage # "idle"
            /\ host'.config = host.config /\ host'.expect = host.expect
            /\ hist'.resyncs = hist.resyncs
        BY <1>3, <1>8, <2>2 DEF SendStep, StageFacts, StageAfterSetup
      <3> QED  BY <1>1, <2>2, <3>1 DEF ReceivedFacts, ResyncsCounted, ResetsToggles, InFlight,
                  Pending
    <2> QED  BY <1>8, <2>1, <2>2 DEF SendStep
  <1>9. CASE SendStep("OUT", "out", "statusIn")
    <2>1. CASE dev' = dev /\ host' = host
      BY <1>2, <1>3, <1>9, <2>1, StillSteps DEF SendStep
    <2>2. CASE ReceivedFacts(dev', dev, "OUT", host.rq)
      <3>1. /\ host'.stage # "idle" /\ host'.rq = host.rq /\ host.stage # "idle"
            /\ host'.config = host.config /\ host'.expect = host.expect
            /\ hist'.resyncs = hist.resyncs
        BY <1>3, <1>9, <2>2 DEF SendStep, StageFacts
      <3> QED  BY <1>1, <2>2, <3>1 DEF ReceivedFacts, ResyncsCounted, ResetsToggles, InFlight,
                  Pending
    <2> QED  BY <1>9, <2>1, <2>2 DEF SendStep
  <1>10. ASSUME SucceedFacts(host', host, host.rq.kind), hist'.resyncs = hist.resyncs,
                dev'.rxLen = 0, host.stage # "idle"
         PROVE  ResyncsCounted'
    BY <1>1, <1>10 DEF SucceedFacts, ResyncsCounted, ResetsToggles, InFlight, Pending
  <1>11. CASE StatusStep
    BY <1>2, <1>3, <1>10, <1>11, StillSteps DEF StatusStep
  <1>12. CASE ControlStep
    <2>1. hist'.resyncs = hist.resyncs /\ host.stage # "idle"
      BY <1>12 DEF ControlStep, Unanswered, Stalled, NotTaken, DataTaken, StatusTaken,
         SameCounts, NewCounts, CountedFacts
    <2>2. CASE Unanswered
      BY <1>2, <2>1, <2>2, StillSteps DEF Unanswered
    <2>3. CASE Stalled
      BY <1>1, <2>1, <2>3 DEF Stalled, StageFacts, ResyncsCounted, ResetsToggles, InFlight,
         Pending
    <2>4. SendsPacket => dev'.rxLen = 0
      BY DEF SendsPacket, SentFacts
    <2>5. CASE NotTaken
      BY <1>1, <2>1, <2>4, <2>5 DEF NotTaken, ResyncsCounted, ResetsToggles, InFlight, Pending
    <2>6. CASE DataTaken
      <3>1. host.rq.kind = "read" /\ host'.rq = host.rq
        BY <1>1, <2>6 DEF DataTaken, HostConsistent, WantsData, TakenFacts
      <3> QED  BY <1>1, <2>1, <2>4, <2>6, <3>1 DEF DataTaken, TakenFacts, ResyncsCounted,
                  ResetsToggles, InFlight, Pending
    <2>7. CASE StatusTaken
      BY <1>10, <2>1, <2>4, <2>7 DEF StatusTaken
    <2> QED  BY <1>12, <2>2, <2>3, <2>5, <2>6, <2>7 DEF ControlStep
  <1>13. CASE \E e \in Endpoints : GetStep(e)
    <2>1. Still /\ hist'.resyncs = hist.resyncs /\ host.config
      BY <1>3, <1>13, StillSteps DEF GetStep
    <2>2. hist.resyncs > 0 /\ ~(ResetsToggles /\ hist.resyncs = 1)
      BY <1>1, <2>1 DEF ResyncsCounted, HostConsistent, ResetsToggles
    <2>3. ~(hist'.resyncs = 0 \/ (ResetsToggles' /\ hist'.resyncs = 1))
      BY <1>1, <2>1, <2>2 DEF Still, ResetsToggles, InFlight
    <2> QED  BY <1>1, <2>1, <2>3 DEF Still, ResyncsCounted, ResetsToggles, InFlight, Pending
  <1>14. CASE AbandonFacts
    BY <1>1, <1>14 DEF AbandonFacts, GivenUp, ResyncsCounted, ResetsToggles, InFlight, Pending
  <1>15. CASE ResetFacts
    BY <1>1, <1>15 DEF ResetFacts, GivenUp, ResyncsCounted, ResetsToggles, InFlight, Pending
  <1>16. CASE UNCHANGED vars \/ EndFacts \/ \E e \in Endpoints : PutStep(e)
    BY <1>2, <1>16, StillSteps DEF vars, EndFacts, PutStep
  <1> QED  BY <1>4, <1>5, <1>6, <1>7, <1>8, <1>9, <1>11, <1>12, <1>13, <1>14, <1>15, <1>16
           DEF Step

LEMMA NotMoreResets ==
  ASSUME HostWill' => HostWill, SetupWill' => SetupWill, DeviceWill' => DeviceWill
  PROVE  Resets' <= Resets
  BY DEF Resets, One

LEMMA NotMore ==
  ASSUME IInv, Typed', SameLosses, hist'.resyncs = hist.resyncs,
         hist'.faults >= hist.faults, Resets' <= Resets
  PROVE  LossesWithin'
  <1>1. Typed
    BY DEF IInv
  <1>2. Allowed' >= Allowed
    BY <1>1, AllowedKept
  <1>3. Allowed \in Nat /\ Resets \in Nat
    BY <1>1, LossNumbers
  <1>4. Allowed' \in Nat /\ Resets' \in Nat
    BY NextNumbers
  <1>5. Resets' <= Resets + (Allowed' - Allowed)
    <2> DEFINE r == Resets
               s == Resets'
               m == Allowed
               n == Allowed'
    <2>1. r \in Nat /\ s \in Nat /\ m \in Nat /\ n \in Nat /\ s <= r /\ n >= m
      BY <1>2, <1>3, <1>4
    <2> HIDE DEF r, s, m, n
    <2>2. s <= r + (n - m)
      BY <2>1
    <2> QED  BY <2>2 DEF r, s, m, n
  <1> QED  BY <1>5, LossesKept

\* What becomes of the host's and the device's toggles when one resets its own.
LEMMA ResetPays ==
  ASSUME IInv, Typed', \A e \in Endpoints : Lost(e)' = Lost(e), Resets' + 1 <= Resets,
         Allowed' >= Allowed
  PROVE  LossesWithin'
  <1> SUFFICES ASSUME NEW e \in Endpoints
               PROVE  Lost(e)' + OutOfStep(e)' + Resets' <= Allowed'
    BY DEF LossesWithin
  <1>1. Typed
    BY DEF IInv
  <1>2. Lost(e) \in Int /\ OutOfStep(e) \in {0, 1} /\ Allowed \in Nat /\ Resets \in Nat
    BY <1>1, LossNumbers
  <1>3. Allowed' \in Nat /\ Resets' \in Nat /\ OutOfStep(e)' \in {0, 1}
    BY NextNumbers
  <1>4. Lost(e)' = Lost(e)
    OBVIOUS
  <1> DEFINE a == Lost(e)
             b == OutOfStep(e)
             c == OutOfStep(e)'
             r == Resets
             s == Resets'
             m == Allowed
             n == Allowed'
  <1>5. /\ a \in Int /\ b \in {0, 1} /\ c \in {0, 1} /\ r \in Nat /\ s \in Nat
        /\ m \in Nat /\ n \in Nat
    BY <1>2, <1>3
  <1>6. s + 1 <= r /\ n >= m
    OBVIOUS
  <1> HIDE DEF a, b, c, r, s, m, n
  <1>7. a + c <= a + b + 1 /\ s + 1 <= r + (n - m)
    BY <1>5, <1>6
  <1>8. Lost(e)' + OutOfStep(e)' <= Lost(e) + OutOfStep(e) + 1
    BY <1>4, <1>7 DEF a, b, c
  <1>9. Resets' + 1 <= Resets + (Allowed' - Allowed)
    BY <1>7 DEF r, s, m, n
  <1> QED  BY <1>8, <1>9, Balance

\* One endpoint may lose as much as is paid.
LEMMA OneEndpointPays ==
  ASSUME IInv, Typed', NEW e \in Endpoints, NEW k \in Nat,
         \A f \in Endpoints \ {e} : Lost(f)' = Lost(f) /\ OutOfStep(f)' = OutOfStep(f),
         Lost(e)' + OutOfStep(e)' <= Lost(e) + OutOfStep(e) + k,
         Resets' + k <= Resets + (Allowed' - Allowed)
  PROVE  LossesWithin'
  <1> SUFFICES ASSUME NEW f \in Endpoints
               PROVE  Lost(f)' + OutOfStep(f)' + Resets' <= Allowed'
    BY DEF LossesWithin
  <1>1. CASE f = e
    BY <1>1, Balance
  <1>2. CASE f # e
    <2>1. Lost(f)' = Lost(f) /\ OutOfStep(f)' = OutOfStep(f)
      BY <1>2
    <2>2. Typed
      BY DEF IInv
    <2>3. Lost(f) \in Int /\ OutOfStep(f) \in {0, 1}
      BY <2>2, LossNumbers
    <2> DEFINE a == Lost(f)
               b == OutOfStep(f)
    <2>4. a \in Int /\ b \in {0, 1}
      BY <2>3
    <2> HIDE DEF a, b
    <2>5. a + b <= a + b + k
      BY <2>4
    <2>6. Lost(f)' + OutOfStep(f)' <= Lost(f) + OutOfStep(f) + k
      BY <2>1, <2>5 DEF a, b
    <2> QED  BY <2>6, Balance
  <1> QED  BY <1>1, <1>2

LEMMA LossesWithinStep ==
  ASSUME IInv, Step, Typed'
  PROVE  LossesWithin'
  <1>1. /\ ResyncsCounted /\ HostConsistent /\ Typed /\ TransferServed
        /\ host \in HostState /\ hist \in History /\ dev \in Driver
    BY DEF IInv, LossesPaid, Typed, TypeOK
  <1>2. hist.faults \in Nat /\ hist.resyncs \in Nat
    BY <1>1 DEF History
  <1>3. ASSUME SameToggles, hist'.resyncs = hist.resyncs, hist'.faults >= hist.faults,
               HostWill' => HostWill, SetupWill' => SetupWill, DeviceWill' => DeviceWill
        PROVE  LossesWithin'
    BY <1>3, TogglesKept, NotMoreResets, NotMore
  <1>4. SameCounts => /\ hist'.resyncs = hist.resyncs /\ hist'.faults >= hist.faults
                      /\ hist'.put = hist.put
    BY DEF SameCounts, NewCounts, CountedFacts
  <1>5. ASSUME dev' = dev, host' = host, SameCounts \/ hist' = hist PROVE LossesWithin'
    <2>1. /\ hist'.resyncs = hist.resyncs /\ hist'.faults >= hist.faults
          /\ hist'.put = hist.put
      BY <1>2, <1>4, <1>5
    <2> QED  BY <1>3, <1>5, <2>1 DEF SameToggles, HostWill, SetupWill, DeviceWill,
                ResetsToggles, InFlight, Pending
  <1>6. CASE RxStep
    <2>1. host' = host /\ hist' = hist /\ hist'.faults >= hist.faults
      BY <1>2, <1>6 DEF RxStep
    <2>2. CASE dev' = dev
      BY <1>5, <2>1, <2>2
    <2>3. CASE SetupFacts(dev', dev, dev.rx.kind) /\ dev.rx.kind # "interface"
      BY <1>3, <2>1, <2>3 DEF SetupFacts, SameToggles, HostWill, SetupWill, DeviceWill,
         ResetsToggles, InFlight, Pending
    <2>4. CASE DataFacts(dev', dev)
      BY <1>3, <2>1, <2>4 DEF DataFacts, SameToggles, HostWill, SetupWill, DeviceWill,
         ResetsToggles, InFlight, Pending
    <2>5. CASE /\ dev.rxLen = 1 /\ dev.rxToken = "SETUP" /\ dev.rx.kind = "interface"
               /\ SetupFacts(dev', dev, dev.rx.kind)
      <3>1. DeviceWill /\ ~DeviceWill'
        BY <2>5 DEF DeviceWill, Pending, SetupFacts
      <3>2. HostWill' = HostWill /\ SetupWill' = SetupWill
        BY <2>1 DEF HostWill, SetupWill, ResetsToggles, InFlight
      <3>3. Resets' + 1 <= Resets
        BY <3>1, <3>2 DEF Resets, One
      <3>4. \A e \in Endpoints : Lost(e)' = Lost(e)
        BY <2>1, <2>5 DEF Lost, SetupFacts
      <3>5. Allowed' >= Allowed
        BY <1>1, <2>1, AllowedKept
      <3> QED  BY <3>3, <3>4, <3>5, ResetPays
    <2> QED  BY <1>6, <2>2, <2>3, <2>4, <2>5 DEF RxStep
  <1>7. CASE TxStep
    <2>1. host' = host /\ hist' = hist /\ hist'.faults >= hist.faults
      BY <1>2, <1>7 DEF TxStep
    <2>2. dev'.ep = dev.ep /\ DeviceWill' = DeviceWill
      BY <1>7 DEF TxStep, BuildFacts, DeviceWill, Pending
    <2> QED  BY <1>3, <2>1, <2>2 DEF SameToggles, HostWill, SetupWill, ResetsToggles, InFlight
  <1>8. CASE ResetStep
    <2>1. host' = host /\ hist' = hist /\ hist'.faults >= hist.faults
      BY <1>2, <1>8 DEF ResetStep
    <2>2. dev'.ep = dev.ep /\ DeviceWill' = DeviceWill
      BY <1>8 DEF ResetStep, SentFacts, DeviceWill, Pending
    <2> QED  BY <1>3, <2>1, <2>2 DEF SameToggles, HostWill, SetupWill, ResetsToggles, InFlight
  <1>9. CASE \E e \in Endpoints : PutStep(e)
    <2>1. PICK e \in Endpoints : PutStep(e)
      BY <1>9
    <2>2. /\ host' = host /\ hist'.faults >= hist.faults /\ hist'.resyncs = hist.resyncs
          /\ Still
      <3>1. Still
        BY <2>1, StillSteps
      <3>2. host' = host /\ hist'.faults = hist.faults /\ hist'.resyncs = hist.resyncs
        BY <2>1 DEF PutStep
      <3> QED  BY <1>2, <3>1, <3>2
    <2>3. ASSUME NEW f \in Endpoints PROVE Lost(f)' = Lost(f) /\ OutOfStep(f)' = OutOfStep(f)
      <3>1. CASE f # e
        <4>1. dev'.ep[f] = dev.ep[f] /\ hist'.put[f] = hist.put[f]
          BY <1>1, <2>1, <3>1 DEF PutStep, EndpointFacts, History
        <4> QED  BY <2>2, <4>1 DEF Lost, OutOfStep, NextToken
      <3>2. CASE f = e
        <4>1. /\ ~dev.ep[e].full /\ dev'.ep[e].full /\ dev'.ep[e].tok = Toggle(dev.ep[e].tok)
              /\ hist'.put[e] = hist.put[e] + 1
          BY <1>1, <2>1 DEF PutStep, EndpointFacts, History
        <4>2. hist.put[e] \in Nat /\ Len(host.reports[e]) \in Nat
          BY <1>1, LossNumbers
        <4>3. Lost(e)' = Lost(e)
          BY <2>2, <4>1, <4>2 DEF Lost
        <4>4. OutOfStep(e)' = OutOfStep(e)
          BY <2>2, <4>1 DEF OutOfStep, NextToken
        <4> QED  BY <3>2, <4>3, <4>4
      <3> QED  BY <3>1, <3>2
    <2>4. HostWill' = HostWill /\ SetupWill' = SetupWill /\ DeviceWill' = DeviceWill
      BY <2>2 DEF Still, HostWill, SetupWill, DeviceWill, ResetsToggles, InFlight, Pending
    <2> QED  BY <2>2, <2>3, <2>4, NotMoreResets, NotMore DEF SameLosses
  <1>10. ASSUME NEW kind \in Kinds, RequestStep(kind) PROVE LossesWithin'
    <2>1. SameToggles /\ hist'.faults = hist.faults
      BY <1>10 DEF RequestStep, SameToggles
    <2>2. ~HostWill /\ ~SetupWill /\ DeviceWill' = DeviceWill
      BY <1>10 DEF RequestStep, HostWill, SetupWill, DeviceWill, ResetsToggles, InFlight,
         Pending
    <2>3. CASE kind \notin {"configuration", "interface"}
      <3>1. ~HostWill' /\ ~SetupWill' /\ hist'.resyncs = hist.resyncs
        BY <1>10, <2>3 DEF RequestStep, HostWill, SetupWill, ResetsToggles, InFlight
      <3> QED  BY <1>2, <1>3, <2>1, <2>2, <3>1
    <2>4. CASE kind \in {"configuration", "interface"}
      <3> DEFINE k == IF hist.resyncs > 0 THEN 2 ELSE 0
      <3>1. hist'.resyncs = hist.resyncs + 1
        BY <1>10, <2>4 DEF RequestStep
      <3>2. Allowed' = Allowed + k
        <4>1. Payment' = Payment + (IF hist.resyncs > 0 THEN 1 ELSE 0)
          BY <1>2, <3>1 DEF Payment
        <4>2. /\ Payment \in Nat /\ Allowed = 2 * hist.faults + 2 * Payment
              /\ Allowed' = 2 * hist'.faults + 2 * Payment'
          BY <1>1, LossNumbers, NextNumbers
        <4> QED  BY <1>2, <2>1, <4>1, <4>2
      <3>3. Resets' <= Resets + k
        <4>1. CASE hist.resyncs > 0
          BY <2>2, <4>1 DEF Resets, One
        <4>2. CASE ~(hist.resyncs > 0)
          <5>1. kind = "configuration"
            BY <1>1, <1>10, <2>4, <4>2 DEF RequestStep, ResyncsCounted
          <5>2. ~HostWill' /\ ~SetupWill'
            BY <1>2, <1>10, <3>1, <4>2, <5>1 DEF RequestStep, HostWill, SetupWill
          <5> QED  BY <2>2, <4>2, <5>2 DEF Resets, One
        <4> QED  BY <4>1, <4>2
      <3>4. Allowed \in Nat /\ k \in Nat
        BY <1>1, LossNumbers
      <3> HIDE DEF k
      <3>5. Allowed' - Allowed = k
        BY <3>2, <3>4
      <3> QED  BY <2>1, <3>3, <3>5, TogglesKept, LossesKept
    <2> QED  BY <2>3, <2>4
  <1>11. CASE SendStep("SETUP", "setup", StageAfterSetup(host.rq))
    <2>1. CASE dev' = dev /\ host' = host
      BY <1>5, <1>11, <2>1 DEF SendStep
    <2>2. CASE dev.rxLen = 0 /\ ReceivedFacts(dev', dev, "SETUP", host.rq)
      <3>1. SameCounts /\ host.stage = "setup"
        BY <1>11 DEF SendStep
      <3>2. /\ SameToggles /\ host'.stage # "idle" /\ host'.rq = host.rq
            /\ hist'.resyncs = hist.resyncs
        BY <1>4, <1>11, <2>2, <3>1 DEF SendStep, ReceivedFacts, StageFacts, StageAfterSetup,
           SameToggles
      <3>3. /\ HostWill' = HostWill /\ ~DeviceWill
            /\ DeviceWill' => SetupWill
        BY <2>2, <3>1, <3>2 DEF HostWill, DeviceWill, SetupWill, ResetsToggles, InFlight,
           Pending, ReceivedFacts
      <3>4. CASE host' = host /\ hist'.faults > hist.faults
        <4>1. SetupWill' = SetupWill
          BY <3>4 DEF SetupWill
        <4>2. Resets' <= Resets + 1
          BY <3>3, <4>1 DEF Resets, One
        <4>3. Allowed' >= Allowed + 2
          BY <1>1, <1>2, <3>1, <3>2, <3>4, AllowedKept DEF SameCounts, NewCounts
        <4>4. Resets \in Nat /\ Resets' \in Nat /\ Allowed \in Nat /\ Allowed' \in Nat
          BY <1>1, LossNumbers, NextNumbers
        <4> DEFINE r == Resets
                   s == Resets'
                   m == Allowed
                   n == Allowed'
        <4>5. r \in Nat /\ s \in Nat /\ m \in Nat /\ n \in Nat /\ s <= r + 1 /\ n >= m + 2
          BY <4>2, <4>3, <4>4
        <4> HIDE DEF r, s, m, n
        <4>6. s <= r + (n - m)
          BY <4>5
        <4>7. Resets' <= Resets + (Allowed' - Allowed)
          BY <4>6 DEF r, s, m, n
        <4> QED  BY <3>2, <4>7, TogglesKept, LossesKept
      <3>5. CASE StageFacts(host', host, StageAfterSetup(host.rq))
        <4>1. ~SetupWill'
          BY <3>5 DEF StageFacts, StageAfterSetup, SetupWill
        <4>2. Resets' <= Resets
          BY <3>3, <4>1 DEF Resets, One
        <4>3. hist'.faults >= hist.faults
          BY <1>4, <3>1
        <4> QED  BY <3>2, <4>2, <4>3, TogglesKept, NotMore
      <3>6. dev' # dev
        BY <2>2 DEF ReceivedFacts
      <3> QED  BY <1>11, <3>4, <3>5, <3>6 DEF SendStep
    <2> QED  BY <1>11, <2>1, <2>2 DEF SendStep
  <1>12. CASE SendStep("OUT", "out", "statusIn")
    <2>1. CASE dev' = dev /\ host' = host
      BY <1>5, <1>12, <2>1 DEF SendStep
    <2>2. CASE ReceivedFacts(dev', dev, "OUT", host.rq)
      <3>1. SameCounts /\ host.rq.kind \in {"lamps", "report"}
        BY <1>1, <1>12 DEF SendStep, HostConsistent
      <3>2. SameToggles /\ host'.rq = host.rq
        BY <1>4, <1>12, <2>2, <3>1 DEF SendStep, ReceivedFacts, StageFacts, SameToggles
      <3>3. ~HostWill' /\ ~SetupWill' /\ ~DeviceWill'
        BY <2>2, <3>1, <3>2 DEF HostWill, DeviceWill, SetupWill, ResetsToggles, InFlight,
           Pending, ReceivedFacts
      <3> QED  BY <1>3, <1>4, <3>1, <3>2, <3>3
    <2> QED  BY <1>12, <2>1, <2>2 DEF SendStep
  <1>13. CASE StatusStep
    <2>1. CASE host' = host
      BY <1>5, <1>13, <2>1 DEF StatusStep
    <2>2. CASE SucceedFacts(host', host, host.rq.kind)
      <3>1. SameCounts /\ host.rq.kind = "read" /\ dev' = dev
        BY <1>1, <1>13 DEF StatusStep, HostConsistent
      <3>2. SameToggles /\ host'.rq = host.rq
        BY <1>4, <2>2, <3>1 DEF SucceedFacts, SameToggles
      <3>3. ~HostWill' /\ ~SetupWill' /\ DeviceWill' = DeviceWill
        BY <3>1, <3>2 DEF HostWill, DeviceWill, SetupWill, ResetsToggles, InFlight, Pending
      <3> QED  BY <1>3, <1>4, <3>1, <3>2, <3>3
    <2> QED  BY <1>13, <2>1, <2>2 DEF StatusStep
  <1>14. CASE ControlStep
    <2>1. /\ hist'.resyncs = hist.resyncs /\ hist'.faults >= hist.faults
          /\ hist'.put = hist.put /\ host.stage \in {"in", "statusIn"}
      BY <1>14 DEF ControlStep, Unanswered, Stalled, NotTaken, DataTaken, StatusTaken,
         SameCounts, NewCounts, CountedFacts
    <2>2. CASE Unanswered
      BY <1>5, <2>2 DEF Unanswered
    <2>3. CASE Stalled
      <3>1. SameToggles /\ ~HostWill' /\ ~SetupWill' /\ DeviceWill' = DeviceWill
        BY <2>1, <2>3 DEF Stalled, StageFacts, SameToggles, HostWill, SetupWill, DeviceWill,
           ResetsToggles, InFlight, Pending
      <3> QED  BY <1>3, <2>1, <3>1
    <2>4. SendsPacket => dev'.ep = dev.ep /\ DeviceWill' = DeviceWill /\ ~DeviceWill
      BY DEF SendsPacket, SentFacts, DeviceWill, Pending
    <2>5. CASE NotTaken
      <3>1. SameToggles /\ HostWill' = HostWill /\ SetupWill' = SetupWill
        BY <2>1, <2>4, <2>5 DEF NotTaken, SameToggles, HostWill, SetupWill, ResetsToggles,
           InFlight
      <3> QED  BY <1>3, <2>1, <2>4, <2>5, <3>1 DEF NotTaken
    <2>6. CASE DataTaken
      <3>1. host.rq.kind = "read"
        BY <1>1, <2>6 DEF DataTaken, HostConsistent, WantsData
      <3>2. SameToggles /\ ~HostWill' /\ ~SetupWill'
        BY <2>1, <2>4, <2>6, <3>1 DEF DataTaken, TakenFacts, SameToggles, HostWill, SetupWill,
           ResetsToggles, InFlight
      <3> QED  BY <1>3, <2>1, <2>4, <2>6, <3>2 DEF DataTaken
    <2>7. CASE StatusTaken
      <3>1. SucceedFacts(host', host, host.rq.kind) /\ dev'.ep = dev.ep /\ ~DeviceWill'
        BY <2>4, <2>7 DEF StatusTaken
      <3>2. ~HostWill' /\ ~SetupWill'
        BY <3>1 DEF SucceedFacts, HostWill, SetupWill, ResetsToggles, InFlight
      <3>3. CASE host'.expect = host.expect
        <4>1. SameToggles
          BY <2>1, <3>1, <3>3 DEF SucceedFacts, SameToggles
        <4> QED  BY <1>3, <2>1, <3>1, <3>2, <4>1
      <3>4. CASE host'.expect # host.expect
        <4>1. ResetsToggles /\ host'.expect = [e \in Endpoints |-> 0]
          BY <2>1, <3>1, <3>4 DEF SucceedFacts, ResetsToggles, InFlight
        <4>2. HostWill
          BY <1>1, <1>2, <3>4, <4>1 DEF ResyncsCounted, HostWill
        <4>3. Resets' + 1 <= Resets
          BY <3>1, <3>2, <4>2 DEF Resets, One
        <4>4. \A e \in Endpoints : Lost(e)' = Lost(e)
          BY <2>1, <3>1 DEF Lost, SucceedFacts
        <4>5. Allowed' >= Allowed
          BY <1>1, <2>1, AllowedKept
        <4> QED  BY <4>3, <4>4, <4>5, ResetPays
      <3> QED  BY <3>3, <3>4
    <2> QED  BY <1>14, <2>2, <2>3, <2>5, <2>6, <2>7 DEF ControlStep
  <1>15. CASE \E e \in Endpoints : GetStep(e)
    <2>1. PICK e \in Endpoints : GetStep(e)
      BY <1>15
    <2>2. /\ Still /\ SameCounts /\ hist'.resyncs = hist.resyncs /\ hist'.put = hist.put
          /\ hist'.faults >= hist.faults
      BY <1>4, <2>1, StillSteps DEF GetStep
    <2>3. /\ dev.ep[e].full /\ ~dev'.ep[e].full /\ dev'.ep[e].tok = dev.ep[e].tok
          /\ \A f \in Endpoints \ {e} : dev'.ep[f] = dev.ep[f]
      BY <2>1 DEF GetStep, EndpointFacts
    <2>4. Resets' = Resets
      BY <2>2 DEF Still, Resets, HostWill, SetupWill, DeviceWill, ResetsToggles, InFlight,
         Pending
    <2>5. /\ Allowed' >= Allowed
          /\ hist'.faults > hist.faults => Allowed' >= Allowed + 2
      BY <1>1, <2>2, AllowedKept
    <2>6. /\ Allowed \in Nat /\ Allowed' \in Nat /\ Resets \in Nat
          /\ hist.put[e] \in Nat /\ Len(host.reports[e]) \in Nat
          /\ dev.ep[e].tok \in {0, 1} /\ host.expect[e] \in {0, 1}
      BY <1>1, LossNumbers, NextNumbers
    <2>7. hist.put[e] - Len(host.reports[e]) = Lost(e) + 1 /\ Lost(e) \in Int
      BY <2>3, <2>6 DEF Lost
    <2>8. ASSUME NEW f \in Endpoints, f # e
          PROVE  Lost(f)' = Lost(f) /\ OutOfStep(f)' = OutOfStep(f)
      <3>1. dev'.ep[f] = dev.ep[f]
        BY <2>3, <2>8
      <3>2. host'.expect[f] = host.expect[f] /\ host'.reports[f] = host.reports[f]
        BY <1>1, <2>1, <2>8 DEF GetStep, ReadFacts, HostState
      <3> QED  BY <2>2, <3>1, <3>2 DEF Lost, OutOfStep, NextToken
    <2>9. CASE host' = host /\ hist'.faults > hist.faults
      <3>1. Lost(e)' = Lost(e) + 1
        BY <2>2, <2>3, <2>6, <2>9 DEF Lost
      <3>2. OutOfStep(e) \in {0, 1} /\ OutOfStep(e)' \in {0, 1}
        BY DEF OutOfStep
      <3> DEFINE a == Lost(e)
                 b == OutOfStep(e)
                 c == OutOfStep(e)'
                 r == Resets
                 m == Allowed
                 n == Allowed'
      <3>3. /\ a \in Int /\ b \in {0, 1} /\ c \in {0, 1} /\ r \in Nat /\ m \in Nat
            /\ n \in Nat /\ n >= m + 2
        BY <2>5, <2>6, <2>7, <2>9, <3>2
      <3> HIDE DEF a, b, c, r, m, n
      <3>4. a + 1 + c <= a + b + 2 /\ r + 2 <= r + (n - m)
        BY <3>3
      <3>5. Lost(e)' + OutOfStep(e)' <= Lost(e) + OutOfStep(e) + 2
        BY <3>1, <3>4 DEF a, b, c
      <3>6. Resets' + 2 <= Resets + (Allowed' - Allowed)
        BY <2>4, <3>4 DEF r, m, n
      <3> QED  BY <2>8, <3>5, <3>6, OneEndpointPays
    <2>10. CASE host' = host /\ dev.ep[e].tok # host.expect[e]
      <3>1. Lost(e)' = Lost(e) + 1
        BY <2>2, <2>3, <2>6, <2>10 DEF Lost
      <3>2. OutOfStep(e) = 1 /\ OutOfStep(e)' = 0
        BY <2>3, <2>6, <2>10 DEF OutOfStep, NextToken, Toggle
      <3> DEFINE a == Lost(e)
                 r == Resets
                 m == Allowed
                 n == Allowed'
      <3>3. a \in Int /\ r \in Nat /\ m \in Nat /\ n \in Nat /\ n >= m
        BY <2>5, <2>6, <2>7
      <3> HIDE DEF a, r, m, n
      <3>4. a + 1 + 0 <= a + 1 + 0 /\ r + 0 <= r + (n - m)
        BY <3>3
      <3>5. Lost(e)' + OutOfStep(e)' <= Lost(e) + OutOfStep(e) + 0
        BY <3>1, <3>2, <3>4 DEF a
      <3>6. Resets' + 0 <= Resets + (Allowed' - Allowed)
        BY <2>4, <3>4 DEF r, m, n
      <3> QED  BY <2>8, <3>5, <3>6, OneEndpointPays
    <2>11. CASE dev.ep[e].tok = host.expect[e] /\ ReadFacts(host', host, e, dev.ep[e].report)
      <3>1. Len(host'.reports[e]) = Len(host.reports[e]) + 1
        <4>1. host.reports[e] \in Seq(1 .. MaxReports) /\ dev.ep[e].report \in 1 .. MaxReports
          BY <1>1, <2>3 DEF HostState, Typed
        <4>2. host'.reports[e] = Append(host.reports[e], dev.ep[e].report)
          BY <1>1, <2>11 DEF ReadFacts, HostState
        <4> QED  BY <4>1, <4>2, AppendProperties
      <3>2. Lost(e)' = Lost(e)
        BY <2>2, <2>3, <2>6, <2>7, <3>1 DEF Lost
      <3>3. host'.expect[e] = Toggle(host.expect[e])
        BY <1>1, <2>11 DEF ReadFacts, HostState
      <3>4. OutOfStep(e)' = OutOfStep(e)
        BY <2>3, <2>6, <2>11, <3>3 DEF OutOfStep, NextToken, Toggle
      <3>5. SameLosses
        BY <2>8, <3>2, <3>4 DEF SameLosses
      <3>6. Resets' <= Resets
        BY <2>4, <2>6
      <3> QED  BY <2>2, <3>5, <3>6, NotMore
    <2> QED  BY <2>1, <2>9, <2>10, <2>11 DEF GetStep
  <1>16. CASE AbandonFacts \/ ResetFacts
    <2>1. /\ dev' = dev /\ host'.stage = "idle" /\ SameToggles
          /\ hist'.resyncs = hist.resyncs /\ hist'.faults = hist.faults
      BY <1>16 DEF AbandonFacts, ResetFacts, GivenUp, SameToggles
    <2>2. ~HostWill' /\ ~SetupWill' /\ DeviceWill' = DeviceWill
      BY <2>1 DEF HostWill, SetupWill, DeviceWill, ResetsToggles, InFlight, Pending
    <2> QED  BY <1>2, <1>3, <2>1, <2>2
  <1>17. CASE UNCHANGED vars \/ EndFacts
    BY <1>5, <1>17 DEF vars, EndFacts
  <1> QED  BY <1>6, <1>7, <1>8, <1>9, <1>10, <1>11, <1>12, <1>13, <1>14, <1>15, <1>16, <1>17
           DEF Step

-----------------------------------------------------------------------------
(* The invariant holds, and what follows from it.                          *)

LEMMA InitInvariant ==
  ASSUME Init
  PROVE  IInv
  <1> DEFINE ep == usbInit
             none == NoRequest
             nomsg == NO_MSG
             nothing == "NONE"
             zero == [e \in Endpoints |-> 0]
             empty == [e \in Endpoints |-> <<>>]
  <1>1. /\ ep \in [Endpoints -> [tok : {0, 1}, full : BOOLEAN, report : Nat]]
        /\ \A e \in Endpoints : ep[e].tok = 1 /\ ~ep[e].full
    BY DEF usbInit
  <1>2. none \in RequestType /\ none.kind = "none" /\ none.id = 0 /\ IsRequest(none)
    BY DEF NoRequest, RequestType, IsRequest, NO_MSG
  <1>3. nomsg \in 0 .. NO_MSG /\ nothing \in {"NONE", "SET_LED"}
    BY DEF NO_MSG
  <1>4. zero \in [Endpoints -> {0, 1}] /\ zero \in [Endpoints -> 0 .. MaxReports]
    BY UsbAssumption
  <1>5. empty \in [Endpoints -> Seq(1 .. MaxReports)]
    BY EmptySeq
  <1>6. dev = [rxLen |-> 0, rxToken |-> "OUT", rx |-> none, tok |-> 0, tx |-> NAK,
               msgLen |-> nomsg, rw |-> FALSE, id |-> 0, from |-> 0, newAddr |-> 0,
               addr |-> 0, config |-> 0, leds |-> 0, reqKind |-> nothing, reqLen |-> 0,
               ep |-> ep]
    BY DEF Init
  <1>7. host = [stage |-> "idle", rq |-> none, got |-> 0, tok |-> 0, addr |-> 0,
                config |-> FALSE, known |-> TRUE, lamps |-> 0,
                expect |-> zero, reports |-> empty]
    BY DEF Init
  <1>8. hist = [requests |-> 0, put |-> zero, faults |-> 0, breaks |-> 0, resyncs |-> 0,
                foreign |-> FALSE, gap |-> FALSE, refused |-> FALSE, lampIds |-> {0},
                orphan |-> FALSE]
    BY DEF Init
  <1>9. pc = "rx" /\ se0 = "off"
    BY DEF Init
  <1> HIDE DEF ep, none, nomsg, nothing, zero, empty
  <1>10. dev \in Driver
    BY <1>1, <1>2, <1>3, <1>6, PacketFields DEF Driver
  <1>11. /\ dev.rxLen = 0 /\ dev.rx = none /\ dev.tx = NAK /\ dev.newAddr = 0 /\ dev.addr = 0
         /\ dev.leds = 0 /\ dev.reqLen = 0 /\ dev.ep = ep
    BY <1>6
  <1>12. host \in HostState
    BY <1>2, <1>4, <1>5, <1>7 DEF HostState
  <1>13. /\ host.stage = "idle" /\ host.rq = none /\ host.addr = 0 /\ ~host.config /\ host.known
         /\ host.lamps = 0 /\ host.expect = zero /\ host.reports = empty
    BY <1>7
  <1>14. hist \in History
    BY <1>4, <1>8 DEF History
  <1>15. /\ hist.requests = 0 /\ hist.put = zero /\ hist.faults = 0 /\ hist.resyncs = 0
         /\ ~hist.foreign /\ ~hist.gap /\ ~hist.refused /\ hist.lampIds = {0} /\ ~hist.orphan
    BY <1>8
  <1>16. Typed
    BY <1>1, <1>9, <1>10, <1>11, <1>12, <1>13, <1>14 DEF Typed, TypeOK
  <1>17. HostConsistent
    BY <1>2, <1>9, <1>13, <1>15 DEF HostConsistent, InFlight, InReset
  <1>18. TransferServed /\ OwnData /\ ReplyInStep /\ AddressInStep
    BY <1>11, <1>13, <1>15 DEF TransferServed, OwnData, ReplyInStep, AddressInStep, IsUnderway,
       Pending
  <1>19. ResetClears /\ LampsInStep
    BY <1>2, <1>9, <1>11, <1>13, <1>15 DEF ResetClears, LampsInStep, InFlight, Pending
  <1>20. ResyncsCounted
    BY <1>11, <1>13, <1>15 DEF ResyncsCounted, ResetsToggles, InFlight, Pending, zero
  <1>21. LossesWithin
    <2> SUFFICES ASSUME NEW e \in Endpoints
                 PROVE  Lost(e) + OutOfStep(e) + Resets <= Allowed
      BY DEF LossesWithin
    <2>1. Resets = 0
      BY <1>11, <1>13 DEF Resets, One, HostWill, SetupWill, DeviceWill, ResetsToggles, InFlight,
         Pending
    <2>2. Allowed = 0
      BY <1>15 DEF Allowed
    <2>3. Lost(e) = 0
      <3>1. host.reports[e] = <<>>
        BY <1>13 DEF empty
      <3>2. Len(host.reports[e]) = 0
        BY <3>1, EmptySeq
      <3>3. hist.put[e] = 0
        BY <1>15 DEF zero
      <3>4. (IF dev.ep[e].full THEN 1 ELSE 0) = 0
        BY <1>1, <1>11
      <3>5. Lost(e) = 0 - 0 - 0
        BY ONLY <3>2, <3>3, <3>4 DEF Lost
      <3> QED  BY ONLY <3>5
    <2>4. OutOfStep(e) = 0
      <3>1. host.expect[e] = 0 /\ ~dev.ep[e].full /\ dev.ep[e].tok = 1
        BY <1>1, <1>11, <1>13 DEF zero
      <3> QED  BY <3>1 DEF OutOfStep, NextToken, Toggle
    <2> QED  BY <2>1, <2>2, <2>3, <2>4
  <1> QED  BY <1>16, <1>17, <1>18, <1>19, <1>20, <1>21 DEF IInv, LossesPaid

LEMMA StepInvariant ==
  ASSUME IInv, [Next]_vars
  PROVE  IInv'
  <1>1. Step
    BY EveryStep
  <1>2. Typed' /\ HostConsistent' /\ TransferServed' /\ OwnData'
    BY <1>1, TypedStep, HostConsistentStep, TransferServedStep, OwnDataStep
  <1>3. ReplyInStep' /\ AddressInStep' /\ ResetClears' /\ LampsInStep'
    BY <1>1, ReplyInStepStep, AddressInStepStep, ResetClearsStep, LampsInStepStep
  <1>4. LossesPaid'
    BY <1>1, <1>2, LossesWithinStep, ResyncsCountedStep DEF LossesPaid
  <1> QED  BY <1>2, <1>3, <1>4 DEF IInv

LEMMA Invariance == Spec => []IInv
  BY InitInvariant, StepInvariant, PTL DEF Spec

\* The driver's globals stay in their ranges: a packet is never longer than a packet,
\* and what is left of a message never below zero.
THEOREM TypeCorrect == Spec => []TypeOK
  <1>1. IInv => TypeOK
    BY DEF IInv, Typed
  <1> QED  BY <1>1, Invariance, PTL

\* What the host takes for the answer to a request was made for that request, whatever
\* transfers were abandoned, missed or cut off by a reset: a setup packet takes the
\* packet of the transfer before off the air before the host can ask for the next.
THEOREM OwnDataOnly == Spec => []OwnData
  <1>1. IInv => OwnData
    BY DEF IInv
  <1> QED  BY <1>1, Invariance, PTL

\* Without a missed transaction usbDriverSetup's and usbFunctionSetup's replies reach
\* the host complete and in order for every length, and no request that is implemented
\* is stalled.
THEOREM AnsweredWithoutFaults == Spec => []AnsweredInFull
  <1>1. IInv => AnsweredInFull
    BY DEF IInv, ReplyInStep, Faultless, AnsweredInFull
  <1> QED  BY <1>1, Invariance, PTL

\* Between transfers device and host agree on the address, although usbNewDeviceAddr
\* takes effect with whatever is sent next.
THEOREM AddressesAgree == Spec => []AddressAgrees
  <1>1. IInv => AddressAgrees
    BY DEF IInv, AddressInStep, AddressAgrees, InFlight
  <1> QED  BY <1>1, Invariance, PTL

\* The lamps show the last request that succeeded or a later one, and never what
\* another SET_REPORT carried.
THEOREM LampsObey == Spec => []LampsAsTold
  <1>1. IInv => LampsAsTold
    BY DEF IInv, LampsInStep, LampsAsTold
  <1> QED  BY <1>1, Invariance, PTL

\* A missed transaction costs two reports of an endpoint at most, and so does a reset
\* of the toggles after the first: what is lost is paid for.
THEOREM LossIsBounded == Spec => []LossBounded
  <1>1. IInv => LossBounded
    <2> SUFFICES ASSUME IInv, NEW e \in Endpoints PROVE Lost(e) <= Allowed
      BY DEF LossBounded, Lost, Allowed
    <2>1. Typed /\ Lost(e) + OutOfStep(e) + Resets <= Allowed
      BY DEF IInv, LossesPaid, LossesWithin
    <2>2. Lost(e) \in Int /\ OutOfStep(e) \in {0, 1} /\ Resets \in Nat /\ Allowed \in Nat
      BY <2>1, LossNumbers
    <2> DEFINE a == Lost(e)
               b == OutOfStep(e)
               r == Resets
               m == Allowed
    <2>3. a \in Int /\ b \in {0, 1} /\ r \in Nat /\ m \in Nat /\ a + b + r <= m
      BY <2>1, <2>2
    <2> HIDE DEF a, b, r, m
    <2>4. a <= m
      BY <2>3
    <2> QED  BY <2>4 DEF a, m
  <1> QED  BY <1>1, Invariance, PTL

-----------------------------------------------------------------------------
(* The endpoints are mailboxes.                                            *)

Box == [e \in Endpoints |-> IF dev.ep[e].full THEN <<dev.ep[e].report>> ELSE <<>>]

LEMMA StepMaps ==
  ASSUME IInv, Step
  PROVE  Boxes!Next \/ (Box' = Box /\ host'.reports = host.reports)
  <1>1. Typed /\ host \in HostState /\ hist \in History
    BY DEF IInv, Typed
  <1>2. ASSUME NEW e \in Endpoints, PutStep(e) PROVE Boxes!Put(e)
    <2>1. hist.put[e] + 1 \in 1 .. MaxReports
      BY <1>1, <1>2, UsbAssumption DEF PutStep, History
    <2>2. /\ ~dev.ep[e].full /\ dev'.ep[e].full /\ dev'.ep[e].report = hist.put[e] + 1
          /\ \A f \in Endpoints \ {e} : dev'.ep[f] = dev.ep[f]
          /\ host' = host
      BY <1>2 DEF PutStep, EndpointFacts
    <2>3. Box[e] = <<>>
      BY <2>2 DEF Box
    <2>4. Box' = [Box EXCEPT ![e] = <<hist.put[e] + 1>>]
      BY <2>2 DEF Box
    <2> QED  BY <2>1, <2>2, <2>3, <2>4 DEF Boxes!Put, Box
  <1>3. ASSUME NEW e \in Endpoints, GetStep(e) PROVE Boxes!Take(e) \/ Boxes!Lose(e)
    <2>1. /\ dev.ep[e].full /\ ~dev'.ep[e].full
          /\ \A f \in Endpoints \ {e} : dev'.ep[f] = dev.ep[f]
      BY <1>3 DEF GetStep, EndpointFacts
    <2>2. Box[e] = <<dev.ep[e].report>> /\ Box[e] # <<>> /\ Box[e][1] = dev.ep[e].report
      BY <2>1 DEF Box
    <2>3. Box' = [Box EXCEPT ![e] = <<>>]
      <3> DEFINE box == [f \in Endpoints |-> IF dev'.ep[f].full THEN <<dev'.ep[f].report>>
                                             ELSE <<>>]
                 empty == <<>>
      <3>1. Box' = box
        BY DEF Box
      <3>2. box[e] = <<>>
        BY <2>1
      <3>3. \A f \in Endpoints \ {e} : box[f] = Box[f]
        BY <2>1 DEF Box
      <3>4. DOMAIN box = Endpoints /\ DOMAIN Box = Endpoints
        BY DEF Box
      <3>5. box = [f \in Endpoints |-> box[f]] /\ Box = [f \in Endpoints |-> Box[f]]
        BY DEF Box
      <3>6. empty = <<>> /\ box[e] = empty
        BY <3>2
      <3> HIDE DEF box, empty
      <3>7. box = [Box EXCEPT ![e] = empty]
        BY <3>3, <3>4, <3>5, <3>6
      <3> QED  BY <3>1, <3>6, <3>7
    <2>4. CASE host' = host
      BY <2>2, <2>3, <2>4 DEF Boxes!Lose, Box
    <2>5. CASE ReadFacts(host', host, e, dev.ep[e].report)
      <3>1. host'.reports = [host.reports EXCEPT ![e] = Append(@, Box[e][1])]
        BY <2>2, <2>5 DEF ReadFacts
      <3> QED  BY <2>2, <2>3, <3>1 DEF Boxes!Take, Box
    <2> QED  BY <1>3, <2>4, <2>5 DEF GetStep
  <1>4. \/ \E e \in Endpoints : PutStep(e)
        \/ \E e \in Endpoints : GetStep(e)
        \/ /\ \A e \in Endpoints : /\ dev'.ep[e].full = dev.ep[e].full
                                   /\ dev'.ep[e].report = dev.ep[e].report
           /\ host'.reports = host.reports
    BY DEF Step, vars, RxStep, TxStep, ResetStep, RequestStep, SendStep, StatusStep,
       ControlStep, AbandonFacts, ResetFacts, EndFacts, SetupFacts, DataFacts, BuildFacts,
       SentFacts, ReceivedFacts, Unanswered, Stalled, NotTaken, DataTaken, StatusTaken,
       SendsPacket, GivenUp, StageFacts, SucceedFacts, TakenFacts
  <1>5. ASSUME \A e \in Endpoints : /\ dev'.ep[e].full = dev.ep[e].full
                                    /\ dev'.ep[e].report = dev.ep[e].report
        PROVE  Box' = Box
    BY <1>5 DEF Box
  <1> QED  BY <1>2, <1>3, <1>4, <1>5 DEF Boxes!Next

\* Each interrupt-IN endpoint is a mailbox: usbSetInterrupt only fills an empty one, a
\* report reaches the host once or is lost, and those that do arrive in their order.
THEOREM RefinesMailboxes == Spec => ImplementsMailboxes
  <1>1. Init => Boxes!Init
    BY DEF Init, Boxes!Init, usbInit
  <1>2. IInv /\ [Next]_vars => [Boxes!Next]_Boxes!vars
    <2> SUFFICES ASSUME IInv, [Next]_vars PROVE [Boxes!Next]_Boxes!vars
      OBVIOUS
    <2>1. Step
      BY EveryStep
    <2> QED  BY <2>1, StepMaps DEF Boxes!vars, Box
  <1> QED  BY <1>1, <1>2, Invariance, PTL DEF Spec, ImplementsMailboxes, Boxes!Spec
=============================================================================
