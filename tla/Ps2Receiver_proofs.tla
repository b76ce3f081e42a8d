------------------------ MODULE Ps2Receiver_proofs ------------------------
(***************************************************************************)
(* The receiver for every set of bytes, ring size and bound: its state     *)
(* keeps its type; an error that makes it ignore bits is always one that   *)
(* matrix_scan sees; without an accident every clock edge is one call of   *)
(* handleBit, in order; one lost edge makes up no byte; inhibit follows    *)
(* state.                                                                  *)
(***************************************************************************)
EXTENDS Ps2Receiver, Ps2Frame_proofs

\* An INT1 handler that has read state goes on with a state that is not INIT, so
\* the error it may record is not 0.
Counts(h) == \A i \in DOMAIN h : h[i].pc # "enter" => h[i].s > 0
Counted == Counts(handlers)

\* Samples wait only while INT0 is masked.
MailboxMasked == mailbox # <<>> => masked

\* A packet that can still spoil samples has been counted against the bound.
LossBounded ==
  usb.open => hist.lost + Len(mailbox) + (IF usb.late THEN 2 ELSE 0) <= MaxLost

IInv == TypeOK /\ LatchVisible /\ Counted /\ MailboxMasked /\ LossBounded

-----------------------------------------------------------------------------
(* The receiver's state machine.                                           *)

USE DEF INIT, START, BIT0, BIT7, PARITY, STOP

LEMMA UnlatchTyped ==
  ASSUME NEW r \in Receiver
  PROVE  Unlatch(r) \in Receiver /\ Visible(Unlatch(r))
  <1>1. Unlatch(r) \in Receiver
    BY DEF Receiver, Unlatch, Bit
  <1>2. Unlatch(r).errState = 0
    BY DEF Receiver, Unlatch
  <1> QED  BY <1>1, <1>2 DEF Visible

LEMMA SamplesTyped ==
  ASSUME NEW r \in Receiver, NEW samples \in Seq(Bit)
  PROVE  /\ HandleSamples(r, samples) \in Receiver
         /\ Visible(r) => Visible(HandleSamples(r, samples))
  <1>1. CASE samples = <<>>
    BY <1>1 DEF HandleSamples
  <1>2. CASE samples # <<>> /\ Len(samples) = 1
    <2>1. samples[1] \in Bit
      BY <1>2, ElementOfSeq
    <2> QED  BY <1>2, <2>1, HandleBitTyped DEF HandleSamples
  <1>3. CASE samples # <<>> /\ Len(samples) # 1
    <2>1. Len(samples) \in Nat \ {0}
      BY <1>3, EmptySeq
    <2>2. \A n \in Nat \ {0} : n # 1 => 1 \in 1 .. n /\ 2 \in 1 .. n
      OBVIOUS
    <2>3. 1 \in 1 .. Len(samples) /\ 2 \in 1 .. Len(samples)
      BY <1>3, <2>1, <2>2, Zenon
    <2>4. samples[1] \in Bit /\ samples[2] \in Bit
      BY <2>3, ElementOfSeq, Zenon
    <2>5. /\ handleBit(r, samples[1]) \in Receiver
          /\ Visible(r) => Visible(handleBit(r, samples[1]))
      BY <2>4, HandleBitTyped
    <2>6. /\ handleBit(handleBit(r, samples[1]), samples[2]) \in Receiver
          /\ Visible(r) => Visible(handleBit(handleBit(r, samples[1]), samples[2]))
      BY <2>4, <2>5, HandleBitTyped
    <2> QED  BY <1>3, <2>6 DEF HandleSamples
  <1> QED  BY <1>1, <1>2, <1>3

LEMMA FrameTyped ==
  ASSUME NEW b \in Bytes
  PROVE  b \in ByteBits /\ Frame(b) \in Seq(Bit)
  BY BytesAssumption, FrameBits
-----------------------------------------------------------------------------
(* The INT1 handlers.                                                      *)

LEMMA HandlersPush ==
  ASSUME NEW h \in Seq(HandlerState), Counts(h), NEW x \in HandlerState, x.pc = "enter"
  PROVE  <<x>> \o h \in Seq(HandlerState) /\ Counts(<<x>> \o h)
  <1>1. <<x>> \in Seq(HandlerState) /\ Len(<<x>>) = 1 /\ <<x>>[1] = x
    OBVIOUS
  <1>2. /\ <<x>> \o h \in Seq(HandlerState)
        /\ Len(<<x>> \o h) = 1 + Len(h)
        /\ \A i \in 1 .. 1 + Len(h) : (<<x>> \o h)[i] = IF i <= 1 THEN x ELSE h[i - 1]
    BY <1>1, ConcatProperties
  <1>3. Len(h) \in Nat /\ DOMAIN h = 1 .. Len(h) /\ DOMAIN (<<x>> \o h) = 1 .. 1 + Len(h)
    BY <1>2, LenProperties
  <1> QED  BY <1>2, <1>3 DEF Counts

LEMMA HandlersPop ==
  ASSUME NEW h \in Seq(HandlerState), Counts(h), h # <<>>
  PROVE  Tail(h) \in Seq(HandlerState) /\ Counts(Tail(h))
  <1>1. /\ Tail(h) \in Seq(HandlerState)
        /\ Len(Tail(h)) = Len(h) - 1
        /\ \A i \in 1 .. Len(Tail(h)) : Tail(h)[i] = h[i + 1]
    BY HeadTailProperties
  <1>2. Len(h) \in Nat /\ DOMAIN h = 1 .. Len(h) /\ DOMAIN Tail(h) = 1 .. Len(Tail(h))
    BY <1>1, LenProperties
  <1> QED  BY <1>1, <1>2 DEF Counts

LEMMA HandlersInner ==
  ASSUME NEW h \in Seq(HandlerState), h # <<>>
  PROVE  1 \in DOMAIN h /\ h[1] \in HandlerState
  <1>1. Len(h) \in Nat \ {0} /\ DOMAIN h = 1 .. Len(h)
    BY EmptySeq, LenProperties
  <1> QED  BY <1>1, ElementOfSeq

LEMMA HandlersUpdate ==
  ASSUME NEW h \in Seq(HandlerState), Counts(h), h # <<>>,
         NEW x \in HandlerState, x.pc # "enter" => x.s > 0
  PROVE  [h EXCEPT ![1] = x] \in Seq(HandlerState) /\ Counts([h EXCEPT ![1] = x])
  <1>1. 1 \in 1 .. Len(h) /\ DOMAIN h = 1 .. Len(h)
    BY HandlersInner, LenProperties
  <1>2. [h EXCEPT ![1] = x] \in Seq(HandlerState)
    BY <1>1, ExceptSeq
  <1> QED  BY <1>1, <1>2 DEF Counts

LEMMA HandlersHeldUp ==
  ASSUME NEW h \in Seq(HandlerState), Counts(h)
  PROVE  LET g == [i \in DOMAIN h |-> [h[i] EXCEPT !.heldUp = TRUE]]
         IN g \in Seq(HandlerState) /\ Counts(g)
  <1> DEFINE g == [i \in DOMAIN h |-> [h[i] EXCEPT !.heldUp = TRUE]]
  <1>1. Len(h) \in Nat /\ DOMAIN h = 1 .. Len(h)
    BY LenProperties
  <1>2. \A i \in DOMAIN h : h[i] \in HandlerState
    BY <1>1, ElementOfSeq
  <1>3. g \in [1 .. Len(h) -> HandlerState]
    BY <1>1, <1>2 DEF HandlerState
  <1>4. g \in Seq(HandlerState)
    BY <1>1, <1>3, SeqDef
  <1>5. Counts(g)
    BY <1>2 DEF Counts, HandlerState
  <1> QED  BY <1>4, <1>5
-----------------------------------------------------------------------------
(* The invariant.                                                          *)

\* Counting a loss or an overtaking keeps the history's type.
LEMMA HistoryTyped ==
  ASSUME NEW h \in History
  PROVE  /\ h.lost \in Nat /\ h.lost <= MaxLost
         /\ h.overtaken \in Nat
         /\ \A n \in Nat :
              LET o == [h EXCEPT !.overtaken = n] IN o \in History /\ o.lost = h.lost
         /\ \A n \in Nat : n <= MaxLost =>
              LET l == [h EXCEPT !.lost = n] IN l \in History /\ l.lost = n
  <1>1. h.overtaken \in Nat /\ h.lost \in Nat /\ h.lost <= MaxLost
    BY BoundsAssumption DEF History
  <1>2. \A n \in Nat : n <= MaxLost => n \in 0 .. MaxLost
    BY BoundsAssumption
  <1> QED  BY <1>1, <1>2 DEF History

LEMMA InitInvariant == Init => IInv
  <1> SUFFICES ASSUME Init PROVE IInv  OBVIOUS
  <1>1. rx \in Receiver
    BY DEF Init, Idle, Receiver, ByteBits, Bit
  <1>2. \A S : <<>> \in Seq(S)
    BY EmptySeq
  <1>3. usb \in PacketState
    BY <1>2 DEF Init, PacketState
  <1>4. hist \in History
    BY <1>2, BoundsAssumption DEF Init, History
  <1>5. TypeOK
    BY <1>1, <1>2, <1>3, <1>4 DEF Init, TypeOK, Bit
  <1>6. LatchVisible /\ Counted /\ MailboxMasked /\ LossBounded
    BY DEF Init, Idle, LatchVisible, Counted, Counts, MailboxMasked, LossBounded
  <1> QED  BY <1>5, <1>6 DEF IInv

LEMMA StepInvariant == IInv /\ [Next]_vars => IInv'
  <1> SUFFICES ASSUME IInv, [Next]_vars PROVE IInv'  OBVIOUS
  <1> USE DEF IInv
  <1>T. /\ rx \in Receiver /\ Visible(rx)
        /\ handlers \in Seq(HandlerState) /\ Counts(handlers)
        /\ mailbox \in Seq(Bit) /\ Len(mailbox) \in Nat
        /\ usb \in PacketState /\ line \in Seq(Bit) /\ level \in Bit
        /\ hist \in History
    BY LenProperties DEF TypeOK, LatchVisible, Visible, Counted
  \* The keyboard.
  <1>1. ASSUME NEW b \in Bytes, BeginFrame(b) PROVE IInv'
    <2>1. hist' \in History /\ hist'.lost = hist.lost
      BY <1>1, <1>T, FrameTyped, AppendProperties DEF BeginFrame, History
    <2>2. TypeOK'
      BY <1>1, <2>1, FrameTyped DEF BeginFrame, TypeOK
    <2> QED  BY <1>1, <2>1, <2>2
             DEF BeginFrame, LatchVisible, Counted, MailboxMasked, LossBounded
  <1>2. CASE Clock
    <2>1. line' \in Seq(Bit) /\ level' \in Bit
      BY <1>2, <1>T, HeadTailProperties DEF Clock
    <2>2. /\ usb' \in PacketState
          /\ usb'.open = usb.open /\ usb'.late = usb.late
      <3>1. usb.open => usb.edges + 1 \in 0 .. 2
        BY <1>2, <1>T DEF Clock, PacketState
      <3> QED  BY <1>2, <1>T, <3>1 DEF Clock, PacketState
    <2>3. TypeOK'
      BY <1>2, <2>1, <2>2 DEF Clock, TypeOK
    <2> QED  BY <1>2, <2>2, <2>3
             DEF Clock, LatchVisible, Counted, MailboxMasked, LossBounded
  \* The USB packet handler.
  <1>3. CASE PacketBegins
    <2>1. usb' \in PacketState /\ ~usb'.late
      BY <1>3 DEF PacketBegins, NewPacket, PacketState
    <2>2. handlers' \in Seq(HandlerState) /\ Counts(handlers')
      BY <1>3, <1>T, HandlersHeldUp DEF PacketBegins
    <2>3. mailbox = <<>> /\ Len(mailbox) = 0
      BY <1>3 DEF PacketBegins, MailboxMasked
    <2>4. TypeOK'
      BY <1>3, <2>1, <2>2 DEF PacketBegins, TypeOK
    <2>5. LossBounded'
      BY <1>3, <1>T, <2>1, <2>3 DEF PacketBegins, LossBounded, History
    <2> QED  BY <1>3, <2>2, <2>4, <2>5
             DEF PacketBegins, LatchVisible, Counted, MailboxMasked
  <1>4. ASSUME NEW late \in BOOLEAN, SampleEdge(late) PROVE IInv'
    <2>1. usb' \in PacketState /\ usb'.late = late
      BY <1>4, <1>T, AppendProperties DEF SampleEdge, PacketState
    <2>2. TypeOK'
      BY <1>4, <2>1 DEF SampleEdge, TypeOK
    <2>3. LossBounded'
      <3>1. hist.lost \in Nat
        BY <1>T, HistoryTyped
      <3>2. CASE late
        <4>1. hist.lost + (2 + Len(mailbox)) <= MaxLost
          BY <1>4, <3>2 DEF SampleEdge, MayLose
        <4>2. hist.lost + Len(mailbox) + 2 <= MaxLost
          BY <1>T, <3>1, <4>1, BoundsAssumption
        <4>3. hist' = hist /\ mailbox' = mailbox /\ usb'.late
          BY <1>4, <2>1, <3>2 DEF SampleEdge
        <4> QED  BY <4>2, <4>3 DEF LossBounded
      <3>3. CASE ~late
        <4>1. hist.lost + Len(mailbox) + 0 <= MaxLost
          BY <1>4, <1>T, <3>1, BoundsAssumption DEF SampleEdge, LossBounded, PacketState
        <4> QED  BY <1>4, <2>1, <3>3, <4>1 DEF SampleEdge, LossBounded
      <3> QED  BY <3>2, <3>3
    <2> QED  BY <1>4, <2>2, <2>3
             DEF SampleEdge, LatchVisible, Counted, MailboxMasked
  <1>5. ASSUME NEW again \in BOOLEAN, PacketEnds(again) PROVE IInv'
    <2>1. usb' \in PacketState /\ ~usb'.late /\ usb'.open = again
      BY <1>5 DEF PacketEnds, NewPacket, PacketState
    <2>2. mailbox' \in Seq(Bit) /\ masked' \in BOOLEAN /\ pcint' \in BOOLEAN
      <3>1. usb.samples \in Seq(Bit) /\ <<>> \in Seq(Bit)
        BY <1>T, EmptySeq DEF PacketState
      <3> QED  BY <1>5, <1>T, <3>1 DEF PacketEnds, TypeOK
    <2>3. hist' \in History
      <3>1. hist.lost + Len(mailbox) + (IF usb.late THEN 2 ELSE 0) \in 0 .. MaxLost
        BY <1>5, <1>T DEF PacketEnds, LossBounded, History, PacketState
      <3>2. hist.lost + (Len(mailbox) + (IF usb.late THEN 2 ELSE 0)) \in 0 .. MaxLost
        BY <3>1, <1>T DEF History, PacketState
      <3> QED  BY <1>5, <1>T, <3>2 DEF PacketEnds, Lose, History
    <2>4. TypeOK'
      BY <1>5, <2>1, <2>2, <2>3 DEF PacketEnds, TypeOK
    <2>5. MailboxMasked'
      BY <1>5 DEF PacketEnds, MailboxMasked
    <2>6. LossBounded'
      <3>1. Len(mailbox') \in Nat /\ hist'.lost \in Nat
        BY <2>2, <2>3, LenProperties DEF History
      <3> QED  BY <1>5, <2>1, <3>1 DEF PacketEnds, LossBounded
    <2> QED  BY <1>5, <2>4, <2>5, <2>6 DEF PacketEnds, LatchVisible, Counted
  <1>6. ASSUME NEW again \in BOOLEAN, PacketForgets(again) PROVE IInv'
    <2>1. usb' \in PacketState /\ ~usb'.late
      BY <1>6 DEF PacketForgets, NewPacket, PacketState
    <2>2. Len(usb.samples) \in Nat
      BY <1>T, LenProperties DEF PacketState
    <2>3. /\ hist' \in History
          /\ hist'.lost + Len(mailbox) <= MaxLost
      <3> DEFINE n == hist.lost + Len(usb.samples)
      <3>1. hist.lost \in Nat /\ hist.lost + (Len(usb.samples) + Len(mailbox)) <= MaxLost
        BY <1>6, <1>T, HistoryTyped DEF PacketForgets, MayLose
      <3>2. n \in Nat /\ n <= MaxLost /\ n + Len(mailbox) <= MaxLost
        BY <1>T, <2>2, <3>1, BoundsAssumption
      <3>3. hist' = [hist EXCEPT !.lost = n]
        BY <1>6 DEF PacketForgets, Lose
      <3> HIDE DEF n
      <3> QED  BY <1>T, <3>2, <3>3, HistoryTyped
    <2>4. TypeOK'
      BY <1>6, <2>1, <2>3 DEF PacketForgets, TypeOK
    <2>5. LossBounded'
      BY <1>6, <1>T, <2>1, <2>3 DEF PacketForgets, LossBounded, History
    <2> QED  BY <1>6, <2>4, <2>5
             DEF PacketForgets, LatchVisible, Counted, MailboxMasked
  \* The INT1 handler.
  <1>7. CASE INT1
    <2> DEFINE x == [bit |-> level, pc |-> "enter", s |-> 0, heldUp |-> FALSE]
    <2>1. x \in HandlerState /\ x.pc = "enter"
      BY <1>T DEF HandlerState
    <2>2. handlers' \in Seq(HandlerState) /\ Counts(handlers')
      BY <1>7, <1>T, <2>1, HandlersPush DEF INT1
    <2>3. hist' \in History /\ hist'.lost = hist.lost
      <3> DEFINE n == IF handlers # <<>> THEN hist.overtaken + 1 ELSE hist.overtaken
      <3>1. n \in Nat
        BY <1>T, HistoryTyped
      <3>2. hist' = [hist EXCEPT !.overtaken = n]
        BY <1>7, <1>T DEF INT1, History
      <3> HIDE DEF n
      <3> QED  BY <1>T, <3>1, <3>2, HistoryTyped
    <2>4. TypeOK'
      BY <1>7, <2>2, <2>3 DEF INT1, TypeOK
    <2> QED  BY <1>7, <2>2, <2>3, <2>4
             DEF INT1, LatchVisible, Counted, MailboxMasked, LossBounded
  <1>8. CASE BitIgnored
    <2>1. handlers' \in Seq(HandlerState) /\ Counts(handlers')
      BY <1>8, <1>T, HandlersPop DEF BitIgnored
    <2>2. TypeOK'
      BY <1>8, <2>1 DEF BitIgnored, TypeOK
    <2> QED  BY <1>8, <2>1, <2>2
             DEF BitIgnored, LatchVisible, Counted, MailboxMasked, LossBounded
  <1>9. CASE ReadState
    <2> DEFINE x == [handlers[1] EXCEPT !.pc = "read", !.s = rx.state + 1]
    <2>1. handlers[1] \in HandlerState
      BY <1>9, <1>T, HandlersInner DEF ReadState
    <2>2. x \in HandlerState /\ (x.pc # "enter" => x.s > 0)
      <3>1. rx.state + 1 \in Nat /\ rx.state + 1 > 0
        BY <1>T DEF Receiver
      <3> QED  BY <2>1, <3>1 DEF HandlerState
    <2>3. handlers' = [handlers EXCEPT ![1] = x]
      BY <1>9 DEF ReadState
    <2> HIDE DEF x
    <2>4. handlers' \in Seq(HandlerState) /\ Counts(handlers')
      <3>1. handlers # <<>>
        BY <1>9 DEF ReadState
      <3> QED  BY <1>T, <2>2, <2>3, <3>1, HandlersUpdate
    <2>5. TypeOK'
      BY <1>9, <2>4 DEF ReadState, TypeOK
    <2> QED  BY <1>9, <2>4, <2>5
             DEF ReadState, LatchVisible, Counted, MailboxMasked, LossBounded
  <1>10. CASE WriteState
    <2> DEFINE x == [handlers[1] EXCEPT !.pc = "written"]
    <2>1. /\ handlers[1] \in HandlerState
          /\ handlers[1].s > 0
      BY <1>10, <1>T, HandlersInner DEF WriteState, Inner, Counts
    <2>2. x \in HandlerState /\ (x.pc # "enter" => x.s > 0)
      BY <2>1 DEF HandlerState
    <2>3. handlers' = [handlers EXCEPT ![1] = x]
      BY <1>10 DEF WriteState
    <2> HIDE DEF x
    <2>4. handlers' \in Seq(HandlerState) /\ Counts(handlers')
      <3>1. handlers # <<>>
        BY <1>10 DEF WriteState
      <3> QED  BY <1>T, <2>2, <2>3, <3>1, HandlersUpdate
    <2>5. rx' \in Receiver /\ Visible(rx')
      BY <1>10, <1>T, <2>1 DEF WriteState, Inner, Receiver, HandlerState, Visible
    <2>6. TypeOK'
      BY <1>10, <2>4, <2>5 DEF WriteState, TypeOK
    <2> QED  BY <1>10, <2>4, <2>5, <2>6
             DEF WriteState, LatchVisible, Visible, Counted, MailboxMasked, LossBounded
  <1>11. CASE SwitchState
    <2>1. handlers[1] \in HandlerState /\ handlers[1].s > 0
      BY <1>11, <1>T, HandlersInner DEF SwitchState, Inner, Counts
    <2>2. rx' \in Receiver /\ Visible(rx')
      BY <1>11, <1>T, <2>1, SwitchTyped DEF SwitchState, Inner, HandlerState
    <2>3. handlers' \in Seq(HandlerState) /\ Counts(handlers')
      BY <1>11, <1>T, HandlersPop DEF SwitchState
    <2>4. TypeOK'
      BY <1>11, <2>2, <2>3 DEF SwitchState, TypeOK
    <2> QED  BY <1>11, <2>2, <2>3, <2>4
             DEF SwitchState, LatchVisible, Visible, Counted, MailboxMasked, LossBounded
  \* The PCINT1 handler.
  <1>12. CASE PCINT1
    <2>1. rx' \in Receiver /\ Visible(rx')
      BY <1>12, <1>T, SamplesTyped DEF PCINT1
    <2>2. hist' \in History
      <3> DEFINE n == IF handlers # <<>> /\ Inner.heldUp
                        THEN hist.overtaken + 1 ELSE hist.overtaken
      <3>1. n \in Nat
        BY <1>T, HistoryTyped
      <3>2. hist' = [hist EXCEPT !.overtaken = n]
        BY <1>12, <1>T DEF PCINT1, History
      <3> HIDE DEF n
      <3> QED  BY <1>T, <3>1, <3>2, HistoryTyped
    <2>3. TypeOK'
      BY <1>12, <2>1, <2>2, EmptySeq DEF PCINT1, TypeOK
    <2> QED  BY <1>12, <2>1, <2>3
             DEF PCINT1, LatchVisible, Visible, Counted, MailboxMasked, LossBounded
  <1>13. CASE PCINT1Return
    <2>1. rx' \in Receiver /\ Visible(rx')
      BY <1>13, <1>T, HandleBitTyped DEF PCINT1Return
    <2>2. TypeOK'
      BY <1>13, <2>1 DEF PCINT1Return, TypeOK
    <2> QED  BY <1>13, <2>1, <2>2
             DEF PCINT1Return, LatchVisible, Visible, Counted, MailboxMasked, LossBounded
  \* The main loop.
  <1>14. CASE Fetch
    <2>1. rx.pbuf \in Seq(ByteBits)
      BY <1>T DEF Receiver
    <2>2. code' \in Seq(ByteBits)
      <3>1. rx.pbuf # <<>> => <<Head(rx.pbuf)>> \in Seq(ByteBits)
        BY <2>1, HeadTailProperties
      <3> QED  BY <1>14, <3>1, EmptySeq DEF Fetch
    <2>3. rx' \in Receiver /\ Visible(rx')
      <3>1. (IF rx.pbuf = <<>> THEN rx.pbuf ELSE Tail(rx.pbuf)) \in Seq(ByteBits)
        BY <2>1, HeadTailProperties
      <3> QED  BY <1>14, <1>T, <3>1 DEF Fetch, Receiver, Visible
    <2>4. TypeOK'
      BY <1>14, <2>2, <2>3 DEF Fetch, TypeOK
    <2> QED  BY <1>14, <2>3, <2>4
             DEF Fetch, LatchVisible, Visible, Counted, MailboxMasked, LossBounded
  <1>15. CASE LookAtError
    <2>1. rx' \in Receiver /\ Visible(rx')
      BY <1>15, <1>T, UnlatchTyped DEF LookAtError
    <2>2. hist' \in History /\ hist'.lost = hist.lost
      BY <1>15, <1>T DEF LookAtError, History
    <2>3. TypeOK'
      BY <1>15, <2>1, <2>2, EmptySeq DEF LookAtError, TypeOK
    <2> QED  BY <1>15, <2>1, <2>2, <2>3
             DEF LookAtError, LatchVisible, Visible, Counted, MailboxMasked, LossBounded
  <1>16. CASE Decode
    <2>1. code \in Seq(ByteBits) /\ hist.decoded \in Seq(ByteBits)
      BY <1>T DEF TypeOK, History
    <2>2. hist.decoded \o code \in Seq(ByteBits)
      BY <2>1, ConcatProperties
    <2>3. hist' \in History /\ hist'.lost = hist.lost
      BY <1>16, <1>T, <2>1, <2>2 DEF Decode, History
    <2>4. TypeOK'
      BY <1>16, <2>3, EmptySeq DEF Decode, TypeOK
    <2> QED  BY <1>16, <2>3, <2>4
             DEF Decode, LatchVisible, Counted, MailboxMasked, LossBounded
  <1>17. CASE UNCHANGED vars
    BY <1>17 DEF vars, TypeOK, LatchVisible, Counted, MailboxMasked, LossBounded
  <1> QED
    BY <1>1, <1>2, <1>3, <1>4, <1>5, <1>6, <1>7, <1>8, <1>9, <1>10, <1>11, <1>12,
       <1>13, <1>14, <1>15, <1>16, <1>17
    DEF Next, Device, Packet, Handler

-----------------------------------------------------------------------------
\* The whole state keeps its type in every interleaving of the keyboard's
\* clock, the USB packets, the interrupt handlers and the main loop; in
\* particular the losses stay within their bound.
THEOREM TypeCorrect == Spec => []TypeOK
  <1> QED  BY InitInvariant, StepInvariant, PTL DEF Spec, IInv

\* Whatever bits are lost or overtaken, an error that makes handleBit ignore
\* every bit is recorded in ps2_error, so that matrix_scan releases it.
THEOREM LatchIsVisible == Spec => []LatchVisible
  <1> QED  BY InitInvariant, StepInvariant, PTL DEF Spec, IInv
-----------------------------------------------------------------------------
(* Every edge counts once, and in its turn.                                *)

\* The bits on their way to the receiver: at most one an interrupted handler
\* holds, then at most two in the mailbox, and after them at most one that a
\* handler has just sampled, two of the packet and one in INTF1.
One(v, there, bit) == IF there THEN Advance(v, bit) ELSE v
Two(v, samples) ==
  IF samples = <<>> THEN v
  ELSE IF Len(samples) = 1 THEN Advance(v, samples[1])
  ELSE Advance(Advance(v, samples[1]), samples[2])

Held == handlers # <<>> /\ Inner.heldUp
Fresh == handlers # <<>> /\ ~Inner.heldUp

\* The receiver before the bit whose handler has written state.
Before == IF handlers # <<>> /\ Inner.pc = "written"
            THEN [rx EXCEPT !.state = Inner.s - 1] ELSE rx

AfterHeld == One(View(Before), Held, Inner.bit)
AfterMailbox == Two(AfterHeld, mailbox)
AfterFresh == One(AfterMailbox, Fresh, Inner.bit)
AfterPacket == Two(AfterFresh, usb.samples)
Reached == One(AfterPacket, intf1, level)

LastSent == IF hist.sent = <<>> THEN NoByte ELSE hist.sent[Len(hist.sent)]
Current == Stand(Finished, LastSent, Clocked)

\* What is left of the frame is its tail.
LineLeft ==
  line # <<>> =>
    /\ hist.sent # <<>> /\ Len(line) <= 11
    /\ \A i \in 1 .. Len(line) : line[i] = Frame(LastSent)[11 - Len(line) + i]

\* Samples wait for PCINT1, which looks at two; a packet sees two edges; PCINT1
\* runs outside packets with an empty mailbox.
SamplesWait ==
  /\ mailbox # <<>> => pcint
  /\ Len(mailbox) <= 2
  /\ IF usb.open THEN Len(usb.samples) + (IF intf1 THEN 1 ELSE 0) = usb.edges
                 ELSE usb.samples = <<>>
  /\ inPcint => ~usb.open /\ ~pcint

\* While no bit overtakes another there is one INT1 handler, nothing changes
\* the receiver between its read of state and its return, and it is
\* interrupted only by PCINT1, before it reads state, or by a packet.
HandlersApart ==
  hist.overtaken = 0 /\ handlers # <<>> =>
    /\ Len(handlers) = 1
    /\ Inner.pc = "read" => rx.errState = 0 /\ Inner.s = rx.state + 1
    /\ Inner.pc = "written" => rx.errState = 0 /\ Inner.s = rx.state
    /\ ~Inner.heldUp => ~usb.open /\ ~intf1 /\ (Inner.pc # "enter" => ~pcint /\ ~inPcint)
    /\ inPcint => ~Inner.heldUp

\* inhibit and state agree before the bit a handler is at.
Inhibits(r) == r.inhibit = 1 <=> r.state # INIT
InhibitKept == hist.overtaken = 0 => Inhibits(Before)

\* The bits on their way make of the receiver what the keyboard has clocked.
EdgesCounted == Undamaged => Reached = Current

\* The receiver v has missed one bit of what made w, at most: it has latched an
\* error; or it takes up the same frames as w; or it lags one bit behind w, to
\* the start bit of the next frame, which it takes for a stop bit.
Latched(v) ==
  v.errState = 1 /\ [v EXCEPT !.error = 0, !.errState = 0] = Stand(v.accepted, NoByte, INIT)
Lags(v, w) ==
  /\ v.errState = 0 /\ v.error = 0
  /\ \/ w.state \in START .. PARITY /\ v.state = w.state - 1
     \/ w.state = INIT /\ v.state = PARITY
Resumed(v, w) == v = [w EXCEPT !.accepted = v.accepted]
MissesOne(v, w) ==
  /\ IsSubsequence(v.accepted, w.accepted)
  /\ Latched(v) \/ Resumed(v, w) \/ Lags(v, w)

OneMissed ==
  hist.lost <= 1 /\ hist.overtaken = 0 /\ ~hist.resync => MissesOne(Reached, Current)

-----------------------------------------------------------------------------
(* The bits on their way.                                                  *)

LEMMA OneTyped ==
  ASSUME NEW v \in Views, NEW there, there => TRUE, NEW bit, there => bit \in Bit
  PROVE  One(v, there, bit) \in Views
  BY AdvanceCases DEF One

LEMMA TwoTyped ==
  ASSUME NEW v \in Views, NEW samples \in Seq(Bit)
  PROVE  Two(v, samples) \in Views
  <1>1. CASE samples = <<>>
    BY <1>1 DEF Two
  <1>2. CASE samples # <<>> /\ Len(samples) = 1
    <2>1. samples[1] \in Bit
      BY <1>2, ElementOfSeq
    <2> QED  BY <1>2, <2>1, AdvanceCases DEF Two
  <1>3. CASE samples # <<>> /\ Len(samples) # 1
    <2>1. Len(samples) \in Nat \ {0}
      BY <1>3, EmptySeq
    <2>2. \A n \in Nat \ {0} : n # 1 => 1 \in 1 .. n /\ 2 \in 1 .. n
      OBVIOUS
    <2>3. 1 \in 1 .. Len(samples) /\ 2 \in 1 .. Len(samples)
      BY <1>3, <2>1, <2>2, Zenon
    <2>4. samples[1] \in Bit /\ samples[2] \in Bit
      BY <2>3, ElementOfSeq, Zenon
    <2>5. Advance(v, samples[1]) \in Views
      BY <2>4, AdvanceCases
    <2>6. Advance(Advance(v, samples[1]), samples[2]) \in Views
      BY <2>4, <2>5, AdvanceCases
    <2> QED  BY <1>3, <2>6 DEF Two
  <1> QED  BY <1>1, <1>2, <1>3

\* PCINT1 takes the mailbox in.
LEMMA SamplesTaken ==
  ASSUME NEW r \in Receiver, NEW samples \in Seq(Bit)
  PROVE  View(HandleSamples(r, samples)) = Two(View(r), samples)
  <1>1. CASE samples = <<>>
    BY <1>1 DEF Two, HandleSamples
  <1>2. CASE samples # <<>> /\ Len(samples) = 1
    <2>1. samples[1] \in Bit
      BY <1>2, ElementOfSeq
    <2> QED  BY <1>2, <2>1, ViewAdvances DEF Two, HandleSamples
  <1>3. CASE samples # <<>> /\ Len(samples) # 1
    <2>1. Len(samples) \in Nat \ {0}
      BY <1>3, EmptySeq
    <2>2. \A n \in Nat \ {0} : n # 1 => 1 \in 1 .. n /\ 2 \in 1 .. n
      OBVIOUS
    <2>3. 1 \in 1 .. Len(samples) /\ 2 \in 1 .. Len(samples)
      BY <1>3, <2>1, <2>2, Zenon
    <2>4. samples[1] \in Bit /\ samples[2] \in Bit
      BY <2>3, ElementOfSeq, Zenon
    <2> DEFINE q == handleBit(r, samples[1])
    <2>5. q \in Receiver /\ Advance(View(r), samples[1]) = View(q)
      BY <2>4, HandleBitTyped, ViewAdvances
    <2>6. Advance(View(q), samples[2]) = View(handleBit(q, samples[2]))
      <3> HIDE DEF q
      <3> QED  BY <2>4, <2>5, ViewAdvances
    <2> QED  BY <1>3, <2>5, <2>6 DEF Two, HandleSamples
  <1> QED  BY <1>1, <1>2, <1>3

\* A second sample at most comes behind the first.
LEMMA TwoAppend ==
  ASSUME NEW v, NEW samples \in Seq(Bit), Len(samples) <= 1, NEW bit \in Bit
  PROVE  Two(v, Append(samples, bit)) = Advance(Two(v, samples), bit)
  <1> DEFINE n == Len(samples)
             a == Append(samples, bit)
  <1>1. /\ a \in Seq(Bit) /\ Len(a) = n + 1
        /\ \A i \in 1 .. n : a[i] = samples[i]
        /\ a[n + 1] = bit
    BY AppendProperties
  <1>2. n \in 0 .. 1 /\ a # <<>>
    <2>1. n \in Nat /\ n <= 1
      BY LenProperties
    <2> HIDE DEF n
    <2>2. n + 1 # 0
      BY <2>1
    <2>3. Len(<<>>) = 0
      BY EmptySeq
    <2>4. a # <<>>
      <3> HIDE DEF a
      <3> QED  BY <1>1, <2>2, <2>3
    <2> QED  BY <2>1, <2>4
  <1> HIDE DEF n, a
  <1>3. CASE n = 0
    <2>1. samples = <<>>
      BY <1>3, EmptySeq DEF n
    <2>2. Len(a) = 1 /\ a[1] = bit
      BY <1>1, <1>3
    <2>3. Two(v, a) = Advance(v, bit) /\ Two(v, samples) = v
      BY <1>2, <2>1, <2>2 DEF Two
    <2> QED  BY <2>3 DEF a
  <1>4. CASE n = 1
    <2>1. samples # <<>> /\ Len(samples) = 1
      <3>1. Len(samples) = 1
        BY <1>4 DEF n
      <3>2. samples # <<>>
        <4>1. Len(samples) # 0
          BY <3>1
        <4> QED  BY <4>1, EmptySeq
      <3> QED  BY <3>1, <3>2
    <2>2. Len(a) # 1 /\ a[1] = samples[1] /\ a[2] = bit
      BY <1>1, <1>4
    <2>3. Two(v, a) = Advance(Advance(v, samples[1]), bit)
      BY <1>2, <2>2 DEF Two
    <2>4. Two(v, samples) = Advance(v, samples[1])
      BY <2>1 DEF Two
    <2> QED  BY <2>3, <2>4 DEF a
  <1> QED  BY <1>2, <1>3, <1>4

-----------------------------------------------------------------------------
(* Where the bits wait.                                                    *)

\* One handler, innermost and last.
LEMMA OnlyHandler ==
  ASSUME NEW h \in Seq(HandlerState), h # <<>>, Len(h) = 1
  PROVE  Tail(h) = <<>> /\ DOMAIN h = {1} /\ h[1] \in HandlerState
  <1>1. Tail(h) \in Seq(HandlerState) /\ Len(Tail(h)) = 1 - 1
    BY HeadTailProperties
  <1>2. Tail(h) = <<>>
    <2>1. Len(Tail(h)) = 0
      BY <1>1
    <2> QED  BY <1>1, <2>1, EmptySeq
  <1>3. DOMAIN h = 1 .. 1
    BY LenProperties
  <1> QED  BY <1>2, <1>3, HandlersInner

Accidents == /\ hist'.lost \in Nat /\ hist.lost <= hist'.lost
             /\ hist'.overtaken \in Nat /\ hist.overtaken <= hist'.overtaken
             /\ hist.resync => hist'.resync

\* The keyboard apart, a step leaves what was sent and what is on the line; the
\* accidents are only added up.
LEMMA LineKept ==
  ASSUME IInv, [Next]_vars
  PROVE  /\ Clock \/ (\E b \in Bytes : BeginFrame(b)) \/ (line' = line /\ hist'.sent = hist.sent)
         /\ Accidents
  <1> DEFINE Goal == line' = line /\ hist'.sent = hist.sent
  <1>0. /\ hist \in History /\ hist.lost \in Nat /\ hist.overtaken \in Nat
        /\ Len(mailbox) \in Nat /\ Len(usb.samples) \in Nat
    BY HistoryTyped, LenProperties DEF IInv, TypeOK, PacketState
  <1>1. CASE Clock
    BY <1>0, <1>1 DEF Clock, Accidents
  <1>2. ASSUME NEW b \in Bytes, BeginFrame(b)
        PROVE  Accidents
    BY <1>0, <1>2 DEF BeginFrame, History, Accidents
  <1>3. CASE PacketBegins \/ \E late \in BOOLEAN : SampleEdge(late)
    <2>1. hist' = hist /\ line' = line
      BY <1>3 DEF PacketBegins, SampleEdge
    <2> QED  BY <1>0, <2>1 DEF Accidents
  <1>4. ASSUME NEW again \in BOOLEAN, PacketEnds(again)
        PROVE  Goal /\ Accidents
    <2>1. CASE usb.samples = <<>>
      BY <1>0, <1>4, <2>1 DEF PacketEnds, Accidents
    <2>2. CASE usb.samples # <<>>
      <3> DEFINE n == Len(mailbox) + IF usb.late THEN 2 ELSE 0
      <3>1. n \in Nat
        BY <1>0
      <3>2. hist' = [hist EXCEPT !.lost = hist.lost + n]
        BY <1>4, <2>2 DEF PacketEnds, Lose
      <3> HIDE DEF n
      <3> QED  BY <1>0, <1>4, <3>1, <3>2 DEF PacketEnds, History, Accidents
    <2> QED  BY <2>1, <2>2
  <1>5. ASSUME NEW again \in BOOLEAN, PacketForgets(again)
        PROVE  Goal /\ Accidents
    BY <1>0, <1>5 DEF PacketForgets, Lose, History, Accidents
  <1>6. CASE INT1
    BY <1>0, <1>6 DEF INT1, History, Accidents
  <1>7. CASE BitIgnored \/ ReadState \/ WriteState \/ SwitchState
    BY <1>0, <1>7 DEF BitIgnored, ReadState, WriteState, SwitchState, Accidents
  <1>8. CASE PCINT1
    BY <1>0, <1>8 DEF PCINT1, History, Accidents
  <1>9. CASE PCINT1Return \/ Fetch
    BY <1>0, <1>9 DEF PCINT1Return, Fetch, Accidents
  <1>10. CASE LookAtError \/ Decode
    BY <1>0, <1>10 DEF LookAtError, Decode, History, Accidents
  <1>11. CASE UNCHANGED vars
    BY <1>0, <1>11 DEF vars, Accidents
  <1> QED
    BY <1>1, <1>2, <1>3, <1>4, <1>5, <1>6, <1>7, <1>8, <1>9, <1>10, <1>11
    DEF Next, Device, Packet, Handler

LEMMA LastSentTyped ==
  ASSUME hist \in History
  PROVE  /\ LastSent \in ByteBits
         /\ hist.sent \in Seq(ByteBits)
  <1>1. hist.sent \in Seq(ByteBits)
    BY DEF History
  <1>2. NoByte \in ByteBits
    BY DEF NoByte, ByteBits, Bit
  <1>3. hist.sent # <<>> => Len(hist.sent) \in 1 .. Len(hist.sent)
    BY <1>1, EmptySeq
  <1>4. hist.sent # <<>> => hist.sent[Len(hist.sent)] \in ByteBits
    BY <1>1, <1>3, ElementOfSeq
  <1> QED  BY <1>1, <1>2, <1>4 DEF LastSent

LEMMA LineLeftInit == Init => LineLeft
  BY DEF Init, LineLeft

LEMMA LineLeftStep == IInv /\ LineLeft /\ [Next]_vars => LineLeft'
  <1> SUFFICES ASSUME IInv, LineLeft, [Next]_vars PROVE LineLeft'  OBVIOUS
  <1>0. line \in Seq(Bit) /\ hist \in History
    BY DEF IInv, TypeOK
  <1>1. LineLeft' <=> (line' # <<>> =>
          /\ hist'.sent # <<>> /\ Len(line') <= 11
          /\ \A i \in 1 .. Len(line') : line'[i] = Frame(LastSent')[11 - Len(line') + i])
    BY DEF LineLeft
  <1>2. LastSent' = IF hist'.sent = <<>> THEN NoByte ELSE hist'.sent[Len(hist'.sent)]
    BY DEF LastSent
  <1>3. ASSUME NEW b \in Bytes, BeginFrame(b) PROVE LineLeft'
    <2>1. b \in ByteBits /\ Len(Frame(b)) = 11
      BY <1>3, FrameTyped, FrameBits
    <2>2. line' = Frame(b) /\ hist'.sent = Append(hist.sent, b)
      BY <1>0, <1>3 DEF BeginFrame, History
    <2>3. hist'.sent # <<>> /\ hist'.sent[Len(hist'.sent)] = b
      <3> DEFINE t == hist.sent
                 u == Append(t, b)
      <3>1. t \in Seq(ByteBits) /\ Len(t) \in Nat
        BY <1>0, LastSentTyped, LenProperties
      <3>2. Len(u) = Len(t) + 1 /\ u[Len(t) + 1] = b
        BY <2>1, <3>1, AppendProperties
      <3>3. u # <<>>
        <4> HIDE DEF t, u
        <4>1. Len(u) # 0 /\ Len(<<>>) = 0
          BY <3>1, <3>2
        <4> QED  BY <4>1
      <3> QED  BY <2>2, <3>2, <3>3
    <2>4. LastSent' = b
      BY <1>2, <2>3
    <2>5. \A i \in 1 .. 11 : 11 - 11 + i = i
      OBVIOUS
    <2>6. \A i \in 1 .. 11 : line'[i] = Frame(b)[11 - 11 + i]
      BY <2>2, <2>5
    <2>7. Len(line') = 11
      BY <2>1, <2>2
    <2> QED  BY <1>1, <2>3, <2>4, <2>6, <2>7
  <1>4. CASE Clock
    <2> DEFINE n == Len(line)
    <2>1. line # <<>> /\ line' = Tail(line) /\ hist' = hist /\ LastSent' = LastSent
      BY <1>4 DEF Clock, LastSent
    <2>2. /\ n \in Nat \ {0} /\ n <= 11
          /\ \A i \in 1 .. n : line[i] = Frame(LastSent)[11 - n + i]
      BY <1>0, <2>1, EmptySeq, LenProperties DEF LineLeft
    <2>3. /\ Len(line') = n - 1
          /\ \A i \in 1 .. n - 1 : line'[i] = line[i + 1]
      BY <1>0, <2>1, HeadTailProperties
    <2>4. \A i \in 1 .. n - 1 : line'[i] = Frame(LastSent)[11 - (n - 1) + i]
      <3> HIDE DEF n
      <3> SUFFICES ASSUME NEW i \in 1 .. n - 1
                   PROVE  line'[i] = Frame(LastSent)[11 - (n - 1) + i]
        OBVIOUS
      <3>1. i + 1 \in 1 .. n /\ 11 - n + (i + 1) = 11 - (n - 1) + i
        BY <2>2
      <3>2. line'[i] = line[i + 1]
        BY <2>3
      <3>3. line[i + 1] = Frame(LastSent)[11 - n + (i + 1)]
        BY <2>2, <3>1
      <3> QED  BY <3>1, <3>2, <3>3
    <2>5. hist.sent # <<>>
      BY <2>1 DEF LineLeft
    <2> QED  BY <1>1, <2>1, <2>2, <2>3, <2>4, <2>5
  <1>5. CASE line' = line /\ hist'.sent = hist.sent
    BY <1>5 DEF LineLeft, LastSent
  <1> QED  BY <1>3, <1>4, <1>5, LineKept

LEMMA SamplesWaitInit == Init => SamplesWait
  <1> SUFFICES ASSUME Init PROVE SamplesWait  OBVIOUS
  <1>1. Len(mailbox) = 0
    BY EmptySeq DEF Init
  <1> QED  BY <1>1 DEF Init, SamplesWait

LEMMA SamplesWaitStep == IInv /\ SamplesWait /\ [Next]_vars => SamplesWait'
  <1> SUFFICES ASSUME IInv, SamplesWait, [Next]_vars PROVE SamplesWait'  OBVIOUS
  <1>0. /\ Len(mailbox) \in Nat /\ Len(usb.samples) \in Nat /\ usb.samples \in Seq(Bit)
        /\ usb \in PacketState /\ usb.edges \in 0 .. 2 /\ intf1 \in BOOLEAN /\ level \in Bit
    BY LenProperties DEF IInv, TypeOK, PacketState
  <1>1. /\ mailbox # <<>> => pcint
        /\ Len(mailbox) <= 2
        /\ usb.open => Len(usb.samples) + (IF intf1 THEN 1 ELSE 0) = usb.edges
        /\ ~usb.open => usb.samples = <<>>
        /\ inPcint => ~usb.open /\ ~pcint
    BY DEF SamplesWait
  <1>2. Len(<<>>) = 0 /\ \A S : <<>> \in Seq(S)
    BY EmptySeq
  <1> DEFINE New(u) == IF u.open THEN Len(u.samples) + (IF intf1' THEN 1 ELSE 0) = u.edges
                       ELSE u.samples = <<>>
  <1>3. SamplesWait' <=> /\ mailbox' # <<>> => pcint'
                         /\ Len(mailbox') <= 2
                         /\ New(usb')
                         /\ inPcint' => ~usb'.open /\ ~pcint'
    BY DEF SamplesWait
  <1>4. ASSUME NEW b \in Bytes, BeginFrame(b) PROVE SamplesWait'
    BY <1>1, <1>3, <1>4 DEF BeginFrame
  <1>5. CASE Clock
    <2>1. /\ UNCHANGED <<mailbox, pcint, inPcint>>
          /\ intf1' /\ ~intf1 /\ usb'.open = usb.open /\ usb'.samples = usb.samples
          /\ usb.open => usb'.edges = usb.edges + 1
      BY <1>0, <1>5 DEF Clock, PacketState
    <2>2. New(usb')
      <3>1. CASE usb.open
        BY <1>0, <1>1, <2>1, <3>1
      <3>2. CASE ~usb.open
        BY <1>1, <2>1, <3>2
      <3> QED  BY <3>1, <3>2
    <2> QED  BY <1>1, <1>3, <2>1, <2>2
  <1>6. CASE PacketBegins
    <2>1. /\ UNCHANGED <<mailbox, pcint, inPcint, intf1>> /\ ~inPcint
          /\ usb'.samples = <<>> /\ usb'.edges = (IF intf1 THEN 1 ELSE 0)
      BY <1>6 DEF PacketBegins, NewPacket
    <2>2. New(usb')
      BY <1>0, <1>2, <2>1
    <2> QED  BY <1>1, <1>3, <2>1, <2>2
  <1>7. ASSUME NEW late \in BOOLEAN, SampleEdge(late) PROVE SamplesWait'
    <2>1. /\ UNCHANGED <<mailbox, pcint, inPcint>> /\ usb.open /\ intf1 /\ ~intf1'
          /\ usb'.open = usb.open /\ usb'.samples = Append(usb.samples, level)
          /\ usb'.edges = usb.edges
      BY <1>0, <1>7 DEF SampleEdge, PacketState
    <2>2. Len(usb'.samples) = Len(usb.samples) + 1
      BY <1>0, <2>1, AppendProperties
    <2>3. New(usb')
      BY <1>0, <1>1, <2>1, <2>2
    <2> QED  BY <1>1, <1>3, <2>1, <2>3
  <1>8. ASSUME NEW again \in BOOLEAN, PacketEnds(again) PROVE SamplesWait'
    <2>1. /\ UNCHANGED <<inPcint, intf1>> /\ usb.open
          /\ usb'.samples = <<>> /\ usb'.edges = (IF intf1 THEN 1 ELSE 0)
      BY <1>8 DEF PacketEnds, NewPacket
    <2>2. New(usb')
      BY <1>0, <1>2, <2>1
    <2>3. Len(usb.samples) <= 2
      <3>1. CASE intf1
        BY <1>0, <1>1, <2>1, <3>1
      <3>2. CASE ~intf1
        BY <1>0, <1>1, <2>1, <3>2
      <3> QED  BY <3>1, <3>2
    <2>4. (mailbox' # <<>> => pcint') /\ Len(mailbox') <= 2
      <3>1. CASE usb.samples = <<>>
        BY <1>1, <1>8, <3>1 DEF PacketEnds
      <3>2. CASE usb.samples # <<>>
        <4>1. pcint' /\ (mailbox' = <<>> \/ mailbox' = usb.samples)
          BY <1>8, <3>2 DEF PacketEnds
        <4> QED  BY <1>2, <2>3, <4>1
      <3> QED  BY <3>1, <3>2
    <2> QED  BY <1>1, <1>3, <2>1, <2>2, <2>4
  <1>9. ASSUME NEW again \in BOOLEAN, PacketForgets(again) PROVE SamplesWait'
    <2>1. /\ UNCHANGED <<mailbox, pcint, inPcint, intf1>> /\ usb.open
          /\ usb'.samples = <<>> /\ usb'.edges = (IF intf1 THEN 1 ELSE 0)
      BY <1>9 DEF PacketForgets, NewPacket
    <2>2. New(usb')
      BY <1>0, <1>2, <2>1
    <2> QED  BY <1>1, <1>3, <2>1, <2>2
  <1>10. CASE INT1
    BY <1>1, <1>3, <1>10 DEF INT1
  <1>11. CASE BitIgnored \/ ReadState \/ WriteState \/ SwitchState
    <2>1. UNCHANGED <<mailbox, pcint, inPcint, intf1, usb>>
      BY <1>11 DEF BitIgnored, ReadState, WriteState, SwitchState
    <2> QED  BY <1>1, <1>3, <2>1
  <1>12. CASE PCINT1
    BY <1>1, <1>2, <1>3, <1>12 DEF PCINT1
  <1>13. CASE PCINT1Return
    BY <1>1, <1>3, <1>13 DEF PCINT1Return
  <1>14. CASE Fetch \/ LookAtError \/ Decode \/ UNCHANGED vars
    <2>1. UNCHANGED <<mailbox, pcint, inPcint, intf1, usb>>
      BY <1>14 DEF Fetch, LookAtError, Decode, vars
    <2> QED  BY <1>1, <1>3, <2>1
  <1> QED
    BY <1>4, <1>5, <1>6, <1>7, <1>8, <1>9, <1>10, <1>11, <1>12, <1>13, <1>14
    DEF Next, Device, Packet, Handler

LEMMA HandlersApartInit == Init => HandlersApart
  BY DEF Init, HandlersApart

LEMMA HandlersApartStep == IInv /\ SamplesWait /\ HandlersApart /\ [Next]_vars => HandlersApart'
  <1> DEFINE h == handlers'[1]
             New == /\ Len(handlers') = 1
                    /\ h.pc = "read" => rx'.errState = 0 /\ h.s = rx'.state + 1
                    /\ h.pc = "written" => rx'.errState = 0 /\ h.s = rx'.state
                    /\ ~h.heldUp =>
                         ~usb'.open /\ ~intf1' /\ (h.pc # "enter" => ~pcint' /\ ~inPcint')
                    /\ inPcint' => ~h.heldUp
  <1>0. HandlersApart' <=> (hist'.overtaken = 0 /\ handlers' # <<>> => New)
    BY DEF HandlersApart, Inner
  <1> SUFFICES ASSUME IInv, SamplesWait, HandlersApart, [Next]_vars,
                      hist'.overtaken = 0, handlers' # <<>>
               PROVE  New
    BY <1>0
  <1> HIDE <1>0
  <1>1. /\ handlers \in Seq(HandlerState) /\ usb \in PacketState /\ rx \in Receiver
        /\ hist \in History /\ hist.overtaken \in Nat
    BY HistoryTyped DEF IInv, TypeOK
  <1>2. hist.overtaken = 0
    BY <1>1, LineKept DEF Accidents
  <1>3. handlers # <<>> =>
          /\ Len(handlers) = 1
          /\ Inner.pc = "read" => rx.errState = 0 /\ Inner.s = rx.state + 1
          /\ Inner.pc = "written" => rx.errState = 0 /\ Inner.s = rx.state
          /\ ~Inner.heldUp => ~usb.open /\ ~intf1 /\ (Inner.pc # "enter" => ~pcint /\ ~inPcint)
          /\ inPcint => ~Inner.heldUp
    BY <1>2 DEF HandlersApart
  <1>4. handlers # <<>> => /\ Tail(handlers) = <<>> /\ DOMAIN handlers = {1}
                           /\ Inner \in HandlerState
    BY <1>1, <1>3, OnlyHandler DEF Inner
  <1>5. ASSUME NEW b \in Bytes, BeginFrame(b) PROVE New
    BY <1>3, <1>5 DEF BeginFrame, Inner
  <1>6. CASE Clock
    <2>1. /\ UNCHANGED <<handlers, rx, pcint, inPcint>> /\ usb'.open = usb.open
      BY <1>1, <1>6 DEF Clock, PacketState
    <2>2. Inner.heldUp
      BY <1>3, <1>4, <1>6, <2>1 DEF Clock, Inner
    <2> QED  BY <1>3, <2>1, <2>2 DEF Inner
  <1>7. CASE PacketBegins
    <2>1. /\ handlers' = [i \in DOMAIN handlers |-> [handlers[i] EXCEPT !.heldUp = TRUE]]
          /\ UNCHANGED <<rx, pcint, inPcint>> /\ ~inPcint
      BY <1>7 DEF PacketBegins
    <2>2. handlers # <<>>
      <3>1. handlers = <<>> => DOMAIN handlers = {}
        BY <1>1, EmptySeq, LenProperties
      <3>2. handlers = <<>> => handlers' = <<>>
        BY <2>1, <3>1
      <3> QED  BY <3>2
    <2>3. handlers' \in Seq(HandlerState)
      BY <1>1, <2>1, HandlersHeldUp DEF IInv, Counted
    <2>4. DOMAIN handlers' = {1} /\ h = [handlers[1] EXCEPT !.heldUp = TRUE]
      BY <1>4, <2>1, <2>2
    <2>5. Len(handlers') = 1
      <3>1. 1 .. Len(handlers') = {1} /\ Len(handlers') \in Nat
        BY <2>3, <2>4, LenProperties
      <3> DEFINE n == Len(handlers')
      <3>2. n \in Nat /\ 1 \in 1 .. n /\ 2 \notin 1 .. n
        BY <3>1
      <3> HIDE DEF n
      <3>3. n = 1
        BY <3>2
      <3> QED  BY <3>3 DEF n
    <2>6. /\ h.heldUp /\ h.pc = Inner.pc /\ h.s = Inner.s
      BY <1>4, <2>2, <2>4 DEF Inner, HandlerState
    <2> HIDE DEF h
    <2> QED  BY <1>3, <2>1, <2>2, <2>5, <2>6
  <1>8. ASSUME NEW late \in BOOLEAN, SampleEdge(late) PROVE New
    <2>1. /\ UNCHANGED <<handlers, rx, pcint, inPcint>> /\ usb'.open = usb.open
          /\ ~intf1'
      BY <1>1, <1>8 DEF SampleEdge, PacketState
    <2> QED  BY <1>3, <2>1 DEF Inner
  <1>9. ASSUME NEW again \in BOOLEAN, PacketEnds(again) \/ PacketForgets(again) PROVE New
    <2>1. UNCHANGED <<handlers, rx, inPcint>> /\ usb.open
      BY <1>9 DEF PacketEnds, PacketForgets
    <2>2. Inner.heldUp /\ ~inPcint
      BY <1>3, <2>1 DEF SamplesWait
    <2> QED  BY <1>3, <2>1, <2>2 DEF Inner
  <1>10. CASE INT1
    <2> DEFINE x == [bit |-> level, pc |-> "enter", s |-> 0, heldUp |-> FALSE]
    <2>1. handlers = <<>>
      BY <1>1, <1>2, <1>10 DEF INT1, History
    <2>2. handlers' = <<x>> /\ h = x /\ Len(handlers') = 1
      BY <1>10, <2>1 DEF INT1
    <2>3. ~usb'.open /\ ~intf1' /\ ~inPcint'
      BY <1>10 DEF INT1
    <2>4. h.pc = "enter" /\ ~h.heldUp
      BY <2>2
    <2> HIDE DEF h
    <2> QED  BY <2>2, <2>3, <2>4
  <1>11. CASE BitIgnored \/ SwitchState
    BY <1>4, <1>11 DEF BitIgnored, SwitchState
  <1>12. CASE ReadState
    <2>1. /\ UNCHANGED <<rx, intf1, pcint, inPcint, usb>> /\ Quiet /\ handlers # <<>>
          /\ rx.errState = 0
          /\ handlers' = [handlers EXCEPT ![1].pc = "read", ![1].s = rx.state + 1]
      BY <1>12 DEF ReadState
    <2>2. h.pc = "read" /\ h.s = rx.state + 1
      BY <1>4, <2>1 DEF HandlerState, Inner
    <2>3. Len(handlers') = 1
      BY <1>1, <1>3, <2>1
    <2> HIDE DEF h
    <2> QED  BY <2>1, <2>2, <2>3 DEF Quiet
  <1>13. CASE WriteState
    <2>1. /\ UNCHANGED <<intf1, pcint, inPcint, usb>> /\ Quiet /\ handlers # <<>>
          /\ Inner.pc = "read"
          /\ handlers' = [handlers EXCEPT ![1].pc = "written"]
          /\ rx' = [rx EXCEPT !.state = Inner.s]
      BY <1>13 DEF WriteState
    <2>2. h.pc = "written" /\ h.s = Inner.s
      BY <1>4, <2>1 DEF HandlerState, Inner
    <2>3. Len(handlers') = 1
      BY <1>1, <1>3, <2>1
    <2>4. rx'.state = Inner.s /\ rx'.errState = 0
      BY <1>1, <1>3, <2>1 DEF Receiver
    <2> HIDE DEF h
    <2> QED  BY <2>1, <2>2, <2>3, <2>4 DEF Quiet
  <1>14. CASE PCINT1
    <2>1. /\ UNCHANGED <<handlers, intf1, usb>> /\ pcint /\ ~intf1 /\ ~usb.open
          /\ hist' = [hist EXCEPT !.overtaken =
                        IF handlers # <<>> /\ Inner.heldUp THEN @ + 1 ELSE @]
      BY <1>14 DEF PCINT1
    <2>2. ~Inner.heldUp
      BY <1>1, <1>2, <2>1 DEF History
    <2>3. Inner.pc = "enter"
      BY <1>3, <2>1, <2>2
    <2> QED  BY <1>3, <2>1, <2>2, <2>3 DEF Inner
  <1>15. CASE PCINT1Return
    <2>1. UNCHANGED <<handlers, pcint, usb>> /\ inPcint /\ ~inPcint'
      BY <1>15 DEF PCINT1Return
    <2>2. ~Inner.heldUp /\ ~intf1
      BY <1>3, <2>1
    <2>3. rx' = rx /\ ~intf1'
      BY <1>15, <2>2 DEF PCINT1Return
    <2> QED  BY <1>3, <2>1, <2>2, <2>3 DEF Inner
  <1>16. CASE Fetch \/ LookAtError \/ Decode
    BY <1>16 DEF Fetch, LookAtError, Decode
  <1>17. CASE UNCHANGED vars
    BY <1>3, <1>17 DEF vars, Inner
  <1> QED
    BY <1>5, <1>6, <1>7, <1>8, <1>9, <1>10, <1>11, <1>12, <1>13, <1>14, <1>15, <1>16, <1>17
    DEF Next, Device, Packet, Handler

-----------------------------------------------------------------------------
(* The receiver without and with the bits on their way.                    *)

InStep == IInv /\ SamplesWait /\ HandlersApart

LEMMA BeforeTyped ==
  ASSUME InStep
  PROVE  Before \in Receiver /\ View(Before) \in Views
  <1>1. rx \in Receiver /\ handlers \in Seq(HandlerState)
    BY DEF InStep, IInv, TypeOK
  <1>2. ASSUME handlers # <<>>, Inner.pc = "written" PROVE Inner.s - 1 \in Nat
    <2>1. 1 \in DOMAIN handlers /\ Inner \in HandlerState
      BY <1>1, <1>2, HandlersInner DEF Inner
    <2>2. Inner.s \in Nat /\ Inner.s > 0
      BY <1>2, <2>1 DEF HandlerState, InStep, IInv, Counted, Counts, Inner
    <2> QED  BY <2>2
  <1>3. Before \in Receiver
    BY <1>1, <1>2 DEF Before, Receiver
  <1> QED  BY <1>3, ViewIn

\* What the steps know of the handlers while no bit overtakes another.
LEMMA OneHandler ==
  ASSUME InStep, hist.overtaken = 0
  PROVE  /\ handlers # <<>> =>
              /\ Len(handlers) = 1 /\ Tail(handlers) = <<>> /\ DOMAIN handlers = {1}
              /\ Inner \in HandlerState /\ Inner.bit \in Bit /\ Inner.heldUp \in BOOLEAN
              /\ Inner.pc = "read" => rx.errState = 0 /\ Inner.s = rx.state + 1
              /\ Inner.pc = "written" => rx.errState = 0 /\ Inner.s = rx.state
              /\ ~Inner.heldUp =>
                   ~usb.open /\ ~intf1 /\ (Inner.pc # "enter" => ~pcint /\ ~inPcint)
              /\ inPcint => ~Inner.heldUp
         /\ ~pcint => mailbox = <<>>
         /\ ~usb.open => usb.samples = <<>>
         /\ inPcint => ~usb.open /\ ~pcint
         /\ mailbox \in Seq(Bit) /\ usb.samples \in Seq(Bit) /\ level \in Bit
         /\ rx \in Receiver /\ usb \in PacketState /\ hist \in History
         /\ intf1 \in BOOLEAN
  <1>1. /\ mailbox \in Seq(Bit) /\ usb.samples \in Seq(Bit) /\ level \in Bit
        /\ rx \in Receiver /\ usb \in PacketState /\ hist \in History
        /\ handlers \in Seq(HandlerState) /\ intf1 \in BOOLEAN
    BY DEF InStep, IInv, TypeOK, PacketState
  <1>2. /\ ~pcint => mailbox = <<>>
        /\ ~usb.open => usb.samples = <<>>
        /\ inPcint => ~usb.open /\ ~pcint
    BY DEF InStep, SamplesWait
  <1>3. handlers # <<>> =>
          /\ Len(handlers) = 1
          /\ Inner.pc = "read" => rx.errState = 0 /\ Inner.s = rx.state + 1
          /\ Inner.pc = "written" => rx.errState = 0 /\ Inner.s = rx.state
          /\ ~Inner.heldUp => ~usb.open /\ ~intf1 /\ (Inner.pc # "enter" => ~pcint /\ ~inPcint)
          /\ inPcint => ~Inner.heldUp
    BY DEF InStep, HandlersApart
  <1>4. handlers # <<>> => /\ Tail(handlers) = <<>> /\ DOMAIN handlers = {1}
                           /\ Inner \in HandlerState
    BY <1>1, <1>3, OnlyHandler DEF Inner
  <1>5. handlers # <<>> => Inner.bit \in Bit /\ Inner.heldUp \in BOOLEAN
    BY <1>4 DEF HandlerState
  <1> QED  BY <1>1, <1>2, <1>3, <1>4, <1>5

\* Steps that leave the receiver before its next bit.
LEMMA BeforeStays ==
  ASSUME InStep, hist.overtaken = 0, hist'.overtaken = 0,
         \/ \E b \in Bytes : BeginFrame(b)
         \/ Clock \/ PacketBegins
         \/ \E late \in BOOLEAN : SampleEdge(late)
         \/ \E again \in BOOLEAN : PacketEnds(again) \/ PacketForgets(again)
         \/ INT1 \/ ReadState \/ WriteState \/ Fetch \/ Decode \/ (LookAtError /\ rx.error = 0)
         \/ UNCHANGED vars
  PROVE  View(Before') = View(Before)
  <1>0. Before' = IF handlers' # <<>> /\ handlers'[1].pc = "written"
                    THEN [rx' EXCEPT !.state = handlers'[1].s - 1] ELSE rx'
    BY DEF Before, Inner
  <1>1. handlers # <<>> => DOMAIN handlers = {1} /\ Inner \in HandlerState
    BY OneHandler
  <1>2. CASE UNCHANGED <<handlers, rx>>
    BY <1>0, <1>2 DEF Before, Inner
  <1>3. CASE PacketBegins
    <2>1. /\ handlers' = [i \in DOMAIN handlers |-> [handlers[i] EXCEPT !.heldUp = TRUE]]
          /\ rx' = rx
      BY <1>3 DEF PacketBegins
    <2>2. CASE handlers = <<>>
      <3>1. handlers' = <<>>
        <4>1. <<>> \in Seq(Nat) /\ Len(<<>>) = 0 /\ DOMAIN <<>> = 1 .. 0
          BY EmptySeq, LenProperties
        <4> QED  BY <2>1, <2>2, <4>1
      <3> QED  BY <1>0, <2>1, <2>2, <3>1 DEF Before
    <2>3. CASE handlers # <<>>
      <3>1. handlers' # <<>> /\ handlers'[1] = [handlers[1] EXCEPT !.heldUp = TRUE]
        BY <1>1, <2>1, <2>3
      <3>2. handlers'[1].pc = Inner.pc /\ handlers'[1].s = Inner.s
        BY <1>1, <2>3, <3>1 DEF Inner, HandlerState
      <3> QED  BY <1>0, <2>1, <2>3, <3>1, <3>2 DEF Before
    <2> QED  BY <2>2, <2>3
  <1>4. CASE INT1
    <2> DEFINE x == [bit |-> level, pc |-> "enter", s |-> 0, heldUp |-> FALSE]
    <2>1. handlers = <<>>
      BY <1>4, OneHandler DEF INT1, History
    <2>2. handlers' = <<x>> /\ handlers'[1] = x /\ rx' = rx
      BY <1>4, <2>1 DEF INT1
    <2>3. handlers'[1].pc # "written"
      BY <2>2
    <2> QED  BY <1>0, <2>1, <2>2, <2>3 DEF Before
  <1>5. CASE ReadState
    <2>1. /\ rx' = rx /\ handlers # <<>> /\ Inner.pc = "enter"
          /\ handlers' = [handlers EXCEPT ![1].pc = "read", ![1].s = rx.state + 1]
      BY <1>5 DEF ReadState
    <2>2. handlers'[1].pc = "read"
      BY <1>1, <2>1 DEF HandlerState, Inner
    <2> QED  BY <1>0, <2>1, <2>2 DEF Before
  <1>6. CASE WriteState
    <2>1. /\ handlers # <<>> /\ Inner.pc = "read"
          /\ handlers' = [handlers EXCEPT ![1].pc = "written"]
          /\ rx' = [rx EXCEPT !.state = Inner.s]
      BY <1>6 DEF WriteState
    <2>2. handlers'[1].pc = "written" /\ handlers'[1].s = Inner.s
      BY <1>1, <2>1 DEF HandlerState, Inner
    <2>3. handlers' # <<>>
      BY <1>1, <2>1
    <2>4. Inner.s = rx.state + 1 /\ rx \in Receiver
      BY <2>1, OneHandler
    <2>5. Inner.s - 1 = rx.state
      BY <2>4 DEF Receiver
    <2>6. Before' = [rx' EXCEPT !.state = rx.state]
      BY <1>0, <2>2, <2>3, <2>5
    <2>7. Before' = rx
      BY <2>1, <2>4, <2>6 DEF Receiver
    <2> QED  BY <2>1, <2>7 DEF Before
  <1>7. CASE Fetch
    <2>1. /\ handlers = <<>> /\ handlers' = <<>>
          /\ rx' = [rx EXCEPT !.pbuf = IF @ = <<>> THEN @ ELSE Tail(@)]
      BY <1>7 DEF Fetch
    <2>2. rx \in Receiver
      BY OneHandler
    <2>3. View(rx') = View(rx)
      BY <2>1, <2>2 DEF View, Receiver
    <2> QED  BY <1>0, <2>1, <2>3 DEF Before
  <1>8. CASE Decode \/ (LookAtError /\ rx.error = 0)
    BY <1>2, <1>8 DEF LookAtError, Decode
  <1>9. CASE Clock \/ (\E b \in Bytes : BeginFrame(b)) \/ (\E late \in BOOLEAN : SampleEdge(late))
    BY <1>2, <1>9 DEF Clock, BeginFrame, SampleEdge
  <1>10. CASE \E again \in BOOLEAN : PacketEnds(again) \/ PacketForgets(again)
    BY <1>2, <1>10 DEF PacketEnds, PacketForgets
  <1>11. CASE UNCHANGED vars
    BY <1>2, <1>11 DEF vars
  <1> QED  BY <1>3, <1>4, <1>5, <1>6, <1>7, <1>8, <1>9, <1>10, <1>11

\* The end of a handler takes its bit in.
LEMMA BeforeTakes ==
  ASSUME InStep, hist.overtaken = 0, BitIgnored \/ SwitchState
  PROVE  View(Before') = Advance(View(Before), Inner.bit)
  <1>0. handlers # <<>> /\ handlers' = <<>>
    BY OneHandler DEF BitIgnored, SwitchState
  <1>1. Before' = rx'
    BY <1>0 DEF Before
  <1>2. /\ Before \in Receiver /\ Inner.bit \in Bit /\ rx \in Receiver
    BY <1>0, BeforeTyped, OneHandler
  <1>3. Advance(View(Before), Inner.bit) = View(handleBit(Before, Inner.bit))
    BY <1>2, ViewAdvances
  <1>4. CASE BitIgnored
    <2>1. Before = rx /\ rx' = rx /\ rx.errState = 1
      BY <1>4 DEF BitIgnored, Before
    <2>2. handleBit(rx, Inner.bit) = rx
      BY <2>1 DEF handleBit
    <2> QED  BY <1>1, <1>3, <2>1, <2>2
  <1>5. CASE SwitchState
    <2>1. Inner.pc = "written" /\ rx' = Switch(rx, Inner.s, Inner.bit)
      BY <1>5 DEF SwitchState
    <2>2. rx.errState = 0 /\ Inner.s = rx.state
      BY <1>0, <2>1, OneHandler
    <2>3. Before = [rx EXCEPT !.state = Inner.s - 1]
      BY <1>0, <2>1 DEF Before
    <2> DEFINE q == [Before EXCEPT !.state = Before.state + 1]
    <2>4. /\ Before.errState = 0 /\ Before.state + 1 = Inner.s
          /\ q = rx
      <3>1. Before.errState = 0 /\ Before.state = rx.state - 1 /\ rx.state \in Nat
        BY <1>2, <2>2, <2>3 DEF Receiver
      <3>2. Before.state + 1 = rx.state
        BY <3>1
      <3>3. q = [Before EXCEPT !.state = rx.state]
        BY <3>2
      <3>4. q = rx
        BY <1>2, <2>3, <3>3 DEF Receiver
      <3> QED  BY <2>2, <3>1, <3>2, <3>4
    <2>5. handleBit(Before, Inner.bit) = Switch(q, Before.state + 1, Inner.bit)
      BY <2>4 DEF handleBit
    <2> QED  BY <1>1, <1>3, <2>1, <2>4, <2>5
  <1> QED  BY <1>4, <1>5

\* PCINT1 takes the mailbox in ...
LEMMA BeforeTakesMailbox ==
  ASSUME InStep, hist.overtaken = 0, hist'.overtaken = 0, PCINT1
  PROVE  /\ handlers # <<>> => ~Inner.heldUp
         /\ View(Before') = Two(View(Before), mailbox)
  <1>1. /\ handlers' = handlers /\ pcint /\ ~intf1 /\ ~usb.open
        /\ rx' = HandleSamples(rx, mailbox)
        /\ hist' = [hist EXCEPT !.overtaken =
                      IF handlers # <<>> /\ Inner.heldUp THEN @ + 1 ELSE @]
    BY DEF PCINT1
  <1>2. handlers # <<>> => ~Inner.heldUp
    BY <1>1, OneHandler DEF History
  <1>3. handlers # <<>> => Inner.pc = "enter"
    BY <1>1, <1>2, OneHandler
  <1>4. Before = rx /\ Before' = rx'
    BY <1>1, <1>3 DEF Before, Inner
  <1>5. rx \in Receiver /\ mailbox \in Seq(Bit)
    BY OneHandler
  <1> QED  BY <1>1, <1>2, <1>4, <1>5, SamplesTaken

\* ... and the edge that came meanwhile.
LEMMA BeforeTakesEdge ==
  ASSUME InStep, hist.overtaken = 0, PCINT1Return
  PROVE  View(Before') = One(View(Before), intf1, level)
  <1>1. /\ handlers' = handlers /\ inPcint
        /\ rx' = IF intf1 THEN handleBit(rx, level) ELSE rx
    BY DEF PCINT1Return
  <1>2. handlers # <<>> => ~Inner.heldUp /\ ~intf1 /\ Inner.pc = "enter"
    BY <1>1, OneHandler
  <1>3. rx \in Receiver /\ level \in Bit
    BY OneHandler
  <1>4. Before = rx /\ Before' = rx'
    BY <1>1, <1>2 DEF Before, Inner
  <1> QED  BY <1>1, <1>3, <1>4, ViewAdvances DEF One

\* Every bit that is not on its way past another leaves inhibit and state agreed.
LEMMA AdvanceInhibits ==
  ASSUME NEW v \in Views, NEW bit \in Bit, Inhibits(v)
  PROVE  Inhibits(Advance(v, bit))
  <1> DEFINE w == Advance(v, bit)
             s == v.state + 1
  <1>1. Taken(v, bit, w)
    BY AdvanceCases
  <1>2. v.state \in Nat /\ v.errState \in {0, 1}
    BY DEF Views, Receiver, Bit
  <1> HIDE DEF w
  <1>3. CASE v.errState = 1
    BY <1>1, <1>3 DEF Taken, w
  <1>4. CASE v.errState = 0 /\ Rejects(v, s, bit)
    BY <1>1, <1>4 DEF Taken, w, Inhibits
  <1>5. CASE v.errState = 0 /\ ~Rejects(v, s, bit)
    <2>1. s = START \/ s \in BIT0 .. BIT7 \/ s = PARITY \/ s = STOP
      BY <1>1, <1>5 DEF Taken
    <2>2. CASE s = START
      BY <1>1, <1>5, <2>2 DEF Taken, w, Inhibits
    <2>3. CASE s \in BIT0 .. BIT7
      BY <1>1, <1>2, <1>5, <2>3 DEF Taken, w, Inhibits
    <2>4. CASE s = PARITY
      BY <1>1, <1>2, <1>5, <2>4 DEF Taken, w, Inhibits
    <2>5. CASE s = STOP
      BY <1>1, <1>5, <2>5 DEF Taken, w, Inhibits
    <2> QED  BY <2>1, <2>2, <2>3, <2>4, <2>5
  <1> QED  BY <1>2, <1>3, <1>4, <1>5

LEMMA TwoInhibits ==
  ASSUME NEW v \in Views, NEW samples \in Seq(Bit), Inhibits(v)
  PROVE  Inhibits(Two(v, samples))
  <1>1. CASE samples = <<>>
    BY <1>1 DEF Two
  <1>2. CASE samples # <<>> /\ Len(samples) = 1
    <2>1. samples[1] \in Bit
      BY <1>2, ElementOfSeq
    <2> QED  BY <1>2, <2>1, AdvanceInhibits DEF Two
  <1>3. CASE samples # <<>> /\ Len(samples) # 1
    <2>1. Len(samples) \in Nat \ {0}
      BY <1>3, EmptySeq
    <2>2. \A n \in Nat \ {0} : n # 1 => 1 \in 1 .. n /\ 2 \in 1 .. n
      OBVIOUS
    <2>3. 1 \in 1 .. Len(samples) /\ 2 \in 1 .. Len(samples)
      BY <1>3, <2>1, <2>2, Zenon
    <2>4. samples[1] \in Bit /\ samples[2] \in Bit
      BY <2>3, ElementOfSeq, Zenon
    <2>5. Advance(v, samples[1]) \in Views /\ Inhibits(Advance(v, samples[1]))
      BY <2>4, AdvanceCases, AdvanceInhibits
    <2>6. Inhibits(Advance(Advance(v, samples[1]), samples[2]))
      BY <2>4, <2>5, AdvanceInhibits
    <2> QED  BY <1>3, <2>6 DEF Two
  <1> QED  BY <1>1, <1>2, <1>3

LEMMA InhibitKeptInit == Init => InhibitKept
  BY DEF Init, InhibitKept, Inhibits, Before, Idle

LEMMA InhibitKeptStep ==
  InStep /\ InStep' /\ InhibitKept /\ [Next]_vars => InhibitKept'
  <1> SUFFICES ASSUME InStep, InStep', InhibitKept, [Next]_vars, hist'.overtaken = 0
               PROVE  Inhibits(Before')
    BY DEF InhibitKept, Inhibits
  <1>1. hist.overtaken = 0
    <2>1. hist.overtaken \in Nat
      BY HistoryTyped DEF InStep, IInv, TypeOK
    <2> QED  BY <2>1, LineKept DEF Accidents, InStep
  <1> DEFINE v == View(Before)
             w == View(Before')
  <1>2. v \in Views /\ Before \in Receiver /\ Inhibits(v)
    BY <1>1, BeforeTyped, ViewTyped DEF InhibitKept, Inhibits
  <1>3. Before' \in Receiver
    <2>1. InStep' => Before' \in Receiver
      <3>1. /\ rx' \in Receiver /\ handlers' \in Seq(HandlerState)
            /\ \A i \in DOMAIN handlers' : handlers'[i].pc # "enter" => handlers'[i].s > 0
        BY DEF InStep, IInv, TypeOK, Counted, Counts
      <3>2. ASSUME handlers' # <<>>, handlers'[1].pc = "written" PROVE handlers'[1].s - 1 \in Nat
        <4>1. 1 \in DOMAIN handlers' /\ handlers'[1] \in HandlerState
          BY <3>1, <3>2, HandlersInner
        <4>2. handlers'[1].s \in Nat /\ handlers'[1].s > 0
          BY <3>1, <3>2, <4>1 DEF HandlerState
        <4> QED  BY <4>2
      <3> QED  BY <3>1, <3>2 DEF Before, Inner, Receiver
    <2> QED  BY <2>1
  <1>4. Inhibits(Before') <=> Inhibits(w)
    BY <1>3, ViewTyped DEF Inhibits
  <1> HIDE DEF v, w
  <1>5. CASE w = v
    BY <1>2, <1>4, <1>5
  <1>6. CASE BitIgnored \/ SwitchState
    <2>1. handlers # <<>>
      BY <1>6 DEF BitIgnored, SwitchState
    <2>2. Inner.bit \in Bit
      BY <1>1, <2>1, OneHandler
    <2>3. w = Advance(v, Inner.bit)
      BY <1>1, <1>6, BeforeTakes DEF v, w
    <2> QED  BY <1>2, <1>4, <2>2, <2>3, AdvanceInhibits
  <1>7. CASE PCINT1
    <2>1. w = Two(v, mailbox) /\ mailbox \in Seq(Bit)
      BY <1>1, <1>7, BeforeTakesMailbox, OneHandler DEF v, w
    <2> QED  BY <1>2, <1>4, <2>1, TwoInhibits
  <1>8. CASE PCINT1Return
    <2>1. w = One(v, intf1, level) /\ level \in Bit
      BY <1>1, <1>8, BeforeTakesEdge, OneHandler DEF v, w
    <2> QED  BY <1>2, <1>4, <2>1, AdvanceInhibits DEF One
  <1>9. CASE LookAtError /\ rx.error # 0
    <2>1. handlers = <<>> /\ handlers' = <<>> /\ rx' = Unlatch(rx) /\ rx \in Receiver
      BY <1>1, <1>9, OneHandler DEF LookAtError
    <2>2. rx'.state = rx.state /\ rx'.inhibit = rx.inhibit
      BY <2>1 DEF Unlatch, Receiver
    <2> QED  BY <1>2, <2>1, <2>2, ViewTyped DEF Before, Inhibits, v
  <1>10. CASE \/ \E b \in Bytes : BeginFrame(b)
              \/ Clock \/ PacketBegins
              \/ \E late \in BOOLEAN : SampleEdge(late)
              \/ \E again \in BOOLEAN : PacketEnds(again) \/ PacketForgets(again)
              \/ INT1 \/ ReadState \/ WriteState \/ Fetch \/ Decode \/ (LookAtError /\ rx.error = 0)
              \/ UNCHANGED vars
    <2>1. w = v
      BY <1>1, <1>10, BeforeStays DEF v, w
    <2> QED  BY <1>5, <2>1
  <1> QED  BY <1>6, <1>7, <1>8, <1>9, <1>10 DEF Next, Device, Packet, Handler

LEMMA ReachedTyped ==
  ASSUME InStep, hist.overtaken = 0
  PROVE  /\ AfterHeld \in Views /\ AfterMailbox \in Views /\ AfterFresh \in Views
         /\ AfterPacket \in Views /\ Reached \in Views
  <1>1. /\ View(Before) \in Views /\ mailbox \in Seq(Bit) /\ usb.samples \in Seq(Bit)
        /\ level \in Bit /\ (handlers # <<>> => Inner.bit \in Bit)
    BY BeforeTyped, OneHandler
  <1>2. AfterHeld \in Views
    BY <1>1, AdvanceCases DEF AfterHeld, Held, One
  <1>3. AfterMailbox \in Views
    BY <1>1, <1>2, TwoTyped DEF AfterMailbox
  <1>4. AfterFresh \in Views
    BY <1>1, <1>3, AdvanceCases DEF AfterFresh, Fresh, One
  <1>5. AfterPacket \in Views
    BY <1>1, <1>4, TwoTyped DEF AfterPacket
  <1>6. Reached \in Views
    BY <1>1, <1>5, AdvanceCases DEF Reached, One
  <1> QED  BY <1>2, <1>3, <1>4, <1>5, <1>6

\* A bit handed on is still on its way, in its turn: neither an interrupt, nor
\* the end of a handler, nor the main loop changes what the receiver comes to.
LEMMA ReachedAgain ==
  ASSUME InStep, hist.overtaken = 0, hist'.overtaken = 0, hist'.lost = hist.lost,
         \/ \E b \in Bytes : BeginFrame(b)
         \/ PacketBegins
         \/ \E late \in BOOLEAN : SampleEdge(late)
         \/ \E again \in BOOLEAN : PacketEnds(again)
         \/ INT1 \/ BitIgnored \/ ReadState \/ WriteState \/ SwitchState
         \/ PCINT1 \/ PCINT1Return \/ Fetch \/ Decode \/ (LookAtError /\ rx.error = 0)
         \/ UNCHANGED vars
  PROVE  Reached' = Reached
  <1> DEFINE base == View(Before)
             next == View(Before')
             held == handlers' # <<>> /\ handlers'[1].heldUp
             fresh == handlers' # <<>> /\ ~handlers'[1].heldUp
             after == Two(One(Two(One(next, held, handlers'[1].bit), mailbox'),
                              fresh, handlers'[1].bit), usb'.samples)
             before == Two(One(Two(One(base, Held, Inner.bit), mailbox),
                               Fresh, Inner.bit), usb.samples)
             Skips(there) == \A v, bit : One(v, there, bit) = v
             Takes(there) == \A v, bit : One(v, there, bit) = Advance(v, bit)
  <1>0. /\ Reached' = One(after, intf1', level')
        /\ Reached = One(before, intf1, level)
    BY DEF Reached, AfterPacket, AfterFresh, AfterMailbox, AfterHeld, Held, Fresh, Inner
  <1>1. /\ handlers # <<>> =>
             /\ Tail(handlers) = <<>> /\ DOMAIN handlers = {1}
             /\ Inner \in HandlerState /\ Inner.heldUp \in BOOLEAN
             /\ ~Inner.heldUp => ~usb.open /\ ~intf1 /\ (Inner.pc # "enter" => ~pcint /\ ~inPcint)
             /\ inPcint => ~Inner.heldUp
        /\ ~pcint => mailbox = <<>>
        /\ ~usb.open => usb.samples = <<>>
        /\ inPcint => ~usb.open /\ ~pcint
        /\ mailbox \in Seq(Bit) /\ usb.samples \in Seq(Bit) /\ level \in Bit
        /\ usb \in PacketState /\ hist \in History /\ intf1 \in BOOLEAN
    BY OneHandler
  <1>2. \A v : Two(v, <<>>) = v
    BY DEF Two
  <1>3. /\ ~Held => Skips(Held)
        /\ Held => Takes(Held)
        /\ ~Fresh => Skips(Fresh)
        /\ Fresh => Takes(Fresh)
        /\ ~held => Skips(held)
        /\ held => Takes(held)
        /\ ~fresh => Skips(fresh)
        /\ fresh => Takes(fresh)
        /\ ~intf1 => Skips(intf1)
        /\ intf1 => Takes(intf1)
        /\ ~intf1' => Skips(intf1')
        /\ intf1' => Takes(intf1')
    BY DEF One
  <1> HIDE DEF next, base
  <1>4. CASE UNCHANGED <<handlers, mailbox, usb, intf1, level>> /\ next = base
    BY <1>0, <1>4 DEF Held, Fresh, Inner
  <1>5. CASE (\E b \in Bytes : BeginFrame(b)) \/ Fetch \/ Decode \/ (LookAtError /\ rx.error = 0)
             \/ UNCHANGED vars
    <2>1. next = base
      BY <1>5, BeforeStays DEF next, base
    <2> QED  BY <1>4, <1>5, <2>1 DEF BeginFrame, Fetch, LookAtError, Decode, vars
  <1>6. CASE PacketBegins
    <2>1. next = base
      BY <1>6, BeforeStays DEF next, base
    <2>2. /\ UNCHANGED <<intf1, mailbox, level>> /\ ~usb.open /\ ~masked
          /\ handlers' = [i \in DOMAIN handlers |-> [handlers[i] EXCEPT !.heldUp = TRUE]]
          /\ usb'.samples = <<>>
      BY <1>6 DEF PacketBegins, NewPacket
    <2>3. mailbox = <<>> /\ usb.samples = <<>>
      BY <1>1, <2>2 DEF InStep, IInv, MailboxMasked
    <2>4. CASE handlers = <<>>
      <3>1. handlers' = <<>>
        <4>1. <<>> \in Seq(Nat) /\ Len(<<>>) = 0 /\ DOMAIN <<>> = 1 .. 0
          BY EmptySeq, LenProperties
        <4> QED  BY <2>2, <2>4, <4>1
      <3> QED  BY <1>0, <1>2, <1>3, <2>1, <2>2, <2>3, <2>4, <3>1 DEF Held, Fresh
    <2>5. CASE handlers # <<>>
      <3>1. handlers' # <<>> /\ handlers'[1] = [handlers[1] EXCEPT !.heldUp = TRUE]
        BY <1>1, <2>2, <2>5
      <3>2. handlers'[1].bit = Inner.bit /\ handlers'[1].heldUp
        BY <1>1, <2>5, <3>1 DEF Inner, HandlerState
      <3>3. held /\ ~fresh
        BY <3>1, <3>2
      <3>4. Reached' = One(Advance(base, Inner.bit), intf1, level)
        <4>1. Takes(held) /\ Skips(fresh)
          BY <1>3, <3>3
        <4> HIDE DEF held, fresh
        <4>2. One(next, held, handlers'[1].bit) = Advance(base, Inner.bit)
          BY <2>1, <3>2, <4>1
        <4>3. after = Advance(base, Inner.bit)
          BY <1>2, <2>2, <2>3, <4>1, <4>2
        <4> HIDE DEF after
        <4> QED  BY <1>0, <2>2, <4>3
      <3>5. CASE Inner.heldUp
        <4>1. Held /\ ~Fresh
          BY <2>5, <3>5 DEF Held, Fresh
        <4>2. Takes(Held) /\ Skips(Fresh)
          BY <1>3, <4>1
        <4>3. before = Advance(base, Inner.bit)
          BY <1>2, <2>3, <4>2
        <4> HIDE DEF before
        <4> QED  BY <1>0, <3>4, <4>3
      <3>6. CASE ~Inner.heldUp
        <4>1. ~Held /\ Fresh
          BY <2>5, <3>6 DEF Held, Fresh
        <4>2. Skips(Held) /\ Takes(Fresh)
          BY <1>3, <4>1
        <4>3. before = Advance(base, Inner.bit)
          BY <1>2, <2>3, <4>2
        <4> HIDE DEF before
        <4> QED  BY <1>0, <3>4, <4>3
      <3> QED  BY <3>5, <3>6
    <2> QED  BY <2>4, <2>5
  <1>7. ASSUME NEW late \in BOOLEAN, SampleEdge(late) PROVE Reached' = Reached
    <2>1. next = base
      BY <1>7, BeforeStays DEF next, base
    <2>2. /\ UNCHANGED <<handlers, mailbox, level>> /\ usb.open /\ intf1 /\ ~intf1'
          /\ usb'.samples = Append(usb.samples, level)
      BY <1>1, <1>7 DEF SampleEdge, PacketState
    <2>3. Len(usb.samples) <= 1
      <3>1. usb.edges \in 0 .. 2 /\ Len(usb.samples) \in Nat
        BY <1>1, LenProperties DEF PacketState
      <3>2. Len(usb.samples) + 1 = usb.edges
        BY <2>2 DEF InStep, SamplesWait
      <3> QED  BY <3>1, <3>2
    <2> DEFINE v == One(Two(One(base, Held, Inner.bit), mailbox), Fresh, Inner.bit)
    <2>4. /\ Reached' = One(Two(v, Append(usb.samples, level)), intf1', level)
          /\ Reached = One(Two(v, usb.samples), intf1, level)
      BY <1>0, <2>1, <2>2 DEF Held, Fresh, Inner
    <2> HIDE DEF v
    <2>5. Two(v, Append(usb.samples, level)) = Advance(Two(v, usb.samples), level)
      BY <1>1, <2>3, TwoAppend
    <2>6. Skips(intf1') /\ Takes(intf1)
      BY <1>3, <2>2
    <2> QED  BY <2>4, <2>5, <2>6
  <1>8. ASSUME NEW again \in BOOLEAN, PacketEnds(again) PROVE Reached' = Reached
    <2>1. next = base
      BY <1>8, BeforeStays DEF next, base
    <2>2. UNCHANGED <<handlers, intf1, level>> /\ usb.open /\ usb'.samples = <<>>
      BY <1>8 DEF PacketEnds, NewPacket
    <2>3. ~Fresh
      BY <1>1, <2>2 DEF Fresh
    <2>4. Reached' = One(Two(One(base, Held, Inner.bit), mailbox'), intf1, level)
      BY <1>0, <1>2, <1>3, <2>1, <2>2, <2>3 DEF Held, Fresh, Inner
    <2>5. CASE usb.samples = <<>>
      <3>1. mailbox' = mailbox
        BY <1>8, <2>5 DEF PacketEnds
      <3> QED  BY <1>0, <1>2, <1>3, <2>3, <2>4, <2>5, <3>1
    <2>6. CASE usb.samples # <<>>
      <3> DEFINE n == Len(mailbox) + IF usb.late THEN 2 ELSE 0
      <3>1. Len(mailbox) \in Nat /\ hist.lost \in Nat
        BY <1>1, LenProperties, HistoryTyped
      <3>2. /\ hist' = [hist EXCEPT !.lost = hist.lost + n]
            /\ mailbox' = IF usb.late THEN <<>> ELSE usb.samples
        BY <1>8, <2>6 DEF PacketEnds, Lose
      <3>3. hist'.lost = hist.lost + n
        BY <1>1, <3>2 DEF History
      <3>4. ~usb.late /\ Len(mailbox) = 0
        BY <3>1, <3>3
      <3>5. mailbox = <<>> /\ mailbox' = usb.samples
        BY <1>1, <3>2, <3>4, EmptySeq
      <3> QED  BY <1>0, <1>2, <1>3, <2>3, <2>4, <3>5
    <2> QED  BY <2>5, <2>6
  <1>9. CASE INT1
    <2> DEFINE x == [bit |-> level, pc |-> "enter", s |-> 0, heldUp |-> FALSE]
    <2>1. next = base
      BY <1>9, BeforeStays DEF next, base
    <2>2. handlers = <<>>
      BY <1>1, <1>9 DEF INT1, History
    <2>3. handlers' = <<x>> /\ handlers'[1] = x
      BY <1>9, <2>2 DEF INT1
    <2>4. handlers' # <<>> /\ handlers'[1].bit = level /\ ~handlers'[1].heldUp
      BY <2>3
    <2>5. /\ UNCHANGED <<mailbox, usb, level>> /\ intf1 /\ ~intf1'
          /\ usb.samples = <<>>
      BY <1>1, <1>9 DEF INT1
    <2>6. ~held /\ fresh /\ ~Held /\ ~Fresh
      BY <2>2, <2>4 DEF Held, Fresh
    <2>7. Reached' = Advance(Two(base, mailbox), level)
      BY <1>0, <1>2, <1>3, <2>1, <2>4, <2>5, <2>6
    <2>8. Skips(Held) /\ Skips(Fresh) /\ Takes(intf1)
      BY <1>3, <2>5, <2>6
    <2>9. before = Two(base, mailbox)
      BY <1>2, <2>5, <2>8
    <2> HIDE DEF before
    <2> QED  BY <1>0, <2>7, <2>8, <2>9
  <1>10. CASE BitIgnored \/ SwitchState
    <2>1. next = Advance(base, Inner.bit)
      BY <1>10, BeforeTakes DEF next, base
    <2>2. /\ handlers # <<>> /\ handlers' = <<>> /\ UNCHANGED <<mailbox, usb, intf1, level>>
          /\ ~intf1 /\ mailbox = <<>> /\ usb.samples = <<>>
      BY <1>1, <1>10 DEF BitIgnored, SwitchState, Quiet
    <2>3. ~held /\ ~fresh
      BY <2>2
    <2>4. Reached' = next
      BY <1>0, <1>2, <1>3, <2>2, <2>3
    <2>5. CASE Inner.heldUp
      <3>1. Held /\ ~Fresh
        BY <2>2, <2>5 DEF Held, Fresh
      <3>2. Takes(Held) /\ Skips(Fresh)
        BY <1>3, <3>1
      <3>3. before = Advance(base, Inner.bit)
        BY <1>2, <2>2, <3>2
      <3>4. Reached = before
        BY <1>0, <1>3, <2>2
      <3> QED  BY <2>1, <2>4, <3>3, <3>4
    <2>6. CASE ~Inner.heldUp
      <3>1. ~Held /\ Fresh
        BY <2>2, <2>6 DEF Held, Fresh
      <3>2. Skips(Held) /\ Takes(Fresh)
        BY <1>3, <3>1
      <3>3. before = Advance(base, Inner.bit)
        BY <1>2, <2>2, <3>2
      <3>4. Reached = before
        BY <1>0, <1>3, <2>2
      <3> QED  BY <2>1, <2>4, <3>3, <3>4
    <2> QED  BY <2>5, <2>6
  <1>11. CASE ReadState \/ WriteState
    <2>1. next = base
      BY <1>11, BeforeStays DEF next, base
    <2>2. handlers # <<>> /\ UNCHANGED <<mailbox, usb, intf1, level>>
      BY <1>11 DEF ReadState, WriteState
    <2>3. /\ handlers' # <<>> /\ handlers'[1].bit = Inner.bit
          /\ handlers'[1].heldUp = Inner.heldUp
      <3>1. \/ handlers' = [handlers EXCEPT ![1].pc = "read", ![1].s = rx.state + 1]
            \/ handlers' = [handlers EXCEPT ![1].pc = "written"]
        BY <1>11 DEF ReadState, WriteState
      <3> QED  BY <1>1, <2>2, <3>1 DEF Inner, HandlerState
    <2>4. (held <=> Held) /\ (fresh <=> Fresh)
      BY <2>2, <2>3 DEF Held, Fresh
    <2>5. \A v, bit : One(v, held, bit) = One(v, Held, bit)
                        /\ One(v, fresh, bit) = One(v, Fresh, bit)
      BY <2>4 DEF One
    <2> QED  BY <1>0, <2>1, <2>2, <2>3, <2>5
  <1>12. CASE PCINT1
    <2>1. (handlers # <<>> => ~Inner.heldUp) /\ next = Two(base, mailbox)
      BY <1>12, BeforeTakesMailbox DEF next, base
    <2>2. /\ UNCHANGED <<handlers, usb, intf1, level>> /\ mailbox' = <<>>
      BY <1>12 DEF PCINT1
    <2>3. ~Held /\ ~held /\ (fresh <=> Fresh)
      BY <2>1, <2>2 DEF Held, Fresh, Inner
    <2>4. \A v, bit : One(v, fresh, bit) = One(v, Fresh, bit)
      BY <2>3 DEF One
    <2> QED  BY <1>0, <1>2, <1>3, <2>1, <2>2, <2>3, <2>4 DEF Inner
  <1>13. CASE PCINT1Return
    <2>1. next = One(base, intf1, level)
      BY <1>13, BeforeTakesEdge DEF next, base
    <2>2. /\ UNCHANGED <<handlers, mailbox, usb, level>> /\ inPcint /\ ~intf1'
          /\ mailbox = <<>> /\ usb.samples = <<>>
      BY <1>1, <1>13 DEF PCINT1Return
    <2>3. CASE handlers = <<>>
      <3>1. ~Held /\ ~held /\ ~fresh /\ ~Fresh
        BY <2>2, <2>3 DEF Held, Fresh
      <3> QED  BY <1>0, <1>2, <1>3, <2>1, <2>2, <3>1
    <2>4. CASE handlers # <<>>
      <3>1. ~Inner.heldUp /\ ~intf1
        BY <1>1, <2>2, <2>4
      <3>2. next = base
        BY <1>3, <2>1, <3>1
      <3>3. ~intf1 /\ ~intf1'
        BY <2>2, <3>1
      <3>4. Skips(intf1) /\ Skips(intf1')
        BY <1>3, <3>3
      <3>5. (held <=> Held) /\ (fresh <=> Fresh)
        BY <2>2 DEF Held, Fresh, Inner
      <3>6. \A v, bit : One(v, held, bit) = One(v, Held, bit)
                          /\ One(v, fresh, bit) = One(v, Fresh, bit)
        BY <3>5 DEF One
      <3>7. after = before
        BY <2>2, <3>2, <3>6 DEF Inner
      <3> HIDE DEF after, before
      <3> QED  BY <1>0, <3>4, <3>7
    <2> QED  BY <2>3, <2>4
  <1> QED  BY <1>5, <1>6, <1>7, <1>8, <1>9, <1>10, <1>11, <1>12, <1>13

-----------------------------------------------------------------------------
(* What the keyboard has clocked.                                          *)

\* All but the last element, and the last.
LEMMA AllButLast ==
  ASSUME NEW S, NEW s \in Seq(S), s # <<>>
  PROVE  LET f == SubSeq(s, 1, Len(s) - 1) IN
         f \in Seq(S) /\ s[Len(s)] \in S /\ Append(f, s[Len(s)]) = s
  <1> DEFINE n == Len(s)
             f == SubSeq(s, 1, n - 1)
             g == Append(f, s[n])
  <1>1. n \in Nat \ {0} /\ 1 \in Int /\ n - 1 \in Int
    BY EmptySeq, LenProperties
  <1>2. \A i \in 1 .. n : s[i] \in S
    BY ElementOfSeq
  <1>3. n \in 1 .. n /\ \A i \in 1 .. n - 1 : i \in 1 .. n
    <2> HIDE DEF n
    <2> QED  BY <1>1
  <1>4. s[n] \in S /\ \A i \in 1 .. n - 1 : s[i] \in S
    BY <1>2, <1>3
  <1>5. /\ f \in Seq(S) /\ Len(f) = (IF 1 <= n - 1 THEN (n - 1) - 1 + 1 ELSE 0)
        /\ \A i \in 1 .. (n - 1) - 1 + 1 : f[i] = s[1 + i - 1]
    <2> HIDE DEF n
    <2> QED  BY <1>1, <1>4, SubSeqProperties
  <1>6. Len(f) = n - 1 /\ \A i \in 1 .. n - 1 : f[i] = s[i]
    <2> HIDE DEF n, f
    <2>1. (n - 1) - 1 + 1 = n - 1 /\ \A i \in 1 .. n - 1 : 1 + i - 1 = i
      BY <1>1
    <2>2. Len(f) = n - 1
      BY <1>1, <1>5
    <2> QED  BY <1>5, <2>1, <2>2
  <1>7. /\ g \in Seq(S) /\ Len(g) = Len(f) + 1
        /\ \A i \in 1 .. Len(f) : g[i] = f[i]
        /\ g[Len(f) + 1] = s[n]
    BY <1>4, <1>5, AppendProperties
  <1> HIDE DEF f, g
  <1>8. Len(g) = Len(s) /\ \A i \in 1 .. Len(g) : g[i] = s[i]
    <2>1. Len(g) = n
      BY <1>1, <1>6, <1>7
    <2> HIDE DEF n
    <2>2. \A i \in 1 .. n : i = n \/ i \in 1 .. n - 1
      BY <1>1
    <2>3. g[n] = s[n]
      BY <1>1, <1>6, <1>7
    <2>4. \A i \in 1 .. n - 1 : g[i] = s[i]
      BY <1>6, <1>7
    <2> QED  BY <2>1, <2>2, <2>3, <2>4 DEF n
  <1>9. g = s
    BY <1>7, <1>8, SeqEqual
  <1> QED  BY <1>4, <1>5, <1>9 DEF f, g

LEMMA AppendedLast ==
  ASSUME NEW S, NEW s \in Seq(S), NEW x \in S
  PROVE  LET a == Append(s, x) IN SubSeq(a, 1, Len(a) - 1) = s /\ a[Len(a)] = x
  <1> DEFINE a == Append(s, x)
             f == SubSeq(a, 1, Len(a) - 1)
  <1>1. a \in Seq(S) /\ a # <<>> /\ Len(a) = Len(s) + 1 /\ a[Len(s) + 1] = x
    BY AppendProperties
  <1>2. f \in Seq(S) /\ a[Len(a)] \in S /\ Append(f, a[Len(a)]) = a
    <2> HIDE DEF a
    <2> QED  BY <1>1, AllButLast
  <1> HIDE DEF f
  <1>3. a[Len(a)] = x
    BY <1>1
  <1>4. f = s
    BY <1>2, <1>3, AppendInjective
  <1> QED  BY <1>3, <1>4 DEF f

LEMMA FinishedTyped ==
  ASSUME InStep, LineLeft
  PROVE  Finished \in Seq(ByteBits) /\ LastSent \in ByteBits
  <1>1. hist \in History
    BY DEF InStep, IInv, TypeOK
  <1>2. hist.sent \in Seq(ByteBits) /\ LastSent \in ByteBits
    BY <1>1, LastSentTyped
  <1>3. line # <<>> => hist.sent # <<>>
    BY DEF LineLeft
  <1> QED  BY <1>2, <1>3, AllButLast DEF Finished

LEMMA CurrentTyped ==
  ASSUME InStep, LineLeft
  PROVE  /\ Clocked \in INIT .. PARITY /\ Current \in Views
         /\ Current.state = Clocked /\ Current.errState = 0 /\ Current.error = 0
         /\ Current.accepted = Finished
  <1>1. Len(line) \in Nat /\ Len(line) <= 11
    <2>1. line \in Seq(Bit) /\ Len(line) \in Nat
      BY LenProperties DEF InStep, IInv, TypeOK
    <2>2. line = <<>> => Len(line) = 0
      BY <2>1, EmptySeq
    <2> QED  BY <2>1, <2>2 DEF LineLeft
  <1>2. Clocked \in INIT .. PARITY
    BY <1>1 DEF Clocked
  <1> QED  BY <1>2, FinishedTyped, StandTyped DEF Current

\* A new frame changes nothing before its first bit.
LEMMA CurrentBegins ==
  ASSUME InStep, LineLeft, NEW b \in Bytes, BeginFrame(b)
  PROVE  Current' = Current
  <1>1. hist \in History /\ hist.sent \in Seq(ByteBits) /\ LastSent \in ByteBits
    BY LastSentTyped DEF InStep, IInv, TypeOK
  <1>2. /\ b \in ByteBits /\ line = <<>> /\ line' = Frame(b) /\ Len(Frame(b)) = 11
        /\ hist'.sent = Append(hist.sent, b)
    BY <1>1, FrameTyped, FrameBits DEF BeginFrame, History
  <1>3. Len(line) = 0 /\ line' # <<>>
    <2>1. Len(line) = 0
      BY <1>2, EmptySeq
    <2>2. Len(line') # 0 /\ line' \in Seq(Bit)
      BY <1>2, FrameBits
    <2> QED  BY <2>1, <2>2, EmptySeq
  <1>4. Clocked = INIT /\ Clocked' = INIT
    <2>1. (11 - 0) % 11 = 0 /\ (11 - 11) % 11 = 0
      OBVIOUS
    <2> QED  BY <1>2, <1>3, <2>1 DEF Clocked
  <1>5. /\ hist'.sent # <<>> /\ hist'.sent[Len(hist'.sent)] = b
        /\ SubSeq(hist'.sent, 1, Len(hist'.sent) - 1) = hist.sent
    BY <1>1, <1>2, AppendedLast, AppendProperties
  <1>6. Finished = hist.sent /\ Finished' = hist.sent
    BY <1>2, <1>3, <1>5 DEF Finished
  <1>7. LastSent' = b
    BY <1>5 DEF LastSent
  <1>8. Current = Stand(hist.sent, LastSent, INIT) /\ Current' = Stand(hist.sent, b, INIT)
    BY <1>4, <1>6, <1>7 DEF Current
  <1> QED  BY <1>1, <1>2, <1>8, StandCompletes

\* Every bit of a frame brings the receiver where the keyboard is.
LEMMA CurrentClocks ==
  ASSUME InStep, LineLeft, Clock
  PROVE  /\ Current' = Advance(Current, level') /\ level' \in Bit
         /\ Current'.error = 0 /\ Current'.errState = 0
  <1> DEFINE n == Len(line)
  <1>1. hist \in History /\ hist.sent \in Seq(ByteBits) /\ LastSent \in ByteBits
        /\ line \in Seq(Bit)
    BY LastSentTyped DEF InStep, IInv, TypeOK
  <1>2. line # <<>> /\ line' = Tail(line) /\ level' = Head(line) /\ hist' = hist
    BY DEF Clock
  <1>3. /\ hist.sent # <<>> /\ n \in Nat \ {0} /\ n <= 11
        /\ \A i \in 1 .. n : line[i] = Frame(LastSent)[11 - n + i]
    BY <1>1, <1>2, EmptySeq, LenProperties DEF LineLeft
  <1>4. /\ line' \in Seq(Bit) /\ Len(line') = n - 1
        /\ level' = line[1] /\ level' \in Bit
    BY <1>1, <1>2, HeadTailProperties
  <1>5. Clocked = (11 - n) % 11 /\ Clocked' = (11 - (n - 1)) % 11
    BY <1>4 DEF Clocked
  <1> HIDE DEF n
  <1>6. level' = Frame(LastSent)[11 - n + 1]
    <2>1. 1 \in 1 .. n
      BY <1>3
    <2> QED  BY <1>3, <1>4, <2>1
  <1>7. LastSent' = LastSent
    BY <1>2 DEF LastSent
  <1> DEFINE front == SubSeq(hist.sent, 1, Len(hist.sent) - 1)
  <1>8. Finished = front /\ front \in Seq(ByteBits)
    BY <1>1, <1>2, <1>3, AllButLast DEF Finished
  <1>9. CASE n # 1
    <2>1. 11 - n \in INIT .. BIT7 /\ (11 - n) % 11 = 11 - n
          /\ (11 - (n - 1)) % 11 = (11 - n) + 1 /\ n - 1 # 0
      BY <1>3, <1>9
    <2>2. line' # <<>>
      <3>1. Len(line') # 0
        BY <1>4, <2>1
      <3> QED  BY <1>4, <3>1, EmptySeq
    <2>3. Finished' = front
      BY <1>2, <2>2 DEF Finished
    <2>4. /\ Current = Stand(front, LastSent, 11 - n)
          /\ Current' = Stand(front, LastSent, (11 - n) + 1)
      <3>1. Current' = Stand(Finished', LastSent', Clocked')
        BY DEF Current
      <3>2. Clocked = 11 - n /\ Clocked' = (11 - n) + 1
        BY <1>5, <2>1
      <3> QED  BY <1>7, <1>8, <2>3, <3>1, <3>2 DEF Current
    <2> HIDE DEF front
    <2>5. Advance(Stand(front, LastSent, 11 - n), Frame(LastSent)[(11 - n) + 1])
            = Stand(front, LastSent, (11 - n) + 1)
      BY <1>1, <1>8, <2>1, StandAdvances
    <2>6. (11 - n) + 1 \in INIT .. PARITY
      BY <2>1
    <2> QED  BY <1>1, <1>4, <1>6, <1>8, <2>4, <2>5, <2>6, StandTyped
  <1>10. CASE n = 1
    <2>1. 11 - n = PARITY /\ (11 - n) % 11 = PARITY /\ (11 - (n - 1)) % 11 = INIT
          /\ 11 - n + 1 = 11
      BY <1>10
    <2>2. level' = 1
      BY <1>1, <1>6, <2>1, FrameBits
    <2>3. line' = <<>>
      <3>1. Len(line') = 0
        BY <1>4, <1>10
      <3> QED  BY <1>4, <3>1, EmptySeq
    <2>4. Finished' = hist.sent
      BY <1>2, <2>3 DEF Finished
    <2>5. Append(front, LastSent) = hist.sent
      BY <1>1, <1>3, AllButLast DEF LastSent
    <2>6. /\ Current = Stand(front, LastSent, PARITY)
          /\ Current' = Stand(Append(front, LastSent), LastSent, INIT)
      <3>1. Current' = Stand(Finished', LastSent', Clocked')
        BY DEF Current
      <3>2. Clocked = PARITY /\ Clocked' = INIT
        BY <1>5, <2>1
      <3> QED  BY <1>7, <1>8, <2>4, <2>5, <3>1, <3>2 DEF Current
    <2> HIDE DEF front
    <2>7. Current' = Advance(Current, level')
      BY <1>1, <1>8, <2>2, <2>6, StandCompletes
    <2>8. Append(front, LastSent) \in Seq(ByteBits)
      BY <1>1, <1>8, AppendProperties
    <2>9. /\ Stand(Append(front, LastSent), LastSent, INIT).error = 0
          /\ Stand(Append(front, LastSent), LastSent, INIT).errState = 0
      <3> DEFINE e == Append(front, LastSent)
      <3> HIDE DEF e
      <3>1. e \in Seq(ByteBits)
        BY <2>8 DEF e
      <3>2. Stand(e, LastSent, INIT).error = 0 /\ Stand(e, LastSent, INIT).errState = 0
        BY <1>1, <3>1, StandInit
      <3> QED  BY <3>2 DEF e
    <2>10. Current'.error = 0 /\ Current'.errState = 0
      BY <2>6, <2>9
    <2> QED  BY <1>4, <2>7, <2>10
  <1> QED  BY <1>9, <1>10

\* The clocked bit is the last on its way.
LEMMA ReachedClocks ==
  ASSUME InStep, hist.overtaken = 0, Clock
  PROVE  Reached' = Advance(Reached, level')
  <1> DEFINE v == Two(One(Two(One(View(Before), Held, Inner.bit), mailbox),
                          Fresh, Inner.bit), usb.samples)
  <1>1. /\ UNCHANGED <<handlers, mailbox, rx>> /\ usb'.samples = usb.samples
        /\ ~intf1 /\ intf1' /\ hist' = hist
    BY OneHandler DEF Clock, PacketState
  <1>2. Before' = Before /\ Held' = Held /\ Fresh' = Fresh /\ Inner' = Inner
    BY <1>1 DEF Before, Held, Fresh, Inner
  <1>3. Reached = One(v, intf1, level)
    BY DEF Reached, AfterPacket, AfterFresh, AfterMailbox, AfterHeld
  <1>4. Reached' = One(v, intf1', level')
    <2>1. Reached' = One(Two(One(Two(One(View(Before'), Held', Inner'.bit), mailbox'),
                          Fresh', Inner'.bit), usb'.samples), intf1', level')
      BY DEF Reached, AfterPacket, AfterFresh, AfterMailbox, AfterHeld
    <2> QED  BY <1>1, <1>2, <2>1
  <1> HIDE DEF v
  <1> QED  BY <1>1, <1>3, <1>4 DEF One

LEMMA ReachedAtRest ==
  ASSUME InStep, AtRest
  PROVE  Before = rx /\ Reached = View(rx)
  <1>1. handlers = <<>> /\ mailbox = <<>> /\ usb.samples = <<>> /\ ~intf1
    BY DEF AtRest, Quiet, InStep, SamplesWait
  <1>2. Before = rx
    BY <1>1 DEF Before
  <1> QED  BY <1>1, <1>2
           DEF Reached, AfterPacket, AfterFresh, AfterMailbox, AfterHeld, Held, Fresh, One, Two

LEMMA CurrentStays ==
  ASSUME line' = line, hist'.sent = hist.sent
  PROVE  Current' = Current
  BY DEF Current, Finished, LastSent, Clocked

LEMMA InStepStep == InStep /\ [Next]_vars => InStep'
  BY StepInvariant, SamplesWaitStep, HandlersApartStep DEF InStep

LEMMA InStepInit == Init => InStep
  BY InitInvariant, SamplesWaitInit, HandlersApartInit DEF InStep

LEMMA InitReached == Init => Reached = Current
  <1> SUFFICES ASSUME Init PROVE Reached = Current  OBVIOUS
  <1>1. /\ InStep /\ AtRest /\ LineLeft /\ rx = Idle
        /\ line = <<>> /\ hist.sent = <<>> /\ hist \in History /\ rx \in Receiver
    BY InStepInit, LineLeftInit DEF Init, AtRest, Quiet, InStep, IInv, TypeOK
  <1>2. Reached = View(rx)
    BY <1>1, ReachedAtRest
  <1>3. Len(line) = 0 /\ <<>> \in Seq(ByteBits) /\ NoByte \in ByteBits
    BY <1>1, EmptySeq DEF NoByte, ByteBits, Bit
  <1>4. Clocked = INIT /\ Finished = <<>> /\ LastSent = NoByte
    <2>1. (11 - 0) % 11 = 0
      OBVIOUS
    <2> QED  BY <1>1, <1>3, <2>1 DEF Clocked, Finished, LastSent
  <1> DEFINE c == Stand(<<>>, NoByte, INIT)
             v == View(rx)
  <1>5. Current = c
    BY <1>4 DEF Current
  <1>6. /\ c \in Views
        /\ c.state = INIT /\ c.data = NoByte /\ c.parity = 1 /\ c.inhibit = 0
        /\ c.error = 0 /\ c.errState = 0 /\ c.accepted = <<>>
    BY <1>3, StandInit
  <1>7. /\ v \in Views
        /\ v.state = INIT /\ v.data = NoByte /\ v.parity = 1 /\ v.inhibit = 0
        /\ v.error = 0 /\ v.errState = 0 /\ v.accepted = <<>>
    <2>1. /\ rx.state = INIT /\ rx.data = NoByte /\ rx.parity = 1 /\ rx.inhibit = 0
          /\ rx.error = 0 /\ rx.errState = 0 /\ rx.accepted = <<>>
      BY <1>1 DEF Idle, NoByte
    <2> QED  BY <1>1, <2>1, ViewTyped, ViewIn
  <1> HIDE DEF c, v
  <1>8. v = c
    BY <1>6, <1>7, EqualViews
  <1> QED  BY <1>2, <1>5, <1>8 DEF v

LEMMA EdgesCountedInit == Init => EdgesCounted
  BY InitReached DEF EdgesCounted

LEMMA EdgesCountedStep == InStep /\ LineLeft /\ EdgesCounted /\ [Next]_vars => EdgesCounted'
  <1> SUFFICES ASSUME InStep, LineLeft, EdgesCounted, [Next]_vars,
                      hist'.lost = 0, hist'.overtaken = 0
               PROVE  Reached' = Current'
    BY DEF EdgesCounted, Undamaged
  <1>1. /\ hist \in History /\ hist.lost \in Nat /\ hist.overtaken \in Nat
        /\ hist.lost <= hist'.lost /\ hist.overtaken <= hist'.overtaken
        /\ Clock \/ (\E b \in Bytes : BeginFrame(b)) \/ (line' = line /\ hist'.sent = hist.sent)
    BY HistoryTyped, LineKept DEF InStep, IInv, TypeOK, Accidents
  <1>2. hist.lost = 0 /\ hist.overtaken = 0 /\ Reached = Current
    <2>1. hist.lost = 0 /\ hist.overtaken = 0
      BY <1>1
    <2> QED  BY <2>1 DEF EdgesCounted, Undamaged
  <1>3. CASE Clock
    BY <1>2, <1>3, ReachedClocks, CurrentClocks
  <1>4. ASSUME NEW b \in Bytes, BeginFrame(b) PROVE Reached' = Current'
    BY <1>2, <1>4, ReachedAgain, CurrentBegins
  <1>5. CASE \/ PacketBegins
             \/ \E late \in BOOLEAN : SampleEdge(late)
             \/ \E again \in BOOLEAN : PacketEnds(again)
             \/ INT1 \/ BitIgnored \/ ReadState \/ WriteState \/ SwitchState
             \/ PCINT1 \/ PCINT1Return \/ Fetch \/ Decode \/ (LookAtError /\ rx.error = 0)
             \/ UNCHANGED vars
    <2>1. Reached' = Reached
      BY <1>2, <1>5, ReachedAgain
    <2>2. CASE line' = line /\ hist'.sent = hist.sent
      BY <1>2, <2>1, <2>2, CurrentStays
    <2> QED  BY <1>1, <1>3, <1>4, <2>2
  <1>6. ASSUME NEW again \in BOOLEAN, PacketForgets(again) PROVE FALSE
    <2>1. usb.samples # <<>> /\ usb.samples \in Seq(Bit)
      BY <1>6, OneHandler, <1>2 DEF PacketForgets
    <2>2. Len(usb.samples) \in Nat \ {0}
      BY <2>1, EmptySeq
    <2>3. hist'.lost = hist.lost + Len(usb.samples)
      BY <1>1, <1>6 DEF PacketForgets, Lose, History
    <2> QED  BY <1>2, <2>2, <2>3
  <1>7. CASE LookAtError /\ rx.error # 0
    <2>1. AtRest /\ rx \in Receiver
      BY <1>7, <1>2, OneHandler DEF LookAtError, AtRest
    <2>2. View(rx) = Current
      BY <1>2, <2>1, ReachedAtRest
    <2>3. rx.error = 0
      BY <2>1, <2>2, ViewTyped, CurrentTyped
    <2> QED  BY <1>7, <2>3
  <1> QED
    BY <1>3, <1>4, <1>5, <1>6, <1>7 DEF Next, Device, Packet, Handler

LEMMA RestIsExact == InStep /\ LineLeft /\ EdgesCounted => ExactReception
  <1> SUFFICES ASSUME InStep, LineLeft, EdgesCounted, Undamaged, AtRest
               PROVE  rx.accepted = Finished /\ rx.state = Clocked /\ rx.errState = 0
    BY DEF ExactReception
  <1>1. View(rx) = Current
    BY ReachedAtRest DEF EdgesCounted
  <1>2. rx \in Receiver
    BY DEF InStep, IInv, TypeOK
  <1> QED  BY <1>1, <1>2, ViewTyped, CurrentTyped
-----------------------------------------------------------------------------
(* Subsequences.                                                           *)

LEMMA SubsequenceSelf ==
  ASSUME NEW S, NEW s \in Seq(S)
  PROVE  IsSubsequence(s, s)
  <1> DEFINE n == Len(s)
             f == [i \in 1 .. n |-> i]
  <1>1. f \in [1 .. n -> 1 .. n]
    OBVIOUS
  <1>2. \A i, j \in 1 .. n : i < j => f[i] < f[j]
    OBVIOUS
  <1>3. \A i \in 1 .. n : s[i] = s[f[i]]
    OBVIOUS
  <1> QED  BY <1>1, <1>2, <1>3 DEF IsSubsequence

LEMMA SubsequenceOfMore ==
  ASSUME NEW S, NEW s \in Seq(S), NEW t \in Seq(S), NEW x \in S, IsSubsequence(s, t)
  PROVE  IsSubsequence(s, Append(t, x))
  <1> DEFINE m == Len(s)
             n == Len(t)
             u == Append(t, x)
  <1>1. PICK f \in [1 .. m -> 1 .. n] :
          /\ \A i, j \in 1 .. m : i < j => f[i] < f[j]
          /\ \A i \in 1 .. m : s[i] = t[f[i]]
    BY DEF IsSubsequence
  <1>2. /\ n \in Nat /\ Len(u) = n + 1
        /\ \A i \in 1 .. n : u[i] = t[i]
    BY AppendProperties, LenProperties
  <1>3. f \in [1 .. m -> 1 .. Len(u)]
    <2>1. 1 .. n \subseteq 1 .. Len(u)
      <3> HIDE DEF n, u
      <3> QED  BY <1>2
    <2> QED  BY <2>1
  <1>4. \A i \in 1 .. m : s[i] = u[f[i]]
    <2> HIDE DEF n, u
    <2> QED  BY <1>1, <1>2
  <1> HIDE DEF u
  <1>5. IsSubsequence(s, u)
    BY <1>1, <1>3, <1>4 DEF IsSubsequence
  <1> QED  BY <1>5 DEF u

LEMMA SubsequenceOfBoth ==
  ASSUME NEW S, NEW s \in Seq(S), NEW t \in Seq(S), NEW x \in S, IsSubsequence(s, t)
  PROVE  IsSubsequence(Append(s, x), Append(t, x))
  <1> DEFINE m == Len(s)
             n == Len(t)
             a == Append(s, x)
             u == Append(t, x)
  <1>1. PICK f \in [1 .. m -> 1 .. n] :
          /\ \A i, j \in 1 .. m : i < j => f[i] < f[j]
          /\ \A i \in 1 .. m : s[i] = t[f[i]]
    BY DEF IsSubsequence
  <1>2. /\ n \in Nat /\ Len(u) = n + 1 /\ u[n + 1] = x
        /\ \A i \in 1 .. n : u[i] = t[i]
    BY AppendProperties, LenProperties
  <1>3. /\ m \in Nat /\ Len(a) = m + 1 /\ a[m + 1] = x
        /\ \A i \in 1 .. m : a[i] = s[i]
    BY AppendProperties, LenProperties
  <1> DEFINE g == [i \in 1 .. m + 1 |-> IF i = m + 1 THEN n + 1 ELSE f[i]]
  <1> HIDE DEF m, n, a, u
  <1>4. \A i \in 1 .. m + 1 : i = m + 1 \/ i \in 1 .. m
    BY <1>3
  <1>5. \A i \in 1 .. m : f[i] \in 1 .. n /\ i # m + 1 /\ i \in 1 .. m + 1
    BY <1>3
  <1>6. g \in [1 .. m + 1 -> 1 .. n + 1]
    BY <1>2, <1>4, <1>5
  <1>7. (\A i \in 1 .. m : g[i] = f[i]) /\ g[m + 1] = n + 1
    BY <1>3, <1>5
  <1> HIDE DEF g
  <1>8. \A i, j \in 1 .. m + 1 : i < j => g[i] < g[j]
    <2> SUFFICES ASSUME NEW i \in 1 .. m + 1, NEW j \in 1 .. m + 1, i < j
                 PROVE  g[i] < g[j]
      OBVIOUS
    <2>1. i \in 1 .. m
      BY <1>3
    <2>2. CASE j = m + 1
      BY <1>2, <1>5, <1>7, <2>1, <2>2
    <2>3. CASE j \in 1 .. m
      BY <1>1, <1>7, <2>1, <2>3
    <2> QED  BY <1>4, <2>2, <2>3
  <1>9. \A i \in 1 .. m + 1 : a[i] = u[g[i]]
    <2> SUFFICES ASSUME NEW i \in 1 .. m + 1 PROVE a[i] = u[g[i]]  OBVIOUS
    <2>1. CASE i = m + 1
      BY <1>2, <1>3, <1>7, <2>1
    <2>2. CASE i \in 1 .. m
      BY <1>1, <1>2, <1>3, <1>5, <1>7, <2>2
    <2> QED  BY <1>4, <2>1, <2>2
  <1>10. Len(a) = m + 1 /\ Len(u) = n + 1
    BY <1>2, <1>3
  <1>11. IsSubsequence(a, u)
    BY <1>6, <1>8, <1>9, <1>10 DEF IsSubsequence
  <1> QED  BY <1>11 DEF a, u

LEMMA SubsequenceOfLess ==
  ASSUME NEW S, NEW s \in Seq(S), NEW t \in Seq(S), NEW x \in S,
         IsSubsequence(Append(s, x), t)
  PROVE  IsSubsequence(s, t)
  <1> DEFINE m == Len(s)
             n == Len(t)
             a == Append(s, x)
  <1>1. PICK f \in [1 .. Len(a) -> 1 .. n] :
          /\ \A i, j \in 1 .. Len(a) : i < j => f[i] < f[j]
          /\ \A i \in 1 .. Len(a) : a[i] = t[f[i]]
    BY DEF IsSubsequence
  <1>2. /\ m \in Nat /\ Len(a) = m + 1 /\ \A i \in 1 .. m : a[i] = s[i]
    BY AppendProperties, LenProperties
  <1> HIDE DEF m, n, a
  <1>3. \A i \in 1 .. m : i \in 1 .. Len(a)
    BY <1>2
  <1> DEFINE g == [i \in 1 .. m |-> f[i]]
  <1>4. g \in [1 .. m -> 1 .. n]
    BY <1>1, <1>3
  <1>5. \A i, j \in 1 .. m : i < j => g[i] < g[j]
    BY <1>1, <1>3
  <1>6. \A i \in 1 .. m : s[i] = t[g[i]]
    BY <1>1, <1>2, <1>3
  <1> HIDE DEF g
  <1> QED  BY <1>4, <1>5, <1>6 DEF IsSubsequence, m, n

-----------------------------------------------------------------------------
(* One bit missed.                                                         *)

Good(v) == v.errState = 0 /\ v.error = 0

\* A receiver that has recorded no error had recorded none before its last bit.
LEMMA GoodBefore ==
  ASSUME NEW w \in Views, NEW bit \in Bit, Good(Advance(w, bit))
  PROVE  Good(w) /\ ~Rejects(w, w.state + 1, bit)
  <1>1. Taken(w, bit, Advance(w, bit)) /\ w.errState \in {0, 1}
    BY AdvanceCases DEF Views, Receiver, Bit
  <1> QED  BY <1>1 DEF Taken, Good

\* A bit adds a byte to what was accepted, or nothing.
LEMMA AdvanceAccepts ==
  ASSUME NEW v \in Views, NEW bit \in Bit
  PROVE  LET a == Advance(v, bit).accepted IN
         /\ v.accepted \in Seq(ByteBits) /\ v.data \in ByteBits /\ a \in Seq(ByteBits)
         /\ a = v.accepted \/ a = Append(v.accepted, v.data)
  <1> DEFINE w == Advance(v, bit)
             s == v.state + 1
  <1>1. /\ Taken(v, bit, w) /\ w \in Views
        /\ v.errState \in {0, 1} /\ v.accepted \in Seq(ByteBits) /\ v.data \in ByteBits
    BY AdvanceCases DEF Views, Receiver, Bit
  <1>2. w.accepted \in Seq(ByteBits)
    BY <1>1 DEF Views, Receiver
  <1> HIDE DEF w
  <1>3. w.accepted = v.accepted \/ w.accepted = Append(v.accepted, v.data)
    <2>1. CASE v.errState = 1 \/ Rejects(v, s, bit)
      BY <1>1, <2>1 DEF Taken
    <2>2. CASE v.errState = 0 /\ ~Rejects(v, s, bit)
      <3>1. s = START \/ s \in BIT0 .. BIT7 \/ s = PARITY \/ s = STOP
        BY <1>1, <2>2 DEF Taken
      <3> QED  BY <1>1, <2>2, <3>1 DEF Taken
    <2> QED  BY <1>1, <2>1, <2>2
  <1> QED  BY <1>1, <1>2, <1>3 DEF w

\* A receiver that loses a bit lags behind one that takes it.
LEMMA LosesOne ==
  ASSUME NEW v \in Views, NEW bit \in Bit, Good(Advance(v, bit))
  PROVE  MissesOne(v, Advance(v, bit))
  <1> DEFINE w == Advance(v, bit)
             s == v.state + 1
  <1>1. Good(v) /\ ~Rejects(v, s, bit) /\ Taken(v, bit, w) /\ v.state \in Nat
    BY GoodBefore, AdvanceCases DEF Views, Receiver
  <1>2. IsSubsequence(v.accepted, w.accepted)
    <2>1. /\ v.accepted \in Seq(ByteBits) /\ v.data \in ByteBits
          /\ w.accepted = v.accepted \/ w.accepted = Append(v.accepted, v.data)
      BY AdvanceAccepts
    <2>2. IsSubsequence(v.accepted, v.accepted)
      BY <2>1, SubsequenceSelf
    <2>3. IsSubsequence(v.accepted, Append(v.accepted, v.data))
      BY <2>1, <2>2, SubsequenceOfMore
    <2> HIDE DEF w
    <2> QED  BY <2>1, <2>2, <2>3
  <1> HIDE DEF w
  <1>3. s = START \/ s \in BIT0 .. BIT7 \/ s = PARITY \/ s = STOP
    BY <1>1 DEF Taken, Good
  <1>4. Lags(v, w)
    <2>1. CASE s = START \/ s = PARITY
      BY <1>1, <2>1 DEF Taken, Good, Lags
    <2>2. CASE s \in BIT0 .. BIT7
      BY <1>1, <2>2 DEF Taken, Good, Lags
    <2>3. CASE s = STOP
      BY <1>1, <2>3 DEF Taken, Good, Lags
    <2> QED  BY <1>3, <2>1, <2>2, <2>3
  <1> QED  BY <1>2, <1>4 DEF MissesOne, w

\* Everything seen of a receiver but the bytes it accepted.
LEMMA OtherBytes ==
  ASSUME NEW w \in Views, NEW a \in Seq(ByteBits)
  PROVE  LET z == [w EXCEPT !.accepted = a] IN
         /\ z \in Views
         /\ z.state = w.state /\ z.data = w.data /\ z.parity = w.parity
         /\ z.inhibit = w.inhibit /\ z.error = w.error /\ z.errState = w.errState
         /\ z.accepted = a
  BY DEF Views, Receiver, View

\* A rejected bit leaves nothing but an error.
LEMMA RejectedLatches ==
  ASSUME NEW v \in Views, NEW bit \in Bit, v.errState = 0, Rejects(v, v.state + 1, bit)
  PROVE  Latched(Advance(v, bit)) /\ Advance(v, bit).accepted = v.accepted
  <1> DEFINE w == Advance(v, bit)
             z == [w EXCEPT !.error = 0, !.errState = 0]
             c == Stand(w.accepted, NoByte, INIT)
  <1>1. w \in Views /\ Taken(v, bit, w)
    BY AdvanceCases
  <1>2. w.accepted \in Seq(ByteBits) /\ NoByte \in ByteBits /\ 0 \in Bit
    BY <1>1 DEF Views, Receiver, NoByte, ByteBits, Bit
  <1> HIDE DEF w
  <1>3. /\ w.state = INIT /\ w.data = NoByte /\ w.parity = 1 /\ w.inhibit = 0
        /\ w.errState = 1 /\ w.accepted = v.accepted
    BY <1>1 DEF Taken
  <1>4. /\ z \in Views
        /\ z.state = INIT /\ z.data = NoByte /\ z.parity = 1 /\ z.inhibit = 0
        /\ z.error = 0 /\ z.errState = 0 /\ z.accepted = w.accepted
    BY <1>1, <1>2, <1>3 DEF Views, Receiver, View
  <1>5. /\ c \in Views
        /\ c.state = INIT /\ c.data = NoByte /\ c.parity = 1 /\ c.inhibit = 0
        /\ c.error = 0 /\ c.errState = 0 /\ c.accepted = w.accepted
    BY <1>2, StandInit
  <1> HIDE DEF z, c
  <1>6. z = c
    BY <1>4, <1>5, EqualViews
  <1> QED  BY <1>3, <1>6 DEF Latched, z, c, w

\* The relation outlasts every bit that the complete receiver takes.
LEMMA MissesAdvance ==
  ASSUME NEW v \in Views, NEW w \in Views, NEW bit \in Bit,
         MissesOne(v, w), Good(Advance(w, bit))
  PROVE  MissesOne(Advance(v, bit), Advance(w, bit))
  <1> DEFINE p == Advance(v, bit)
             q == Advance(w, bit)
             s == w.state + 1
  <1>1. /\ Good(w) /\ ~Rejects(w, s, bit) /\ Taken(w, bit, q) /\ q \in Views
        /\ w.state \in Nat
    BY GoodBefore, AdvanceCases DEF Views, Receiver
  <1>2. Taken(v, bit, p) /\ p \in Views /\ v.errState \in {0, 1}
    BY AdvanceCases DEF Views, Receiver, Bit
  <1>3. s = START \/ s \in BIT0 .. BIT7 \/ s = PARITY \/ s = STOP
    BY <1>1 DEF Taken, Good
  <1>4. /\ v.accepted \in Seq(ByteBits) /\ v.data \in ByteBits /\ p.accepted \in Seq(ByteBits)
        /\ w.accepted \in Seq(ByteBits) /\ w.data \in ByteBits
        /\ q.accepted = w.accepted \/ q.accepted = Append(w.accepted, w.data)
    BY AdvanceAccepts
  <1>5. p.accepted = v.accepted => IsSubsequence(p.accepted, q.accepted)
    BY <1>4, SubsequenceOfMore DEF MissesOne
  <1> HIDE DEF p, q
  <1>6. CASE Latched(v)
    <2>1. p = v
      BY <1>2, <1>6 DEF Taken, Latched
    <2> QED  BY <1>5, <1>6, <2>1 DEF MissesOne, p, q
  <1>7. CASE Resumed(v, w)
    <2>1. /\ v.state = w.state /\ v.data = w.data /\ v.parity = w.parity
          /\ v.inhibit = w.inhibit /\ v.error = w.error /\ v.errState = w.errState
      <3> DEFINE a == v.accepted
                 z == [w EXCEPT !.accepted = a]
      <3>1. v = z /\ a \in Seq(ByteBits)
        BY <1>4, <1>7 DEF Resumed
      <3> HIDE DEF a
      <3>2. /\ z.state = w.state /\ z.data = w.data /\ z.parity = w.parity
            /\ z.inhibit = w.inhibit /\ z.error = w.error /\ z.errState = w.errState
        BY <3>1, OtherBytes
      <3> HIDE DEF z
      <3> QED  BY <3>1, <3>2
    <2>2. ~Rejects(v, s, bit)
      BY <1>1, <2>1 DEF Rejects
    <2>3. /\ p.state = q.state /\ p.data = q.data /\ p.parity = q.parity
          /\ p.inhibit = q.inhibit /\ p.error = q.error /\ p.errState = q.errState
          /\ \/ p.accepted = v.accepted
             \/ p.accepted = Append(v.accepted, w.data) /\ q.accepted = Append(w.accepted, w.data)
      <3>1. CASE s = START
        BY <1>1, <1>2, <2>1, <2>2, <3>1 DEF Taken, Good
      <3>2. CASE s \in BIT0 .. BIT7
        BY <1>1, <1>2, <2>1, <2>2, <3>2 DEF Taken, Good
      <3>3. CASE s = PARITY
        BY <1>1, <1>2, <2>1, <2>2, <3>3 DEF Taken, Good
      <3>4. CASE s = STOP
        BY <1>1, <1>2, <2>1, <2>2, <3>4 DEF Taken, Good
      <3> QED  BY <1>3, <3>1, <3>2, <3>3, <3>4
    <2>4. IsSubsequence(p.accepted, q.accepted)
      BY <1>4, <1>5, <2>3, SubsequenceOfBoth DEF MissesOne
    <2> DEFINE z == [q EXCEPT !.accepted = p.accepted]
    <2>5. /\ z \in Views
          /\ z.state = q.state /\ z.data = q.data /\ z.parity = q.parity
          /\ z.inhibit = q.inhibit /\ z.error = q.error /\ z.errState = q.errState
          /\ z.accepted = p.accepted
      BY <1>1, <1>4, OtherBytes DEF p
    <2> HIDE DEF z
    <2>6. p = z
      BY <1>2, <2>3, <2>5, EqualViews
    <2>7. Resumed(p, q)
      BY <2>6 DEF Resumed, z
    <2> QED  BY <2>4, <2>7 DEF MissesOne, p, q
  <1>8. CASE Lags(v, w)
    <2>1. v.errState = 0 /\ v.error = 0
      BY <1>8 DEF Lags
    <2>2. CASE Rejects(v, v.state + 1, bit)
      <3>1. Latched(p) /\ p.accepted = v.accepted
        BY <2>1, <2>2, RejectedLatches DEF p
      <3> QED  BY <1>5, <3>1 DEF MissesOne, p, q
    <2>3. CASE ~Rejects(v, v.state + 1, bit)
      <3>1. w.state \in START .. PARITY /\ v.state = w.state - 1
        <4>1. ~(w.state = INIT /\ v.state = PARITY)
          BY <1>1, <2>3 DEF Rejects, Bit
        <4> QED  BY <1>8, <4>1 DEF Lags
      <3>2. v.state + 1 = w.state
        BY <3>1
      <3>3. /\ p.state = w.state /\ p.accepted = v.accepted /\ p.error = 0 /\ p.errState = 0
        <4>1. w.state = START \/ w.state \in BIT0 .. BIT7 \/ w.state = PARITY
          BY <3>1
        <4> QED  BY <1>2, <2>1, <2>3, <3>2, <4>1 DEF Taken
      <3>4. CASE w.state = PARITY
        <4>1. q.state = INIT
          BY <1>1, <3>4 DEF Taken, Good
        <4>2. Lags(p, q)
          BY <3>3, <3>4, <4>1 DEF Lags
        <4> QED  BY <1>5, <3>3, <4>2 DEF MissesOne, p, q
      <3>5. CASE w.state # PARITY
        <4>1. s \in BIT0 .. BIT7 \/ s = PARITY
          BY <3>1, <3>5
        <4>2. q.state = w.state + 1
          BY <1>1, <4>1 DEF Taken, Good
        <4>3. q.state \in START .. PARITY /\ p.state = q.state - 1
          BY <3>1, <3>3, <3>5, <4>2
        <4>4. Lags(p, q)
          BY <3>3, <4>3 DEF Lags
        <4> QED  BY <1>5, <3>3, <4>4 DEF MissesOne, p, q
      <3> QED  BY <3>4, <3>5
    <2> QED  BY <2>2, <2>3
  <1> QED  BY <1>6, <1>7, <1>8 DEF MissesOne

\* The same for samples.
LEMMA TwoGood ==
  ASSUME NEW w \in Views, NEW samples \in Seq(Bit), Good(Two(w, samples))
  PROVE  /\ Good(w)
         /\ \A v \in Views : MissesOne(v, w) => MissesOne(Two(v, samples), Two(w, samples))
  <1>1. CASE samples = <<>>
    BY <1>1 DEF Two
  <1>2. CASE samples # <<>> /\ Len(samples) = 1
    <2> DEFINE x == samples[1]
    <2>1. x \in Bit
      BY <1>2, ElementOfSeq
    <2>2. \A v : Two(v, samples) = Advance(v, x)
      BY <1>2 DEF Two
    <2> HIDE DEF x
    <2> QED  BY <2>1, <2>2, GoodBefore, MissesAdvance
  <1>3. CASE samples # <<>> /\ Len(samples) # 1
    <2>1. Len(samples) \in Nat \ {0}
      BY <1>3, EmptySeq
    <2>2. \A n \in Nat \ {0} : n # 1 => 1 \in 1 .. n /\ 2 \in 1 .. n
      OBVIOUS
    <2>3. 1 \in 1 .. Len(samples) /\ 2 \in 1 .. Len(samples)
      BY <1>3, <2>1, <2>2, Zenon
    <2> DEFINE x == samples[1]
               y == samples[2]
    <2>4. x \in Bit /\ y \in Bit
      BY <2>3, ElementOfSeq, Zenon
    <2>5. \A v : Two(v, samples) = Advance(Advance(v, x), y)
      BY <1>3 DEF Two
    <2> HIDE DEF x, y
    <2>6. Advance(w, x) \in Views /\ Good(Advance(Advance(w, x), y))
      BY <2>4, <2>5, AdvanceCases
    <2>7. Good(Advance(w, x))
      BY <2>4, <2>6, GoodBefore
    <2>8. Good(w)
      BY <2>4, <2>7, GoodBefore
    <2>9. ASSUME NEW v \in Views, MissesOne(v, w)
          PROVE  MissesOne(Advance(Advance(v, x), y), Advance(Advance(w, x), y))
      <3>1. MissesOne(Advance(v, x), Advance(w, x)) /\ Advance(v, x) \in Views
        BY <2>4, <2>7, <2>9, MissesAdvance, AdvanceCases
      <3> QED  BY <2>4, <2>6, <3>1, MissesAdvance
    <2> QED  BY <2>5, <2>8, <2>9
  <1> QED  BY <1>1, <1>2, <1>3

LEMMA OneMissedInit == Init => OneMissed
  <1> SUFFICES ASSUME Init PROVE MissesOne(Reached, Current)
    BY DEF OneMissed
  <1>1. Reached = Current /\ InStep /\ LineLeft /\ Current \in Views
    BY InitReached, InStepInit, LineLeftInit, CurrentTyped
  <1>2. Current \in Receiver /\ Current.accepted \in Seq(ByteBits)
    BY <1>1 DEF Views, Receiver
  <1>3. Resumed(Current, Current)
    BY <1>2 DEF Resumed, Receiver
  <1> QED  BY <1>1, <1>2, <1>3, SubsequenceSelf DEF MissesOne

\* The first accident: a sample is forgotten in the packet it was taken in, or
\* in the mailbox.
LEMMA FirstLoss ==
  ASSUME InStep, LineLeft, hist.lost = 0, hist.overtaken = 0, hist'.lost = 1,
         Reached = Current,
         \E again \in BOOLEAN : PacketEnds(again) \/ PacketForgets(again)
  PROVE  MissesOne(Reached', Reached)
  <1>0. /\ usb.open /\ mailbox \in Seq(Bit) /\ usb.samples \in Seq(Bit) /\ level \in Bit
        /\ hist \in History /\ Len(mailbox) \in Nat /\ Len(usb.samples) \in Nat
        /\ handlers # <<>> => Inner.heldUp
    BY OneHandler, LenProperties DEF PacketEnds, PacketForgets
  <1>1. /\ AfterHeld \in Views /\ AfterMailbox \in Views /\ AfterFresh \in Views
        /\ AfterPacket \in Views /\ Reached \in Views
    BY ReachedTyped
  <1>2. Good(Reached)
    BY CurrentTyped DEF Good
  <1>3. /\ ~Fresh /\ AfterFresh = AfterMailbox /\ AfterMailbox = Two(AfterHeld, mailbox)
        /\ AfterPacket = Two(AfterFresh, usb.samples) /\ Reached = One(AfterPacket, intf1, level)
    BY <1>0 DEF Fresh, AfterFresh, AfterMailbox, AfterPacket, Reached, One
  <1>4. Good(AfterPacket)
    BY <1>0, <1>1, <1>2, <1>3, GoodBefore DEF One
  <1>5. ASSUME NEW v \in Views, MissesOne(v, AfterPacket)
        PROVE  MissesOne(One(v, intf1, level), Reached)
    BY <1>0, <1>1, <1>2, <1>3, <1>5, MissesAdvance DEF One
  <1>6. /\ UNCHANGED <<handlers, intf1, level, rx>> /\ usb'.samples = <<>>
    BY DEF PacketEnds, PacketForgets, NewPacket
  <1>7. AfterHeld' = AfterHeld
    BY <1>6 DEF AfterHeld, Before, Held, Inner
  <1>8. Reached' = One(Two(AfterHeld, mailbox'), intf1, level)
    <2>1. Reached' = One(Two(One(Two(AfterHeld', mailbox'), Fresh', Inner'.bit), usb'.samples),
                         intf1', level')
      BY DEF Reached, AfterPacket, AfterFresh, AfterMailbox
    <2>2. ~Fresh'
      BY <1>3, <1>6 DEF Fresh, Inner
    <2>3. /\ \A v, bit : One(v, Fresh', bit) = v
          /\ \A v : Two(v, <<>>) = v
      BY <2>2 DEF One, Two
    <2> QED  BY <1>6, <1>7, <2>1, <2>3
  <1>9. \A s \in Seq(Bit) : Len(s) = 1 => s # <<>> /\ s[1] \in Bit
                                          /\ \A v : Two(v, s) = Advance(v, s[1])
    <2> SUFFICES ASSUME NEW s \in Seq(Bit), Len(s) = 1
                 PROVE  s # <<>> /\ s[1] \in Bit /\ \A v : Two(v, s) = Advance(v, s[1])
      OBVIOUS
    <2>1. 1 \in 1 .. Len(s) /\ Len(s) # 0
      OBVIOUS
    <2>2. s # <<>>
      BY <2>1, EmptySeq
    <2>3. s[1] \in Bit
      BY <2>1, ElementOfSeq
    <2> QED  BY <2>2, <2>3 DEF Two
  <1>10. ASSUME NEW again \in BOOLEAN, PacketForgets(again) PROVE MissesOne(Reached', Reached)
    <2>1. mailbox' = mailbox /\ hist'.lost = hist.lost + Len(usb.samples)
      BY <1>0, <1>10 DEF PacketForgets, Lose, History
    <2> DEFINE m == Len(usb.samples)
    <2>2. m = 1
      <3>1. hist'.lost = hist.lost + m /\ m \in Nat
        BY <1>0, <2>1
      <3> HIDE DEF m
      <3>2. 1 = 0 + m
        BY <3>1
      <3> QED  BY <3>1, <3>2
    <2>3. AfterPacket = Advance(AfterFresh, usb.samples[1]) /\ usb.samples[1] \in Bit
      BY <1>0, <1>3, <1>9, <2>2
    <2>4. MissesOne(AfterFresh, AfterPacket)
      BY <1>1, <1>4, <2>3, LosesOne
    <2> QED  BY <1>1, <1>3, <1>5, <1>8, <2>1, <2>4
  <1>11. ASSUME NEW again \in BOOLEAN, PacketEnds(again) PROVE MissesOne(Reached', Reached)
    <2>1. usb.samples # <<>>
      BY <1>11 DEF PacketEnds
    <2> DEFINE n == Len(mailbox) + IF usb.late THEN 2 ELSE 0
    <2>2. /\ hist' = [hist EXCEPT !.lost = hist.lost + n]
          /\ mailbox' = IF usb.late THEN <<>> ELSE usb.samples
      BY <1>11, <2>1 DEF PacketEnds, Lose
    <2>3. hist'.lost = hist.lost + n
      BY <1>0, <2>2 DEF History
    <2>4. ~usb.late /\ Len(mailbox) = 1
      <3> DEFINE m == Len(mailbox)
      <3>1. hist'.lost = hist.lost + n /\ m \in Nat
        BY <1>0, <2>3
      <3>2. n = m + IF usb.late THEN 2 ELSE 0
        OBVIOUS
      <3> HIDE DEF n, m
      <3>3. 1 = 0 + n
        BY <3>1
      <3>4. ~usb.late
        BY <3>1, <3>2, <3>3
      <3>5. m = 1
        BY <3>1, <3>2, <3>3, <3>4
      <3> QED  BY <3>4, <3>5 DEF m
    <2>5. mailbox' = usb.samples
      BY <2>2, <2>4
    <2>6. AfterMailbox = Advance(AfterHeld, mailbox[1]) /\ mailbox[1] \in Bit
      BY <1>0, <1>3, <1>9, <2>4
    <2>7. Good(AfterMailbox)
      BY <1>0, <1>1, <1>3, <1>4, TwoGood
    <2>8. MissesOne(AfterHeld, AfterMailbox)
      BY <1>1, <2>6, <2>7, LosesOne
    <2>9. MissesOne(Two(AfterHeld, usb.samples), AfterPacket)
      BY <1>0, <1>1, <1>3, <1>4, <2>8, TwoGood
    <2>10. Two(AfterHeld, usb.samples) \in Views
      BY <1>0, <1>1, TwoTyped
    <2> QED  BY <1>5, <1>8, <2>5, <2>9, <2>10
  <1> QED  BY <1>10, <1>11

\* The latch released between two frames.
LEMMA Unlatched ==
  ASSUME InStep, LineLeft, hist.overtaken = 0, MissesOne(Reached, Current),
         LookAtError, rx.error # 0, Len(line) \notin 1 .. 10
  PROVE  MissesOne(Reached', Current)
  <1> DEFINE v == View(rx)
             a == rx.accepted
  <1>1. AtRest /\ rx \in Receiver /\ rx' = Unlatch(rx)
    BY OneHandler DEF LookAtError, AtRest
  <1>2. Reached = v /\ v \in Views /\ v.accepted = a /\ v.error = rx.error
        /\ a \in Seq(ByteBits)
    BY <1>1, ReachedAtRest, ViewIn, ViewTyped DEF Receiver
  <1>3. /\ handlers' = <<>> /\ mailbox' = <<>> /\ usb'.samples = <<>> /\ ~intf1'
    BY <1>1 DEF LookAtError, AtRest, Quiet, InStep, SamplesWait
  <1>4. Reached' = View(rx')
    <2>1. Before' = rx'
      BY <1>3 DEF Before
    <2>2. Reached' = One(Two(One(Two(One(View(Before'), Held', Inner'.bit), mailbox'),
                                 Fresh', Inner'.bit), usb'.samples), intf1', level')
      BY DEF Reached, AfterPacket, AfterFresh, AfterMailbox, AfterHeld
    <2>3. ~Held' /\ ~Fresh'
      BY <1>3 DEF Held, Fresh
    <2>4. /\ \A u, bit : One(u, Held', bit) = u /\ One(u, Fresh', bit) = u
                         /\ One(u, intf1', bit) = u
          /\ \A u : Two(u, <<>>) = u
      BY <1>3, <2>3 DEF One, Two
    <2> QED  BY <1>3, <2>1, <2>2, <2>4
  <1>5. View(rx') = [v EXCEPT !.error = 0, !.errState = 0]
    BY <1>1 DEF Unlatch, View, Receiver
  <1>6. Current.error = 0 /\ Current \in Views /\ Current.accepted \in Seq(ByteBits)
    BY CurrentTyped DEF Views, Receiver
  <1>7. Latched(v)
    <2>1. ~Lags(v, Current)
      BY <1>2 DEF Lags
    <2>2. ~Resumed(v, Current)
      <3>1. ASSUME Resumed(v, Current) PROVE FALSE
        <4>1. v = [Current EXCEPT !.accepted = a]
          BY <1>2, <3>1 DEF Resumed
        <4>2. v.error = Current.error
          BY <1>2, <1>6, <4>1, OtherBytes
        <4> QED  BY <1>2, <1>6, <4>2
      <3> QED  BY <3>1
    <2> QED  BY <1>2, <2>1, <2>2 DEF MissesOne
  <1>8. Reached' = Stand(a, NoByte, INIT)
    BY <1>2, <1>4, <1>5, <1>7 DEF Latched
  <1>9. Clocked = INIT
    <2>1. Len(line) \in Nat /\ Len(line) <= 11
      <3>1. line \in Seq(Bit) /\ Len(line) \in Nat
        BY LenProperties DEF InStep, IInv, TypeOK
      <3>2. line = <<>> => Len(line) = 0
        BY <3>1, EmptySeq
      <3> QED  BY <3>1, <3>2 DEF LineLeft
    <2> DEFINE n == Len(line)
    <2>2. n \in Nat /\ n <= 11 /\ n \notin 1 .. 10 /\ Clocked = (11 - n) % 11
      BY <2>1 DEF Clocked
    <2> HIDE DEF n
    <2>3. n = 0 \/ n = 11
      BY <2>2
    <2>4. (11 - 0) % 11 = 0 /\ (11 - 11) % 11 = 0
      OBVIOUS
    <2> QED  BY <2>2, <2>3, <2>4
  <1>10. Current = Stand(Finished, LastSent, INIT) /\ Current.accepted = Finished
         /\ Finished \in Seq(ByteBits) /\ LastSent \in ByteBits /\ NoByte \in ByteBits
    BY <1>9, FinishedTyped, CurrentTyped DEF Current, NoByte, ByteBits, Bit
  <1> DEFINE r == Stand(a, NoByte, INIT)
             z == [Current EXCEPT !.accepted = a]
  <1>11. /\ r \in Views
         /\ r.state = INIT /\ r.data = NoByte /\ r.parity = 1 /\ r.inhibit = 0
         /\ r.error = 0 /\ r.errState = 0 /\ r.accepted = a
    BY <1>2, <1>10, StandInit
  <1>12. /\ Current.state = INIT /\ Current.data = NoByte /\ Current.parity = 1
         /\ Current.inhibit = 0 /\ Current.errState = 0
    BY <1>10, StandInit
  <1>13. /\ z \in Views
         /\ z.state = INIT /\ z.data = NoByte /\ z.parity = 1 /\ z.inhibit = 0
         /\ z.error = 0 /\ z.errState = 0 /\ z.accepted = a
    BY <1>2, <1>6, <1>12, OtherBytes
  <1> HIDE DEF r, z, v, a
  <1>14. r = z
    BY <1>11, <1>13, EqualViews
  <1>15. Resumed(r, Current)
    BY <1>11, <1>14 DEF Resumed, z
  <1>16. IsSubsequence(r.accepted, Current.accepted)
    BY <1>2, <1>11 DEF MissesOne
  <1> QED  BY <1>8, <1>15, <1>16 DEF MissesOne, r

LEMMA OneMissedStep ==
  InStep /\ LineLeft /\ EdgesCounted /\ OneMissed /\ [Next]_vars => OneMissed'
  <1> SUFFICES ASSUME InStep, LineLeft, EdgesCounted, OneMissed, [Next]_vars,
                      hist'.lost <= 1, hist'.overtaken = 0, ~hist'.resync
               PROVE  MissesOne(Reached', Current')
    BY DEF OneMissed
  <1>1. /\ hist \in History /\ hist.lost \in Nat /\ hist.overtaken \in Nat
        /\ hist'.lost \in Nat
        /\ hist.lost <= hist'.lost /\ hist.overtaken <= hist'.overtaken
        /\ hist.resync => hist'.resync
        /\ Clock \/ (\E b \in Bytes : BeginFrame(b)) \/ (line' = line /\ hist'.sent = hist.sent)
    BY HistoryTyped, LineKept DEF InStep, IInv, TypeOK, Accidents
  <1>2. hist.lost <= 1 /\ hist.overtaken = 0 /\ MissesOne(Reached, Current)
    <2>1. hist.lost <= 1 /\ hist.overtaken = 0 /\ ~hist.resync
      BY <1>1
    <2> QED  BY <2>1 DEF OneMissed
  <1>3. CASE Clock
    <2>1. Reached \in Views /\ Current \in Views
      BY <1>2, ReachedTyped, CurrentTyped
    <2>2. /\ Current' = Advance(Current, level') /\ level' \in Bit
          /\ Good(Advance(Current, level'))
      BY <1>3, CurrentClocks DEF Good
    <2>3. Reached' = Advance(Reached, level')
      BY <1>2, <1>3, ReachedClocks
    <2> QED  BY <1>2, <2>1, <2>2, <2>3, MissesAdvance
  <1>4. ASSUME NEW b \in Bytes, BeginFrame(b) PROVE MissesOne(Reached', Current')
    <2>1. hist'.lost = hist.lost
      BY <1>1, <1>4 DEF BeginFrame, History
    <2> QED  BY <1>2, <1>4, <2>1, ReachedAgain, CurrentBegins
  <1>5. CASE /\ hist'.lost = hist.lost
             /\ \/ PacketBegins
                \/ \E late \in BOOLEAN : SampleEdge(late)
                \/ \E again \in BOOLEAN : PacketEnds(again)
                \/ INT1 \/ BitIgnored \/ ReadState \/ WriteState \/ SwitchState
                \/ PCINT1 \/ PCINT1Return \/ Fetch \/ Decode \/ (LookAtError /\ rx.error = 0)
                \/ UNCHANGED vars
    <2>1. Reached' = Reached
      BY <1>2, <1>5, ReachedAgain
    <2>2. CASE line' = line /\ hist'.sent = hist.sent
      BY <1>2, <2>1, <2>2, CurrentStays
    <2> QED  BY <1>1, <1>3, <1>4, <2>2
  <1>6. ASSUME NEW again \in BOOLEAN, PacketEnds(again) \/ PacketForgets(again),
               hist'.lost # hist.lost
        PROVE  MissesOne(Reached', Current')
    <2>1. hist.lost = 0 /\ hist'.lost = 1
      BY <1>1, <1>6
    <2>2. Reached = Current
      BY <1>2, <2>1 DEF EdgesCounted, Undamaged
    <2>3. MissesOne(Reached', Reached)
      BY <1>2, <1>6, <2>1, <2>2, FirstLoss
    <2>4. line' = line /\ hist'.sent = hist.sent
      BY <1>1, <1>6 DEF PacketEnds, PacketForgets, Lose, History
    <2> QED  BY <2>2, <2>3, <2>4, CurrentStays
  <1>7. ASSUME NEW again \in BOOLEAN, PacketForgets(again) PROVE hist'.lost # hist.lost
    <2>1. usb.samples # <<>> /\ usb.samples \in Seq(Bit)
      BY <1>2, <1>7, OneHandler DEF PacketForgets
    <2>2. Len(usb.samples) \in Nat \ {0}
      BY <2>1, EmptySeq
    <2>3. hist'.lost = hist.lost + Len(usb.samples)
      BY <1>1, <1>7 DEF PacketForgets, Lose, History
    <2> QED  BY <1>1, <2>2, <2>3
  <1>8. CASE LookAtError /\ rx.error # 0
    <2>1. /\ hist' = [hist EXCEPT !.resync = @ \/ Len(line) \in 1 .. 10]
          /\ line' = line
      BY <1>8 DEF LookAtError
    <2>2. Len(line) \notin 1 .. 10 /\ hist'.sent = hist.sent
      BY <1>1, <2>1 DEF History
    <2>3. MissesOne(Reached', Current)
      BY <1>2, <1>8, <2>2, Unlatched
    <2> QED  BY <2>1, <2>2, <2>3, CurrentStays
  <1>9. ASSUME \/ PacketBegins
               \/ \E late \in BOOLEAN : SampleEdge(late)
               \/ INT1 \/ BitIgnored \/ ReadState \/ WriteState \/ SwitchState
               \/ PCINT1 \/ PCINT1Return \/ Fetch \/ Decode \/ (LookAtError /\ rx.error = 0)
               \/ UNCHANGED vars
        PROVE  hist'.lost = hist.lost
    <2>1. CASE INT1 \/ PCINT1 \/ Decode \/ (LookAtError /\ rx.error = 0)
      BY <1>1, <2>1 DEF INT1, PCINT1, LookAtError, Decode, History
    <2>2. CASE \/ PacketBegins
               \/ \E late \in BOOLEAN : SampleEdge(late)
               \/ BitIgnored \/ ReadState \/ WriteState \/ SwitchState
               \/ PCINT1Return \/ Fetch \/ UNCHANGED vars
      BY <2>2 DEF PacketBegins, SampleEdge, BitIgnored, ReadState, WriteState, SwitchState,
                  PCINT1Return, Fetch, vars
    <2> QED  BY <1>9, <2>1, <2>2
  <1> QED
    BY <1>3, <1>4, <1>5, <1>6, <1>7, <1>8, <1>9 DEF Next, Device, Packet, Handler

\* What the receiver has accepted is the beginning of what it comes to accept.
LEMMA AcceptedSoFar ==
  ASSUME NEW t \in Seq(ByteBits), NEW v \in Views
  PROVE  /\ \A bit \in Bit : IsSubsequence(Advance(v, bit).accepted, t)
                               => IsSubsequence(v.accepted, t)
         /\ \A samples \in Seq(Bit) : IsSubsequence(Two(v, samples).accepted, t)
                                        => IsSubsequence(v.accepted, t)
  <1>1. ASSUME NEW u \in Views, NEW bit \in Bit, IsSubsequence(Advance(u, bit).accepted, t)
        PROVE  IsSubsequence(u.accepted, t)
    <2>1. /\ u.accepted \in Seq(ByteBits) /\ u.data \in ByteBits
          /\ \/ Advance(u, bit).accepted = u.accepted
             \/ Advance(u, bit).accepted = Append(u.accepted, u.data)
      BY AdvanceAccepts
    <2> QED  BY <1>1, <2>1, SubsequenceOfLess
  <1>2. ASSUME NEW samples \in Seq(Bit), IsSubsequence(Two(v, samples).accepted, t)
        PROVE  IsSubsequence(v.accepted, t)
    <2>1. CASE samples = <<>>
      BY <1>2, <2>1 DEF Two
    <2>2. CASE samples # <<>> /\ Len(samples) = 1
      <3>1. samples[1] \in Bit
        BY <2>2, ElementOfSeq
      <3>2. Two(v, samples) = Advance(v, samples[1])
        BY <2>2 DEF Two
      <3> QED  BY <1>1, <1>2, <3>1, <3>2
    <2>3. CASE samples # <<>> /\ Len(samples) # 1
      <3>1. Len(samples) \in Nat \ {0}
        BY <2>3, EmptySeq
      <3>2. \A n \in Nat \ {0} : n # 1 => 1 \in 1 .. n /\ 2 \in 1 .. n
        OBVIOUS
      <3>3. 1 \in 1 .. Len(samples) /\ 2 \in 1 .. Len(samples)
        BY <2>3, <3>1, <3>2, Zenon
      <3>4. samples[1] \in Bit /\ samples[2] \in Bit
        BY <3>3, ElementOfSeq, Zenon
      <3>5. Advance(v, samples[1]) \in Views
        BY <3>4, AdvanceCases
      <3>6. Two(v, samples) = Advance(Advance(v, samples[1]), samples[2])
        BY <2>3 DEF Two
      <3>7. IsSubsequence(Advance(v, samples[1]).accepted, t)
        BY <1>1, <1>2, <3>4, <3>5, <3>6
      <3> QED  BY <1>1, <3>4, <3>7
    <2> QED  BY <2>1, <2>2, <2>3
  <1> QED  BY <1>1, <1>2

LEMMA NothingInvented == InStep /\ LineLeft /\ OneMissed => NoFabrication
  <1> SUFFICES ASSUME InStep, LineLeft, OneMissed,
                      hist.lost <= 1, hist.overtaken = 0, ~hist.resync
               PROVE  IsSubsequence(rx.accepted, hist.sent)
    BY DEF NoFabrication
  <1>0. /\ mailbox \in Seq(Bit) /\ usb.samples \in Seq(Bit) /\ level \in Bit
        /\ rx \in Receiver /\ hist \in History
        /\ handlers # <<>> => Inner.bit \in Bit
        /\ hist.sent \in Seq(ByteBits)
    BY OneHandler, LastSentTyped
  <1>1. Finished \in Seq(ByteBits) /\ IsSubsequence(Reached.accepted, Finished)
    BY FinishedTyped, CurrentTyped DEF OneMissed, MissesOne
  <1>2. /\ View(Before) \in Views
        /\ AfterHeld \in Views /\ AfterMailbox \in Views /\ AfterFresh \in Views
        /\ AfterPacket \in Views
    BY ReachedTyped, BeforeTyped
  <1>3. IsSubsequence(AfterPacket.accepted, Finished)
    BY <1>0, <1>1, <1>2, AcceptedSoFar DEF Reached, One
  <1>4. IsSubsequence(AfterFresh.accepted, Finished)
    BY <1>0, <1>1, <1>2, <1>3, AcceptedSoFar DEF AfterPacket
  <1>5. IsSubsequence(AfterMailbox.accepted, Finished)
    BY <1>0, <1>1, <1>2, <1>4, AcceptedSoFar DEF AfterFresh, Fresh, One
  <1>6. IsSubsequence(AfterHeld.accepted, Finished)
    BY <1>0, <1>1, <1>2, <1>5, AcceptedSoFar DEF AfterMailbox
  <1>7. IsSubsequence(View(Before).accepted, Finished)
    BY <1>0, <1>1, <1>2, <1>6, AcceptedSoFar DEF AfterHeld, Held, One
  <1>8. View(Before).accepted = rx.accepted
    <2>1. View(Before).accepted = Before.accepted
      BY BeforeTyped, ViewTyped
    <2> QED  BY <1>0, <2>1 DEF Before, Receiver
  <1>9. rx.accepted \in Seq(ByteBits)
    BY <1>0 DEF Receiver
  <1>10. CASE line = <<>>
    BY <1>7, <1>8, <1>10 DEF Finished
  <1>11. CASE line # <<>>
    <2> DEFINE f == SubSeq(hist.sent, 1, Len(hist.sent) - 1)
    <2>1. hist.sent # <<>> /\ Finished = f
      BY <1>11 DEF LineLeft, Finished
    <2>2. /\ f \in Seq(ByteBits) /\ hist.sent[Len(hist.sent)] \in ByteBits
          /\ Append(f, hist.sent[Len(hist.sent)]) = hist.sent
      BY <1>0, <2>1, AllButLast
    <2> HIDE DEF f
    <2>3. IsSubsequence(rx.accepted, Append(f, hist.sent[Len(hist.sent)]))
      BY <1>7, <1>8, <1>9, <2>1, <2>2, SubsequenceOfMore
    <2> QED  BY <2>2, <2>3
  <1> QED  BY <1>10, <1>11
-----------------------------------------------------------------------------
ReceptionInv == InStep /\ LineLeft /\ InhibitKept /\ EdgesCounted /\ OneMissed

LEMMA ReceptionInit == Init => ReceptionInv
  BY InStepInit, LineLeftInit, InhibitKeptInit, EdgesCountedInit, OneMissedInit
  DEF ReceptionInv

LEMMA ReceptionStep == ReceptionInv /\ [Next]_vars => ReceptionInv'
  <1> SUFFICES ASSUME ReceptionInv, [Next]_vars PROVE ReceptionInv'  OBVIOUS
  <1>1. IInv
    BY DEF ReceptionInv, InStep
  <1> QED
    BY <1>1, InStepStep, LineLeftStep, InhibitKeptStep, EdgesCountedStep, OneMissedStep
    DEF ReceptionInv

\* However the edges of a frame are taken, by INT1's handler, in a packet or by
\* PCINT1, and whatever interrupts whatever in between: without an accident
\* every edge is one call of handleBit, in order.
THEOREM EveryEdgeOnce == Spec => []ExactReception
  <1>1. ReceptionInv => ExactReception
    BY RestIsExact DEF ReceptionInv
  <1> QED  BY ReceptionInit, ReceptionStep, <1>1, PTL DEF Spec

\* One lost edge costs bytes and makes up none: the receiver lags a bit behind
\* the keyboard, so that the start bit of the next frame is its stop bit at the
\* latest, and the latch holds it back from there.
THEOREM NothingMadeUp == Spec => []NoFabrication
  <1>1. ReceptionInv => NoFabrication
    BY NothingInvented DEF ReceptionInv
  <1> QED  BY ReceptionInit, ReceptionStep, <1>1, PTL DEF Spec

\* Lost edges and errors leave inhibit as they leave state: no keyboard report
\* is held back between two frames.
THEOREM InhibitEnds == Spec => []InhibitTracksFrame
  <1>1. ReceptionInv => InhibitTracksFrame
    <2> SUFFICES ASSUME ReceptionInv, AtRest, hist.overtaken = 0
                 PROVE  rx.inhibit = 1 <=> rx.state # INIT
      BY DEF InhibitTracksFrame
    <2>1. Before = rx
      BY ReachedAtRest DEF ReceptionInv
    <2> QED  BY <2>1 DEF ReceptionInv, InhibitKept, Inhibits
  <1> QED  BY ReceptionInit, ReceptionStep, <1>1, PTL DEF Spec
=============================================================================
