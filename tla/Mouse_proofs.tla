---------------------------- MODULE Mouse_proofs ----------------------------
(***************************************************************************)
(* The mouse for every size of its queues and its counter: as long as no   *)
(* byte is lost, mouse_task never waits for a byte in the middle of a      *)
(* packet, the counter lags behind the queue by what was lost of it and by *)
(* nothing else, every answer is read for the command it belongs to, the   *)
(* reports are those of the motions, in their order, and a host that reads *)
(* them by the descriptor sees what the mouse said.                        *)
(***************************************************************************)
EXTENDS MouseHost, SequenceTheorems, TLAPS

-----------------------------------------------------------------------------
(* Types.                                                                  *)

\* A byte makes the mouse answer with bytes.
LEMMA ObeyTyped ==
  ASSUME NEW m \in MouseType, NEW b
  PROVE  /\ Obey(m, b)[1] \in MouseType
         /\ Obey(m, b)[2] \in Seq(UByte)
         /\ Obey(m, b)[2] # <<>>
  <1>1. Fresh("test") \in MouseType
    BY DEF Fresh, MouseType
  <1>2. \A rate : SetRate(m, rate) \in MouseType
    <2> TAKE rate
    <2> DEFINE knocks == CASE m.knocks < 3 /\ rate = Knock[m.knocks + 1] -> m.knocks + 1
                           [] OTHER -> IF rate = Knock[1] THEN 1 ELSE 0
    <2>1. knocks \in 0 .. 3
      <3>1. m.knocks \in 0 .. 3  BY DEF MouseType
      <3> QED  BY <3>1
    <2>2. (IF knocks = 3 THEN WHEEL ELSE m.type) \in {0, WHEEL}
      BY DEF MouseType
    <2> HIDE DEF knocks
    <2>3. [m EXCEPT !.await = "command", !.knocks = knocks,
                    !.type = IF knocks = 3 THEN WHEEL ELSE @] \in MouseType
      BY <2>1, <2>2 DEF MouseType
    <2> QED  BY <2>3 DEF SetRate, knocks
  <1>3. /\ <<ACK>> \in Seq(UByte) /\ <<RESEND>> \in Seq(UByte) /\ <<ACK, m.type>> \in Seq(UByte)
        /\ <<ACK>> # <<>> /\ <<RESEND>> # <<>> /\ <<ACK, m.type>> # <<>>
    BY DEF UByte, ACK, RESEND, MouseType, WHEEL
  <1>4. /\ [m EXCEPT !.await = "command"] \in MouseType /\ [m EXCEPT !.await = "rate"] \in MouseType
        /\ [m EXCEPT !.await = "resolution"] \in MouseType /\ [m EXCEPT !.on = TRUE] \in MouseType
    BY DEF MouseType
  <1> QED  BY <1>1, <1>2, <1>3, <1>4 DEF Obey

\* Also when the command was cut.
LEMMA UnderstoodTyped ==
  ASSUME ps2 \in MouseType, NEW b, NEW cut
  PROVE  /\ Understood(b, cut)[1] \in MouseType
         /\ Understood(b, cut)[2] \in Seq(UByte)
         /\ Understood(b, cut)[2] # <<>>
  <1>1. <<RESEND>> \in Seq(UByte) /\ <<RESEND>> # <<>>
    BY DEF UByte, RESEND
  <1> QED  BY <1>1, ObeyTyped DEF Understood

\* What the USART makes of a byte that it takes to begin one bit early.
LEMMA ShiftedTyped ==
  ASSUME NEW b \in UByte
  PROVE  Shifted(b) \in UByte \cup {Spoilt}
  <1> DEFINE f == FrameOf(b)
             g == <<0>> \o SubSeq(f, 1, 10)
  <1>1. \A n \in 0 .. 7 : BitOf(b, n) \in {0, 1}
    BY DEF BitOf, Weight, UByte
  <1>2. OddParity(b) \in {0, 1}
    BY <1>1 DEF OddParity, Ones
  <1>3. /\ f \in Seq({0, 1}) /\ Len(f) = 11
    <2> DEFINE bits == [i \in 1 .. 8 |-> BitOf(b, i - 1)]
    <2>1. bits \in Seq({0, 1}) /\ Len(bits) = 8
      BY <1>1
    <2>2. <<0>> \o bits \in Seq({0, 1}) /\ Len(<<0>> \o bits) = 9
      BY <2>1
    <2>3. <<OddParity(b), 1>> \in Seq({0, 1}) /\ Len(<<OddParity(b), 1>>) = 2
      BY <1>2
    <2> HIDE DEF bits
    <2> QED  BY <2>2, <2>3 DEF FrameOf, bits
  <1> HIDE DEF f
  <1>4. SubSeq(f, 1, 10) \in Seq({0, 1}) /\ Len(SubSeq(f, 1, 10)) = 10
    <2>1. \A i \in 1 .. 10 : f[i] \in {0, 1}
      <3>1. f \in [1 .. 11 -> {0, 1}]
        BY <1>3, LenProperties
      <3> QED  BY <3>1
    <2> QED  BY <2>1, SubSeqProperties
  <1>5. g \in Seq({0, 1}) /\ Len(g) = 11
    BY <1>4
  <1> HIDE DEF g
  <1>6. \A i \in 1 .. 11 : g[i] \in {0, 1}
    BY <1>5, ElementOfSeq
  <1>7. UsartByte(g) \in UByte \cup {Spoilt}
    BY <1>6 DEF UsartByte, UByte
  <1> QED  BY <1>7 DEF Shifted, f, g

\* A packet is four bytes; the report made of it is within the ranges.
LEMMA PacketTyped ==
  ASSUME NEW m \in MotionType
  PROVE  Packet(m) \in Seq(UByte) /\ Len(Packet(m)) = 4
  <1>1. /\ m.buttons \in 0 .. 7 /\ m.x \in Int /\ m.y \in Int /\ m.v \in Int
        /\ m.xOvf \in BOOLEAN /\ m.yOvf \in BOOLEAN
    BY DEF MotionType
  <1>2. Flag(m.yOvf, 128) \in {0, 128} /\ Flag(m.xOvf, 64) \in {0, 64}
    BY <1>1 DEF Flag
  <1>3. Flag(m.y < 0, 32) \in {0, 32} /\ Flag(m.x < 0, 16) \in {0, 16}
    BY <1>1 DEF Flag
  <1>4. Flag(m.yOvf, 128) + Flag(m.xOvf, 64) + Flag(m.y < 0, 32) + Flag(m.x < 0, 16) + 8
          + m.buttons \in 0 .. 255
    BY <1>1, <1>2, <1>3
  <1>5. m.x % 256 \in 0 .. 255 /\ m.y % 256 \in 0 .. 255 /\ m.v % 256 \in 0 .. 255
    BY <1>1
  <1> QED  BY <1>4, <1>5 DEF Packet, UByte

\* A limited motion is within the range of the report.
LEMMA LimitIs ==
  ASSUME NEW b \in Int, NEW isNeg, NEW isOvf
  PROVE  Limit(isNeg, isOvf, b) \in -127 .. 127
  BY DEF Limit

\* Eight bits with a sign.
LEMMA Int8Is ==
  ASSUME NEW b \in Int
  PROVE  Int8(b) \in Int /\ Int8(b) \in -128 .. 127
  <1> DEFINE r == b % 256
  <1>1. r \in Int /\ 0 <= r /\ r <= 255
    OBVIOUS
  <1> HIDE DEF r
  <1>2. (IF r > 127 THEN r - 256 ELSE r) \in -128 .. 127
    BY <1>1
  <1>3. Int8(b) = IF r > 127 THEN r - 256 ELSE r
    BY DEF Int8, r
  <1>4. \A n \in -128 .. 127 : n \in Int
    OBVIOUS
  <1> QED  BY <1>2, <1>3, <1>4

\* The negative of a limited motion is one.
LEMMA MinusIs ==
  ASSUME NEW n
  PROVE  /\ n \in Int => -n \in Int
         /\ n \in -127 .. 127 => -n \in -127 .. 127
  OBVIOUS

\* The button bits.
LEMMA EightIs ==
  ASSUME NEW n \in Int
  PROVE  n % 8 \in 0 .. 7
  OBVIOUS

\* The report made of four bytes is within the ranges of the descriptor.
LEMMA ReportTyped ==
  ASSUME NEW p \in Seq(UByte), Len(p) = 4
  PROVE  MakeReport(p) \in ReportType
  <1>1. p[1] \in UByte /\ p[2] \in UByte /\ p[3] \in UByte /\ p[4] \in UByte
    BY ElementOfSeq
  <1>2. UByte \subseteq Int
    BY DEF UByte
  <1>3. Int8(p[2]) \in Int /\ Int8(p[3]) \in Int /\ Int8(p[4]) \in Int
    BY <1>1, <1>2, Int8Is
  <1>4. Int8(-Int8(p[4])) \in -128 .. 127
    <2>1. -Int8(p[4]) \in Int
      BY <1>3, MinusIs
    <2> QED  BY <2>1, Int8Is
  <1>5. p[1] % 8 \in 0 .. 7
    BY <1>1, <1>2, EightIs
  <1>6. \A neg, ovf : Limit(neg, ovf, Int8(p[2])) \in -127 .. 127
    BY <1>3, LimitIs
  <1>7. \A neg, ovf : -Limit(neg, ovf, Int8(p[3])) \in -127 .. 127
    <2> SUFFICES ASSUME NEW neg, NEW ovf
                 PROVE  -Limit(neg, ovf, Int8(p[3])) \in -127 .. 127
      OBVIOUS
    <2>1. Limit(neg, ovf, Int8(p[3])) \in -127 .. 127
      BY <1>3, LimitIs
    <2> QED  BY <2>1, MinusIs
  <1> QED  BY <1>4, <1>5, <1>6, <1>7 DEF MakeReport, ReportType

\* Queues.
LEMMA RestTyped ==
  ASSUME NEW S, NEW q \in Seq(S), q # <<>>
  PROVE  /\ Rest(q) \in Seq(S) /\ Len(Rest(q)) = Len(q) - 1 /\ Len(q) > 0
         /\ First(q) \in S
  BY HeadTailProperties, EmptySeq DEF Rest, First

\* What Put keeps of a queue, and how long it gets.
LEMMA PutTyped ==
  ASSUME NEW S, NEW q \in Seq(S), NEW d \in S, NEW cap \in Nat
  PROVE  /\ Put(q, d, cap) \in Seq(S)
         /\ Len(Put(q, d, cap)) = IF Len(q) < cap THEN Len(q) + 1 ELSE Len(q)
  BY DEF Put

\* A remainder is within the divisor, and a smaller number its own.
LEMMA ModIs ==
  ASSUME NEW n \in Int, NEW m \in Nat, m > 0
  PROVE  /\ n % m \in 0 .. m - 1
         /\ 0 <= n /\ n < m => n % m = n
  OBVIOUS

\* The parts of a queue that is not empty.
LEMMA HeadTailTyped ==
  ASSUME NEW S, NEW q \in Seq(S), q # <<>>
  PROVE  Head(q) \in S /\ Tail(q) \in Seq(S) /\ Len(Tail(q)) = Len(q) - 1
  BY HeadTailProperties, EmptySeq

-----------------------------------------------------------------------------
(* The boot, the mouse and the USART.                                      *)

\* A byte that is taken: the counter, the queue and the accidents.
LEMMA TakeTyped ==
  ASSUME BytesOK, NEW b \in UByte \cup {Spoilt}, Take(b)
  PROVE  /\ mod3BytesCounter' \in 0 .. CounterSize - 1
         /\ pbuf' \in Seq(UByte) /\ faults' \in Nat
         /\ ps2' = ps2 /\ boot' = boot
  <1> USE DEF BytesOK
  <1>1. (mod3BytesCounter + 1) % CounterSize \in 0 .. CounterSize - 1
    BY BootAssumption, ModIs
  <1>2. b # Spoilt => pbuf_enqueue(b) \in Seq(UByte)
    BY PutTyped, BootAssumption DEF pbuf_enqueue
  <1> QED  BY <1>1, <1>2 DEF Take

\* Bytes are what may be on the line.
LEMMA OnTheLine ==
  ASSUME NEW q \in Seq(UByte)
  PROVE  q \in Seq(UByte \cup {Spoilt})
  OBVIOUS

\* The updates ps2_mouse_init and main make of their state.
LEMMA BootTyped ==
  ASSUME boot \in BootType
  PROVE  /\ \A pc \in {"step", "answer", "off", "run"} : [boot EXCEPT !.pc = pc] \in BootType
         /\ [boot EXCEPT !.at = @ + 1, !.pc = "step"] \in BootType
         /\ \A b \in UByte : [boot EXCEPT !.at = @ + 1, !.pc = "step", !.rcv = b] \in BootType
         /\ \A n \in Nat : [boot EXCEPT !.pc = "off", !.rcv = 0, !.early = n] \in BootType
  <1>1. boot.at \in Nat /\ boot.at + 1 \in Nat /\ 0 \in UByte
    BY DEF BootType, UByte
  <1> QED  BY <1>1 DEF BootType

\* Every step of the boot, the mouse and the USART keeps the types.
LEMMA BytesStep ==
  ASSUME BytesOK, SelfTest \/ MainBoots \/ Usart
  PROVE  BytesOK'
  <1> USE DEF BytesOK
  <1>1. CASE SelfTest
    <2>1. TESTED \in Seq(UByte)
      BY DEF TESTED, UByte
    <2>2. unsent' \in Seq(UByte \cup {Spoilt})
      BY <1>1, <2>1 DEF SelfTest
    <2> QED  BY <1>1, <2>2 DEF SelfTest, MouseType
  <1>2. CASE SendWhole
    <2>1. ps2' \in MouseType /\ unsent' \in Seq(UByte)
      BY <1>2, ObeyTyped DEF SendWhole
    <2>2. unsent' \in Seq(UByte \cup {Spoilt})
      BY <2>1, OnTheLine
    <2> QED  BY <1>2, <2>1, <2>2, BootTyped DEF SendWhole, Step
  <1>3. CASE SendUnheard
    <2>1. boot' \in BootType
      BY <1>3, BootTyped DEF SendUnheard, NextStep
    <2>2. faults' \in Nat
      BY <1>3 DEF SendUnheard
    <2> QED  BY <1>3, <2>1, <2>2 DEF SendUnheard, line
  <1>4. ASSUME NEW cut \in 0 .. WholeCommand, SendCut(cut)
        PROVE  BytesOK'
    <2> DEFINE u == Understood(Command, cut)
    <2>1. u[1] \in MouseType /\ u[2] \in Seq(UByte) /\ u[2] # <<>>
      BY UnderstoodTyped
    <2> HIDE DEF u
    <2>2. Head(u[2]) \in UByte /\ Tail(u[2]) \in Seq(UByte)
      BY <2>1, HeadTailTyped
    <2>3. <<Shifted(Head(u[2]))>> \o Tail(u[2]) \in Seq(UByte \cup {Spoilt})
      BY <2>2, ShiftedTyped
    <2>4. ps2' \in MouseType /\ unsent' \in Seq(UByte \cup {Spoilt})
      <3>1. u[2] \in Seq(UByte \cup {Spoilt})
        BY <2>1, OnTheLine
      <3>2. /\ ps2' = u[1]
            /\ unsent' = IF cut = WholeCommand THEN u[2]
                         ELSE <<Shifted(Head(u[2]))>> \o Tail(u[2])
        BY <1>4 DEF SendCut, u
      <3> QED  BY <2>1, <2>3, <3>1, <3>2
    <2>5. boot' \in BootType
      BY <1>4, BootTyped DEF SendCut, NextStep
    <2>6. faults' \in Nat
      BY <1>4 DEF SendCut
    <2> QED  BY <1>4, <2>4, <2>5, <2>6 DEF SendCut
  <1>5. CASE TakeAnswer
    <2>1. First(pbuf) \in UByte /\ Rest(pbuf) \in Seq(UByte)
      BY <1>5, RestTyped DEF TakeAnswer, pbuf_has_data
    <2>2. boot' \in BootType
      BY <1>5, <2>1, BootTyped DEF TakeAnswer
    <2> QED  BY <1>5, <2>1, <2>2 DEF TakeAnswer, line, pbuf_dequeue
  <1>6. CASE InitDone
    <2>1. boot' \in BootType
      <3>1. Len(pbuf) \in Nat
        OBVIOUS
      <3>2. [boot EXCEPT !.pc = "off", !.rcv = 0, !.early = Len(pbuf)] \in BootType
        BY <3>1, BootTyped
      <3> QED  BY <1>6, <3>2 DEF InitDone
    <2> QED  BY <1>6, <2>1, BootAssumption DEF InitDone, line
  <1>7. CASE Connect
    BY <1>7, BootTyped DEF Connect, Step, line
  <1>8. CASE Hold
    <2>1. Head(unsent) \in UByte \cup {Spoilt} /\ Tail(unsent) \in Seq(UByte \cup {Spoilt})
      BY <1>8, HeadTailTyped DEF Hold
    <2> QED  BY <1>8, <2>1 DEF Hold
  <1>9. CASE Receive
    <2>1. CASE held # <<>>
      <3>1. Head(held) \in UByte \cup {Spoilt} /\ Tail(held) \in Seq(UByte \cup {Spoilt})
        BY <2>1, HeadTailTyped
      <3>2. Take(Head(held)) /\ held' = Tail(held) /\ unsent' = unsent
        BY <1>9, <2>1 DEF Receive
      <3> QED  BY <3>1, <3>2, TakeTyped
    <2>2. CASE held = <<>>
      <3>1. Take(Head(unsent)) /\ unsent # <<>> /\ unsent' = Tail(unsent) /\ held' = held
        BY <1>9, <2>2 DEF Receive
      <3>2. Head(unsent) \in UByte \cup {Spoilt} /\ Tail(unsent) \in Seq(UByte \cup {Spoilt})
        BY <3>1, HeadTailTyped
      <3> QED  BY <3>1, <3>2, TakeTyped
    <2> QED  BY <2>1, <2>2
  <1>10. CASE Spoil
    <2>1. Tail(unsent) \in Seq(UByte \cup {Spoilt})
      BY <1>10, HeadTailTyped DEF Spoil
    <2>2. <<Spoilt>> \o Tail(unsent) \in Seq(UByte \cup {Spoilt})
      BY <2>1
    <2> QED  BY <1>10, <2>2 DEF Spoil
  <1>11. CASE Overwritten
    <2>1. Tail(unsent) \in Seq(UByte \cup {Spoilt})
      BY <1>11, HeadTailTyped DEF Overwritten
    <2> QED  BY <1>11, <2>1 DEF Overwritten
  <1> QED  BY <1>1, <1>2, <1>3, <1>4, <1>5, <1>6, <1>7, <1>8, <1>9, <1>10, <1>11
           DEF MainBoots, Usart

-----------------------------------------------------------------------------
(* Where mouse_task is tells how much of a packet it has.                  *)

Shape ==
  /\ task.pc = "idle" => task.packet = <<>>
  /\ task.pc = "read" => Len(task.packet) < 4
  /\ task.pc \in {"count", "store"} => Len(task.packet) = 4

\* The steps of the rest of the program keep the types of its state.
LEMMA TaskStep ==
  ASSUME TypeOK, Shape, mouse_task
  PROVE  TypeOK' /\ Shape'
  <1> USE DEF TypeOK, Shape
  <1>1. CASE TaskBegins
    <2>1. /\ task' = [task EXCEPT !.pc = "read", !.packet = <<>>]
          /\ UNCHANGED <<bytes, motions, mbuf, tx3, system, host, hist>>
      BY <1>1 DEF TaskBegins
    <2>2. BytesOK'
      BY <2>1 DEF BytesOK, bytes
    <2>3. task' \in TaskType /\ Shape'
      <3>1. <<>> \in Seq(UByte) /\ Len(<<>>) = 0
        OBVIOUS
      <3>2. task' \in TaskType /\ task'.pc = "read" /\ task'.packet = <<>>
        BY <2>1, <3>1 DEF TaskType
      <3> QED  BY <3>1, <3>2
    <2> QED  BY <2>1, <2>2, <2>3
  <1>2. CASE ReadByte
    <2>1. First(pbuf) \in UByte /\ Rest(pbuf) \in Seq(UByte)
      BY <1>2, RestTyped DEF ReadByte, pbuf_has_data, BytesOK
    <2>2. Append(task.packet, First(pbuf)) \in Seq(UByte)
          /\ Len(Append(task.packet, First(pbuf))) = Len(task.packet) + 1
      BY <2>1 DEF TaskType
    <2>3. Len(task.packet) \in Nat /\ Len(task.packet) < 4
      BY <1>2 DEF ReadByte, TaskType
    <2>4. task' = [task EXCEPT !.packet = Append(@, First(pbuf)),
                               !.pc = IF Len(task.packet) = 3 THEN "count" ELSE "read"]
      BY <1>2 DEF ReadByte
    <2>5. task' \in TaskType /\ Shape'
      <3>1. task' \in TaskType
        BY <2>2, <2>4 DEF TaskType
      <3>2. /\ task'.packet = Append(task.packet, First(pbuf))
            /\ task'.pc = IF Len(task.packet) = 3 THEN "count" ELSE "read"
        BY <2>4 DEF TaskType
      <3>3. CASE Len(task.packet) = 3
        <4>1. task'.pc = "count" /\ Len(task'.packet) = 4
          BY <2>2, <3>2, <3>3
        <4> QED  BY <3>1, <4>1
      <3>4. CASE Len(task.packet) # 3
        <4>1. task'.pc = "read" /\ Len(task'.packet) = Len(task.packet) + 1
          BY <2>2, <3>2, <3>4
        <4>2. Len(task'.packet) < 4
          <5>1. \A n \in Nat : n < 4 /\ n # 3 => n + 1 < 4
            OBVIOUS
          <5> HIDE DEF TypeOK, Shape
          <5> QED  BY <2>3, <3>4, <4>1, <5>1
        <4> QED  BY <3>1, <4>1, <4>2
      <3> QED  BY <3>3, <3>4
    <2>6. BytesOK'
      BY <1>2, <2>1 DEF BytesOK, ReadByte, line, pbuf_dequeue
    <2> QED  BY <1>2, <2>5, <2>6 DEF ReadByte
  <1>3. CASE LoadCounter
    <2>1. /\ task' = [task EXCEPT !.pc = "store", !.old = mod3BytesCounter]
          /\ task.pc = "count"
          /\ UNCHANGED <<bytes, motions, mbuf, tx3, system, host, hist>>
      BY <1>3 DEF LoadCounter
    <2>2. BytesOK'
      BY <2>1 DEF BytesOK, bytes
    <2>3. task' \in TaskType /\ Shape'
      <3>1. task' \in TaskType
        BY <2>1 DEF TaskType, BytesOK
      <3>2. task'.packet = task.packet /\ task'.pc = "store"
        BY <2>1 DEF TaskType
      <3>3. Len(task'.packet) = 4
        BY <2>1, <3>2
      <3> QED  BY <3>1, <3>2, <3>3
    <2> QED  BY <2>1, <2>2, <2>3
  <1>4. CASE StoreCounter
    <2>1. /\ (task.old - 4) % CounterSize \in 0 .. CounterSize - 1
          /\ (mod3BytesCounter - task.old) % CounterSize \in 0 .. CounterSize - 1
      <3>1. task.old - 4 \in Int /\ mod3BytesCounter - task.old \in Int
        BY BootAssumption DEF TaskType, BytesOK
      <3> QED  BY <3>1, BootAssumption, ModIs
    <2>2. BytesOK'
      BY <1>4, <2>1 DEF StoreCounter, BytesOK, line
    <2>3. mbuf' \in Seq(ReportType)
      <3>1. task.packet \in Seq(UByte) /\ Len(task.packet) = 4
        BY <1>4 DEF StoreCounter, TaskType
      <3>2. MakeReport(task.packet) \in ReportType
        BY <3>1, ReportTyped
      <3> QED  BY <1>4, <3>2, PutTyped, MouseAssumption DEF StoreCounter
    <2>4. task' \in TaskType /\ Shape'
      <3>1. task' = [task EXCEPT !.pc = "idle", !.packet = <<>>, !.old = 0]
        BY <1>4 DEF StoreCounter
      <3>2. 0 \in 0 .. CounterSize - 1
        BY BootAssumption
      <3>3. <<>> \in Seq(UByte)
        OBVIOUS
      <3>4. task' \in TaskType /\ task'.pc = "idle" /\ task'.packet = <<>>
        BY <3>1, <3>2, <3>3 DEF TaskType
      <3> QED  BY <3>4
    <2>5. hist' \in [races : Nat, dropped : BOOLEAN, refused : BOOLEAN, controls : Nat]
      <3>1. hist.races + ((mod3BytesCounter - task.old) % CounterSize) \in Nat
        BY <2>1, BootAssumption
      <3>2. (hist.dropped \/ Len(mbuf) = MbufRoom) \in BOOLEAN
        OBVIOUS
      <3> QED  BY <1>4, <3>1, <3>2 DEF StoreCounter
    <2> QED  BY <1>4, <2>2, <2>3, <2>4, <2>5 DEF StoreCounter
  <1> QED  BY <1>1, <1>2, <1>3, <1>4 DEF mouse_task

\* Endpoint 3's steps keep the types.
LEMMA EndpointStep ==
  ASSUME TypeOK, Shape,
         vusb_transfer_mouse \/ (\E c \in Controls : SystemKey(c)) \/ Poll
  PROVE  TypeOK' /\ Shape'
  <1> USE DEF TypeOK
  <1>1. UNCHANGED <<bytes, motions, task>>
    BY DEF vusb_transfer_mouse, SystemKey, Poll
  <1>2. BytesOK' /\ Shape' /\ motions' \in Seq(Motions) /\ task' \in TaskType
    BY <1>1 DEF BytesOK, Shape, bytes
  <1>3. NoReport \in ReportType
    BY DEF NoReport, ReportType
  <1>4. CASE vusb_transfer_mouse
    <2>1. Head(mbuf) \in ReportType /\ Tail(mbuf) \in Seq(ReportType)
      BY <1>4, HeadTailTyped DEF vusb_transfer_mouse
    <2>2. MouseReport(Head(mbuf)) \in Tx3Type
      BY <2>1 DEF MouseReport, Tx3Type, Controls
    <2> QED  BY <1>2, <1>4, <2>1, <2>2 DEF vusb_transfer_mouse
  <1>5. ASSUME NEW c \in Controls, SystemKey(c)
        PROVE  TypeOK'
    <2>1. SystemReport(c) \in Tx3Type
      BY <1>3 DEF SystemReport, Tx3Type
    <2>2. tx3' \in Seq(Tx3Type)
      <3>1. <<SystemReport(c)>> \in Seq(Tx3Type)
        BY <2>1
      <3>2. tx3' = <<SystemReport(c)>> \/ tx3' = tx3
        BY <1>5 DEF SystemKey
      <3> QED  BY <3>1, <3>2
    <2>3. system' \in [held : Controls, last : Controls, host : Controls]
      <3>1. system' = [system EXCEPT !.held = c, !.last = c]
        BY <1>5 DEF SystemKey
      <3> QED  BY <3>1
    <2>4. hist' \in [races : Nat, dropped : BOOLEAN, refused : BOOLEAN, controls : Nat]
      <3>1. hist' = [hist EXCEPT !.controls = @ + 1, !.refused = (tx3 # <<>>)]
        BY <1>5 DEF SystemKey
      <3>2. hist.controls + 1 \in Nat /\ (tx3 # <<>>) \in BOOLEAN
        OBVIOUS
      <3> QED  BY <3>1, <3>2
    <2> QED  BY <1>2, <1>5, <2>2, <2>3, <2>4 DEF SystemKey
  <1>6. CASE Poll
    <2>1. Head(tx3) \in Tx3Type /\ tx3[1] = Head(tx3)
      BY <1>6, HeadTailTyped DEF Poll
    <2>2. tx3[1].report \in ReportType /\ tx3[1].control \in Controls
      BY <2>1 DEF Tx3Type
    <2>3. tx3' \in Seq(Tx3Type)
      BY <1>6 DEF Poll
    <2>4. host' \in Seq(ReportType)
      <3>1. Append(host, tx3[1].report) \in Seq(ReportType)
        BY <2>2
      <3>2. host' = Append(host, tx3[1].report) \/ host' = host
        BY <1>6 DEF Poll
      <3> QED  BY <3>1, <3>2
    <2>5. system' \in [held : Controls, last : Controls, host : Controls]
      <3>1. system' = [system EXCEPT !.host = tx3[1].control] \/ system' = system
        BY <1>6 DEF Poll
      <3> QED  BY <2>2, <3>1
    <2> QED  BY <1>2, <1>6, <2>3, <2>4, <2>5 DEF Poll
  <1> QED  BY <1>2, <1>4, <1>5, <1>6

\* A packet of the mouse is bytes.
LEMMA MoveStep ==
  ASSUME TypeOK, NEW m \in Motions, Move(m)
  PROVE  TypeOK' /\ unsent' \in Seq(UByte)
  <1> USE DEF TypeOK
  <1>1. Packet(m) \in Seq(UByte) /\ Len(Packet(m)) = 4
    BY MouseAssumption, PacketTyped
  <1>2. \A n \in {3, 4} : SubSeq(Packet(m), 1, n) \in Seq(UByte)
    <2> SUFFICES ASSUME NEW n \in {3, 4}
                 PROVE  SubSeq(Packet(m), 1, n) \in Seq(UByte)
      OBVIOUS
    <2>1. \A i \in 1 .. n : Packet(m)[i] \in UByte
      <3> SUFFICES ASSUME NEW i \in 1 .. n
                   PROVE  Packet(m)[i] \in UByte
        OBVIOUS
      <3>1. i \in 1 .. Len(Packet(m))
        BY <1>1
      <3> QED  BY <1>1, <3>1, ElementOfSeq
    <2> QED  BY <2>1, SubSeqProperties
  <1>3. unsent' \in Seq(UByte)
    BY <1>2 DEF Move
  <1>4. unsent' \in Seq(UByte \cup {Spoilt})
    BY <1>3, OnTheLine
  <1>5. BytesOK'
    BY <1>4 DEF Move, BytesOK
  <1>6. motions' \in Seq(Motions)
    BY DEF Move
  <1> QED  BY <1>3, <1>5, <1>6 DEF Move

-----------------------------------------------------------------------------
(* The counter and the queue.                                              *)

\* While nothing is lost every byte on its way is one; mouse_task only runs in the
\* main loop; the counter covers the packet that is being read.
Counts ==
  /\ Len(pbuf) <= PbufRoom
  /\ boot.pc # "run" => task.pc = "idle"
  /\ boot.pc \in {"step", "answer"} => hist.races = 0
  /\ faults = 0 =>
       /\ unsent \in Seq(UByte) /\ held \in Seq(UByte)
       /\ task.pc \in {"read", "count"} => mod3BytesCounter >= 4
       /\ task.pc = "store" => 4 <= task.old /\ task.old <= mod3BytesCounter
  /\ CounterLags

IInv == TypeOK /\ Shape /\ Counts

\* The invariant holds when the program starts.
LEMMA InitIInv == Init => IInv
  <1> SUFFICES ASSUME Init
               PROVE  IInv
    OBVIOUS
  <1> USE DEF Init, BootInit
  <1>1. <<>> \in Seq(UByte) /\ <<>> \in Seq(UByte \cup {Spoilt}) /\ <<>> \in Seq(Motions)
        /\ <<>> \in Seq(ReportType) /\ <<>> \in Seq(Tx3Type) /\ Len(<<>>) = 0
    OBVIOUS
  <1>2. ps2 \in MouseType
    <2>1. Fresh("ready") \in MouseType /\ Fresh("test") \in MouseType
      BY DEF Fresh, MouseType
    <2> QED  BY <2>1
  <1>3. boot \in BootType
    BY DEF BootType, UByte
  <1>4. 0 \in 0 .. CounterSize - 1
    BY BootAssumption
  <1>5. BytesOK
    BY <1>1, <1>2, <1>3, <1>4 DEF BytesOK
  <1>6. task \in TaskType
    BY <1>1, <1>4 DEF TaskType
  <1>7. TypeOK
    BY <1>1, <1>5, <1>6 DEF TypeOK, Controls
  <1>8. Counts
    BY <1>1, BootAssumption DEF Counts, CounterLags
  <1> QED  BY <1>1, <1>7, <1>8 DEF IInv, Shape

\* Before the main loop no packet is begun; a byte of the boot is not yet counted.
LEMMA BootCounts ==
  ASSUME IInv, MainBoots, UNCHANGED <<motions, task, mbuf, tx3, system, host, hist>>
  PROVE  Counts'
  <1> USE DEF IInv, Counts, CounterLags
  <1>1. TypeOK /\ BytesOK /\ Len(pbuf) \in Nat
    BY DEF TypeOK, BytesOK
  <1>2. CASE SendWhole
    <2>1. unsent' \in Seq(UByte)
      BY <1>1, <1>2, ObeyTyped DEF SendWhole, BytesOK
    <2>2. boot'.pc = "answer" /\ boot.pc = "step"
      BY <1>1, <1>2 DEF SendWhole, Step, AtCommand, InScript, BytesOK, BootType
    <2> QED  BY <1>2, <2>1, <2>2 DEF SendWhole, Taken
  <1>3. CASE SendUnheard
    <2>1. boot'.pc = "step" /\ boot.pc = "step"
      BY <1>1, <1>3 DEF SendUnheard, NextStep, AtCommand, InScript, BytesOK, BootType
    <2> QED  BY <1>1, <1>3, <2>1 DEF SendUnheard, line, Taken, BytesOK
  <1>4. ASSUME NEW cut \in 0 .. WholeCommand, SendCut(cut)
        PROVE  Counts'
    <2>1. boot'.pc = "step" /\ boot.pc = "step"
      BY <1>1, <1>4 DEF SendCut, NextStep, AtCommand, InScript, BytesOK, BootType
    <2>2. faults' # 0 /\ pbuf' = pbuf
      BY <1>1, <1>4 DEF SendCut, BytesOK
    <2> QED  BY <2>1, <2>2
  <1>5. CASE TakeAnswer
    <2>1. boot'.pc = "step" /\ boot.pc \in {"step", "answer"}
      BY <1>1, <1>5 DEF TakeAnswer, Waits, InScript, BytesOK, BootType
    <2>2. Len(pbuf') <= PbufRoom
      <3>1. Len(pbuf') = Len(pbuf) - 1
        BY <1>1, <1>5, RestTyped DEF TakeAnswer, pbuf_has_data, pbuf_dequeue, BytesOK
      <3> QED  BY <1>1, <3>1, BootAssumption
    <2> QED  BY <1>5, <2>1, <2>2 DEF TakeAnswer, line
  <1>6. CASE InitDone
    <2>1. /\ boot.pc = "step" /\ boot'.pc = "off" /\ boot'.early = Len(pbuf)
          /\ mod3BytesCounter' = 0 /\ pbuf' = pbuf /\ faults' = faults
          /\ unsent' = unsent /\ held' = held
      BY <1>1, <1>6 DEF InitDone, line, BytesOK, BootType
    <2>2. task.pc = "idle" /\ hist.races = 0 /\ Taken' = 0
      BY <2>1 DEF Shape, Taken
    <2> QED  BY <1>1, <2>1, <2>2
  <1>7. CASE Connect
    <2>1. boot.pc = "off" /\ boot'.pc = "run" /\ boot'.early = boot.early
      BY <1>1, <1>7 DEF Connect, Step, BytesOK, BootType
    <2> QED  BY <1>7, <2>1 DEF Connect, line, Taken
  <1> QED  BY <1>2, <1>3, <1>4, <1>5, <1>6, <1>7 DEF MainBoots

\* A byte that the interrupt takes is counted and stored, as long as none is lost:
\* the counter does not wrap, the queue and the packet having no room for so many.
LEMMA TakeCounts ==
  ASSUME IInv, faults' = 0, NEW b \in UByte, Take(b)
  PROVE  /\ mod3BytesCounter' = (mod3BytesCounter + 1) % CounterSize
         /\ Len(pbuf') = Len(pbuf) + 1
         /\ Len(pbuf') <= PbufRoom
         /\ faults = 0
         /\ boot.pc \in {"off", "run"} => mod3BytesCounter' = mod3BytesCounter + 1
  <1> USE DEF IInv
  <1>1. TypeOK /\ BytesOK /\ Len(pbuf) \in Nat /\ Len(task.packet) \in Nat
    BY DEF TypeOK, BytesOK, TaskType
  <1>2. b # Spoilt
    BY DEF UByte, Spoilt
  <1>3. Len(pbuf) # PbufRoom /\ faults' = faults
    BY <1>1, <1>2 DEF Take, BytesOK
  <1>4. Len(pbuf) < PbufRoom
    BY <1>1, <1>3, BootAssumption DEF Counts
  <1>5. pbuf' = Put(pbuf, b, PbufRoom)
    BY <1>2 DEF Take, pbuf_enqueue
  <1>6. Len(pbuf') = Len(pbuf) + 1
    BY <1>1, <1>4, <1>5, PutTyped, BootAssumption DEF BytesOK
  <1>7. mod3BytesCounter' = (mod3BytesCounter + 1) % CounterSize
    BY DEF Take
  <1>8. ASSUME boot.pc \in {"off", "run"}
        PROVE  mod3BytesCounter' = mod3BytesCounter + 1
    <2>1. Len(pbuf) + Len(task.packet) = mod3BytesCounter + hist.races + boot.early
      BY <1>3, <1>8 DEF Counts, CounterLags, Taken
    <2>2. Len(task.packet) <= 4
      <3> HIDE DEF IInv
      <3>1. /\ task.pc \in {"idle", "read", "count", "store"}
            /\ Len(task.packet) \in Nat /\ (task.packet = <<>> => Len(task.packet) = 0)
        BY <1>1 DEF TypeOK, TaskType
      <3>2. Shape
        BY DEF IInv
      <3>3. \/ Len(task.packet) = 0 \/ Len(task.packet) < 4 \/ Len(task.packet) = 4
        BY <3>1, <3>2 DEF Shape
      <3>4. \A n \in Nat : (n = 0 \/ n < 4 \/ n = 4) => n <= 4
        OBVIOUS
      <3> QED  BY <3>1, <3>3, <3>4
    <2>3. /\ mod3BytesCounter \in Nat /\ hist.races \in Nat /\ boot.early \in Nat
          /\ CounterSize \in Nat /\ CounterSize > PbufRoom + 4 /\ PbufRoom \in Nat
      BY <1>1, BootAssumption DEF TypeOK, BytesOK, BootType
    <2>4. mod3BytesCounter + 1 < CounterSize
      <3> HIDE DEF IInv
      <3> QED  BY <1>1, <1>4, <2>1, <2>2, <2>3
    <2> QED  BY <1>7, <2>3, <2>4, ModIs
  <1> QED  BY <1>1, <1>3, <1>4, <1>6, <1>7, <1>8, BootAssumption

\* One more on either side.
LEMMA BothCount ==
  ASSUME NEW n \in Nat, NEW t \in Nat, NEW c \in Nat, NEW r \in Nat, NEW e \in Nat,
         n + t = c + r + e
  PROVE  (n + 1) + t = (c + 1) + r + e
  OBVIOUS

\* The receive interrupt keeps counter and queue in step.
LEMMA ReceiveCounts ==
  ASSUME IInv, Receive, BytesOK', UNCHANGED <<motions, task, mbuf, tx3, system, host, hist>>
  PROVE  Counts'
  <1> USE DEF IInv
  <1>1. TypeOK /\ BytesOK /\ boot' = boot /\ Taken' = Taken /\ task' = task /\ hist' = hist
    BY DEF TypeOK, Receive, Take, Taken
  <1>2. Len(pbuf') <= PbufRoom
    <2>1. PICK b \in UByte \cup {Spoilt} : Take(b)
      <3>1. held # <<>> => Head(held) \in UByte \cup {Spoilt}
        BY <1>1, HeadTailTyped DEF BytesOK
      <3>2. unsent # <<>> => Head(unsent) \in UByte \cup {Spoilt}
        BY <1>1, HeadTailTyped DEF BytesOK
      <3> QED  BY <3>1, <3>2 DEF Receive
    <2>2. CASE b = Spoilt
      BY <2>1, <2>2 DEF Take, Counts
    <2>3. CASE b \in UByte /\ b # Spoilt
      <3>1. Len(Put(pbuf, b, PbufRoom)) = IF Len(pbuf) < PbufRoom THEN Len(pbuf) + 1 ELSE Len(pbuf)
        BY <1>1, <2>3, PutTyped, BootAssumption DEF BytesOK
      <3>2. Len(pbuf) \in Nat /\ Len(pbuf) <= PbufRoom /\ PbufRoom \in Nat
        BY <1>1, BootAssumption DEF Counts, BytesOK
      <3>3. pbuf' = Put(pbuf, b, PbufRoom)
        BY <2>1, <2>3 DEF Take, pbuf_enqueue
      <3> QED  BY <3>1, <3>2, <3>3
    <2> QED  BY <2>2, <2>3
  <1>3. ASSUME faults' = 0
        PROVE  /\ unsent' \in Seq(UByte) /\ held' \in Seq(UByte) /\ faults = 0
               /\ Len(pbuf') = Len(pbuf) + 1
               /\ boot.pc \in {"off", "run"} => mod3BytesCounter' = mod3BytesCounter + 1
    <2>1. faults = 0
      BY <1>1, <1>3 DEF Receive, Take, BytesOK
    <2>2. unsent \in Seq(UByte) /\ held \in Seq(UByte)
      BY <2>1 DEF Counts
    <2>3. CASE held # <<>>
      <3>1. Head(held) \in UByte /\ Tail(held) \in Seq(UByte)
        BY <2>2, <2>3, HeadTailTyped
      <3>2. Take(Head(held)) /\ held' = Tail(held) /\ unsent' = unsent
        BY <2>3 DEF Receive
      <3> QED  BY <1>3, <2>1, <2>2, <3>1, <3>2, TakeCounts
    <2>4. CASE held = <<>>
      <3>1. Take(Head(unsent)) /\ unsent # <<>> /\ unsent' = Tail(unsent) /\ held' = held
        BY <2>4 DEF Receive
      <3>2. Head(unsent) \in UByte /\ Tail(unsent) \in Seq(UByte)
        BY <2>2, <3>1, HeadTailTyped
      <3> QED  BY <1>3, <2>1, <2>2, <3>1, <3>2, TakeCounts
    <2> QED  BY <2>3, <2>4
  <1>4. /\ boot.pc \in {"off", "run", "step", "answer"} /\ mod3BytesCounter \in Nat
        /\ mod3BytesCounter' \in Nat /\ Len(pbuf) \in Nat /\ Taken \in Nat
        /\ hist.races \in Nat /\ boot.early \in Nat /\ task.old \in Nat
    <2>1. /\ boot.pc \in {"off", "run", "step", "answer"} /\ boot.early \in Nat
          /\ mod3BytesCounter \in Nat /\ Len(pbuf) \in Nat
      BY <1>1, BootAssumption DEF BytesOK, BootType
    <2>2. mod3BytesCounter' \in Nat
      BY BootAssumption DEF BytesOK
    <2>3. Taken \in Nat /\ task.old \in Nat
      BY <1>1, BootAssumption DEF TypeOK, TaskType, Taken
    <2>4. hist.races \in Nat
      BY <1>1 DEF TypeOK
    <2> QED  BY <2>1, <2>2, <2>3, <2>4
  <1>5. CounterLags'
    <2> SUFFICES ASSUME faults' = 0, boot.pc \in {"off", "run"}
                 PROVE  Len(pbuf') + Taken = mod3BytesCounter' + hist.races + boot.early
      BY <1>1 DEF CounterLags
    <2>1. Len(pbuf) + Taken = mod3BytesCounter + hist.races + boot.early
      BY <1>3 DEF Counts, CounterLags
    <2>2. Len(pbuf') = Len(pbuf) + 1 /\ mod3BytesCounter' = mod3BytesCounter + 1
      BY <1>3
    <2>3. (Len(pbuf) + 1) + Taken = (mod3BytesCounter + 1) + hist.races + boot.early
      BY <1>4, <2>1, BothCount
    <2> QED  BY <2>2, <2>3
  <1>6. ASSUME faults' = 0
        PROVE  /\ task.pc \in {"read", "count"} => mod3BytesCounter' >= 4
               /\ task.pc = "store" => 4 <= task.old /\ task.old <= mod3BytesCounter'
    <2>1. task.pc # "idle" => mod3BytesCounter' = mod3BytesCounter + 1
      BY <1>3, <1>6 DEF Counts
    <2>2. /\ task.pc \in {"read", "count"} => mod3BytesCounter >= 4
          /\ task.pc = "store" => 4 <= task.old /\ task.old <= mod3BytesCounter
      BY <1>3, <1>6 DEF Counts
    <2> QED  BY <1>4, <2>1, <2>2
  <1>7. /\ boot'.pc # "run" => task'.pc = "idle"
        /\ boot'.pc \in {"step", "answer"} => hist'.races = 0
    BY <1>1 DEF Counts
  <1>8. faults' = 0 =>
          /\ unsent' \in Seq(UByte) /\ held' \in Seq(UByte)
          /\ task'.pc \in {"read", "count"} => mod3BytesCounter' >= 4
          /\ task'.pc = "store" => 4 <= task'.old /\ task'.old <= mod3BytesCounter'
    BY <1>1, <1>3, <1>6
  <1> HIDE DEF IInv
  <1> QED  BY <1>2, <1>5, <1>7, <1>8 DEF Counts

\* The other steps of the mouse and the USART store nothing in pbuf; what they lose
\* or spoil is a fault.
LEMMA LineCounts ==
  ASSUME IInv, SelfTest \/ Hold \/ Spoil \/ Overwritten,
         UNCHANGED <<motions, task, mbuf, tx3, system, host, hist>>
  PROVE  Counts'
  <1>1. /\ TypeOK /\ BytesOK /\ Taken' = Taken
        /\ pbuf' = pbuf /\ mod3BytesCounter' = mod3BytesCounter /\ boot' = boot
    BY DEF IInv, TypeOK, SelfTest, Hold, Spoil, Overwritten, Taken
  <1>2. ASSUME faults' = 0
        PROVE  unsent' \in Seq(UByte) /\ held' \in Seq(UByte) /\ faults = 0
    <2>1. faults = 0 /\ ~Spoil /\ ~Overwritten
      BY <1>1, <1>2 DEF SelfTest, Hold, Spoil, Overwritten, BytesOK
    <2>2. unsent \in Seq(UByte) /\ held \in Seq(UByte)
      BY <2>1 DEF IInv, Counts
    <2>3. CASE SelfTest
      <3>1. TESTED \in Seq(UByte)
        BY DEF TESTED, UByte
      <3> QED  BY <2>1, <2>2, <2>3, <3>1 DEF SelfTest
    <2>4. CASE Hold
      <3>1. Head(unsent) \in UByte /\ Tail(unsent) \in Seq(UByte)
        BY <2>2, <2>4, HeadTailTyped DEF Hold
      <3> QED  BY <2>1, <2>2, <2>4, <3>1 DEF Hold
    <2> QED  BY <2>1, <2>3, <2>4
  <1> QED  BY <1>1, <1>2 DEF IInv, Counts, CounterLags

\* mouse_task: a byte that it reads moves from the queue to the packet; the store
\* forgets what was counted since the load, and that is what races counts.
LEMMA TaskCounts ==
  ASSUME IInv, mouse_task, Shape'
  PROVE  Counts'
  <1>1. /\ TypeOK /\ BytesOK /\ Shape /\ Counts
        /\ Len(pbuf) \in Nat /\ Len(task.packet) \in Nat /\ mod3BytesCounter \in Nat
        /\ hist.races \in Nat /\ boot.early \in Nat /\ task.old \in Nat /\ faults \in Nat
        /\ Len(pbuf) <= PbufRoom
    BY BootAssumption DEF IInv, TypeOK, BytesOK, BootType, TaskType, Counts
  <1>2. boot.pc = "run" /\ boot' = boot /\ faults' = faults /\ unsent' = unsent /\ held' = held
    BY <1>1 DEF mouse_task, TaskBegins, ReadByte, LoadCounter, StoreCounter, line, bytes, Counts
  <1>3. faults = 0 => Len(pbuf) + Len(task.packet) = mod3BytesCounter + hist.races + boot.early
    BY <1>1, <1>2 DEF Counts, CounterLags, Taken
  <1>4. faults = 0 => unsent \in Seq(UByte) /\ held \in Seq(UByte)
    BY <1>1 DEF Counts
  <1>5. CASE TaskBegins
    <2>1. /\ task.pc = "idle" /\ task'.pc = "read" /\ task'.packet = <<>>
          /\ mod3BytesCounter >= 4 /\ pbuf' = pbuf /\ mod3BytesCounter' = mod3BytesCounter
          /\ hist' = hist
      BY <1>1, <1>5 DEF TaskBegins, bytes, TypeOK, TaskType
    <2>2. task.packet = <<>>
      BY <1>1, <2>1 DEF Shape
    <2> QED  BY <1>1, <1>2, <1>3, <1>4, <2>1, <2>2 DEF Counts, CounterLags, Taken
  <1>6. CASE ReadByte
    <2>1. /\ task.pc = "read" /\ task'.pc \in {"read", "count"}
          /\ task'.packet = Append(task.packet, First(pbuf))
          /\ pbuf' = Rest(pbuf) /\ pbuf # <<>>
          /\ mod3BytesCounter' = mod3BytesCounter /\ hist' = hist
      BY <1>1, <1>6 DEF ReadByte, pbuf_has_data, pbuf_dequeue, TypeOK, TaskType
    <2>2. Len(pbuf') = Len(pbuf) - 1
      BY <1>1, <2>1, RestTyped DEF BytesOK
    <2>3. Len(task'.packet) = Len(task.packet) + 1
      BY <1>1, <2>1 DEF TypeOK, TaskType
    <2>4. faults = 0 => Len(pbuf') + Len(task'.packet) = mod3BytesCounter' + hist'.races + boot'.early
      BY <1>1, <1>2, <1>3, <2>1, <2>2, <2>3
    <2>5. Len(pbuf') <= PbufRoom
      BY <1>1, <2>2, BootAssumption
    <2>6. faults = 0 => mod3BytesCounter' >= 4
      BY <1>1, <2>1 DEF Counts
    <2> QED  BY <1>2, <1>4, <2>1, <2>4, <2>5, <2>6 DEF Counts, CounterLags, Taken
  <1>7. CASE LoadCounter
    <2>1. /\ task.pc = "count" /\ task'.pc = "store" /\ task'.packet = task.packet
          /\ task'.old = mod3BytesCounter
          /\ pbuf' = pbuf /\ mod3BytesCounter' = mod3BytesCounter /\ hist' = hist
      BY <1>1, <1>7 DEF LoadCounter, bytes, TypeOK, TaskType
    <2>2. faults = 0 => mod3BytesCounter >= 4
      BY <1>1, <2>1 DEF Counts
    <2> QED  BY <1>1, <1>2, <1>3, <1>4, <2>1, <2>2 DEF Counts, CounterLags, Taken
  <1>8. CASE StoreCounter
    <2>1. /\ task.pc = "store" /\ task'.pc = "idle" /\ task'.packet = <<>> /\ pbuf' = pbuf
          /\ mod3BytesCounter' = (task.old - 4) % CounterSize
          /\ hist'.races = hist.races + ((mod3BytesCounter - task.old) % CounterSize)
      BY <1>1, <1>8 DEF StoreCounter, TypeOK, TaskType
    <2>2. ASSUME faults = 0
          PROVE  Len(pbuf') + Len(task'.packet) = mod3BytesCounter' + hist'.races + boot'.early
      <3>1. 4 <= task.old /\ task.old <= mod3BytesCounter /\ mod3BytesCounter < CounterSize
        BY <1>1, <2>1, <2>2, BootAssumption DEF Counts, BytesOK
      <3>2. mod3BytesCounter' = task.old - 4
        <4>1. task.old - 4 \in Int /\ 0 <= task.old - 4 /\ task.old - 4 < CounterSize
              /\ CounterSize \in Nat /\ CounterSize > 0
          BY <1>1, <3>1, BootAssumption
        <4>2. (task.old - 4) % CounterSize = task.old - 4
          BY <4>1, ModIs
        <4> QED  BY <2>1, <4>2
      <3>3. hist'.races = hist.races + (mod3BytesCounter - task.old)
        <4> DEFINE n == mod3BytesCounter - task.old
        <4>1. n \in Int /\ 0 <= n /\ n < CounterSize /\ CounterSize \in Nat /\ CounterSize > 0
          BY <1>1, <3>1, BootAssumption
        <4> HIDE DEF n
        <4>2. n % CounterSize = n
          BY <4>1, ModIs
        <4> QED  BY <2>1, <4>2 DEF n
      <3>4. Len(task.packet) = 4 /\ Len(task'.packet) = 0
        BY <1>1, <2>1 DEF Shape
      <3>5. Len(pbuf) + 4 = mod3BytesCounter + hist.races + boot.early
        BY <1>3, <2>2, <3>4
      <3>6. Len(pbuf') = Len(pbuf) /\ boot'.early = boot.early
        BY <1>2, <2>1
      <3>7. Len(pbuf) + 0
              = (task.old - 4) + (hist.races + (mod3BytesCounter - task.old)) + boot.early
        <4>1. /\ Len(pbuf) \in Nat /\ mod3BytesCounter \in Nat /\ hist.races \in Nat
              /\ boot.early \in Nat /\ task.old \in Nat
          BY <1>1
        <4> DEFINE l == Len(pbuf)
                   c == mod3BytesCounter
                   r == hist.races
                   e == boot.early
                   o == task.old
        <4>2. l \in Nat /\ c \in Nat /\ r \in Nat /\ e \in Nat /\ o \in Nat
          BY <4>1
        <4>3. l + 4 = c + r + e
          BY <3>5
        <4> HIDE DEF l, c, r, e, o
        <4>4. l + 0 = (o - 4) + (r + (c - o)) + e
          BY <4>2, <4>3
        <4> QED  BY <4>4 DEF l, c, r, e, o
      <3> QED  BY <3>2, <3>3, <3>4, <3>6, <3>7
    <2>3. CounterLags'
      BY <1>2, <2>2 DEF CounterLags, Taken
    <2>4. /\ Len(pbuf') <= PbufRoom /\ task'.pc = "idle" /\ boot'.pc = "run"
          /\ faults' = 0 => unsent' \in Seq(UByte) /\ held' \in Seq(UByte)
      BY <1>1, <1>2, <1>4, <2>1
    <2> QED  BY <2>3, <2>4 DEF Counts
  <1> QED  BY <1>5, <1>6, <1>7, <1>8 DEF mouse_task

\* Every step keeps the invariant.
LEMMA NextIInv == IInv /\ [Next]_vars => IInv'
  <1> SUFFICES ASSUME IInv, [Next]_vars
               PROVE  IInv'
    OBVIOUS
  <1>0. TypeOK /\ BytesOK /\ Shape /\ Counts
    BY DEF IInv, TypeOK
  <1>1. ASSUME NEW m \in Motions, Move(m)
        PROVE  IInv'
    <2>1. TypeOK' /\ unsent' \in Seq(UByte)
      BY <1>0, <1>1, MoveStep
    <2>2. UNCHANGED <<ps2, held, pbuf, mod3BytesCounter, boot, faults, task, hist>>
      BY <1>1 DEF Move
    <2>3. Counts' /\ Shape'
      BY <1>0, <2>1, <2>2 DEF Counts, Shape, CounterLags, Taken
    <2> QED  BY <2>1, <2>3 DEF IInv
  <1>2. ASSUME SelfTest \/ MainBoots \/ Usart,
               UNCHANGED <<motions, task, mbuf, tx3, system, host, hist>>
        PROVE  IInv'
    <2>1. BytesOK'
      BY <1>0, <1>2, BytesStep
    <2>2. TypeOK' /\ Shape'
      BY <1>0, <1>2, <2>1 DEF TypeOK, Shape
    <2>3. Counts'
      BY <1>2, <2>1, BootCounts, ReceiveCounts, LineCounts DEF Usart
    <2> QED  BY <2>2, <2>3 DEF IInv
  <1>3. CASE mouse_task
    <2>1. TypeOK' /\ Shape'
      BY <1>0, <1>3, TaskStep
    <2> QED  BY <1>3, <2>1, TaskCounts DEF IInv
  <1>4. CASE vusb_transfer_mouse \/ (\E c \in Controls : SystemKey(c)) \/ Poll
    <2>1. TypeOK' /\ Shape'
      BY <1>0, <1>4, EndpointStep
    <2>2. UNCHANGED <<bytes, task>> /\ hist'.races = hist.races
      BY <1>0, <1>4 DEF vusb_transfer_mouse, SystemKey, Poll, TypeOK
    <2>3. Counts'
      BY <1>0, <2>2 DEF Counts, CounterLags, Taken, bytes
    <2> QED  BY <2>1, <2>3 DEF IInv
  <1>5. CASE UNCHANGED vars
    BY <1>5 DEF vars, bytes, IInv, TypeOK, BytesOK, Shape, Counts, CounterLags, Taken
  <1> QED  BY <1>1, <1>2, <1>3, <1>4, <1>5 DEF Next, Boot, Bytes

\* The inductive invariant, of which the properties are parts.
THEOREM Invariance == Spec => []IInv
  BY InitIInv, NextIInv, PTL DEF Spec

\* Every byte stays a byte, every report within the ranges its descriptor declares,
\* the counter in its eight bits: for every size of queue, counter and mailbox.
THEOREM TypeCorrect == Spec => []TypeOK
  BY Invariance, PTL DEF IInv

\* As long as no byte is spoilt or lost the counter is behind the queue by the
\* increments that mouse_task has overwritten and the bytes that came before its
\* reset, and never ahead of it.
THEOREM CounterLagsCorrect == Spec => []CounterLags
  <1>1. IInv => CounterLags
    BY DEF IInv, Counts
  <1> QED  BY <1>1, Invariance, PTL

\* mouse_task finds the bytes of the packet that it reads: the main loop does not
\* stop for the mouse.
THEOREM NeverWaitsCorrect == Spec => []NeverWaits
  <1>1. IInv => NeverWaits
    <2> SUFFICES ASSUME IInv, faults = 0, task.pc = "read", pbuf = <<>>
                 PROVE  FALSE
      BY DEF NeverWaits, pbuf_has_data
    <2>1. /\ mod3BytesCounter \in Nat /\ hist.races \in Nat /\ boot.early \in Nat
          /\ Len(task.packet) \in Nat
      BY BootAssumption DEF IInv, TypeOK, BytesOK, BootType, TaskType
    <2>2. boot.pc = "run" /\ mod3BytesCounter >= 4 /\ Len(task.packet) < 4
      BY DEF IInv, Counts, Shape
    <2>3. 0 + Len(task.packet) = mod3BytesCounter + hist.races + boot.early
      BY <2>2 DEF IInv, Counts, CounterLags, Taken
    <2> QED  BY <2>1, <2>2, <2>3
  <1> QED  BY <1>1, Invariance, PTL

-----------------------------------------------------------------------------
(* What is on its way: the bytes on the line and in the packet that is read, *)
(* and the reports that are made of them.                                    *)

\* The mouse m when n steps of the script are done, and what it then has to send or
\* has sent that is still to be read besides an acknowledgement.
Awaits(n) ==
  IF n \in {4, 6, 8, 12} THEN "rate" ELSE IF n = 14 THEN "resolution" ELSE "command"
Knocked(n) ==
  IF n \in {5, 6} THEN 1 ELSE IF n \in {7, 8} THEN 2 ELSE IF n \in 9 .. 12 THEN 3 ELSE 0
MouseIs(m, n) ==
  /\ m.await = Awaits(n) /\ m.knocks = Knocked(n)
  /\ m.type = IF n < 9 THEN 0 ELSE WHEEL
  /\ m.on <=> n = 16
Besides(n) == IF n = 1 THEN TESTED ELSE IF n = 2 THEN <<0>> ELSE IF n = 10 THEN <<WHEEL>> ELSE <<>>

\* The steps of the script that are done, their answers not counted; the answer that
\* is ahead of everything else; the bytes on their way, the first to be read first.
Sent == IF boot.pc = "answer" THEN boot.at ELSE boot.at - 1
Ahead == IF boot.pc = "answer" THEN <<ACK>> ELSE <<>>
OnLine == pbuf \o (held \o unsent)

\* Where the script is tells what the mouse is and what is on its way.
InScriptStep ==
  faults = 0 =>
    /\ Sent \in 0 .. 16
    /\ boot.pc = "answer" => Sent # 0 /\ Script[Sent] # Read
    /\ boot.pc \in {"off", "run"} => Sent = 16
    /\ Booting => held = <<>>
    /\ MouseIs(ps2, Sent)
    /\ ps2.mode = "test" => Sent = 1
    /\ Sent < 16 => OnLine = Ahead \o (IF ps2.mode = "test" THEN <<>> ELSE Besides(Sent))
    /\ boot.pc = "step" /\ Sent \in {3, 11} => boot.rcv = ps2.type

\* Bytes p are the packets of the motions ms from the one after n, behind a others.
Packed(p, a, ms, n) ==
  /\ Len(p) = a + 4 * (Len(ms) - n)
  /\ \A k \in 1 .. Len(ms) - n : \A j \in 1 .. 4 :
       p[a + 4 * (k - 1) + j] = Packet(ms[n + k])[j]

\* What mouse_task has read of a packet, and what it has still to read.
Pipe == task.packet \o OnLine
\* The reports that are out are those of the first motions; the packets of the others
\* are on their way, behind the last answer of the script.
InOrder ==
  /\ Len(mbuf) <= MbufRoom
  /\ faults = 0 /\ ~hist.dropped =>
       /\ Len(Out) <= Len(motions)
       /\ \A i \in 1 .. Len(Out) : Out[i] = Wanted(motions[i])
       /\ IF ps2.on THEN Packed(Pipe, Len(Ahead), motions, Len(Out)) ELSE motions = <<>>

-----------------------------------------------------------------------------
(* Bytes in their order.                                                    *)

\* The first element of one sequence goes to the end of the one before it.
LEMMA HandOver ==
  ASSUME NEW S, NEW p \in Seq(S), NEW q \in Seq(S), q # <<>>
  PROVE  Append(p, Head(q)) \in Seq(S) /\ Append(p, Head(q)) \o Tail(q) = p \o q
  <1> DEFINE a == Append(p, Head(q))
             t == Tail(q)
  <1>1. /\ Head(q) \in S /\ t \in Seq(S) /\ Len(t) = Len(q) - 1 /\ Head(q) = q[1]
        /\ \A i \in 1 .. Len(t) : t[i] = q[i + 1]
        /\ Len(p) \in Nat /\ Len(q) \in Nat \ {0}
    BY HeadTailProperties, EmptySeq, LenProperties
  <1>2. /\ a \in Seq(S) /\ Len(a) = Len(p) + 1
        /\ \A i \in 1 .. Len(p) : a[i] = p[i]
        /\ a[Len(p) + 1] = q[1]
    BY <1>1
  <1> HIDE DEF a, t
  <1>3. /\ a \o t \in Seq(S) /\ Len(a \o t) = Len(a) + Len(t)
        /\ \A i \in 1 .. Len(a) + Len(t) :
             (a \o t)[i] = IF i <= Len(a) THEN a[i] ELSE t[i - Len(a)]
    BY <1>1, <1>2, ConcatProperties
  <1>4. /\ p \o q \in Seq(S) /\ Len(p \o q) = Len(p) + Len(q)
        /\ \A i \in 1 .. Len(p) + Len(q) :
             (p \o q)[i] = IF i <= Len(p) THEN p[i] ELSE q[i - Len(p)]
    BY ConcatProperties
  <1>5. Len(a \o t) = Len(p \o q) /\ Len(a) + Len(t) = Len(p) + Len(q)
    BY <1>1, <1>2, <1>3, <1>4
  <1>6. ASSUME NEW i \in 1 .. Len(a \o t)
        PROVE  (a \o t)[i] = (p \o q)[i]
    <2>1. CASE i <= Len(p)
      <3>1. i <= Len(a) /\ i \in 1 .. Len(p)
        BY <1>1, <1>2, <2>1
      <3> QED  BY <1>2, <1>3, <1>4, <1>5, <2>1, <3>1
    <2>2. CASE i = Len(p) + 1
      <3>1. i <= Len(a) /\ ~(i <= Len(p)) /\ i - Len(p) = 1
        BY <1>1, <1>2, <2>2
      <3> QED  BY <1>2, <1>3, <1>4, <1>5, <2>2, <3>1
    <2>3. CASE i > Len(p) + 1
      <3>1. /\ ~(i <= Len(a)) /\ ~(i <= Len(p)) /\ (i - Len(a)) + 1 = i - Len(p)
            /\ i - Len(a) \in 1 .. Len(t)
        BY <1>1, <1>2, <1>3, <2>3
      <3>2. t[i - Len(a)] = q[i - Len(p)]
        BY <1>1, <3>1
      <3> QED  BY <1>3, <1>4, <1>5, <3>1, <3>2
    <2> QED  BY <1>1, <1>4, <1>5, <2>1, <2>2, <2>3
  <1>7. a \o t = p \o q
    BY <1>3, <1>4, <1>5, <1>6, SeqEqual
  <1> QED  BY <1>2, <1>7 DEF a, t

\* The first element of two sequences is that of the first one.
LEMMA FirstOfTwo ==
  ASSUME NEW S, NEW p \in Seq(S), NEW q \in Seq(S), p # <<>>
  PROVE  p \o q # <<>> /\ Head(p \o q) = Head(p) /\ Tail(p \o q) = Tail(p) \o q
  <1> DEFINE c == p \o q
             t == Tail(p)
  <1>1. /\ c \in Seq(S) /\ Len(c) = Len(p) + Len(q) /\ Len(q) \in Nat
        /\ \A i \in 1 .. Len(p) + Len(q) : c[i] = IF i <= Len(p) THEN p[i] ELSE q[i - Len(p)]
    BY ConcatProperties, LenProperties
  <1>2. /\ t \in Seq(S) /\ Len(t) = Len(p) - 1 /\ Len(p) \in Nat \ {0}
        /\ Head(p) = p[1] /\ \A i \in 1 .. Len(t) : t[i] = p[i + 1]
    BY HeadTailProperties, EmptySeq
  <1> HIDE DEF c
  <1>3. c # <<>>
    <2>1. Len(c) # 0
      BY <1>1, <1>2
    <2> QED  BY <2>1
  <1>4. /\ Head(c) = c[1] /\ Tail(c) \in Seq(S) /\ Len(Tail(c)) = Len(c) - 1
        /\ \A i \in 1 .. Len(Tail(c)) : Tail(c)[i] = c[i + 1]
    BY <1>1, <1>3, HeadTailProperties
  <1> HIDE DEF t
  <1>5. c[1] = p[1]
    BY <1>1, <1>2
  <1>6. /\ t \o q \in Seq(S) /\ Len(t \o q) = Len(t) + Len(q)
        /\ \A i \in 1 .. Len(t) + Len(q) : (t \o q)[i] = IF i <= Len(t) THEN t[i] ELSE q[i - Len(t)]
    BY <1>2, ConcatProperties
  <1>7. Len(Tail(c)) = Len(t \o q)
    BY <1>1, <1>2, <1>4, <1>6
  <1>8. ASSUME NEW i \in 1 .. Len(Tail(c))
        PROVE  Tail(c)[i] = (t \o q)[i]
    <2>1. /\ i \in 1 .. Len(t) + Len(q) /\ i + 1 \in 1 .. Len(p) + Len(q)
          /\ (i + 1 <= Len(p) <=> i <= Len(t)) /\ (i + 1) - Len(p) = i - Len(t)
      BY <1>1, <1>2, <1>4
    <2>2. i <= Len(t) => t[i] = p[i + 1]
      BY <1>2, <2>1
    <2> QED  BY <1>1, <1>4, <1>6, <2>1, <2>2
  <1>9. Tail(c) = t \o q
    BY <1>4, <1>6, <1>7, <1>8, SeqEqual
  <1> QED  BY <1>2, <1>3, <1>4, <1>5, <1>9 DEF c, t

\* What may be on the line, whether spoilt or not.
LineByte == UByte \cup {Spoilt}

\* The types of the bytes on their way.
LEMMA OnLineTyped ==
  ASSUME BytesOK
  PROVE  /\ pbuf \in Seq(LineByte) /\ held \in Seq(LineByte) /\ unsent \in Seq(LineByte)
         /\ held \o unsent \in Seq(LineByte) /\ OnLine \in Seq(LineByte)
  <1>1. pbuf \in Seq(LineByte) /\ held \in Seq(LineByte) /\ unsent \in Seq(LineByte)
    BY OnTheLine DEF BytesOK, LineByte
  <1>2. held \o unsent \in Seq(LineByte)
    BY <1>1, ConcatProperties
  <1> QED  BY <1>1, <1>2, ConcatProperties DEF OnLine

\* A byte that is stored while none is lost is added to the queue.
LEMMA TakeAppends ==
  ASSUME IInv, faults' = 0, NEW b \in UByte, Take(b)
  PROVE  pbuf' = Append(pbuf, b)
  <1>1. Len(pbuf') = Len(pbuf) + 1 /\ Len(pbuf) \in Nat
    BY TakeCounts DEF IInv, TypeOK, BytesOK
  <1>2. pbuf' = Put(pbuf, b, PbufRoom)
    BY DEF Take, pbuf_enqueue, UByte, Spoilt
  <1> QED  BY <1>1, <1>2 DEF Put

\* The USART changes nothing in what is on its way, as long as nothing is lost.
LEMMA UsartKeepsOrder ==
  ASSUME IInv, Usart, faults' = 0
  PROVE  /\ faults = 0 /\ OnLine' = OnLine /\ ps2' = ps2 /\ boot' = boot
         /\ Booting /\ held = <<>> => held' = <<>>
  <1> DEFINE S == LineByte
  <1>1. /\ TypeOK /\ BytesOK /\ faults \in Nat
        /\ pbuf \in Seq(S) /\ held \in Seq(S) /\ unsent \in Seq(S) /\ held \o unsent \in Seq(S)
    BY OnLineTyped DEF IInv, TypeOK, BytesOK
  <1>2. ~Spoil /\ ~Overwritten
    BY <1>1 DEF Spoil, Overwritten
  <1>3. CASE Hold
    <2>1. /\ unsent # <<>> /\ boot.pc = "off" /\ faults' = faults /\ ps2' = ps2 /\ boot' = boot
          /\ held' = Append(held, Head(unsent)) /\ unsent' = Tail(unsent) /\ pbuf' = pbuf
      BY <1>3 DEF Hold
    <2>2. held' \o unsent' = held \o unsent
      BY <1>1, <2>1, HandOver
    <2> QED  BY <2>1, <2>2 DEF OnLine, Booting
  <1>4. CASE Receive /\ held # <<>>
    <2>1. Take(Head(held)) /\ held' = Tail(held) /\ unsent' = unsent
      BY <1>4 DEF Receive
    <2>2. faults = 0 /\ ps2' = ps2 /\ boot' = boot
      BY <1>1, <2>1 DEF Take
    <2>3. Head(held) \in UByte
      BY <1>4, <2>2, HeadTailTyped DEF IInv, Counts
    <2>4. pbuf' = Append(pbuf, Head(held))
      BY <2>1, <2>3, TakeAppends
    <2>5. /\ held \o unsent # <<>> /\ Head(held \o unsent) = Head(held)
          /\ Tail(held \o unsent) = held' \o unsent'
      BY <1>1, <1>4, <2>1, FirstOfTwo
    <2>6. Append(pbuf, Head(held \o unsent)) \o Tail(held \o unsent) = pbuf \o (held \o unsent)
      BY <1>1, <2>5, HandOver
    <2> QED  BY <1>4, <2>2, <2>4, <2>5, <2>6 DEF OnLine
  <1>5. CASE Receive /\ held = <<>>
    <2>1. Take(Head(unsent)) /\ unsent # <<>> /\ unsent' = Tail(unsent) /\ held' = <<>>
      BY <1>5 DEF Receive
    <2>2. faults = 0 /\ ps2' = ps2 /\ boot' = boot
      BY <1>1, <2>1 DEF Take
    <2>3. Head(unsent) \in UByte
      BY <2>1, <2>2, HeadTailTyped DEF IInv, Counts
    <2>4. pbuf' = Append(pbuf, Head(unsent))
      BY <2>1, <2>3, TakeAppends
    <2>5. held \o unsent = unsent /\ held' \o unsent' = Tail(unsent)
      <3>1. Tail(unsent) \in Seq(S)
        BY <1>1, <2>1, HeadTailTyped
      <3> QED  BY <1>1, <1>5, <2>1, <3>1, ConcatEmptySeq
    <2>6. Append(pbuf, Head(unsent)) \o Tail(unsent) = pbuf \o unsent
      BY <1>1, <2>1, HandOver
    <2> QED  BY <2>1, <2>2, <2>4, <2>5, <2>6 DEF OnLine
  <1> QED  BY <1>2, <1>3, <1>4, <1>5 DEF Usart

-----------------------------------------------------------------------------
(* The script.                                                              *)

\* The script, step by step.
LEMMA ScriptIs ==
  /\ Script[1] = \hFF /\ Script[2] = Read /\ Script[3] = Read
  /\ Script[4] = \hF3 /\ Script[5] = 200 /\ Script[6] = \hF3 /\ Script[7] = 100
  /\ Script[8] = \hF3 /\ Script[9] = 80 /\ Script[10] = \hF2 /\ Script[11] = Read
  /\ Script[12] = \hF3 /\ Script[13] = 100 /\ Script[14] = \hE8 /\ Script[15] = 3
  /\ Script[16] = \hF4 /\ Len(Script) = 16
  BY DEF Script

\* A command that the mouse awaits changes what it is for, and is acknowledged.
LEMMA ObeyReset ==
  ASSUME NEW m
  PROVE  LET o == Obey(m, \hFF) IN
         /\ o[2] = <<ACK>>
         /\ o[1].await = "command" /\ o[1].knocks = 0 /\ o[1].type = 0 /\ ~o[1].on
         /\ o[1].mode = "test"
  <1>1. Obey(m, \hFF) = <<Fresh("test"), <<ACK>>>>
    BY DEF Obey, Rates
  <1> QED  BY <1>1 DEF Fresh

\* A rate may be the next knock, the first one, or none.
LEMMA ObeyRate ==
  ASSUME NEW m \in MouseType, m.await = "rate", NEW b \in Rates
  PROVE  LET o == Obey(m, b)
             knocks == IF m.knocks < 3 /\ b = Knock[m.knocks + 1] THEN m.knocks + 1
                       ELSE IF b = 200 THEN 1 ELSE 0 IN
         /\ o[2] = <<ACK>>
         /\ o[1].await = "command" /\ o[1].knocks = knocks
         /\ o[1].type = (IF knocks = 3 THEN WHEEL ELSE m.type)
         /\ (o[1].on <=> m.on) /\ o[1].mode = m.mode
  <1> DEFINE knocks == IF m.knocks < 3 /\ b = Knock[m.knocks + 1] THEN m.knocks + 1
                       ELSE IF b = 200 THEN 1 ELSE 0
             n == [m EXCEPT !.await = "command", !.knocks = knocks,
                            !.type = IF knocks = 3 THEN WHEEL ELSE @]
  <1>1. b # \hFF
    BY DEF Rates
  <1>2. Obey(m, b) = <<SetRate(m, b), <<ACK>>>>
    BY <1>1 DEF Obey
  <1>3. SetRate(m, b) = n
    BY DEF SetRate, Knock
  <1> HIDE DEF knocks
  <1>4. /\ n.await = "command" /\ n.knocks = knocks
        /\ n.type = (IF knocks = 3 THEN WHEEL ELSE m.type)
        /\ (n.on <=> m.on) /\ n.mode = m.mode
    BY DEF MouseType
  <1>5. Obey(m, b)[1] = n /\ Obey(m, b)[2] = <<ACK>>
    BY <1>2, <1>3
  <1> HIDE DEF n
  <1> QED  BY <1>4, <1>5 DEF knocks

\* A resolution.
LEMMA ObeyResolution ==
  ASSUME NEW m \in MouseType, m.await = "resolution"
  PROVE  LET o == Obey(m, 3) IN
         /\ o[2] = <<ACK>> /\ o[1].await = "command"
         /\ o[1].knocks = m.knocks /\ o[1].type = m.type /\ (o[1].on <=> m.on)
         /\ o[1].mode = m.mode
  <1>1. Obey(m, 3) = <<[m EXCEPT !.await = "command"], <<ACK>>>>
    BY DEF Obey
  <1> QED  BY <1>1 DEF MouseType

\* A command: only F2 is answered with more than an acknowledgement.
LEMMA ObeyCommand ==
  ASSUME NEW m \in MouseType, m.await = "command",
         NEW b \in {\hF3, \hE8, \hF2, \hF4}
  PROVE  LET o == Obey(m, b) IN
         /\ o[2] = IF b = \hF2 THEN <<ACK, m.type>> ELSE <<ACK>>
         /\ o[1].await =
              IF b = \hF3 THEN "rate" ELSE IF b = \hE8 THEN "resolution" ELSE "command"
         /\ o[1].knocks = m.knocks /\ o[1].type = m.type /\ (o[1].on <=> m.on \/ b = \hF4)
         /\ o[1].mode = m.mode
  <1>1. CASE b = \hF3
    <2>1. Obey(m, \hF3) = <<[m EXCEPT !.await = "rate"], <<ACK>>>>
      BY DEF Obey
    <2> QED  BY <1>1, <2>1 DEF MouseType
  <1>2. CASE b = \hE8
    <2>1. Obey(m, \hE8) = <<[m EXCEPT !.await = "resolution"], <<ACK>>>>
      BY DEF Obey
    <2> QED  BY <1>2, <2>1 DEF MouseType
  <1>3. CASE b = \hF2
    <2>1. Obey(m, \hF2) = <<m, <<ACK, m.type>>>>
      BY DEF Obey
    <2> QED  BY <1>3, <2>1 DEF MouseType
  <1>4. CASE b = \hF4
    BY <1>4 DEF Obey, MouseType
  <1> QED  BY <1>1, <1>2, <1>3, <1>4

\* Two elements, one after the other.
LEMMA PairIs ==
  ASSUME NEW s, NEW t
  PROVE  <<s>> \o <<t>> = <<s, t>>
  <1> DEFINE c == <<s>> \o <<t>>
  <1>1. <<s>> \in Seq({s, t}) /\ <<t>> \in Seq({s, t}) /\ <<s, t>> \in Seq({s, t})
    OBVIOUS
  <1>2. c \in Seq({s, t}) /\ Len(c) = 2 /\ c[1] = s /\ c[2] = t
    BY <1>1, ConcatProperties
  <1>3. Len(<<s, t>>) = 2 /\ <<s, t>>[1] = s /\ <<s, t>>[2] = t
    OBVIOUS
  <1> HIDE DEF c
  <1>4. \A i \in 1 .. Len(c) : c[i] = <<s, t>>[i]
    BY <1>2, <1>3
  <1>5. c = <<s, t>>
    BY <1>1, <1>2, <1>3, <1>4, SeqEqual
  <1> QED  BY <1>5 DEF c

\* What the mouse is between the steps.
LEMMA AwaitsIs ==
  /\ \A n \in {0, 1, 2, 3, 5, 7, 9, 10, 11, 13, 15, 16} : Awaits(n) = "command"
  /\ \A n \in {4, 6, 8, 12} : Awaits(n) = "rate"
  /\ \A n \in {14} : Awaits(n) = "resolution"
  /\ \A n \in {0, 1, 2, 3, 4, 13, 14, 15, 16} : Knocked(n) = 0
  /\ \A n \in {5, 6} : Knocked(n) = 1
  /\ \A n \in {7, 8} : Knocked(n) = 2
  /\ \A n \in {9, 10, 11, 12} : Knocked(n) = 3
  /\ \A n \in 4 .. 16 : Besides(n) = IF n = 10 THEN <<WHEEL>> ELSE <<>>
  BY DEF Awaits, Knocked, Besides

\* Each command of the script brings the mouse to where the next one needs it, and
\* is acknowledged.
LEMMA Obeyed ==
  ASSUME NEW n \in 1 .. 16, Script[n] # Read,
         NEW m \in MouseType, m.mode = "ready", MouseIs(m, n - 1)
  PROVE  LET o == Obey(m, Script[n]) IN
         /\ MouseIs(o[1], n)
         /\ o[1].mode = IF n = 1 THEN "test" ELSE "ready"
         /\ o[2] = <<ACK>> \o (IF n = 1 THEN <<>> ELSE Besides(n))
  <1> DEFINE o == Obey(m, Script[n])
  <1>1. <<ACK>> \o <<>> = <<ACK>> /\ <<ACK>> \o <<WHEEL>> = <<ACK, WHEEL>>
    BY PairIs
  <1>2. n \in {1, 4, 5, 6, 7, 8, 9, 10, 12, 13, 14, 15, 16}
    BY ScriptIs
  <1>3. \A b \in {80, 100, 200} : b \in Rates
    BY DEF Rates
  <1>4. CASE n = 1
    BY <1>1, <1>4, AwaitsIs, ObeyReset, ScriptIs DEF MouseIs
  <1>5. CASE n = 4
    <2>1. n # 1 /\ n - 1 = 3 /\ Script[n] = \hF3 /\ Besides(n) = <<>>
      BY <1>5, AwaitsIs, ScriptIs
    <2>2. m.await = "command" /\ m.knocks = 0 /\ m.type = 0 /\ ~m.on
      BY <2>1, AwaitsIs DEF MouseIs
    <2>3. /\ o[1].await = "rate" /\ o[1].knocks = 0 /\ o[1].type = 0 /\ ~o[1].on
          /\ o[1].mode = "ready" /\ o[2] = <<ACK>>
      BY <2>1, <2>2, ObeyCommand
    <2> HIDE DEF o
    <2>4. MouseIs(o[1], n)
      BY <1>5, <2>3, AwaitsIs DEF MouseIs
    <2> QED  BY <1>1, <2>1, <2>3, <2>4 DEF o
  <1>6. CASE n = 5
    <2>1. n # 1 /\ n - 1 = 4 /\ Script[n] = 200 /\ Besides(n) = <<>>
      BY <1>6, AwaitsIs, ScriptIs
    <2>2. m.await = "rate" /\ m.knocks = 0 /\ m.type = 0 /\ ~m.on
      BY <2>1, AwaitsIs DEF MouseIs
    <2>3. /\ o[1].await = "command" /\ o[1].knocks = 1 /\ o[1].type = 0 /\ ~o[1].on
          /\ o[1].mode = "ready" /\ o[2] = <<ACK>>
      BY <2>1, <2>2, <1>3, ObeyRate DEF Knock
    <2> HIDE DEF o
    <2>4. MouseIs(o[1], n)
      BY <1>6, <2>3, AwaitsIs DEF MouseIs
    <2> QED  BY <1>1, <2>1, <2>3, <2>4 DEF o
  <1>7. CASE n = 6
    <2>1. n # 1 /\ n - 1 = 5 /\ Script[n] = \hF3 /\ Besides(n) = <<>>
      BY <1>7, AwaitsIs, ScriptIs
    <2>2. m.await = "command" /\ m.knocks = 1 /\ m.type = 0 /\ ~m.on
      BY <2>1, AwaitsIs DEF MouseIs
    <2>3. /\ o[1].await = "rate" /\ o[1].knocks = 1 /\ o[1].type = 0 /\ ~o[1].on
          /\ o[1].mode = "ready" /\ o[2] = <<ACK>>
      BY <2>1, <2>2, ObeyCommand
    <2> HIDE DEF o
    <2>4. MouseIs(o[1], n)
      BY <1>7, <2>3, AwaitsIs DEF MouseIs
    <2> QED  BY <1>1, <2>1, <2>3, <2>4 DEF o
  <1>8. CASE n = 7
    <2>1. n # 1 /\ n - 1 = 6 /\ Script[n] = 100 /\ Besides(n) = <<>>
      BY <1>8, AwaitsIs, ScriptIs
    <2>2. m.await = "rate" /\ m.knocks = 1 /\ m.type = 0 /\ ~m.on
      BY <2>1, AwaitsIs DEF MouseIs
    <2>3. /\ o[1].await = "command" /\ o[1].knocks = 2 /\ o[1].type = 0 /\ ~o[1].on
          /\ o[1].mode = "ready" /\ o[2] = <<ACK>>
      BY <2>1, <2>2, <1>3, ObeyRate DEF Knock
    <2> HIDE DEF o
    <2>4. MouseIs(o[1], n)
      BY <1>8, <2>3, AwaitsIs DEF MouseIs
    <2> QED  BY <1>1, <2>1, <2>3, <2>4 DEF o
  <1>9. CASE n = 8
    <2>1. n # 1 /\ n - 1 = 7 /\ Script[n] = \hF3 /\ Besides(n) = <<>>
      BY <1>9, AwaitsIs, ScriptIs
    <2>2. m.await = "command" /\ m.knocks = 2 /\ m.type = 0 /\ ~m.on
      BY <2>1, AwaitsIs DEF MouseIs
    <2>3. /\ o[1].await = "rate" /\ o[1].knocks = 2 /\ o[1].type = 0 /\ ~o[1].on
          /\ o[1].mode = "ready" /\ o[2] = <<ACK>>
      BY <2>1, <2>2, ObeyCommand
    <2> HIDE DEF o
    <2>4. MouseIs(o[1], n)
      BY <1>9, <2>3, AwaitsIs DEF MouseIs
    <2> QED  BY <1>1, <2>1, <2>3, <2>4 DEF o
  <1>10. CASE n = 9
    <2>1. n # 1 /\ n - 1 = 8 /\ Script[n] = 80 /\ Besides(n) = <<>>
      BY <1>10, AwaitsIs, ScriptIs
    <2>2. m.await = "rate" /\ m.knocks = 2 /\ m.type = 0 /\ ~m.on
      BY <2>1, AwaitsIs DEF MouseIs
    <2>3. /\ o[1].await = "command" /\ o[1].knocks = 3 /\ o[1].type = WHEEL /\ ~o[1].on
          /\ o[1].mode = "ready" /\ o[2] = <<ACK>>
      BY <2>1, <2>2, <1>3, ObeyRate DEF Knock
    <2> HIDE DEF o
    <2>4. MouseIs(o[1], n)
      BY <1>10, <2>3, AwaitsIs DEF MouseIs
    <2> QED  BY <1>1, <2>1, <2>3, <2>4 DEF o
  <1>11. CASE n = 10
    <2>1. n # 1 /\ n - 1 = 9 /\ Script[n] = \hF2 /\ Besides(n) = <<WHEEL>>
      BY <1>11, AwaitsIs, ScriptIs
    <2>2. m.await = "command" /\ m.knocks = 3 /\ m.type = WHEEL /\ ~m.on
      BY <2>1, AwaitsIs DEF MouseIs
    <2>3. /\ o[1].await = "command" /\ o[1].knocks = 3 /\ o[1].type = WHEEL /\ ~o[1].on
          /\ o[1].mode = "ready" /\ o[2] = <<ACK, WHEEL>>
      BY <2>1, <2>2, ObeyCommand
    <2> HIDE DEF o
    <2>4. MouseIs(o[1], n)
      BY <1>11, <2>3, AwaitsIs DEF MouseIs
    <2> QED  BY <1>1, <2>1, <2>3, <2>4 DEF o
  <1>12. CASE n = 12
    <2>1. n # 1 /\ n - 1 = 11 /\ Script[n] = \hF3 /\ Besides(n) = <<>>
      BY <1>12, AwaitsIs, ScriptIs
    <2>2. m.await = "command" /\ m.knocks = 3 /\ m.type = WHEEL /\ ~m.on
      BY <2>1, AwaitsIs DEF MouseIs
    <2>3. /\ o[1].await = "rate" /\ o[1].knocks = 3 /\ o[1].type = WHEEL /\ ~o[1].on
          /\ o[1].mode = "ready" /\ o[2] = <<ACK>>
      BY <2>1, <2>2, ObeyCommand
    <2> HIDE DEF o
    <2>4. MouseIs(o[1], n)
      BY <1>12, <2>3, AwaitsIs DEF MouseIs
    <2> QED  BY <1>1, <2>1, <2>3, <2>4 DEF o
  <1>13. CASE n = 13
    <2>1. n # 1 /\ n - 1 = 12 /\ Script[n] = 100 /\ Besides(n) = <<>>
      BY <1>13, AwaitsIs, ScriptIs
    <2>2. m.await = "rate" /\ m.knocks = 3 /\ m.type = WHEEL /\ ~m.on
      BY <2>1, AwaitsIs DEF MouseIs
    <2>3. /\ o[1].await = "command" /\ o[1].knocks = 0 /\ o[1].type = WHEEL /\ ~o[1].on
          /\ o[1].mode = "ready" /\ o[2] = <<ACK>>
      BY <2>1, <2>2, <1>3, ObeyRate DEF Knock
    <2> HIDE DEF o
    <2>4. MouseIs(o[1], n)
      BY <1>13, <2>3, AwaitsIs DEF MouseIs
    <2> QED  BY <1>1, <2>1, <2>3, <2>4 DEF o
  <1>14. CASE n = 14
    <2>1. n # 1 /\ n - 1 = 13 /\ Script[n] = \hE8 /\ Besides(n) = <<>>
      BY <1>14, AwaitsIs, ScriptIs
    <2>2. m.await = "command" /\ m.knocks = 0 /\ m.type = WHEEL /\ ~m.on
      BY <2>1, AwaitsIs DEF MouseIs
    <2>3. /\ o[1].await = "resolution" /\ o[1].knocks = 0 /\ o[1].type = WHEEL /\ ~o[1].on
          /\ o[1].mode = "ready" /\ o[2] = <<ACK>>
      BY <2>1, <2>2, ObeyCommand
    <2> HIDE DEF o
    <2>4. MouseIs(o[1], n)
      BY <1>14, <2>3, AwaitsIs DEF MouseIs
    <2> QED  BY <1>1, <2>1, <2>3, <2>4 DEF o
  <1>15. CASE n = 15
    <2>1. n # 1 /\ n - 1 = 14 /\ Script[n] = 3 /\ Besides(n) = <<>>
      BY <1>15, AwaitsIs, ScriptIs
    <2>2. m.await = "resolution" /\ m.knocks = 0 /\ m.type = WHEEL /\ ~m.on
      BY <2>1, AwaitsIs DEF MouseIs
    <2>3. /\ o[1].await = "command" /\ o[1].knocks = 0 /\ o[1].type = WHEEL /\ ~o[1].on
          /\ o[1].mode = "ready" /\ o[2] = <<ACK>>
      BY <2>1, <2>2, ObeyResolution
    <2> HIDE DEF o
    <2>4. MouseIs(o[1], n)
      BY <1>15, <2>3, AwaitsIs DEF MouseIs
    <2> QED  BY <1>1, <2>1, <2>3, <2>4 DEF o
  <1>16. CASE n = 16
    <2>1. n # 1 /\ n - 1 = 15 /\ Script[n] = \hF4 /\ Besides(n) = <<>>
      BY <1>16, AwaitsIs, ScriptIs
    <2>2. m.await = "command" /\ m.knocks = 0 /\ m.type = WHEEL /\ ~m.on
      BY <2>1, AwaitsIs DEF MouseIs
    <2>3. /\ o[1].await = "command" /\ o[1].knocks = 0 /\ o[1].type = WHEEL /\ o[1].on
          /\ o[1].mode = "ready" /\ o[2] = <<ACK>>
      BY <2>1, <2>2, ObeyCommand
    <2> HIDE DEF o
    <2>4. MouseIs(o[1], n)
      BY <1>16, <2>3, AwaitsIs DEF MouseIs
    <2> QED  BY <1>1, <2>1, <2>3, <2>4 DEF o
  <1> QED  BY <1>2, <1>4, <1>5, <1>6, <1>7, <1>8, <1>9, <1>10, <1>11, <1>12, <1>13, <1>14, <1>15, <1>16

\* What is on its way while a command is due: nothing.
LEMMA NothingOwed ==
  ASSUME BytesOK, InScriptStep, faults = 0, AtCommand
  PROVE  /\ pbuf = <<>> /\ held = <<>> /\ unsent = <<>> /\ ps2.mode = "ready"
         /\ boot.at \in 1 .. 16 /\ Sent = boot.at - 1 /\ Script[boot.at] # Read
  <1>1. /\ boot.pc = "step" /\ boot.at <= 16 /\ Script[boot.at] # Read
        /\ Sent = boot.at - 1 /\ Sent \in 0 .. 16 /\ boot.at \in Nat
    BY ScriptIs DEF AtCommand, InScript, Command, InScriptStep, Sent, BytesOK, BootType
  <1>2. boot.at \in 1 .. 16
    BY <1>1
  <1>3. Sent < 16 /\ Sent \notin {1, 2, 10}
    <2>1. boot.at \notin {2, 3, 11}
      BY <1>1, ScriptIs
    <2> QED  BY <1>1, <1>2, <2>1
  <1>4. ps2.mode = "ready"
    BY <1>3 DEF InScriptStep, BytesOK, MouseType
  <1>5. OnLine = <<>>
    <2>1. Besides(Sent) = <<>> /\ Ahead = <<>> /\ <<>> \o <<>> = <<>>
      BY <1>1, <1>3 DEF Besides, Ahead
    <2> QED  BY <1>3, <1>4, <2>1 DEF InScriptStep
  <1>6. pbuf = <<>> /\ held \o unsent = <<>>
    BY <1>5, OnLineTyped, ConcatSimplifications DEF OnLine
  <1>7. held = <<>> /\ unsent = <<>>
    BY <1>6, OnLineTyped, ConcatSimplifications
  <1> QED  BY <1>1, <1>2, <1>4, <1>6, <1>7

\* ps2_mouse_init keeps in step with the mouse.
LEMMA SendInStep ==
  ASSUME BytesOK, InScriptStep, faults = 0, SendWhole
  PROVE  /\ InScriptStep'
         /\ Sent' = boot.at /\ Sent = boot.at - 1 /\ Sent' \in 1 .. 16
         /\ ps2'.mode # "test" => OnLine' = Ahead' \o Besides(Sent')
  <1> DEFINE n == boot.at
             o == Obey(ps2, Script[n])
  <1>1. /\ pbuf = <<>> /\ held = <<>> /\ unsent = <<>> /\ ps2.mode = "ready"
        /\ n \in 1 .. 16 /\ Sent = n - 1 /\ Script[n] # Read
    BY NothingOwed DEF SendWhole
  <1>2. /\ ps2' = o[1] /\ unsent' = o[2] /\ held' = <<>> /\ pbuf' = <<>>
        /\ boot' = [boot EXCEPT !.pc = "answer"] /\ faults' = 0
    BY <1>1 DEF SendWhole, Command, Step
  <1>3. boot'.pc = "answer" /\ boot'.at = n
    BY <1>2 DEF BytesOK, BootType
  <1>4. Sent' = n /\ Ahead' = <<ACK>>
    BY <1>3 DEF Sent, Ahead
  <1>5. /\ MouseIs(o[1], n) /\ o[1].mode = IF n = 1 THEN "test" ELSE "ready"
        /\ o[2] = <<ACK>> \o (IF n = 1 THEN <<>> ELSE Besides(n))
    BY <1>1, Obeyed DEF InScriptStep, BytesOK
  <1>6. OnLine' = o[2]
    <2>1. o[2] \in Seq(UByte)
      BY ObeyTyped DEF BytesOK
    <2> HIDE DEF o
    <2>2. <<>> \o (<<>> \o o[2]) = o[2]
      BY <2>1, ConcatEmptySeq
    <2> QED  BY <1>2, <2>2 DEF OnLine
  <1> HIDE DEF n, o
  <1>7. ps2'.mode = "test" <=> n = 1
    BY <1>2, <1>5
  <1>8. MouseIs(ps2', Sent')
    BY <1>2, <1>4, <1>5
  <1>9. OnLine' = Ahead' \o (IF ps2'.mode = "test" THEN <<>> ELSE Besides(Sent'))
    BY <1>4, <1>5, <1>6, <1>7
  <1>10. Sent' \in 1 .. 16 /\ Script[Sent'] # Read
    BY <1>1, <1>4 DEF n
  <1>11. InScriptStep'
    BY <1>2, <1>3, <1>4, <1>7, <1>8, <1>9, <1>10 DEF InScriptStep, Booting
  <1> QED  BY <1>1, <1>4, <1>7, <1>9, <1>10, <1>11 DEF n

\* What a reading changes: the answer that was ahead is gone, or the byte besides.
LEMMA AnswerTaken ==
  ASSUME BytesOK, InScriptStep, faults = 0, TakeAnswer
  PROVE  /\ OnLine # <<>> /\ OnLine' = Tail(OnLine) /\ First(pbuf) = Head(OnLine)
         /\ boot'.pc = "step" /\ boot'.at = boot.at + 1 /\ Sent' = boot.at
         /\ boot'.rcv = First(pbuf) /\ ps2' = ps2 /\ held' = held /\ faults' = 0
         /\ \/ boot.pc = "answer" /\ Sent' = Sent
            \/ boot.pc = "step" /\ boot.at \in {2, 3, 11} /\ Sent = boot.at - 1
  <1>1. /\ pbuf # <<>> /\ pbuf' = Tail(pbuf) /\ held' = held /\ unsent' = unsent
        /\ ps2' = ps2 /\ faults' = 0 /\ First(pbuf) = Head(pbuf)
        /\ boot' = [boot EXCEPT !.at = @ + 1, !.pc = "step", !.rcv = First(pbuf)]
    BY DEF TakeAnswer, pbuf_has_data, pbuf_dequeue, line, Rest, First
  <1>2. /\ boot'.pc = "step" /\ boot'.at = boot.at + 1 /\ boot'.rcv = First(pbuf)
        /\ boot.at \in Nat
    BY <1>1 DEF BytesOK, BootType
  <1>3. Sent' = boot.at
    BY <1>2 DEF Sent
  <1>4. /\ pbuf \o (held \o unsent) # <<>>
        /\ Head(pbuf \o (held \o unsent)) = Head(pbuf)
        /\ Tail(pbuf \o (held \o unsent)) = Tail(pbuf) \o (held \o unsent)
    BY <1>1, OnLineTyped, FirstOfTwo
  <1>5. CASE boot.pc = "answer"
    BY <1>1, <1>2, <1>3, <1>4, <1>5 DEF OnLine, Sent
  <1>6. CASE boot.pc # "answer"
    <2>1. boot.pc = "step" /\ boot.at <= 16 /\ Script[boot.at] = Read /\ Sent = boot.at - 1
      BY <1>6, ScriptIs DEF TakeAnswer, Waits, InScript, Command, Sent
    <2>2. boot.at \in 1 .. 16
      BY <1>2, <2>1 DEF InScriptStep
    <2>3. boot.at \in {2, 3, 11}
      <3>1. Read \notin {\hFF, \hF3, 200, 100, 80, \hF2, \hE8, 3, \hF4}
        BY DEF Read
      <3> QED  BY <2>1, <2>2, <3>1, ScriptIs
    <2> QED  BY <1>1, <1>2, <1>3, <1>4, <2>1, <2>3 DEF OnLine
  <1> QED  BY <1>5, <1>6

\* Bytes that are read besides an acknowledgement.
LEMMA BesidesTyped ==
  ASSUME NEW n
  PROVE  Besides(n) \in Seq(UByte)
  <1>1. TESTED \in Seq(UByte) /\ <<0>> \in Seq(UByte) /\ <<WHEEL>> \in Seq(UByte)
        /\ <<>> \in Seq(UByte)
    BY DEF TESTED, UByte, WHEEL
  <1> QED  BY <1>1 DEF Besides

\* A reading keeps in step with what is on its way.
LEMMA TakeInStep ==
  ASSUME BytesOK, InScriptStep, faults = 0, TakeAnswer
  PROVE  InScriptStep'
  <1>1. /\ OnLine # <<>> /\ OnLine' = Tail(OnLine) /\ First(pbuf) = Head(OnLine)
        /\ boot'.pc = "step" /\ boot'.at = boot.at + 1 /\ Sent' = boot.at
        /\ boot'.rcv = First(pbuf) /\ ps2' = ps2 /\ held' = held /\ faults' = 0
    BY AnswerTaken
  <1>2. Ahead' = <<>> /\ held = <<>>
    <2>1. Booting
      BY AnswerTaken DEF Booting
    <2> QED  BY <1>1, <2>1 DEF Ahead, InScriptStep
  <1>3. /\ Besides(Sent) \in Seq(UByte) /\ Besides(Sent') \in Seq(UByte)
        /\ TESTED = <<\hAA, 0>> /\ <<>> \in Seq(UByte)
    BY BesidesTyped DEF TESTED
  <1>4. CASE boot.pc = "answer"
    <2>1. Sent' = Sent /\ Sent \in 1 .. 16 /\ Script[Sent] # Read
      BY <1>1, <1>4, AnswerTaken DEF InScriptStep, Sent
    <2>2. Sent \notin {3, 11}
      BY <2>1, ScriptIs
    <2>3. \A q \in Seq(UByte) : Tail(<<ACK>> \o q) = q /\ <<>> \o q = q
      <3> SUFFICES ASSUME NEW q \in Seq(UByte)
                   PROVE  Tail(<<ACK>> \o q) = q /\ <<>> \o q = q
        OBVIOUS
      <3>1. <<ACK>> \in Seq(UByte) /\ <<ACK>> # <<>> /\ Tail(<<ACK>>) = <<>>
        BY DEF ACK, UByte
      <3>2. Tail(<<ACK>> \o q) = <<>> \o q
        BY <3>1, FirstOfTwo
      <3> QED  BY <3>2, ConcatEmptySeq
    <2>4. Sent < 16 =>
            OnLine' = Ahead' \o (IF ps2'.mode = "test" THEN <<>> ELSE Besides(Sent'))
      <3>1. Ahead = <<ACK>>
        BY <1>4 DEF Ahead
      <3> QED  BY <1>1, <1>2, <1>3, <2>1, <2>3, <3>1 DEF InScriptStep
    <2> QED  BY <1>1, <1>2, <2>1, <2>2, <2>4 DEF InScriptStep, Booting
  <1>5. CASE boot.pc = "step" /\ boot.at \in {2, 3, 11} /\ Sent = boot.at - 1
    <2>1. Sent \in {1, 2, 10} /\ Sent' = Sent + 1 /\ Sent' \in {2, 3, 11}
      BY <1>1, <1>5
    <2>2. ps2.mode # "test" /\ OnLine = Besides(Sent)
      <3>1. Ahead = <<>> /\ \A q \in Seq(UByte) : <<>> \o q = q
        BY <1>5, ConcatEmptySeq DEF Ahead
      <3>2. OnLine = IF ps2.mode = "test" THEN <<>> ELSE Besides(Sent)
        BY <1>3, <2>1, <3>1 DEF InScriptStep
      <3> QED  BY <1>1, <3>2
    <2>3. Tail(Besides(Sent)) = Besides(Sent')
      <3>1. Tail(Besides(1)) = Besides(2) /\ Tail(Besides(2)) = Besides(3)
        BY DEF Besides, TESTED
      <3>2. Tail(Besides(10)) = Besides(11)
        BY DEF Besides
      <3>3. CASE Sent = 1
        BY <2>1, <3>1, <3>3
      <3>4. CASE Sent = 2
        BY <2>1, <3>1, <3>4
      <3>5. CASE Sent = 10
        BY <2>1, <3>2, <3>5
      <3> QED  BY <2>1, <3>3, <3>4, <3>5
    <2>4. OnLine' = Ahead' \o Besides(Sent')
      BY <1>1, <1>2, <1>3, <2>2, <2>3, ConcatEmptySeq
    <2>5. MouseIs(ps2', Sent')
      <3>1. MouseIs(ps2, Sent) /\ ps2' = ps2
        BY <1>1 DEF InScriptStep
      <3>2. Awaits(Sent') = Awaits(Sent) /\ Knocked(Sent') = Knocked(Sent)
        BY <2>1, AwaitsIs
      <3>3. (Sent' < 9 <=> Sent < 9) /\ Sent' # 16 /\ Sent # 16
        BY <2>1
      <3> QED  BY <3>1, <3>2, <3>3 DEF MouseIs
    <2>6. Sent' \in {3, 11} => boot'.rcv = ps2'.type
      <3>1. Sent' \in {3, 11} => Head(OnLine) = IF Sent < 9 THEN 0 ELSE WHEEL
        BY <2>1, <2>2 DEF Besides
      <3>2. ps2.type = IF Sent < 9 THEN 0 ELSE WHEEL
        BY DEF InScriptStep, MouseIs
      <3> QED  BY <1>1, <3>1, <3>2
    <2> QED  BY <1>1, <1>2, <2>1, <2>2, <2>4, <2>5, <2>6 DEF InScriptStep, Booting
  <1> QED  BY <1>4, <1>5, AnswerTaken

\* A step that leaves the mouse, the script and what is on its way alone.
LEMMA StayInStep ==
  ASSUME InScriptStep, ps2' = ps2, boot' = boot, faults' = 0 => faults = 0,
         faults' = 0 /\ Booting /\ held = <<>> => held' = <<>>,
         faults' = 0 /\ Sent < 16 => OnLine' = OnLine
  PROVE  InScriptStep'
  <1>1. Sent' = Sent /\ Ahead' = Ahead /\ Booting' = Booting
    BY DEF Sent, Ahead, Booting
  <1> QED  BY <1>1 DEF InScriptStep

\* At the start nothing is on its way.
LEMMA InitInStep ==
  ASSUME Init
  PROVE  InScriptStep
  <1> SUFFICES ASSUME faults = 0
               PROVE  InScriptStep
    BY DEF InScriptStep
  <1>1. /\ ps2 = Fresh("ready") /\ unsent = <<>> /\ held = <<>> /\ pbuf = <<>>
        /\ boot.at = 1 /\ boot.pc = "step"
    BY DEF Init, BootInit
  <1>2. Sent = 0 /\ Ahead = <<>> /\ Besides(0) = <<>>
    BY <1>1 DEF Sent, Ahead, Besides
  <1>3. OnLine = <<>> /\ <<>> \o <<>> = <<>>
    BY <1>1 DEF OnLine
  <1>4. MouseIs(ps2, 0) /\ ps2.mode = "ready"
    BY <1>1, AwaitsIs DEF MouseIs, Fresh
  <1> QED  BY <1>1, <1>2, <1>3, <1>4 DEF InScriptStep

\* The result of the self-test follows the acknowledgement of the reset.
LEMMA SelfTestInStep ==
  ASSUME BytesOK, InScriptStep, SelfTest
  PROVE  InScriptStep'
  <1> SUFFICES ASSUME faults' = 0
               PROVE  InScriptStep'
    BY DEF InScriptStep
  <1>1. /\ faults = 0 /\ ps2.mode = "test" /\ boot' = boot /\ held' = held /\ pbuf' = pbuf
        /\ unsent' = unsent \o TESTED
    BY DEF SelfTest
  <1>2. ps2'.mode = "ready" /\ (MouseIs(ps2, Sent) => MouseIs(ps2', Sent))
    BY DEF SelfTest, MouseIs, BytesOK, MouseType
  <1>3. Sent' = Sent /\ Ahead' = Ahead /\ Booting' = Booting /\ Sent = 1
    BY <1>1 DEF Sent, Ahead, Booting, InScriptStep
  <1>4. OnLine' = Ahead' \o Besides(Sent')
    <2>1. /\ TESTED \in Seq(LineByte) /\ Besides(1) = TESTED
          /\ Ahead \in Seq(LineByte) /\ Ahead \o <<>> = Ahead
      <3>1. TESTED \in Seq(LineByte)
        BY DEF TESTED, LineByte, UByte
      <3>2. Ahead \in Seq(LineByte)
        <4>1. <<ACK>> \in Seq(LineByte) /\ <<>> \in Seq(LineByte)
          BY DEF ACK, LineByte, UByte
        <4> QED  BY <4>1 DEF Ahead
      <3> QED  BY <3>1, <3>2, ConcatEmptySeq DEF Besides
    <2>2. OnLine = Ahead
      BY <1>1, <1>3, <2>1 DEF InScriptStep
    <2>3. /\ held \o (unsent \o TESTED) = (held \o unsent) \o TESTED
          /\ pbuf \o ((held \o unsent) \o TESTED) = (pbuf \o (held \o unsent)) \o TESTED
      <3>1. TESTED \in Seq(LineByte)
        BY <2>1
      <3>2. /\ pbuf \in Seq(LineByte) /\ held \in Seq(LineByte) /\ unsent \in Seq(LineByte)
            /\ held \o unsent \in Seq(LineByte)
        BY OnLineTyped
      <3>3. \A r, s, u \in Seq(LineByte) : (r \o s) \o u = r \o (s \o u)
        BY ConcatAssociative
      <3> HIDE <1>1, <1>2, <1>3
      <3>4. held \o (unsent \o TESTED) = (held \o unsent) \o TESTED
        BY <3>1, <3>2, <3>3, Zenon
      <3>5. pbuf \o ((held \o unsent) \o TESTED) = (pbuf \o (held \o unsent)) \o TESTED
        <4> DEFINE both == held \o unsent
        <4>1. both \in Seq(LineByte)
          BY <3>2
        <4> HIDE DEF both
        <4>2. pbuf \in Seq(LineByte)
          BY <3>2
        <4>3. pbuf \o (both \o TESTED) = (pbuf \o both) \o TESTED
          BY ONLY <3>1, <4>1, <4>2, ConcatAssociative, SMT
        <4> QED  BY <4>3 DEF both
      <3> QED  BY <3>4, <3>5
    <2>4. OnLine' = OnLine \o TESTED
      BY <1>1, <2>3 DEF OnLine
    <2> QED  BY <1>3, <2>1, <2>2, <2>4
  <1>5. /\ MouseIs(ps2', Sent') /\ Sent' \in 0 .. 16 /\ ps2'.mode # "test"
        /\ Booting' => held' = <<>>
    BY <1>1, <1>2, <1>3 DEF InScriptStep
  <1>6. boot'.pc = "answer" => Sent' # 0 /\ Script[Sent'] # Read
    BY <1>1, <1>3 DEF InScriptStep
  <1>7. boot'.pc \in {"off", "run"} => Sent' = 16
    BY <1>1, <1>3 DEF InScriptStep
  <1> QED  BY <1>3, <1>4, <1>5, <1>6, <1>7 DEF InScriptStep

\* main: a command that is not heard or cut is a fault, and the script ends.
LEMMA BootInStep ==
  ASSUME BytesOK, InScriptStep, MainBoots
  PROVE  InScriptStep'
  <1> SUFFICES ASSUME faults' = 0
               PROVE  InScriptStep'
    BY DEF InScriptStep
  <1>1. faults \in Nat
    BY DEF BytesOK
  <1>2. faults = 0
    <2>1. faults' = faults \/ faults' = faults + 1
      BY DEF MainBoots, SendWhole, SendUnheard, SendCut, TakeAnswer, InitDone, Connect
    <2> QED  BY <1>1, <2>1
  <1>3. ~SendUnheard /\ \A cut \in 0 .. WholeCommand : ~SendCut(cut)
    <2>1. AtCommand => ps2.mode # "test"
      BY <1>2, NothingOwed
    <2> QED  BY <1>1, <2>1 DEF SendUnheard, SendCut
  <1>4. CASE InitDone \/ Connect
    <2>1. /\ boot'.at = boot.at /\ boot'.pc \in {"off", "run"} /\ ps2' = ps2
          /\ boot.pc \in {"step", "off"}
      BY <1>4 DEF InitDone, Connect, Step, line, BytesOK, BootType
    <2>2. Sent = 16
      <3>1. boot.at \in Nat
        BY DEF BytesOK, BootType
      <3>2. CASE InitDone
        <4>1. boot.pc = "step" /\ boot.at > 16
          BY <3>2, ScriptIs DEF InitDone
        <4> QED  BY <1>2, <3>1, <4>1 DEF InScriptStep, Sent
      <3>3. CASE Connect
        BY <1>2, <3>3 DEF InScriptStep, Connect
      <3> QED  BY <1>4, <3>2, <3>3
    <2>3. Sent' = Sent /\ ~Booting'
      BY <2>1 DEF Sent, Booting
    <2> QED  BY <1>2, <2>1, <2>2, <2>3 DEF InScriptStep
  <1> QED  BY <1>2, <1>3, <1>4, SendInStep, TakeInStep DEF MainBoots

\* What is on the line is what the script and the mouse, step by step, make of it.
LEMMA NextInStep ==
  ASSUME IInv, InScriptStep, [Next]_vars
  PROVE  InScriptStep'
  <1>1. BytesOK /\ faults \in Nat
    BY DEF IInv, TypeOK, BytesOK
  <1>2. CASE MainBoots \/ SelfTest
    BY <1>1, <1>2, BootInStep, SelfTestInStep
  <1>3. CASE Usart
    <2>1. ps2' = ps2 /\ boot' = boot
      BY <1>3 DEF Usart, Hold, Receive, Take, Spoil, Overwritten
    <2> QED  BY <1>3, <2>1, UsartKeepsOrder, StayInStep
  <1>4. CASE \E m \in Motions : Move(m)
    <2>1. /\ ps2.on /\ ps2' = ps2 /\ boot' = boot /\ faults' = faults /\ held' = held
      BY <1>4 DEF Move
    <2>2. faults = 0 => Sent = 16
      BY <2>1 DEF InScriptStep, MouseIs
    <2> QED  BY <2>1, <2>2, StayInStep
  <1>5. CASE mouse_task
    <2>1. /\ ps2' = ps2 /\ boot' = boot /\ faults' = faults /\ held' = held
      BY <1>5 DEF mouse_task, TaskBegins, ReadByte, LoadCounter, StoreCounter, bytes, line
    <2>2. boot.pc = "run"
      BY <1>5 DEF mouse_task, TaskBegins, ReadByte, LoadCounter, StoreCounter, IInv, Counts
    <2>3. faults = 0 => Sent = 16
      BY <2>2 DEF InScriptStep
    <2> QED  BY <2>1, <2>3, StayInStep
  <1>6. CASE UNCHANGED bytes
    <2>1. /\ ps2' = ps2 /\ boot' = boot /\ faults' = faults /\ held' = held /\ OnLine' = OnLine
      BY <1>6 DEF bytes, OnLine
    <2> QED  BY <2>1, StayInStep
  <1>7. UNCHANGED vars \/ vusb_transfer_mouse \/ (\E c \in Controls : SystemKey(c)) \/ Poll
          => UNCHANGED bytes
    BY DEF vars, vusb_transfer_mouse, SystemKey, Poll
  <1> QED  BY <1>2, <1>3, <1>4, <1>5, <1>6, <1>7 DEF Next, Boot, Bytes

\* Whenever a command is sent every answer to those before it has been taken, and the
\* mouse that comes out of the script reports and has a wheel: for every size of
\* queue and counter, as long as no command is cut and no byte spoilt or lost.
THEOREM AnswersInStepCorrect == Spec => []AnswersInStep
  <1>1. IInv /\ InScriptStep => AnswersInStep
    <2> SUFFICES ASSUME IInv, InScriptStep, faults = 0
                 PROVE  /\ AtCommand => pbuf = <<>> /\ unsent = <<>> /\ ps2.mode = "ready"
                        /\ boot.pc = "step" /\ boot.at > 1 /\ Script[boot.at - 1] = Read
                             /\ AtCommand => boot.rcv = ps2.type
                        /\ boot.pc \in {"off", "run"} => ps2.on /\ ps2.type = WHEEL
      BY DEF AnswersInStep
    <2>1. BytesOK
      BY DEF IInv, TypeOK
    <2>2. AtCommand => pbuf = <<>> /\ unsent = <<>> /\ ps2.mode = "ready"
      BY <2>1, NothingOwed
    <2>3. ASSUME boot.pc = "step", boot.at > 1, Script[boot.at - 1] = Read, AtCommand
          PROVE  boot.rcv = ps2.type
      <3>1. boot.at \in 1 .. 16 /\ Sent = boot.at - 1 /\ Script[boot.at] # Read
        BY <2>1, <2>3, NothingOwed
      <3>2. boot.at - 1 \in {2, 3, 11}
        <4>1. Read \notin {\hFF, \hF3, 200, 100, 80, \hF2, \hE8, 3, \hF4}
          BY DEF Read
        <4> QED  BY <2>3, <3>1, <4>1, ScriptIs
      <3>3. boot.at - 1 # 2
        BY <3>1, ScriptIs
      <3> QED  BY <2>3, <3>1, <3>2, <3>3 DEF InScriptStep
    <2>4. boot.pc \in {"off", "run"} => ps2.on /\ ps2.type = WHEEL
      <3>1. Sent = 16 => ps2.on /\ ps2.type = WHEEL
        BY DEF InScriptStep, MouseIs
      <3> QED  BY <3>1 DEF InScriptStep
    <2> QED  BY <2>2, <2>3, <2>4
  <1>2. Init => InScriptStep
    BY InitInStep
  <1>3. IInv /\ InScriptStep /\ [Next]_vars => InScriptStep'
    BY NextInStep
  <1> QED  BY <1>1, <1>2, <1>3, Invariance, PTL DEF Spec

-----------------------------------------------------------------------------
(* Packets in a sequence of bytes.                                          *)

\* The byte ahead of the packets is read.
LEMMA PackedTail ==
  ASSUME NEW p \in Seq(LineByte), NEW ms \in Seq(Motions), NEW n \in Nat, n <= Len(ms),
         Packed(p, 1, ms, n)
  PROVE  p # <<>> /\ Packed(Tail(p), 0, ms, n)
  <1> DEFINE c == Len(ms) - n
             t == Tail(p)
  <1>1. c \in Nat /\ Len(p) = 1 + 4 * c
    BY LenProperties DEF Packed
  <1>2. p # <<>>
    BY <1>1
  <1>3. Len(t) = 4 * c /\ \A i \in 1 .. Len(t) : t[i] = p[i + 1]
    BY <1>1, <1>2, HeadTailProperties
  <1>4. \A k \in 1 .. c : \A j \in 1 .. 4 : p[1 + 4 * (k - 1) + j] = Packet(ms[n + k])[j]
    BY DEF Packed
  <1> HIDE DEF c, t
  <1>5. ASSUME NEW k \in 1 .. c, NEW j \in 1 .. 4
        PROVE  t[0 + 4 * (k - 1) + j] = Packet(ms[n + k])[j]
    <2> DEFINE i == 4 * (k - 1) + j
    <2>1. i \in 1 .. 4 * c /\ 0 + 4 * (k - 1) + j = i /\ 1 + 4 * (k - 1) + j = i + 1
      BY <1>1
    <2> HIDE DEF i
    <2> QED  BY <1>3, <1>4, <2>1
  <1> QED  BY <1>2, <1>3, <1>5 DEF Packed, c, t

\* Another motion is packed.
LEMMA PackedMore ==
  ASSUME NEW p \in Seq(LineByte), NEW a \in Nat, NEW ms \in Seq(Motions),
         NEW n \in Nat, n <= Len(ms), Packed(p, a, ms, n), NEW m \in Motions
  PROVE  Packed(p \o Packet(m), a, Append(ms, m), n)
  <1> DEFINE c == Len(ms) - n
             q == Packet(m)
             r == p \o q
             l == Append(ms, m)
  <1>1. c \in Nat /\ Len(p) = a + 4 * c /\ Len(ms) = n + c
    BY LenProperties DEF Packed
  <1>2. /\ \A k \in 1 .. c : \A j \in 1 .. 4 : p[a + 4 * (k - 1) + j] = Packet(ms[n + k])[j]
        /\ m \in MotionType
    BY MouseAssumption DEF Packed
  <1>3. q \in Seq(LineByte) /\ Len(q) = 4
    BY <1>2, PacketTyped, OnTheLine DEF LineByte
  <1>4. /\ Len(r) = Len(p) + 4
        /\ \A i \in 1 .. Len(p) + 4 : r[i] = IF i <= Len(p) THEN p[i] ELSE q[i - Len(p)]
    <2> HIDE DEF q
    <2>1. /\ Len(p \o q) = Len(p) + Len(q)
          /\ \A i \in 1 .. Len(p) + Len(q) : (p \o q)[i] = IF i <= Len(p) THEN p[i] ELSE q[i - Len(p)]
      <3>1. q \in Seq(LineByte)
        BY <1>3
      <3> HIDE <1>1, <1>2, <1>3
      <3> QED  BY <3>1, ConcatProperties, Zenon
    <2> QED  BY <1>3, <2>1
  <1>5. Len(l) = Len(ms) + 1 /\ l[Len(ms) + 1] = m /\ \A i \in 1 .. Len(ms) : l[i] = ms[i]
    BY AppendProperties
  <1> HIDE DEF c, r, l
  <1>6. ASSUME NEW k \in 1 .. c + 1, NEW j \in 1 .. 4
        PROVE  r[a + 4 * (k - 1) + j] = Packet(l[n + k])[j]
    <2> DEFINE i == a + 4 * (k - 1) + j
    <2>1. CASE k <= c
      <3>1. i \in 1 .. Len(p) /\ n + k \in 1 .. Len(ms) /\ k \in 1 .. c
        BY <1>1, <2>1
      <3> HIDE DEF i
      <3>2. r[i] = p[i]
        BY <1>1, <1>4, <3>1
      <3>3. p[i] = Packet(ms[n + k])[j]
        BY <1>2, <3>1 DEF i
      <3> QED  BY <1>5, <3>1, <3>2, <3>3 DEF i
    <2>2. CASE k = c + 1
      <3>1. /\ i \in 1 .. Len(p) + 4 /\ ~(i <= Len(p)) /\ i - Len(p) = j
            /\ n + k = Len(ms) + 1
        BY <1>1, <2>2
      <3> HIDE DEF i, q
      <3>2. r[i] = q[j]
        BY <1>4, <3>1
      <3>3. l[n + k] = m
        BY <1>5, <3>1
      <3> QED  BY <3>2, <3>3 DEF i, q
    <2> QED  BY <1>1, <2>1, <2>2
  <1>7. Len(l) - n = c + 1 /\ Len(r) = a + 4 * (c + 1)
    BY <1>1, <1>4, <1>5
  <1> QED  BY <1>6, <1>7 DEF Packed, r, l

\* The first packet is taken.
LEMMA PackedLess ==
  ASSUME NEW f \in Seq(LineByte), Len(f) = 4, NEW p \in Seq(LineByte),
         NEW ms \in Seq(Motions), NEW n \in Nat, n <= Len(ms), Packed(f \o p, 0, ms, n)
  PROVE  /\ n + 1 <= Len(ms)
         /\ \A j \in 1 .. 4 : f[j] = Packet(ms[n + 1])[j]
         /\ Packed(p, 0, ms, n + 1)
  <1> DEFINE c == Len(ms) - n
             r == f \o p
  <1>1. c \in Nat /\ Len(r) = 0 + 4 * c /\ Len(ms) = n + c /\ Len(p) \in Nat
    BY LenProperties DEF Packed
  <1>2. \A k \in 1 .. c : \A j \in 1 .. 4 : r[0 + 4 * (k - 1) + j] = Packet(ms[n + k])[j]
    BY DEF Packed
  <1>3. /\ Len(r) = 4 + Len(p)
        /\ \A i \in 1 .. 4 + Len(p) : r[i] = IF i <= 4 THEN f[i] ELSE p[i - 4]
    <2>1. /\ Len(f \o p) = Len(f) + Len(p)
          /\ \A i \in 1 .. Len(f) + Len(p) : (f \o p)[i] = IF i <= Len(f) THEN f[i] ELSE p[i - Len(f)]
      BY ConcatProperties
    <2> QED  BY <2>1
  <1> HIDE DEF c, r
  <1>4. c >= 1 /\ Len(p) = 4 * (c - 1) /\ Len(ms) - (n + 1) = c - 1 /\ n + 1 <= Len(ms)
    BY <1>1, <1>3
  <1>5. ASSUME NEW j \in 1 .. 4
        PROVE  f[j] = Packet(ms[n + 1])[j]
    <2>1. 1 \in 1 .. c /\ 0 + 4 * (1 - 1) + j = j /\ j \in 1 .. 4 + Len(p) /\ j <= 4
      BY <1>1, <1>4
    <2>2. r[0 + 4 * (1 - 1) + j] = Packet(ms[n + 1])[j]
      BY <1>2, <2>1
    <2> QED  BY <1>3, <2>1, <2>2
  <1>6. ASSUME NEW k \in 1 .. c - 1, NEW j \in 1 .. 4
        PROVE  p[0 + 4 * (k - 1) + j] = Packet(ms[(n + 1) + k])[j]
    <2> DEFINE i == 4 * k + j
    <2>1. /\ k + 1 \in 1 .. c /\ 0 + 4 * ((k + 1) - 1) + j = i /\ n + (k + 1) = (n + 1) + k
          /\ i \in 1 .. 4 + Len(p) /\ ~(i <= 4) /\ i - 4 = 0 + 4 * (k - 1) + j
      BY <1>1, <1>4
    <2> HIDE DEF i
    <2>2. r[0 + 4 * ((k + 1) - 1) + j] = Packet(ms[n + (k + 1)])[j]
      BY <1>2, <2>1
    <2>3. r[i] = p[i - 4]
      BY <1>3, <2>1
    <2> QED  BY <2>1, <2>2, <2>3
  <1> QED  BY <1>1, <1>4, <1>5, <1>6 DEF Packed

-----------------------------------------------------------------------------
(* The report of a packet.                                                  *)

\* Nine bits of a motion, of which a packet has the sign and the lower eight, make
\* the limited motion again; an overflow makes it the limit on its side.
LEMMA LimitOfByte ==
  ASSUME NEW x, x \in -256 .. 255, NEW ovf, NEW neg, neg <=> x < 0, NEW b, b = x % 256
  PROVE  Limit(neg, ovf, Int8(b)) = IF ovf THEN (IF x < 0 THEN -127 ELSE 127) ELSE Clamp(x)
  <1>1. b \in 0 .. 255 /\ b % 256 = b /\ b = IF x < 0 THEN x + 256 ELSE x
    OBVIOUS
  <1>2. Int8(b) = IF b > 127 THEN b - 256 ELSE b
    BY <1>1 DEF Int8
  <1>3. CASE ovf
    BY <1>3 DEF Limit
  <1>4. CASE ~ovf
    BY <1>1, <1>2, <1>4 DEF Limit, Clamp
  <1> QED  BY <1>3, <1>4

\* A signed byte is its own eight bits read with a sign.
LEMMA SignedByte ==
  ASSUME NEW v, v \in -128 .. 127, NEW b, b = v % 256
  PROVE  Int8(b) = v
  <1>1. b \in 0 .. 255 /\ b % 256 = b /\ b = IF v < 0 THEN v + 256 ELSE v
    OBVIOUS
  <1> QED  BY <1>1 DEF Int8

\* The flags and buttons of the first byte.
LEMMA FlagsIs ==
  ASSUME NEW n \in 0 .. 7, NEW fa \in {0, 128}, NEW fb \in {0, 64}, NEW fc \in {0, 32},
         NEW fd \in {0, 16}, NEW p, p = fa + fb + fc + fd + 8 + n
  PROVE  /\ p % 8 = n
         /\ Bit(p, 128) <=> fa = 128
         /\ Bit(p, 64) <=> fb = 64
         /\ Bit(p, 32) <=> fc = 32
         /\ Bit(p, 16) <=> fd = 16
  <1>1. p % 8 = n
    OBVIOUS
  <1>2. (p \div 128) % 2 = 1 <=> fa = 128
    OBVIOUS
  <1>3. (p \div 64) % 2 = 1 <=> fb = 64
    OBVIOUS
  <1>4. (p \div 32) % 2 = 1 <=> fc = 32
    OBVIOUS
  <1>5. (p \div 16) % 2 = 1 <=> fd = 16
    OBVIOUS
  <1> QED  BY <1>1, <1>2, <1>3, <1>4, <1>5 DEF Bit

\* The report that mouse_task makes of a packet is the one the motion asks for.
LEMMA ReportIsWanted ==
  ASSUME NEW m \in MotionType, NEW p, \A j \in 1 .. 4 : p[j] = Packet(m)[j]
  PROVE  MakeReport(p) = Wanted(m)
  <1> DEFINE fa == Flag(m.yOvf, 128)
             fb == Flag(m.xOvf, 64)
             fc == Flag(m.y < 0, 32)
             fd == Flag(m.x < 0, 16)
             q == p[1]
             n == m.buttons
  <1>1. /\ q = fa + fb + fc + fd + 8 + n
        /\ p[2] = m.x % 256 /\ p[3] = m.y % 256 /\ p[4] = m.v % 256
    BY DEF Packet
  <1>2. /\ fa \in {0, 128} /\ (m.yOvf <=> fa = 128)
        /\ fb \in {0, 64} /\ (m.xOvf <=> fb = 64)
        /\ fc \in {0, 32} /\ (m.y < 0 <=> fc = 32)
        /\ fd \in {0, 16} /\ (m.x < 0 <=> fd = 16)
    BY DEF Flag
  <1>3. n \in 0 .. 7 /\ m.x \in -256 .. 255 /\ m.y \in -256 .. 255 /\ m.v \in -128 .. 127
    BY DEF MotionType
  <1> HIDE DEF fa, fb, fc, fd, q, n
  <1>4. /\ q % 8 = n
        /\ Bit(q, 128) <=> m.yOvf
        /\ Bit(q, 64) <=> m.xOvf
        /\ Bit(q, 32) <=> m.y < 0
        /\ Bit(q, 16) <=> m.x < 0
    BY <1>1, <1>2, <1>3, FlagsIs
  <1>5. Limit(Bit(q, 16), Bit(q, 64), Int8(p[2])) = Wanted(m).x
    <2>1. Limit(Bit(q, 16), Bit(q, 64), Int8(p[2]))
            = IF Bit(q, 64) THEN (IF m.x < 0 THEN -127 ELSE 127) ELSE Clamp(m.x)
      BY <1>1, <1>3, <1>4, LimitOfByte
    <2>2. Clamp(-256) = -127 /\ Clamp(255) = 127
      BY DEF Clamp
    <2> QED  BY <1>4, <2>1, <2>2 DEF Wanted
  <1>6. -Limit(Bit(q, 32), Bit(q, 128), Int8(p[3])) = Wanted(m).y
    <2>1. Limit(Bit(q, 32), Bit(q, 128), Int8(p[3]))
            = IF Bit(q, 128) THEN (IF m.y < 0 THEN -127 ELSE 127) ELSE Clamp(m.y)
      BY <1>1, <1>3, <1>4, LimitOfByte
    <2>2. Clamp(-256) = -127 /\ Clamp(255) = 127
      BY DEF Clamp
    <2> QED  BY <1>4, <2>1, <2>2 DEF Wanted
  <1>7. Int8(-Int8(p[4])) = Wanted(m).v
    BY <1>1, <1>3, SignedByte DEF Wanted
  <1> QED  BY <1>4, <1>5, <1>6, <1>7 DEF MakeReport, Wanted, q, n

-----------------------------------------------------------------------------
(* Reports in their order.                                                  *)

\* The types of what is on its way; nothing of a packet is read while mouse_task idles.
LEMMA PipeTyped ==
  ASSUME TypeOK
  PROVE  /\ task.packet \in Seq(LineByte) /\ Pipe \in Seq(LineByte)
         /\ task.packet = <<>> => Pipe = OnLine
  <1>1. task.packet \in Seq(LineByte)
    BY OnTheLine DEF TypeOK, TaskType, LineByte
  <1>2. OnLine \in Seq(LineByte)
    BY OnLineTyped DEF TypeOK
  <1> QED  BY <1>1, <1>2, ConcatProperties, ConcatEmptySeq DEF Pipe

\* The types of the reports that are out.
LEMMA OutTyped ==
  ASSUME TypeOK
  PROVE  /\ host \in Seq(ReportType) /\ InTx3 \in Seq(ReportType) /\ mbuf \in Seq(ReportType)
         /\ InTx3 \o mbuf \in Seq(ReportType) /\ Out \in Seq(ReportType) /\ Len(Out) \in Nat
  <1>1. host \in Seq(ReportType) /\ mbuf \in Seq(ReportType)
    BY DEF TypeOK
  <1>2. InTx3 \in Seq(ReportType)
    <2>1. tx3 # <<>> => tx3[1].report \in ReportType
      <3>1. tx3 # <<>> => Head(tx3) \in Tx3Type /\ tx3[1] = Head(tx3)
        BY HeadTailTyped DEF TypeOK
      <3> QED  BY <3>1 DEF Tx3Type
    <2> QED  BY <2>1 DEF InTx3
  <1>3. InTx3 \o mbuf \in Seq(ReportType)
    BY <1>1, <1>2, ConcatProperties
  <1>4. Out \in Seq(ReportType)
    BY <1>1, <1>3, ConcatProperties DEF Out
  <1> QED  BY <1>1, <1>2, <1>3, <1>4, LenProperties

\* mbuf holds no more than it has room for.
LEMMA MbufFits ==
  ASSUME TypeOK, Shape, Len(mbuf) <= MbufRoom, [Next]_vars
  PROVE  Len(mbuf') <= MbufRoom
  <1>1. MbufRoom \in Nat /\ mbuf \in Seq(ReportType) /\ Len(mbuf) \in Nat
    BY MouseAssumption DEF TypeOK
  <1>2. CASE StoreCounter
    <2>1. task.packet \in Seq(UByte) /\ Len(task.packet) = 4
      BY <1>2 DEF StoreCounter, TypeOK, TaskType, Shape
    <2>2. MakeReport(task.packet) \in ReportType
      BY <2>1, ReportTyped
    <2>3. mbuf' = Put(mbuf, MakeReport(task.packet), MbufRoom)
      BY <1>2 DEF StoreCounter
    <2>4. Len(mbuf') = IF Len(mbuf) < MbufRoom THEN Len(mbuf) + 1 ELSE Len(mbuf)
      BY <1>1, <2>2, <2>3, PutTyped
    <2> QED  BY <1>1, <2>4
  <1>3. CASE vusb_transfer_mouse
    <2>1. mbuf # <<>> /\ mbuf' = Tail(mbuf)
      BY <1>3 DEF vusb_transfer_mouse
    <2>2. Len(mbuf') = Len(mbuf) - 1
      BY <1>1, <2>1, HeadTailTyped
    <2> QED  BY <1>1, <2>2
  <1>4. StoreCounter \/ vusb_transfer_mouse \/ mbuf' = mbuf
    BY DEF Next, Move, Boot, Bytes, mouse_task, TaskBegins, ReadByte, LoadCounter, SystemKey,
           Poll, vars
  <1> QED  BY <1>2, <1>3, <1>4

\* A step after which no other report is out, and the bytes are packed as before.
LEMMA StayInOrder ==
  ASSUME InOrder, Len(mbuf') <= MbufRoom,
         faults' = 0 /\ ~hist'.dropped =>
           /\ faults = 0 /\ ~hist.dropped /\ Out' = Out /\ motions' = motions
           /\ ps2'.on <=> ps2.on
           /\ ps2.on /\ Packed(Pipe, Len(Ahead), motions, Len(Out))
                => Packed(Pipe', Len(Ahead'), motions, Len(Out))
  PROVE  InOrder'
  <1> SUFFICES ASSUME faults' = 0, ~hist'.dropped
               PROVE  /\ Len(Out') <= Len(motions')
                      /\ \A i \in 1 .. Len(Out') : Out'[i] = Wanted(motions'[i])
                      /\ IF ps2'.on THEN Packed(Pipe, Len(Ahead), motions, Len(Out))'
                         ELSE motions' = <<>>
    BY DEF InOrder
  <1>1. /\ faults = 0 /\ ~hist.dropped /\ Out' = Out /\ motions' = motions
        /\ ps2'.on <=> ps2.on
        /\ ps2.on /\ Packed(Pipe, Len(Ahead), motions, Len(Out))
             => Packed(Pipe', Len(Ahead'), motions, Len(Out))
    OBVIOUS
  <1>2. /\ Len(Out) <= Len(motions)
        /\ \A i \in 1 .. Len(Out) : Out[i] = Wanted(motions[i])
        /\ IF ps2.on THEN Packed(Pipe, Len(Ahead), motions, Len(Out)) ELSE motions = <<>>
    BY <1>1 DEF InOrder
  <1>3. ps2'.on => Packed(Pipe', Len(Ahead'), motions', Len(Out'))
    BY <1>1, <1>2
  <1>4. ps2'.on => Packed(Pipe, Len(Ahead), motions, Len(Out))'
    BY <1>3 DEF Packed
  <1> QED  BY <1>1, <1>2, <1>4

\* What is out goes from mbuf to the endpoint and from there to the host.
LEMMA EndpointKeepsOut ==
  ASSUME TypeOK, vusb_transfer_mouse \/ (\E c \in Controls : SystemKey(c)) \/ Poll
  PROVE  Out' = Out
  <1>1. CASE vusb_transfer_mouse
    <2>1. /\ tx3 = <<>> /\ mbuf # <<>> /\ tx3' = <<MouseReport(Head(mbuf))>>
          /\ mbuf' = Tail(mbuf) /\ host' = host
      BY <1>1 DEF vusb_transfer_mouse
    <2>2. InTx3 = <<>> /\ InTx3' = <<Head(mbuf)>>
      BY <2>1 DEF InTx3, MouseReport
    <2>3. <<Head(mbuf)>> \o Tail(mbuf) = mbuf /\ <<>> \o mbuf = mbuf
      <3>1. /\ mbuf \in Seq(ReportType) /\ <<>> \in Seq(ReportType)
            /\ Append(<<>>, Head(mbuf)) = <<Head(mbuf)>>
        BY OutTyped
      <3>2. Append(<<>>, Head(mbuf)) \o Tail(mbuf) = <<>> \o mbuf
        BY <2>1, <3>1, HandOver
      <3> QED  BY <3>1, <3>2, ConcatEmptySeq
    <2> QED  BY <2>1, <2>2, <2>3 DEF Out
  <1>2. CASE \E c \in Controls : SystemKey(c)
    <2>1. PICK c \in Controls : SystemKey(c)
      BY <1>2
    <2>2. /\ tx3' = tx3 \/ (tx3 = <<>> /\ tx3' = <<SystemReport(c)>>)
          /\ mbuf' = mbuf /\ host' = host
      BY <2>1 DEF SystemKey
    <2>3. InTx3' = InTx3
      <3>1. <<SystemReport(c)>>[1].kind # "mouse"
        BY DEF SystemReport
      <3> QED  BY <2>2, <3>1 DEF InTx3
    <2> QED  BY <2>2, <2>3 DEF Out
  <1>3. CASE Poll /\ tx3[1].kind = "mouse"
    <2> DEFINE r == tx3[1].report
    <2>1. /\ tx3' = <<>> /\ mbuf' = mbuf /\ host' = Append(host, r)
          /\ InTx3 = <<r>> /\ InTx3' = <<>>
      BY <1>3 DEF Poll, InTx3
    <2>2. /\ host \in Seq(ReportType) /\ mbuf \in Seq(ReportType) /\ <<r>> \in Seq(ReportType)
          /\ <<r>> \o mbuf \in Seq(ReportType) /\ <<r>> # <<>>
      BY <2>1, OutTyped
    <2>3. Head(<<r>>) = r /\ Tail(<<r>>) = <<>>
      OBVIOUS
    <2> HIDE DEF r
    <2>4. <<r>> \o mbuf # <<>> /\ Head(<<r>> \o mbuf) = r /\ Tail(<<r>> \o mbuf) = <<>> \o mbuf
      BY <2>2, <2>3, FirstOfTwo
    <2>5. Append(host, r) \o (<<>> \o mbuf) = host \o (<<r>> \o mbuf)
      BY <2>2, <2>4, HandOver
    <2> QED  BY <2>1, <2>5 DEF Out
  <1>4. CASE Poll /\ tx3[1].kind # "mouse"
    <2>1. InTx3' = <<>> /\ InTx3 = <<>> /\ mbuf' = mbuf /\ host' = host
      BY <1>4 DEF Poll, InTx3
    <2> QED  BY <2>1 DEF Out
  <1> QED  BY <1>1, <1>2, <1>3, <1>4

\* The mouse packs a motion: it is the last one on the way.
LEMMA MoveInOrder ==
  ASSUME IInv, InScriptStep, InOrder, NEW m \in Motions, Move(m), faults = 0, ~hist.dropped
  PROVE  InOrder'
  <1> DEFINE q == Packet(m)
  <1>1. /\ TypeOK /\ m \in MotionType /\ motions \in Seq(Motions) /\ Len(motions) \in Nat
        /\ pbuf \in Seq(LineByte) /\ held \in Seq(LineByte) /\ task.packet \in Seq(LineByte)
    BY MouseAssumption, OnLineTyped, PipeTyped, LenProperties DEF IInv, TypeOK
  <1>2. /\ ps2.on /\ unsent = <<>> /\ motions' = Append(motions, m)
        /\ unsent' = SubSeq(q, 1, IF ps2.type = WHEEL THEN 4 ELSE 3)
        /\ UNCHANGED <<ps2, held, pbuf, boot, faults, task, mbuf, tx3, host, hist>>
    BY DEF Move
  <1>3. ps2.type = WHEEL /\ Ahead' = Ahead /\ Ahead = IF boot.pc = "answer" THEN <<ACK>> ELSE <<>>
    BY <1>2 DEF InScriptStep, MouseIs, Ahead
  <1>4. q \in Seq(LineByte) /\ Len(q) = 4
    BY <1>1, PacketTyped, OnTheLine DEF LineByte
  <1>5. unsent' = q
    <2>1. unsent' = SubSeq(q, 1, 4)
      BY <1>2, <1>3
    <2> HIDE DEF q
    <2>2. \A i \in 1 .. 4 : q[i] \in LineByte
      BY <1>4, ElementOfSeq
    <2>3. /\ SubSeq(q, 1, 4) \in Seq(LineByte) /\ Len(SubSeq(q, 1, 4)) = 4
          /\ \A i \in 1 .. 4 : SubSeq(q, 1, 4)[i] = q[i]
      BY <2>2, SubSeqProperties
    <2>4. SubSeq(q, 1, 4) = q
      BY <1>4, <2>3, SeqEqual
    <2> QED  BY <2>1, <2>4
  <1>6. Pipe' = Pipe \o q
    <2> DEFINE k == task.packet
               b == pbuf
               h == held
               S == LineByte
    <2>1. Pipe = k \o (b \o (h \o <<>>)) /\ Pipe' = k \o (b \o (h \o unsent'))
      BY <1>2 DEF Pipe, OnLine
    <2>2. /\ k \in Seq(S) /\ b \in Seq(S) /\ h \in Seq(S) /\ q \in Seq(S)
          /\ b \o h \in Seq(S) /\ h \o <<>> = h
      BY <1>1, <1>4, ConcatProperties, ConcatEmptySeq
    <2> HIDE DEF k, b, h, S, q
    <2>3. \A r, s, u \in Seq(S) : (r \o s) \o u = r \o (s \o u)
      BY ConcatAssociative
    <2>4. (k \o (b \o h)) \o q = k \o ((b \o h) \o q)
      BY <2>2, <2>3, Zenon
    <2>5. (b \o h) \o q = b \o (h \o q)
      BY <2>2, <2>3, Zenon
    <2> QED  BY <1>5, <2>1, <2>2, <2>4, <2>5
  <1>7. Out' = Out /\ Len(Out) \in Nat /\ Pipe \in Seq(LineByte)
    BY <1>1, <1>2, OutTyped, PipeTyped DEF Out, InTx3
  <1>8. /\ Len(mbuf) <= MbufRoom /\ Len(Out) <= Len(motions)
        /\ \A i \in 1 .. Len(Out) : Out[i] = Wanted(motions[i])
        /\ Packed(Pipe, Len(Ahead), motions, Len(Out))
    BY <1>2 DEF InOrder
  <1>9. Packed(Pipe \o q, Len(Ahead), Append(motions, m), Len(Out))
    <2>1. Len(Ahead) \in Nat
      BY <1>3
    <2> QED  BY <1>1, <1>7, <1>8, <2>1, PackedMore
  <1>10. Packed(Pipe, Len(Ahead), motions, Len(Out))'
    BY <1>2, <1>3, <1>6, <1>7, <1>9 DEF Packed
  <1>11. /\ Len(motions') = Len(motions) + 1
         /\ \A i \in 1 .. Len(motions) : motions'[i] = motions[i]
    BY <1>1, <1>2, AppendProperties
  <1>12. Len(Out') <= Len(motions') /\ \A i \in 1 .. Len(Out') : Out'[i] = Wanted(motions'[i])
    <2>1. \A i \in 1 .. Len(Out) : i \in 1 .. Len(motions)
      BY <1>1, <1>7, <1>8
    <2> QED  BY <1>1, <1>7, <1>8, <1>11, <2>1
  <1> QED  BY <1>2, <1>8, <1>10, <1>12 DEF InOrder

\* mouse_task reads: a byte goes from the line to the packet.
LEMMA TaskKeepsPipe ==
  ASSUME TypeOK, Shape, TaskBegins \/ ReadByte \/ LoadCounter
  PROVE  Pipe' = Pipe
  <1>1. /\ task.packet \in Seq(LineByte) /\ OnLine \in Seq(LineByte)
        /\ pbuf \in Seq(LineByte) /\ held \o unsent \in Seq(LineByte)
    BY PipeTyped, OnLineTyped DEF TypeOK
  <1>2. CASE TaskBegins \/ LoadCounter
    <2>1. task'.packet = task.packet
      BY <1>2 DEF TaskBegins, LoadCounter, TypeOK, TaskType, Shape
    <2>2. UNCHANGED bytes
      BY <1>2 DEF TaskBegins, LoadCounter
    <2> QED  BY <2>1, <2>2 DEF Pipe, OnLine, bytes
  <1>3. CASE ReadByte
    <2>1. /\ pbuf # <<>> /\ pbuf' = Tail(pbuf) /\ held' = held /\ unsent' = unsent
          /\ task'.packet = Append(task.packet, Head(pbuf))
      BY <1>3 DEF ReadByte, pbuf_has_data, pbuf_dequeue, Rest, First, line, TypeOK, TaskType
    <2>2. /\ pbuf \o (held \o unsent) # <<>>
          /\ Head(pbuf \o (held \o unsent)) = Head(pbuf)
          /\ Tail(pbuf \o (held \o unsent)) = Tail(pbuf) \o (held \o unsent)
      BY <1>1, <2>1, FirstOfTwo
    <2>3. OnLine # <<>> /\ Head(OnLine) = Head(pbuf) /\ OnLine' = Tail(OnLine)
      BY <2>1, <2>2 DEF OnLine
    <2>4. Append(task.packet, Head(OnLine)) \o Tail(OnLine) = task.packet \o OnLine
      BY <1>1, <2>3, HandOver
    <2> QED  BY <2>1, <2>3, <2>4 DEF Pipe
  <1> QED  BY <1>2, <1>3

\* The report of the first packet goes behind those that are out.
LEMMA StoreInOrder ==
  ASSUME IInv, InScriptStep, InOrder, StoreCounter, faults = 0, ~hist'.dropped,
         Len(mbuf') <= MbufRoom
  PROVE  InOrder'
  <1> DEFINE r == MakeReport(task.packet)
             n == Len(Out)
  <1>1. /\ TypeOK /\ motions \in Seq(Motions) /\ Len(motions) \in Nat /\ n \in Nat
        /\ Out \in Seq(ReportType) /\ host \in Seq(ReportType) /\ InTx3 \in Seq(ReportType)
        /\ mbuf \in Seq(ReportType) /\ InTx3 \o mbuf \in Seq(ReportType)
        /\ OnLine \in Seq(LineByte) /\ task.packet \in Seq(LineByte)
    BY OutTyped, OnLineTyped, PipeTyped, LenProperties DEF IInv, TypeOK
  <1>2. /\ boot.pc = "run" /\ Len(task.packet) = 4 /\ task.packet \in Seq(UByte)
    BY DEF IInv, Counts, Shape, StoreCounter, TypeOK, TaskType
  <1>3. /\ mbuf' = Put(mbuf, r, MbufRoom) /\ hist'.dropped = (hist.dropped \/ Len(mbuf) = MbufRoom)
        /\ task'.packet = <<>>
    BY DEF StoreCounter, IInv, TypeOK, TaskType
  <1>4. UNCHANGED <<ps2, held, unsent, pbuf, boot, faults, motions, tx3, host>>
    BY DEF StoreCounter, line
  <1>5. ~hist.dropped /\ mbuf' = Append(mbuf, r)
    <2>1. MbufRoom \in Nat /\ Len(mbuf) \in Nat /\ Len(mbuf) <= MbufRoom
      BY <1>1, MouseAssumption, LenProperties DEF InOrder
    <2>2. ~hist.dropped /\ Len(mbuf) # MbufRoom
      BY <1>3
    <2> QED  BY <1>3, <2>1, <2>2 DEF Put
  <1>6. ps2.on /\ Ahead = <<>> /\ Ahead' = <<>> /\ Pipe' = OnLine /\ Pipe = task.packet \o OnLine
    <2>1. ps2.on
      BY <1>2 DEF InScriptStep, MouseIs
    <2>2. Ahead = <<>> /\ Ahead' = <<>>
      BY <1>2, <1>4 DEF Ahead
    <2>3. OnLine' = OnLine
      BY <1>4 DEF OnLine
    <2>4. Pipe' = OnLine
      BY <1>1, <1>3, <2>3, ConcatEmptySeq DEF Pipe
    <2> QED  BY <2>1, <2>2, <2>4 DEF Pipe
  <1>7. /\ n <= Len(motions) /\ \A i \in 1 .. n : Out[i] = Wanted(motions[i])
        /\ Packed(task.packet \o OnLine, 0, motions, n)
    BY <1>5, <1>6 DEF InOrder
  <1>8. /\ n + 1 <= Len(motions) /\ \A j \in 1 .. 4 : task.packet[j] = Packet(motions[n + 1])[j]
        /\ Packed(OnLine, 0, motions, n + 1)
    <2> HIDE DEF n
    <2> QED  BY <1>1, <1>2, <1>7, PackedLess
  <1>9. r = Wanted(motions[n + 1])
    <2>1. motions[n + 1] \in MotionType
      <3>1. n + 1 \in 1 .. Len(motions)
        BY <1>1, <1>8
      <3>2. motions[n + 1] \in Motions
        BY <1>1, <3>1, ElementOfSeq
      <3> QED  BY <3>2, MouseAssumption
    <2> QED  BY <1>8, <2>1, ReportIsWanted
  <1>10. r \in ReportType
    BY <1>2, ReportTyped
  <1> HIDE DEF r
  <1>11. Out' = Append(Out, r)
    <2>1. Append(mbuf, r) = mbuf \o <<r>> /\ <<r>> \in Seq(ReportType)
      BY <1>1, <1>10, AppendIsConcat
    <2>2. \A s, t, u \in Seq(ReportType) : (s \o t) \o u = s \o (t \o u)
      BY ConcatAssociative
    <2>3. (InTx3 \o mbuf) \o <<r>> = InTx3 \o (mbuf \o <<r>>)
      BY <1>1, <2>1, <2>2, Zenon
    <2>4. (host \o (InTx3 \o mbuf)) \o <<r>> = host \o ((InTx3 \o mbuf) \o <<r>>)
      BY <1>1, <2>1, <2>2, Zenon
    <2>5. Append(Out, r) = Out \o <<r>>
      BY <1>1, <1>10, AppendIsConcat
    <2>6. Out' = host \o (InTx3 \o Append(mbuf, r))
      BY <1>4, <1>5 DEF Out, InTx3
    <2> QED  BY <2>1, <2>3, <2>4, <2>5, <2>6 DEF Out
  <1>12. /\ Len(Out') = n + 1 /\ Out'[n + 1] = r /\ \A i \in 1 .. n : Out'[i] = Out[i]
    BY <1>1, <1>10, <1>11, AppendProperties
  <1> HIDE DEF n
  <1>13. \A i \in 1 .. Len(Out') : Out'[i] = Wanted(motions'[i])
    <2> SUFFICES ASSUME NEW i \in 1 .. Len(Out')
                 PROVE  Out'[i] = Wanted(motions'[i])
      OBVIOUS
    <2>1. i \in 1 .. n \/ i = n + 1
      BY <1>1, <1>12
    <2> QED  BY <1>4, <1>7, <1>9, <1>12, <2>1
  <1>14. Packed(Pipe, Len(Ahead), motions, Len(Out))'
    <2>1. Len(<<>>) = 0
      OBVIOUS
    <2> QED  BY <1>4, <1>6, <1>8, <1>12, <2>1 DEF Packed
  <1> QED  BY <1>4, <1>6, <1>8, <1>12, <1>13, <1>14 DEF InOrder

\* ps2_mouse_init and main: the mouse that begins to report has packed nothing, and
\* its last acknowledgement is ahead of all that it packs.
LEMMA BootInOrder ==
  ASSUME IInv, InScriptStep, InOrder, MainBoots,
         UNCHANGED <<motions, task, mbuf, tx3, system, host, hist>>
  PROVE  InOrder'
  <1>1. /\ TypeOK /\ BytesOK /\ faults \in Nat /\ Len(mbuf') <= MbufRoom
        /\ OnLine \in Seq(LineByte) /\ motions \in Seq(Motions) /\ Len(motions) \in Nat
        /\ Len(Out) \in Nat
    BY OutTyped, OnLineTyped, LenProperties DEF IInv, TypeOK, BytesOK, InOrder
  <1>2. Out' = Out /\ motions' = motions
    BY DEF Out, InTx3
  <1>3. SUFFICES ASSUME faults' = 0, ~hist'.dropped
                 PROVE  InOrder'
    BY <1>1, StayInOrder
  <1>4. faults = 0 /\ ~hist.dropped
    <2>1. faults' = faults \/ faults' = faults + 1
      BY DEF MainBoots, SendWhole, SendUnheard, SendCut, TakeAnswer, InitDone, Connect
    <2> QED  BY <1>1, <1>3, <2>1
  <1>5. ~SendUnheard /\ \A cut \in 0 .. WholeCommand : ~SendCut(cut)
    <2>1. AtCommand => ps2.mode # "test"
      BY <1>1, <1>4, NothingOwed
    <2> QED  BY <1>1, <1>3, <1>4, <2>1 DEF SendUnheard, SendCut
  <1>6. task.packet = <<>> /\ task'.packet = <<>> /\ Pipe = OnLine
    <2>1. boot.pc # "run"
      BY DEF MainBoots, SendWhole, SendUnheard, SendCut, TakeAnswer, InitDone, Connect,
             AtCommand, InScript, Waits
    <2>2. task.packet = <<>>
      BY <2>1 DEF IInv, Counts, Shape
    <2> QED  BY <1>1, <2>2, PipeTyped
  <1>7. CASE InitDone \/ Connect
    <2>1. /\ boot'.pc \in {"off", "run"} /\ boot.pc \in {"step", "off"} /\ ps2' = ps2
          /\ held' = held /\ unsent' = unsent /\ pbuf' = pbuf
      BY <1>1, <1>7 DEF InitDone, Connect, Step, line, BytesOK, BootType
    <2>2. Ahead' = Ahead /\ Pipe' = Pipe
      BY <2>1 DEF Ahead, Pipe, OnLine
    <2> QED  BY <1>1, <1>2, <1>4, <2>1, <2>2, StayInOrder
  <1>8. CASE TakeAnswer
    <2>1. /\ OnLine' = Tail(OnLine) /\ OnLine # <<>> /\ ps2' = ps2 /\ boot'.pc = "step"
          /\ \/ boot.pc = "answer"
             \/ boot.at \in {2, 3, 11} /\ Sent = boot.at - 1
      BY <1>1, <1>4, <1>8, AnswerTaken
    <2>2. Pipe' = Tail(Pipe)
      <3>1. Tail(OnLine) \in Seq(LineByte)
        BY <1>1, <2>1, HeadTailTyped
      <3> QED  BY <1>6, <2>1, <3>1, ConcatEmptySeq DEF Pipe
    <2>3. ASSUME ps2.on, Packed(Pipe, Len(Ahead), motions, Len(Out))
          PROVE  Packed(Pipe', Len(Ahead'), motions, Len(Out))
      <3>1. Sent = 16
        BY <1>4, <2>3 DEF InScriptStep, MouseIs
      <3>2. Len(Ahead) = 1 /\ Len(Ahead') = 0
        BY <2>1, <3>1 DEF Ahead
      <3>3. Len(Out) <= Len(motions)
        BY <1>4 DEF InOrder
      <3> QED  BY <1>1, <1>6, <2>2, <2>3, <3>2, <3>3, PackedTail
    <2> QED  BY <1>1, <1>2, <1>4, <2>1, <2>3, StayInOrder
  <1>9. CASE SendWhole
    <2>1. /\ InScriptStep' /\ Sent' = boot.at /\ Sent = boot.at - 1 /\ Sent' \in 1 .. 16
          /\ ps2'.mode # "test" => OnLine' = Ahead' \o Besides(Sent')
      BY <1>1, <1>4, <1>9, SendInStep
    <2>2. ~ps2.on
      BY <1>4, <2>1 DEF InScriptStep, MouseIs
    <2>3. motions = <<>> /\ Len(Out) = 0
      <3>1. motions = <<>> /\ Len(Out) <= Len(motions)
        BY <1>4, <2>2 DEF InOrder
      <3>2. Len(<<>>) = 0
        OBVIOUS
      <3> QED  BY <1>1, <3>1, <3>2
    <2>4. ASSUME ps2'.on
          PROVE  Packed(Pipe, Len(Ahead), motions, Len(Out))'
      <3>1. Sent' = 16 /\ ps2'.mode # "test"
        BY <1>3, <2>1, <2>4 DEF InScriptStep, MouseIs
      <3>2. Ahead' = <<ACK>> /\ Besides(16) = <<>>
        BY <1>9, <1>1, AwaitsIs DEF SendWhole, Step, Ahead, BytesOK, BootType
      <3>3. <<ACK>> \o <<>> = <<ACK>> /\ <<>> \o <<ACK>> = <<ACK>>
        OBVIOUS
      <3>4. Pipe' = <<ACK>> /\ Len(Pipe') = 1 /\ Len(Ahead') = 1
        BY <1>6, <2>1, <3>1, <3>2, <3>3 DEF Pipe
      <3>5. Len(motions') - Len(Out') = 0 /\ 1 .. 0 = {}
        BY <1>1, <1>2, <2>3
      <3> QED  BY <3>4, <3>5 DEF Packed
    <2>5. Len(Out') <= Len(motions') /\ \A i \in 1 .. Len(Out') : Out'[i] = Wanted(motions'[i])
      BY <1>1, <1>2, <2>3
    <2> QED  BY <1>1, <1>2, <2>3, <2>4, <2>5 DEF InOrder
  <1> QED  BY <1>5, <1>7, <1>8, <1>9 DEF MainBoots

\* Every step keeps bytes and reports in their order.
LEMMA NextInOrder ==
  ASSUME IInv, InScriptStep, InOrder, [Next]_vars
  PROVE  InOrder'
  <1>1. TypeOK /\ BytesOK /\ Shape /\ faults \in Nat /\ Len(mbuf') <= MbufRoom
    BY MbufFits DEF IInv, TypeOK, BytesOK, InOrder
  <1>2. CASE Boot
    BY <1>2, BootInOrder DEF Boot
  <1>3. CASE Bytes
    <2>1. /\ motions' = motions /\ Out' = Out /\ task' = task /\ hist' = hist
      BY <1>3 DEF Bytes, Out, InTx3
    <2>2. CASE SelfTest
      <3>1. /\ faults' = faults /\ ps2.mode = "test" /\ (ps2'.on <=> ps2.on)
        BY <1>1, <2>2 DEF SelfTest, BytesOK, MouseType
      <3>2. faults = 0 => ~ps2.on
        BY <3>1 DEF InScriptStep, MouseIs
      <3> QED  BY <1>1, <2>1, <3>1, <3>2, StayInOrder
    <2>3. CASE Usart
      <3>1. faults' = 0 => faults = 0 /\ OnLine' = OnLine /\ ps2' = ps2 /\ boot' = boot
        BY <2>3, UsartKeepsOrder
      <3>2. faults' = 0 => Pipe' = Pipe /\ Ahead' = Ahead
        BY <2>1, <3>1 DEF Pipe, Ahead
      <3> QED  BY <1>1, <2>1, <3>1, <3>2, StayInOrder
    <2> QED  BY <1>3, <2>2, <2>3 DEF Bytes
  <1>4. ASSUME NEW m \in Motions, Move(m)
        PROVE  InOrder'
    <2>1. faults' = faults /\ hist' = hist
      BY <1>4 DEF Move
    <2>2. CASE faults = 0 /\ ~hist.dropped
      BY <1>4, <2>2, MoveInOrder
    <2>3. CASE ~(faults = 0 /\ ~hist.dropped)
      BY <1>1, <2>1, <2>3 DEF InOrder
    <2> QED  BY <2>2, <2>3
  <1>5. CASE TaskBegins \/ ReadByte \/ LoadCounter
    <2>1. Pipe' = Pipe
      BY <1>1, <1>5, TaskKeepsPipe
    <2>2. /\ motions' = motions /\ Out' = Out /\ Ahead' = Ahead /\ ps2' = ps2 /\ faults' = faults
          /\ hist' = hist
      BY <1>5 DEF TaskBegins, ReadByte, LoadCounter, bytes, line, Out, InTx3, Ahead
    <2> QED  BY <1>1, <2>1, <2>2, StayInOrder
  <1>6. CASE StoreCounter
    <2>1. faults' = faults
      BY <1>6 DEF StoreCounter
    <2>2. CASE faults = 0 /\ ~hist'.dropped
      BY <1>1, <1>6, <2>2, StoreInOrder
    <2>3. CASE ~(faults = 0 /\ ~hist'.dropped)
      BY <1>1, <2>1, <2>3 DEF InOrder
    <2> QED  BY <2>2, <2>3
  <1>7. CASE vusb_transfer_mouse \/ (\E c \in Controls : SystemKey(c)) \/ Poll
    <2>1. Out' = Out
      BY <1>1, <1>7, EndpointKeepsOut
    <2>2. UNCHANGED <<bytes, motions, task>> /\ hist'.dropped = hist.dropped
      BY <1>1, <1>7 DEF vusb_transfer_mouse, SystemKey, Poll, TypeOK
    <2>3. Pipe' = Pipe /\ Ahead' = Ahead /\ ps2' = ps2 /\ faults' = faults /\ motions' = motions
      BY <2>2 DEF Pipe, OnLine, Ahead, bytes
    <2> QED  BY <1>1, <2>1, <2>2, <2>3, StayInOrder
  <1>8. CASE UNCHANGED vars
    <2>1. /\ motions' = motions /\ Out' = Out /\ Ahead' = Ahead /\ ps2' = ps2 /\ faults' = faults
          /\ hist' = hist /\ Pipe' = Pipe
      BY <1>8 DEF vars, bytes, Out, InTx3, Ahead, Pipe, OnLine
    <2> QED  BY <1>1, <2>1, StayInOrder
  <1> QED  BY <1>2, <1>3, <1>4, <1>5, <1>6, <1>7, <1>8 DEF Next, mouse_task

\* What the host gets are the reports of the motions in their order, each with its
\* motion limited to what the descriptor declares: for every queue, mailbox and
\* motion, as long as no byte is lost and no report finds mbuf full.
THEOREM ReportsExactCorrect == Spec => []ReportsExact
  <1>1. IInv /\ InOrder => ReportsExact
    <2> SUFFICES ASSUME IInv, InOrder, faults = 0, ~hist.dropped
                 PROVE  /\ Len(Out) <= Len(motions)
                        /\ \A i \in DOMAIN Out : Out[i] = Wanted(motions[i])
      BY DEF ReportsExact
    <2>1. DOMAIN Out = 1 .. Len(Out)
      BY OutTyped, LenProperties DEF IInv
    <2> QED  BY <2>1 DEF InOrder
  <1>2. Init => InScriptStep /\ InOrder
    <2> SUFFICES ASSUME Init
                 PROVE  InOrder
      BY InitInStep
    <2>1. /\ ~ps2.on /\ motions = <<>> /\ mbuf = <<>> /\ Out = <<>> /\ Len(<<>>) = 0
      BY DEF Init, BootInit, Fresh, Out, InTx3
    <2>2. MbufRoom \in Nat
      BY MouseAssumption
    <2> QED  BY <2>1, <2>2 DEF InOrder
  <1>3. IInv /\ InScriptStep /\ InOrder /\ [Next]_vars => InScriptStep' /\ InOrder'
    BY NextInStep, NextInOrder
  <1> QED  BY <1>1, <1>2, <1>3, Invariance, PTL DEF Spec

-----------------------------------------------------------------------------
(* What the host reads.                                                     *)

\* The number a host reads begins in one byte and goes on in those after it.
Reads(data, at, offset, size) ==
  \E rest \in Nat :
    BitsAt(data, offset, size) = ((data[at] + 256 * rest) \div 2^(offset % 8)) % 2^size

LEMMA BitsIs ==
  ASSUME NEW data \in Seq(UByte), NEW at \in 1 .. Len(data),
         NEW offset, (offset \div 8) + 1 = at, NEW size
  PROVE  Reads(data, at, offset, size)
  <1> DEFINE y == IF at + 1 \in DOMAIN data THEN data[at + 1] ELSE 0
             z == IF at + 2 \in DOMAIN data THEN data[at + 2] ELSE 0
  <1>1. \A i \in DOMAIN data : data[i] \in UByte
    BY ElementOfSeq, LenProperties
  <1>2. y \in Nat /\ z \in Nat
    <2>1. \A n \in UByte : n \in Nat
      BY DEF UByte
    <2> QED  BY <1>1, <2>1
  <1>3. at \in DOMAIN data
    BY LenProperties
  <1>4. BitsAt(data, offset, size)
          = ((data[at] + 256 * (y + 256 * z)) \div 2^(offset % 8)) % 2^size
    BY <1>3 DEF BitsAt
  <1> HIDE DEF y, z
  <1>5. y + 256 * z \in Nat
    BY <1>2, SMT
  <1> QED  BY <1>4, <1>5, Zenon DEF Reads

\* A byte of the report by its bits.
LEMMA WholeByte ==
  ASSUME NEW data \in Seq(UByte), NEW k \in Nat, k < Len(data)
  PROVE  BitsAt(data, 8 * k, 8) = data[k + 1]
  <1> DEFINE offset == 8 * k
  <1>1. (offset \div 8) + 1 = k + 1 /\ offset % 8 = 0
    BY SMT
  <1> HIDE DEF offset
  <1>2. k + 1 \in 1 .. Len(data) /\ data[k + 1] \in 0 .. 255
    <2>1. k + 1 \in 1 .. Len(data)
      BY LenProperties
    <2>2. data[k + 1] \in UByte
      BY <2>1, ElementOfSeq
    <2> QED  BY <2>1, <2>2 DEF UByte
  <1>3. Reads(data, k + 1, offset, 8)
    BY <1>1, <1>2, BitsIs
  <1>4. PICK rest \in Nat : BitsAt(data, offset, 8) = ((data[k + 1] + 256 * rest) \div 1) % 256
    BY <1>1, <1>3, 2^0 = 1, 2^8 = 256 DEF Reads
  <1>5. \A x \in 0 .. 255 : ((x + 256 * rest) \div 1) % 256 = x
    BY SMT
  <1> QED  BY <1>2, <1>4, <1>5 DEF offset

\* A number has a bit of a given weight: what is below it, the bit, what is above it.
BitIs(n, w, bit) ==
  /\ bit \in {0, 1}
  /\ \E low, high \in Nat : low < w /\ n = low + w * (bit + 2 * high)

Weighs(i, w) == w \in {1, 2, 4, 8, 16, 32, 64, 128} /\ w = 2^i

LEMMA OneBit ==
  ASSUME NEW data \in Seq(UByte), 0 < Len(data), NEW i \in 0 .. 7,
         NEW w, Weighs(i, w), NEW bit, BitIs(data[1], w, bit)
  PROVE  BitsAt(data, i, 1) = bit
  <1>1. (i \div 8) + 1 = 1 /\ i % 8 = i /\ 2^1 = 2
    BY SMT
  <1>2. 1 \in 1 .. Len(data)
    BY LenProperties
  <1>3. Reads(data, 1, i, 1)
    <2> DEFINE at == 1
    <2>1. at \in 1 .. Len(data) /\ (i \div 8) + 1 = at
      BY <1>1, <1>2
    <2> HIDE DEF at
    <2>2. Reads(data, at, i, 1)
      BY <2>1, BitsIs
    <2> QED  BY <2>2 DEF at
  <1>4. PICK rest \in Nat : BitsAt(data, i, 1) = ((data[1] + 256 * rest) \div w) % 2
    BY <1>1, <1>3 DEF Reads, Weighs
  <1>5. PICK low \in Nat, high \in Nat : low < w /\ data[1] = low + w * (bit + 2 * high)
    BY DEF BitIs
  <1>6. ((data[1] + 256 * rest) \div w) % 2 = bit
    <2>1. w \in {1, 2, 4, 8, 16, 32, 64, 128} /\ bit \in {0, 1}
      BY DEF Weighs, BitIs
    <2> QED  BY <1>5, <2>1, SMT
  <1> QED  BY <1>4, <1>6

\* What the fields of a report say, given the numbers in them.
Numbers(data, offset, size, count, v) ==
  \A i \in 0 .. count - 1 : BitsAt(data, offset + i * size, size) = v[i]

\* The numbers of a field are in the report and have no sign.
Legible(data, offset, size, count, min) ==
  ~(offset + count * size > 8 * Len(data)) /\ ~(min < 0)

LEMMA ReadValues ==
  ASSUME NEW id, NEW offset, NEW size, NEW count, NEW page, NEW flags, NEW min, NEW max,
         NEW usages, NEW data, NEW v, Numbers(data, offset, size, count, v),
         flags \notin {CONSTANT_FIELD, ARRAY}, Legible(data, offset, size, count, min)
  PROVE  ReadField(InputField(id, offset, size, count, page, flags, min, max, usages), data)
           = {<<page, usages[i], v[i]>> :
                i \in {j \in 0 .. count - 1 : v[j] \in min .. max /\ v[j] # 0}}
  <1> DEFINE f == InputField(id, offset, size, count, page, flags, min, max, usages)
             value == [i \in 0 .. f.count - 1 |-> BitsAt(data, f.offset + i * f.size, f.size)]
             says == {i \in DOMAIN value : value[i] \in f.min .. f.max /\ value[i] # 0}
  <1>1. /\ f.offset = offset /\ f.size = size /\ f.count = count /\ f.page = page
        /\ f.flags = flags /\ f.min = min /\ f.max = max /\ f.usages = usages
    BY DEF InputField
  <1> HIDE DEF f
  <1>2. ReadField(f, data) = {<<f.page, f.usages[i], value[i]>> : i \in says}
    BY <1>1, Zenon DEF ReadField, Legible
  <1>3. \A i \in 0 .. count - 1 : value[i] = v[i]
    BY <1>1, Zenon DEF Numbers
  <1>4. DOMAIN value = 0 .. count - 1
    BY <1>1
  <1> HIDE DEF value
  <1> QED  BY <1>1, <1>2, <1>3, <1>4 DEF f

\* Numbers with a sign, each a byte.
Signs(data, offset, count, v) ==
  \A i \in 0 .. count - 1 : Signed(BitsAt(data, offset + i * 8, 8), 8) = v[i]

SignLegible(data, offset, count, min) == ~(offset + count * 8 > 8 * Len(data)) /\ min < 0

LEMMA ReadSigned ==
  ASSUME NEW id, NEW offset, NEW count, NEW page, NEW min, NEW max,
         NEW usages, NEW data, NEW v, Signs(data, offset, count, v),
         SignLegible(data, offset, count, min)
  PROVE  ReadField(InputField(id, offset, 8, count, page, RELATIVE, min, max, usages), data)
           = {<<page, usages[i], v[i]>> :
                i \in {j \in 0 .. count - 1 : v[j] \in min .. max /\ v[j] # 0}}
  <1> DEFINE f == InputField(id, offset, 8, count, page, RELATIVE, min, max, usages)
             value == [i \in 0 .. f.count - 1 |->
                         Signed(BitsAt(data, f.offset + i * f.size, f.size), f.size)]
             says == {i \in DOMAIN value : value[i] \in f.min .. f.max /\ value[i] # 0}
  <1>1. /\ f.offset = offset /\ f.size = 8 /\ f.count = count /\ f.page = page
        /\ f.flags = RELATIVE /\ f.min = min /\ f.max = max /\ f.usages = usages
    BY DEF InputField
  <1>0. RELATIVE # CONSTANT_FIELD /\ RELATIVE # ARRAY
    BY DEF RELATIVE, CONSTANT_FIELD, ARRAY
  <1> HIDE DEF f
  <1>2. ReadField(f, data) = {<<f.page, f.usages[i], value[i]>> : i \in says}
    BY <1>0, <1>1, Zenon DEF ReadField, SignLegible
  <1>3. \A i \in 0 .. count - 1 : value[i] = v[i]
    BY <1>1, Zenon DEF Signs
  <1>4. DOMAIN value = 0 .. count - 1
    BY <1>1
  <1> HIDE DEF value
  <1> QED  BY <1>1, <1>2, <1>3, <1>4 DEF f

\* A byte with a sign is the number it was made from.
ByteIs(data, at, n) ==
  \E k \in Nat : k < Len(data) /\ at = 8 * k /\ data[k + 1] = n % 256

LEMMA SignedIs ==
  ASSUME NEW data \in Seq(UByte), NEW at, NEW n \in -128 .. 127, ByteIs(data, at, n)
  PROVE  Signed(BitsAt(data, at, 8), 8) = n
  <1>0. PICK k \in Nat : k < Len(data) /\ at = 8 * k /\ data[k + 1] = n % 256
    BY DEF ByteIs
  <1>1. BitsAt(data, at, 8) = n % 256
    BY <1>0, WholeByte
  <1>2. 2^(8 - 1) = 128 /\ 2^8 = 256
    BY SMT
  <1>3. IF n % 256 >= 128 THEN (n % 256) - 256 = n ELSE n % 256 = n
    BY SMT
  <1> QED  BY <1>1, <1>2, <1>3, SMT DEF Signed

\* The buttons: three of the five bits the descriptor has for them.
LEMMA ReadButtons ==
  ASSUME NEW data \in Seq(UByte), Len(data) = 5, NEW n \in 0 .. 7, data[1] = n
  PROVE  ReadField(InputField(1, 0, 1, 5, 9, ABSOLUTE, 0, 1, From(1, 5)), data)
           = {<<9, i + 1, 1>> : i \in {j \in 0 .. 2 : Bit(n, 2^j)}}
  <1>1. PICK b0 \in {0, 1}, b1 \in {0, 1}, b2 \in {0, 1} :
          /\ n = b0 + 2 * b1 + 4 * b2
          /\ (n \div 1) % 2 = b0 /\ (n \div 2) % 2 = b1 /\ (n \div 4) % 2 = b2
    <2>1. \E b0 \in {0, 1}, b1 \in {0, 1}, b2 \in {0, 1} : n = b0 + 2 * b1 + 4 * b2
      BY SMT
    <2> QED  BY <2>1, SMT
  <1> DEFINE v == [i \in 0 .. 4 |-> IF i = 0 THEN b0 ELSE IF i = 1 THEN b1 ELSE
                                    IF i = 2 THEN b2 ELSE 0]
             u == From(1, 5)
             On == {j \in 0 .. 2 : Bit(n, 2^j)}
  <1>2. v[0] = b0 /\ v[1] = b1 /\ v[2] = b2 /\ v[3] = 0 /\ v[4] = 0
    BY SMT
  <1>3. \A i \in 0 .. 4 : u[i] = i + 1
    BY DEF From
  <1>4. \A j \in 0 .. 2 : v[j] \in {0, 1} /\ (Bit(n, 2^j) <=> v[j] = 1)
    <2> SUFFICES ASSUME NEW j \in 0 .. 2 PROVE v[j] \in {0, 1} /\ (Bit(n, 2^j) <=> v[j] = 1)
      OBVIOUS
    <2>0. v[0] \in {0, 1} /\ v[1] \in {0, 1} /\ v[2] \in {0, 1}
      BY <1>2
    <2>1. 2^0 = 1 /\ 2^1 = 2 /\ 2^2 = 4
      BY SMT
    <2> HIDE DEF v
    <2>2. (Bit(n, 1) <=> v[0] = 1) /\ (Bit(n, 2) <=> v[1] = 1) /\ (Bit(n, 4) <=> v[2] = 1)
      BY <1>1, <1>2 DEF Bit
    <2>3. CASE j = 0
      BY <2>0, <2>1, <2>2, <2>3
    <2>4. CASE j = 1
      BY <2>0, <2>1, <2>2, <2>4
    <2>5. CASE j = 2
      BY <2>0, <2>1, <2>2, <2>5
    <2> QED  BY <2>3, <2>4, <2>5
  <1> HIDE DEF v, u
  <1>5. /\ BitIs(n, 1, v[0]) /\ BitIs(n, 2, v[1]) /\ BitIs(n, 4, v[2])
        /\ BitIs(n, 8, v[3]) /\ BitIs(n, 16, v[4])
    <2>1. PICK m1 \in Nat : m1 = b1 + 2 * b2
      BY SMT
    <2>2. PICK z \in Nat : z = 0
      BY SMT
    <2>3. PICK m2 \in Nat : m2 = b0 + 2 * b1
      BY SMT
    <2>4. n \in Nat /\ b0 \in Nat /\ b2 \in Nat
      BY SMT
    <2>5. z < 1 /\ n = z + 1 * (b0 + 2 * m1)
      BY <1>1, <2>1, <2>2, SMT
    <2>6. b0 < 2 /\ n = b0 + 2 * (b1 + 2 * b2)
      BY <1>1, SMT
    <2>7. m2 < 4 /\ n = m2 + 4 * (b2 + 2 * z)
      BY <1>1, <2>2, <2>3, SMT
    <2>8. n < 8 /\ n = n + 8 * (0 + 2 * z)
      BY <2>2, SMT
    <2>9. n < 16 /\ n = n + 16 * (0 + 2 * z)
      BY <2>2, SMT
    <2>10. BitIs(n, 1, b0) /\ BitIs(n, 2, b1) /\ BitIs(n, 4, b2)
      BY <2>4, <2>5, <2>6, <2>7, Zenon DEF BitIs
    <2>11. BitIs(n, 8, 0) /\ BitIs(n, 16, 0)
      BY <2>4, <2>8, <2>9, Zenon DEF BitIs
    <2> QED  BY <1>2, <2>10, <2>11, Zenon
  <1>6. /\ Weighs(0, 1) /\ Weighs(1, 2) /\ Weighs(2, 4) /\ Weighs(3, 8) /\ Weighs(4, 16)
    <2>1. 2^0 = 1 /\ 2^1 = 2 /\ 2^2 = 4 /\ 2^3 = 8 /\ 2^4 = 16
      BY SMT
    <2> QED  BY <2>1, SMT DEF Weighs
  <1>7. Numbers(data, 0, 1, 5, v)
    <2>1. /\ BitsAt(data, 0, 1) = v[0] /\ BitsAt(data, 1, 1) = v[1] /\ BitsAt(data, 2, 1) = v[2]
          /\ BitsAt(data, 3, 1) = v[3] /\ BitsAt(data, 4, 1) = v[4]
      <3>1. 0 < Len(data) /\ 0 \in 0 .. 7 /\ 1 \in 0 .. 7 /\ 2 \in 0 .. 7 /\ 3 \in 0 .. 7 /\ 4 \in 0 .. 7
        BY SMT
      <3>2. /\ BitIs(data[1], 1, v[0]) /\ BitIs(data[1], 2, v[1]) /\ BitIs(data[1], 4, v[2])
            /\ BitIs(data[1], 8, v[3]) /\ BitIs(data[1], 16, v[4])
        BY <1>5, Zenon
      <3> QED  BY <1>6, <3>1, <3>2, OneBit, Zenon
    <2>2. \A i \in 0 .. 4 : BitsAt(data, i, 1) = v[i]
      BY <2>1
    <2>3. \A i \in 0 .. 5 - 1 : i \in 0 .. 4 /\ 0 + i * 1 = i
      BY SMT
    <2> QED  BY <2>2, <2>3 DEF Numbers
  <1>8. Legible(data, 0, 1, 5, 0) /\ ABSOLUTE \notin {CONSTANT_FIELD, ARRAY}
    BY DEF Legible, ABSOLUTE, CONSTANT_FIELD, ARRAY
  <1>9. ReadField(InputField(1, 0, 1, 5, 9, ABSOLUTE, 0, 1, u), data)
          = {<<9, u[i], v[i]>> : i \in {j \in 0 .. 5 - 1 : v[j] \in 0 .. 1 /\ v[j] # 0}}
    BY <1>7, <1>8, ReadValues
  <1>10. {j \in 0 .. 5 - 1 : v[j] \in 0 .. 1 /\ v[j] # 0} = On
    <2>0. \A j \in 0 .. 2 : j \in On <=> Bit(n, 2^j)
      BY Zenon
    <2>4. \A j \in 0 .. 2 : v[j] \in {0, 1} /\ (j \in On <=> v[j] = 1)
      BY <1>4, <2>0, Zenon
    <2>1. \A j \in 0 .. 2 : (v[j] \in 0 .. 1 /\ v[j] # 0) <=> j \in On
      <3> HIDE DEF On
      <3> QED  BY <2>4
    <2>2. \A j \in 0 .. 5 - 1 : j \in 0 .. 2 \/ v[j] = 0
      BY <1>2
    <2>3. \A j \in On : j \in 0 .. 5 - 1 /\ j \in 0 .. 2
      BY SMT
    <2> HIDE DEF On
    <2> QED  BY <2>1, <2>2, <2>3
  <1>11. \A i \in On : u[i] = i + 1 /\ v[i] = 1
    <2>1. \A i \in On : i \in 0 .. 2 /\ i \in 0 .. 4 /\ Bit(n, 2^i)
      BY SMT
    <2> QED  BY <1>3, <1>4, <2>1
  <1> HIDE DEF On
  <1>12. {<<9, u[i], v[i]>> : i \in On} = {<<9, i + 1, 1>> : i \in On}
    BY <1>11
  <1> QED  BY <1>9, <1>10, <1>12 DEF u, On

\* The two directions, the wheel and the second wheel, which the mouse has not.
DirectionField == InputField(1, 8, 8, 2, 1, RELATIVE, -127, 127, From(\h30, 2))
WheelField(at, page, usage) == InputField(1, at, 8, 1, page, RELATIVE, -127, 127, From(usage, 1))
DirectionsMoved(x, y) == {c \in {<<1, \h30, x>>, <<1, \h31, y>>} : c[3] # 0}
WheelMoved(page, usage, n) == {<<page, usage, w>> : w \in {n} \ {0, -128}}

LEMMA ReadDirections ==
  ASSUME NEW data \in Seq(UByte), Len(data) = 5, NEW x \in -127 .. 127, NEW y \in -127 .. 127,
         ByteIs(data, 8, x), ByteIs(data, 16, y)
  PROVE  ReadField(DirectionField, data) = DirectionsMoved(x, y)
  <1> DEFINE v == [i \in 0 .. 1 |-> IF i = 0 THEN x ELSE y]
             u == From(\h30, 2)
  <1>1. v[0] = x /\ v[1] = y
    BY SMT
  <1>2. u[0] = \h30 /\ u[1] = \h31
    BY SMT DEF From
  <1> HIDE DEF v, u
  <1>3. Signs(data, 8, 2, v)
    <2>1. Signed(BitsAt(data, 8, 8), 8) = x
      <3>1. x \in -128 .. 127
        BY SMT
      <3> QED  BY <3>1, SignedIs
    <2>2. Signed(BitsAt(data, 16, 8), 8) = y
      <3>1. y \in -128 .. 127
        BY SMT
      <3> QED  BY <3>1, SignedIs
    <2>3. \A i \in 0 .. 2 - 1 : (i = 0 /\ 8 + i * 8 = 8) \/ (i = 1 /\ 8 + i * 8 = 16)
      BY SMT
    <2> QED  BY <1>1, <2>1, <2>2, <2>3 DEF Signs
  <1> DEFINE min == -127
             S == {j \in 0 .. 2 - 1 : v[j] \in min .. 127 /\ v[j] # 0}
  <1>4. SignLegible(data, 8, 2, min)
    BY DEF SignLegible
  <1>6. S = {j \in {0, 1} : v[j] # 0}
    <2> DEFINE range == -127 .. 127
    <2>1. v[0] \in range /\ v[1] \in range
      BY <1>1
    <2>2. 0 .. 2 - 1 = {0, 1}
      BY SMT
    <2>3. S = {j \in {0, 1} : v[j] \in range /\ v[j] # 0}
      BY <2>2, Zenon
    <2> HIDE DEF range, S
    <2> QED  BY <2>1, <2>3
  <1> HIDE DEF min
  <1>5. ReadField(InputField(1, 8, 8, 2, 1, RELATIVE, min, 127, u), data)
          = {<<1, u[i], v[i]>> : i \in S}
    BY <1>3, <1>4, ReadSigned
  <1>7. {<<1, u[i], v[i]>> : i \in {j \in {0, 1} : v[j] # 0}}
          = {c \in {<<1, \h30, x>>, <<1, \h31, y>>} : c[3] # 0}
    BY <1>1, <1>2
  <1> QED  BY <1>5, <1>6, <1>7 DEF u, min, DirectionField, DirectionsMoved

\* The byte of a wheel: where it is, and the usage it is for.
WheelIs(data, at, page, usage, n) ==
  ByteIs(data, at, n) /\ n \in -128 .. 127 /\ at \in {24, 32} /\ usage \in Nat

LEMMA ReadWheel ==
  ASSUME NEW data \in Seq(UByte), Len(data) = 5, NEW n, NEW at, NEW page, NEW usage,
         WheelIs(data, at, page, usage, n)
  PROVE  ReadField(WheelField(at, page, usage), data) = WheelMoved(page, usage, n)
  <1> DEFINE v == [i \in {0} |-> n]
             u == From(usage, 1)
             min == -127
             one == 1
             S == {j \in 0 .. one - 1 : v[j] \in min .. 127 /\ v[j] # 0}
             T == {j \in {0} : n \notin {0, -128}}
  <1>wheel. ByteIs(data, at, n) /\ n \in -128 .. 127 /\ at \in {24, 32} /\ usage \in Nat
    BY DEF WheelIs
  <1>0. 0 .. one - 1 = {0} /\ at + 0 * 8 = at
    BY <1>wheel, SMT
  <1>1. v[0] = n /\ u[0] = usage
    BY <1>wheel, SMT DEF From
  <1>2. Signed(BitsAt(data, at, 8), 8) = n
    BY <1>wheel, SignedIs
  <1>3. SignLegible(data, at, one, min)
    BY <1>wheel, SMT DEF SignLegible
  <1>4. n \in min .. 127 /\ n # 0 <=> n \notin {0, -128}
    BY <1>wheel, SMT
  <1> HIDE DEF v, u, min, one
  <1>5. Signs(data, at, one, v)
    BY <1>0, <1>1, <1>2 DEF Signs
  <1>6. ReadField(InputField(1, at, 8, one, page, RELATIVE, min, 127, u), data)
          = {<<page, u[i], v[i]>> : i \in S}
    BY <1>3, <1>5, ReadSigned
  <1>7. S = T
    BY <1>0, <1>1, <1>4, Zenon
  <1>8. {<<page, u[i], v[i]>> : i \in T} = {<<page, usage, w>> : w \in {n} \ {0, -128}}
    BY <1>1
  <1> QED  BY <1>6, <1>7, <1>8 DEF min, one, u, WheelField, WheelMoved

\* What the host reads in a report of the mouse: what is not at rest of it.
Moved(r) ==
  {<<1, \h30, r.x>>, <<1, \h31, r.y>>} \cup {<<1, \h38, v>> : v \in {r.v} \ {-128}}

LEMMA ReadMouse ==
  ASSUME NEW r \in ReportType
  PROVE  ReadReport(Endpoint3Fields, MouseBytes(r)) =
           {<<9, i + 1, 1>> : i \in {j \in 0 .. 2 : Bit(r.buttons, 2^j)}}
           \cup (Moved(r) \ AtRest(Moved(r)))
  <1> DEFINE f1 == InputField(1, 0, 1, 5, 9, ABSOLUTE, 0, 1, From(1, 5))
             f2 == InputField(1, 5, 3, 1, 9, CONSTANT_FIELD, 0, 1, Unused)
             f3 == DirectionField
             f4 == WheelField(24, 1, \h38)
             f5 == WheelField(32, \h0C, \h238)
             b == MouseBytes(r)
             data == <<r.buttons, r.x % 256, r.y % 256, r.v % 256, 0>>
             R1 == {<<9, i + 1, 1>> : i \in {j \in 0 .. 2 : Bit(r.buttons, 2^j)}}
             R3 == DirectionsMoved(r.x, r.y)
             R4 == WheelMoved(1, \h38, r.v)
  <1>1. /\ r.buttons \in 0 .. 7 /\ r.x \in -127 .. 127 /\ r.y \in -127 .. 127
        /\ r.v \in -128 .. 127
    BY DEF ReportType
  <1>2. b[1] = 1 /\ Tail(b) = data
    <2>1. b = <<1, r.buttons, r.x % 256, r.y % 256, r.v % 256, 0>>
      BY DEF MouseBytes, REPORT_ID_MOUSE, ByteOf
    <2> QED  BY <2>1
  <1>3. /\ data \in Seq(UByte) /\ Len(data) = 5 /\ data[1] = r.buttons
        /\ data[2] = r.x % 256 /\ data[3] = r.y % 256 /\ data[4] = r.v % 256 /\ data[5] = 0
    <2>1. r.buttons \in UByte /\ 0 \in UByte
      BY <1>1 DEF UByte
    <2>2. r.x % 256 \in UByte /\ r.y % 256 \in UByte /\ r.v % 256 \in UByte
      BY <1>1, SMT DEF UByte
    <2> QED  BY <2>1, <2>2
  <1> HIDE DEF b, data
  <1>4. ReadField(f1, data) = R1
    BY <1>1, <1>3, ReadButtons
  <1>5. ReadField(f2, data) = {}
    <2>1. f2.flags = CONSTANT_FIELD
      BY DEF InputField
    <2> HIDE DEF f2
    <2> QED  BY <2>1, Zenon DEF ReadField
  <1>6. ReadField(f3, data) = R3
    <2>1. ByteIs(data, 8, r.x)
      <3>1. 1 \in Nat /\ 1 < Len(data) /\ 8 = 8 * 1 /\ 1 + 1 = 2
        BY <1>3
      <3> QED  BY <1>3, <3>1, Zenon DEF ByteIs
    <2>2. ByteIs(data, 16, r.y)
      <3>1. 2 \in Nat /\ 2 < Len(data) /\ 16 = 8 * 2 /\ 2 + 1 = 3
        BY <1>3
      <3> QED  BY <1>3, <3>1, Zenon DEF ByteIs
    <2> QED  BY <1>1, <1>3, <2>1, <2>2, ReadDirections
  <1>7. ReadField(f4, data) = R4
    <2>1. ByteIs(data, 24, r.v)
      <3>1. 3 \in Nat /\ 3 < Len(data) /\ 24 = 8 * 3 /\ 3 + 1 = 4
        BY <1>3
      <3> QED  BY <1>3, <3>1, Zenon DEF ByteIs
    <2> DEFINE at == 24
               usage == \h38
    <2>2. WheelIs(data, at, 1, usage, r.v)
      BY <1>1, <2>1 DEF WheelIs
    <2> HIDE DEF at, usage
    <2>3. ReadField(WheelField(at, 1, usage), data) = WheelMoved(1, usage, r.v)
      BY <1>1, <1>3, <2>2, ReadWheel
    <2> QED  BY <2>3 DEF at, usage
  <1>8. ReadField(f5, data) = {}
    <2> DEFINE n == 0
               at == 32
               usage == \h238
    <2>1. ByteIs(data, 32, n)
      <3>1. 4 \in Nat /\ 4 < Len(data) /\ 32 = 8 * 4 /\ 4 + 1 = 5 /\ n = n % 256
        BY <1>3
      <3> QED  BY <1>3, <3>1, Zenon DEF ByteIs
    <2>2. WheelIs(data, at, \h0C, usage, n)
      BY <2>1 DEF WheelIs
    <2> HIDE DEF n, at, usage
    <2>3. ReadField(WheelField(at, \h0C, usage), data) = WheelMoved(\h0C, usage, n)
      BY <1>3, <2>2, ReadWheel
    <2>4. {n} \ {0, -128} = {}
      BY DEF n
    <2>5. WheelMoved(\h0C, usage, n) = {}
      BY <2>4, Zenon DEF WheelMoved
    <2> QED  BY <2>3, <2>5 DEF at, usage
  <1>9. \E g \in Endpoint3Fields : g.id # 0
    <2>1. f1 \in Endpoint3Fields /\ f1.id = 1
      BY DescriptorsAssumption DEF InputField
    <2> HIDE DEF f1
    <2> QED  BY <2>1
  <1>10. {g \in Endpoint3Fields : g.id = 1} = {f1, f2, f3, f4, f5}
    <2> DEFINE f6 == InputField(2, 0, 16, 1, 1, ARRAY, 1, \hB7, From(1, 1))
               f7 == InputField(3, 0, 16, 1, \h0C, ARRAY, 1, \h29C, From(1, 1))
    <2>1. Endpoint3Fields = {f1, f2, f3, f4, f5, f6, f7}
      BY DescriptorsAssumption, SMT DEF DirectionField, WheelField
    <2>2. f1.id = 1 /\ f2.id = 1 /\ f3.id = 1 /\ f4.id = 1 /\ f5.id = 1 /\ f6.id = 2 /\ f7.id = 3
      BY DEF InputField, DirectionField, WheelField
    <2> HIDE DEF f1, f2, f3, f4, f5, f6, f7
    <2> QED  BY <2>1, <2>2
  <1> HIDE DEF f1, f2, f3, f4, f5, R1, R3, R4
  <1>11. ReadReport(Endpoint3Fields, b) = UNION {ReadField(g, data) : g \in {f1, f2, f3, f4, f5}}
    BY <1>2, <1>9, <1>10, Zenon DEF ReadReport
  <1>12. UNION {ReadField(g, data) : g \in {f1, f2, f3, f4, f5}}
           = ReadField(f1, data) \cup ReadField(f2, data) \cup ReadField(f3, data)
             \cup ReadField(f4, data) \cup ReadField(f5, data)
    BY Zenon
  <1>13. ReadReport(Endpoint3Fields, b) = R1 \cup (R3 \cup R4)
    BY <1>4, <1>5, <1>6, <1>7, <1>8, <1>11, <1>12
  <1>14. Moved(r) \ AtRest(Moved(r)) = R3 \cup R4
    <2> DEFINE x == r.x
               y == r.y
               v == r.v
    <2> HIDE DEF x, y, v
    <2>1. Moved(r) = {<<1, \h30, x>>, <<1, \h31, y>>} \cup {<<1, \h38, w>> : w \in {v} \ {-128}}
      BY DEF Moved, x, y, v
    <2>2. Moved(r) \ AtRest(Moved(r)) = {c \in Moved(r) : c[3] # 0}
      BY DEF AtRest
    <2>3. {c \in Moved(r) : c[3] # 0}
            = {c \in {<<1, \h30, x>>, <<1, \h31, y>>} : c[3] # 0}
              \cup {<<1, \h38, w>> : w \in {v} \ {0, -128}}
      BY <2>1
    <2> QED  BY <2>2, <2>3 DEF R3, R4, x, y, v, DirectionsMoved, WheelMoved
  <1> QED  BY <1>13, <1>14 DEF b, R1

\* A host that reads endpoint 3 by the descriptor sees the buttons, motion and wheel of
\* the packet that is due in each report of the mouse, for every motion and size of the
\* queues, as long as no byte is lost and no report finds mbuf full.
THEOREM HostReadsCorrect == Spec => []HostReads
  <1>1. IInv /\ ReportsExact => HostReads
    <2> DEFINE said == Wanted(motions[Len(host) + 1])
    <2> SUFFICES ASSUME IInv, ReportsExact, faults = 0, ~hist.dropped, tx3 # <<>>,
                        tx3[1].kind = "mouse"
                 PROVE  ReadReport(Endpoint3Fields, MouseBytes(tx3[1].report)) =
                          {<<9, n + 1, 1>> : n \in {i \in 0 .. 2 : Bit(said.buttons, 2^i)}}
                          \cup (Moved(said) \ AtRest(Moved(said)))
      BY DEF HostReads, Moved
    <2>1. /\ host \in Seq(ReportType) /\ mbuf \in Seq(ReportType) /\ tx3 \in Seq(Tx3Type)
          /\ Len(host) \in Nat
      BY LenProperties DEF IInv, TypeOK
    <2>2. tx3[1] \in Tx3Type
      BY <2>1
    <2>3. tx3[1].report \in ReportType
      BY <2>2 DEF Tx3Type
    <2>4. Out[Len(host) + 1] = tx3[1].report /\ Len(host) + 1 \in DOMAIN Out
      <3> DEFINE r == tx3[1].report
                 rest == <<r>> \o mbuf
      <3> HIDE DEF r
      <3>1. Out = host \o rest
        BY DEF Out, InTx3, r
      <3>2. rest \in Seq(ReportType) /\ Len(rest) >= 1 /\ rest[1] = r
        BY <2>1, <2>3 DEF r
      <3> HIDE DEF rest
      <3> QED  BY <2>1, <3>1, <3>2 DEF r
    <2>5. tx3[1].report = said
      BY <2>4 DEF ReportsExact
    <2> HIDE DEF said
    <2> QED  BY <2>3, <2>5, ReadMouse
  <1> QED  BY <1>1, Invariance, ReportsExactCorrect, PTL
=============================================================================
