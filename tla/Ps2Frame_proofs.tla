--------------------------- MODULE Ps2Frame_proofs ---------------------------
(***************************************************************************)
(* What handleBit makes of a receiver, bit by bit: it keeps the receiver's *)
(* type, and takes a frame in as the byte the frame is of.                 *)
(***************************************************************************)
EXTENDS Ps2Frame, FiniteSetTheorems, SequenceTheorems, TLAPS

\* An error that makes handleBit ignore bits is recorded.
Visible(r) == r.errState = 1 => r.error # 0

\* The receiver but for its ring, which the main loop empties.
View(r) == [r EXCEPT !.pbuf = <<>>, !.dropped = FALSE]
Advance(v, bit) == View(handleBit(v, bit))

\* The receiver when it has taken the first n bits of the frame of b, after the
\* bytes accepted.
DataBits(n) == IF n <= START THEN 0 ELSE IF n <= BIT7 THEN n - 1 ELSE 8
Ones(b, k) == Cardinality({i \in 1 .. k : b[i] = 1})
DataAt(b, n) ==
  [i \in 1 .. 8 |-> IF i > 8 - DataBits(n) THEN b[i - (8 - DataBits(n))] ELSE 0]
ParityAt(b, n) == (1 + Ones(b, DataBits(n))) % 2
InhibitAt(n) == IF n = INIT THEN 0 ELSE 1
Stand(accepted, b, n) ==
  [Idle EXCEPT !.state = n, !.data = DataAt(b, n), !.parity = ParityAt(b, n),
               !.inhibit = InhibitAt(n), !.accepted = accepted]

NoByte == [i \in 1 .. 8 |-> 0]

-----------------------------------------------------------------------------
(* Types.                                                                  *)

USE DEF INIT, START, BIT0, BIT7, PARITY, STOP

LEMMA DoneTyped ==
  ASSUME NEW r \in Receiver
  PROVE  Done(r) \in Receiver /\ (Visible(r) => Visible(Done(r)))
  BY DEF Receiver, Done, Visible, ByteBits, Bit

LEMMA FailTyped ==
  ASSUME NEW r \in Receiver, NEW s \in Nat, s > 0
  PROVE  Fail(r, s) \in Receiver /\ Visible(Fail(r, s))
  <1> DEFINE q == [r EXCEPT !.error = s, !.errState = 1]
  <1>1. q \in Receiver
    BY DEF Receiver, Bit
  <1>2. q.error = s
    BY DEF Receiver
  <1>3. Visible(q)
    BY <1>2 DEF Visible
  <1> QED  BY <1>1, <1>3, DoneTyped DEF Fail

LEMMA AcceptTyped ==
  ASSUME NEW r \in Receiver
  PROVE  Accept(r) \in Receiver /\ (Visible(r) => Visible(Accept(r)))
  <1>1. r.pbuf \in Seq(ByteBits) /\ r.accepted \in Seq(ByteBits) /\ r.data \in ByteBits
    BY DEF Receiver
  <1>2. Append(r.pbuf, r.data) \in Seq(ByteBits) /\ Append(r.accepted, r.data) \in Seq(ByteBits)
    BY <1>1, AppendProperties
  <1> QED  BY <1>1, <1>2 DEF Receiver, Accept, Visible

\* The switch of handleBit keeps the receiver's type and never latches an error
\* that matrix_scan does not see, in every state but INIT, which state++ leaves.
LEMMA SwitchTyped ==
  ASSUME NEW r \in Receiver, NEW s \in Nat, s > 0, NEW bit \in Bit
  PROVE  /\ Switch(r, s, bit) \in Receiver
         /\ Visible(r) => Visible(Switch(r, s, bit))
  <1>1. CASE Rejects(r, s, bit)
    BY <1>1, FailTyped DEF Switch
  <1>2. CASE ~Rejects(r, s, bit) /\ s = START
    BY <1>2 DEF Switch, Receiver, Visible, Bit
  <1>3. CASE ~Rejects(r, s, bit) /\ s \in BIT0 .. BIT7
    <2>1. r.parity \in Bit /\ r.data \in ByteBits
      BY DEF Receiver
    <2>2. Shift(r.data, bit) \in ByteBits /\ CountOne(r.parity, bit) \in Bit
      BY <2>1 DEF ByteBits, Bit, Shift, CountOne
    <2>3. Switch(r, s, bit) = [r EXCEPT !.data = Shift(r.data, bit),
                                        !.parity = CountOne(r.parity, bit)]
      BY <1>3 DEF Switch, Receiver
    <2> QED  BY <2>2, <2>3 DEF Receiver, Visible
  <1>4. CASE ~Rejects(r, s, bit) /\ s = STOP
    BY <1>4, AcceptTyped, DoneTyped DEF Switch
  <1>5. CASE ~Rejects(r, s, bit) /\ s = PARITY
    BY <1>5 DEF Switch
  <1> QED  BY <1>1, <1>2, <1>3, <1>4, <1>5 DEF Rejects

LEMMA HandleBitTyped ==
  ASSUME NEW r \in Receiver, NEW bit \in Bit
  PROVE  /\ handleBit(r, bit) \in Receiver
         /\ Visible(r) => Visible(handleBit(r, bit))
  <1> DEFINE q == [r EXCEPT !.state = r.state + 1]
  <1>1. /\ q \in Receiver /\ (Visible(r) => Visible(q))
        /\ r.state + 1 \in Nat /\ r.state + 1 > 0
    BY DEF Receiver, Visible
  <1>2. /\ Switch(q, r.state + 1, bit) \in Receiver
        /\ Visible(q) => Visible(Switch(q, r.state + 1, bit))
    BY <1>1, SwitchTyped
  <1> QED  BY <1>1, <1>2 DEF handleBit

-----------------------------------------------------------------------------
(* A bit and a frame.                                                      *)

LEMMA ViewTyped ==
  ASSUME NEW r \in Receiver
  PROVE  /\ View(r) \in Receiver
         /\ View(r).state = r.state /\ View(r).data = r.data /\ View(r).parity = r.parity
         /\ View(r).inhibit = r.inhibit /\ View(r).error = r.error
         /\ View(r).errState = r.errState /\ View(r).accepted = r.accepted
         /\ View(View(r)) = View(r)
  <1>1. <<>> \in Seq(ByteBits)
    BY EmptySeq
  <1> QED  BY <1>1 DEF View, Receiver

\* Receivers that differ in the ring only look the same.
LEMMA SameView ==
  ASSUME NEW r \in Receiver, NEW q \in Receiver,
         q.state = r.state, q.data = r.data, q.parity = r.parity, q.inhibit = r.inhibit,
         q.error = r.error, q.errState = r.errState, q.accepted = r.accepted
  PROVE  View(q) = View(r)
  BY DEF View, Receiver

\* What handleBit makes of a receiver x, case by case.
Taken(x, bit, y) ==
  LET s == x.state + 1
      Kept == y.error = x.error /\ y.errState = 0
  IN /\ x.errState = 1 => y = x
     /\ x.errState = 0 /\ Rejects(x, s, bit) =>
          /\ y.state = INIT /\ y.data = NoByte /\ y.parity = 1 /\ y.inhibit = 0
          /\ y.error = s /\ y.errState = 1 /\ y.accepted = x.accepted
     /\ x.errState = 0 /\ ~Rejects(x, s, bit) =>
          /\ s \in START .. STOP /\ Kept
          /\ s = START =>
               /\ y.state = s /\ y.data = x.data /\ y.parity = x.parity
               /\ y.inhibit = 1 /\ y.accepted = x.accepted
          /\ s \in BIT0 .. BIT7 =>
               /\ y.state = s /\ y.data = Shift(x.data, bit)
               /\ y.parity = CountOne(x.parity, bit)
               /\ y.inhibit = x.inhibit /\ y.accepted = x.accepted
          /\ s = PARITY =>
               /\ y.state = s /\ y.data = x.data /\ y.parity = x.parity
               /\ y.inhibit = x.inhibit /\ y.accepted = x.accepted
          /\ s = STOP =>
               /\ y.state = INIT /\ y.data = NoByte /\ y.parity = 1
               /\ y.inhibit = 0 /\ y.accepted = Append(x.accepted, x.data)

LEMMA HandleBitCases ==
  ASSUME NEW r \in Receiver, NEW bit \in Bit
  PROVE  handleBit(r, bit) \in Receiver /\ Taken(r, bit, handleBit(r, bit))
  <1> DEFINE s == r.state + 1
             q == [r EXCEPT !.state = r.state + 1]
             z == handleBit(r, bit)
  <1>1. z \in Receiver
    BY HandleBitTyped
  <1>2. q \in Receiver /\ s \in Nat /\ s > 0
    BY DEF Receiver, Bit
  <1>3. /\ q.state = s /\ q.data = r.data /\ q.parity = r.parity /\ q.inhibit = r.inhibit
        /\ q.error = r.error /\ q.errState = r.errState /\ q.accepted = r.accepted
        /\ q.pbuf = r.pbuf
    BY DEF Receiver
  <1>4. r.errState = 0 => z = Switch(q, s, bit)
    BY DEF handleBit
  <1>5. r.errState = 1 => z = r
    BY DEF handleBit
  <1>6. Rejects(q, s, bit) <=> Rejects(r, s, bit)
    BY <1>3 DEF Rejects
  <1> HIDE DEF q, z, s
  <1>7. ASSUME r.errState = 0, Rejects(r, s, bit)
        PROVE  /\ z.state = INIT /\ z.data = NoByte /\ z.parity = 1 /\ z.inhibit = 0
               /\ z.error = s /\ z.errState = 1 /\ z.accepted = r.accepted
    <2>1. z = Done([q EXCEPT !.error = s, !.errState = 1])
      BY <1>4, <1>6, <1>7 DEF Switch, Fail
    <2> QED  BY <1>2, <1>3, <2>1 DEF Done, Receiver, NoByte
  <1>8. ASSUME r.errState = 0, ~Rejects(r, s, bit)
        PROVE  s \in START .. STOP
    BY <1>2, <1>8 DEF Rejects
  <1>9. ASSUME r.errState = 0, ~Rejects(r, s, bit), s = START
        PROVE  /\ z.state = s /\ z.data = r.data /\ z.parity = r.parity
               /\ z.inhibit = 1 /\ z.accepted = r.accepted
               /\ z.error = r.error /\ z.errState = 0
    <2>1. z = [q EXCEPT !.inhibit = 1]
      BY <1>4, <1>6, <1>9 DEF Switch
    <2> QED  BY <1>2, <1>3, <1>9, <2>1 DEF Receiver
  <1>10. ASSUME r.errState = 0, ~Rejects(r, s, bit), s \in BIT0 .. BIT7
        PROVE  /\ z.state = s /\ z.data = Shift(r.data, bit)
               /\ z.parity = CountOne(r.parity, bit)
               /\ z.inhibit = r.inhibit /\ z.accepted = r.accepted
               /\ z.error = r.error /\ z.errState = 0
    <2> DEFINE d == Shift(q.data, bit)
               p == CountOne(q.parity, bit)
    <2>1. z = [q EXCEPT !.data = d, !.parity = p]
      BY <1>4, <1>6, <1>10, <1>2 DEF Switch, Receiver
    <2>2. d = Shift(r.data, bit) /\ p = CountOne(r.parity, bit)
      BY <1>3
    <2> HIDE DEF d, p
    <2> QED  BY <1>2, <1>3, <1>10, <2>1, <2>2 DEF Receiver
  <1>11. ASSUME r.errState = 0, ~Rejects(r, s, bit), s = PARITY
        PROVE  /\ z.state = s /\ z.data = r.data /\ z.parity = r.parity
               /\ z.inhibit = r.inhibit /\ z.accepted = r.accepted
               /\ z.error = r.error /\ z.errState = 0
    <2>1. z = q
      BY <1>4, <1>6, <1>11 DEF Switch
    <2> QED  BY <1>2, <1>3, <1>11, <2>1 DEF Receiver
  <1>12. ASSUME r.errState = 0, ~Rejects(r, s, bit), s = STOP
        PROVE  /\ z.state = INIT /\ z.data = NoByte /\ z.parity = 1
               /\ z.inhibit = 0 /\ z.accepted = Append(r.accepted, r.data)
               /\ z.error = r.error /\ z.errState = 0
    <2>1. z = Done(Accept(q))
      BY <1>4, <1>6, <1>12 DEF Switch
    <2> DEFINE a == Accept(q)
    <2>2. /\ a \in Receiver /\ a.error = q.error /\ a.errState = q.errState
      BY <1>2, AcceptTyped DEF Accept, Receiver
    <2>3. a.accepted = Append(q.accepted, q.data)
      BY <1>2 DEF Accept, Receiver
    <2> HIDE DEF a
    <2>4. z = Done(a)
      BY <2>1 DEF a
    <2> QED  BY <1>2, <1>3, <1>12, <2>2, <2>3, <2>4 DEF Receiver, Done, NoByte
  <1> QED
    BY <1>1, <1>2, <1>5, <1>7, <1>8, <1>9, <1>10, <1>11, <1>12 DEF z, s, Taken

\* A receiver and what is seen of it advance alike.
LEMMA ViewAdvances ==
  ASSUME NEW r \in Receiver, NEW bit \in Bit
  PROVE  /\ Advance(View(r), bit) = View(handleBit(r, bit))
         /\ Advance(View(r), bit) \in Receiver
  <1> DEFINE v == View(r)
             q == handleBit(r, bit)
             w == handleBit(v, bit)
  <1>1. /\ v \in Receiver /\ v.state = r.state /\ v.data = r.data /\ v.parity = r.parity
        /\ v.inhibit = r.inhibit /\ v.error = r.error /\ v.errState = r.errState
        /\ v.accepted = r.accepted /\ r.errState \in {0, 1}
    BY ViewTyped DEF Receiver, Bit
  <1>2. Rejects(v, v.state + 1, bit) <=> Rejects(r, r.state + 1, bit)
    BY <1>1 DEF Rejects
  <1>3. Taken(r, bit, q)
    BY HandleBitCases
  <1>4. Taken(v, bit, w)
    BY <1>1, HandleBitCases
  <1>5. /\ w.state = q.state /\ w.data = q.data /\ w.parity = q.parity
        /\ w.inhibit = q.inhibit /\ w.error = q.error /\ w.errState = q.errState
        /\ w.accepted = q.accepted
    <2> HIDE DEF v, q, w
    <2>1. CASE r.errState = 1
      BY <1>1, <1>3, <1>4, <2>1 DEF Taken
    <2>2. CASE r.errState = 0 /\ Rejects(r, r.state + 1, bit)
      BY <1>1, <1>2, <1>3, <1>4, <2>2 DEF Taken
    <2>3. CASE r.errState = 0 /\ ~Rejects(r, r.state + 1, bit)
      <3> DEFINE s == r.state + 1
      <3>1. s = START \/ s \in BIT0 .. BIT7 \/ s = PARITY \/ s = STOP
        BY <1>3, <2>3 DEF Taken
      <3>2. CASE s = START
        BY <1>1, <1>2, <1>3, <1>4, <2>3, <3>2 DEF Taken
      <3>3. CASE s \in BIT0 .. BIT7
        BY <1>1, <1>2, <1>3, <1>4, <2>3, <3>3 DEF Taken
      <3>4. CASE s = PARITY
        BY <1>1, <1>2, <1>3, <1>4, <2>3, <3>4 DEF Taken
      <3>5. CASE s = STOP
        BY <1>1, <1>2, <1>3, <1>4, <2>3, <3>5 DEF Taken
      <3> QED  BY <3>1, <3>2, <3>3, <3>4, <3>5
    <2> QED  BY <1>1, <2>1, <2>2, <2>3
  <1>6. q \in Receiver /\ w \in Receiver
    BY <1>1, HandleBitTyped
  <1>7. View(w) = View(q)
    <2> HIDE DEF v, q, w
    <2> QED  BY <1>5, <1>6, SameView
  <1> QED  BY <1>6, <1>7, ViewTyped DEF Advance

Views == {r \in Receiver : View(r) = r}

LEMMA ViewIn ==
  ASSUME NEW r \in Receiver
  PROVE  View(r) \in Views
  BY ViewTyped DEF Views

\* Views are told apart by what they show.
LEMMA EqualViews ==
  ASSUME NEW v \in Views, NEW w \in Views,
         w.state = v.state, w.data = v.data, w.parity = v.parity, w.inhibit = v.inhibit,
         w.error = v.error, w.errState = v.errState, w.accepted = v.accepted
  PROVE  v = w
  <1>1. v \in Receiver /\ w \in Receiver /\ View(v) = v /\ View(w) = w
    BY DEF Views
  <1>2. View(v) = View(w)
    BY <1>1, SameView
  <1> QED  BY <1>1, <1>2

LEMMA AdvanceCases ==
  ASSUME NEW v \in Views, NEW bit \in Bit
  PROVE  Advance(v, bit) \in Views /\ Taken(v, bit, Advance(v, bit))
  <1> DEFINE q == handleBit(v, bit)
             w == Advance(v, bit)
  <1>1. v \in Receiver /\ View(v) = v
    BY DEF Views
  <1>2. q \in Receiver /\ Taken(v, bit, q) /\ w = View(q)
    BY <1>1, HandleBitCases DEF Advance
  <1>3. /\ w.state = q.state /\ w.data = q.data /\ w.parity = q.parity
        /\ w.inhibit = q.inhibit /\ w.error = q.error /\ w.errState = q.errState
        /\ w.accepted = q.accepted /\ w \in Views
    BY <1>2, ViewTyped, ViewIn
  <1> HIDE DEF q, w
  <1>4. CASE v.errState = 1
    <2>1. w = v
      BY <1>1, <1>2, <1>4 DEF Taken
    <2> QED  BY <1>3, <1>4, <2>1 DEF Taken, w
  <1>5. CASE v.errState # 1
    <2>1. Taken(v, bit, w)
      BY <1>2, <1>3, <1>5 DEF Taken
    <2> QED  BY <1>3, <2>1 DEF w
  <1> QED  BY <1>4, <1>5

LEMMA OnesCounted ==
  ASSUME NEW b \in ByteBits
  PROVE  /\ Ones(b, 0) = 0
         /\ \A k \in 0 .. 8 : Ones(b, k) \in Nat
         /\ \A k \in 0 .. 7 : Ones(b, k + 1) = Ones(b, k) + b[k + 1]
  <1> DEFINE S(k) == {i \in 1 .. k : b[i] = 1}
  <1>0. b \in [1 .. 8 -> Bit]
    BY DEF ByteBits
  <1>1. \A k \in 0 .. 8 : IsFiniteSet(S(k))
    <2> SUFFICES ASSUME NEW k \in 0 .. 8 PROVE IsFiniteSet(S(k))  OBVIOUS
    <2>0. k \in Int /\ 1 \in Int
      OBVIOUS
    <2>1. IsFiniteSet(1 .. k)
      BY <2>0, FS_Interval
    <2> QED  BY <2>1, FS_Subset
  <1>2. \A k \in 0 .. 8 : Cardinality(S(k)) \in Nat
    BY <1>1, FS_CardinalityType
  <1>3. Cardinality(S(0)) = 0
    <2>1. S(0) = {}
      OBVIOUS
    <2> QED  BY <2>1, FS_EmptySet
  <1>4. ASSUME NEW k \in 0 .. 7
        PROVE  Cardinality(S(k + 1)) = Cardinality(S(k)) + b[k + 1]
    <2>1. k \in 0 .. 8 /\ k + 1 \in 1 .. 8
      OBVIOUS
    <2>2. CASE b[k + 1] = 1
      <3>1. S(k + 1) = S(k) \cup {k + 1} /\ k + 1 \notin S(k)
        BY <2>2
      <3>2. Cardinality(S(k) \cup {k + 1}) = Cardinality(S(k)) + 1
        <4> HIDE DEF S
        <4> QED  BY <1>1, <2>1, <3>1, FS_AddElement
      <3> QED  BY <2>2, <3>1, <3>2
    <2>3. CASE b[k + 1] = 0
      <3>1. S(k + 1) = S(k)
        BY <2>3
      <3>2. Cardinality(S(k)) \in Nat
        BY <1>2, <2>1
      <3> HIDE DEF S
      <3> QED  BY <2>3, <3>1, <3>2
    <2> QED  BY <1>0, <2>1, <2>2, <2>3 DEF Bit
  <1> QED  BY <1>2, <1>3, <1>4 DEF Ones

\* What is on the wire, bit by bit.
LEMMA FrameBits ==
  ASSUME NEW b \in ByteBits
  PROVE  /\ Frame(b)[1] = 0 /\ Frame(b)[10] = ParityOf(b) /\ Frame(b)[11] = 1
         /\ \A k \in 1 .. 8 : Frame(b)[k + 1] = b[k]
         /\ Len(Frame(b)) = 11 /\ Frame(b) \in Seq(Bit)
         /\ ParityOf(b) \in Bit
  <1>1. Frame(b) = <<0, b[1], b[2], b[3], b[4], b[5], b[6], b[7], b[8], ParityOf(b), 1>>
    BY DEF Frame
  <1>2. /\ Frame(b)[1] = 0 /\ Frame(b)[10] = ParityOf(b) /\ Frame(b)[11] = 1
        /\ Len(Frame(b)) = 11
    BY <1>1
  <1>3. \A k \in 1 .. 8 : Frame(b)[k + 1] = b[k]
    BY <1>1
  <1>4. ParityOf(b) \in Bit
    <2>0. 8 \in 0 .. 8
      OBVIOUS
    <2>1. ParityOf(b) = (1 + Ones(b, 8)) % 2 /\ Ones(b, 8) \in Nat
      BY <2>0, OnesCounted DEF ParityOf, Ones
    <2>2. \A m \in Nat : (1 + m) % 2 \in {0, 1}
      OBVIOUS
    <2> QED  BY <2>1, <2>2 DEF Bit
  <1>5. Frame(b) \in Seq(Bit)
    <2>1. \A k \in 1 .. 8 : b[k] \in Bit
      BY DEF ByteBits
    <2> QED  BY <1>1, <1>4, <2>1 DEF Bit
  <1> QED  BY <1>2, <1>3, <1>4, <1>5

\* A stand of the receiver is a view.
LEMMA StandTyped ==
  ASSUME NEW a \in Seq(ByteBits), NEW b \in ByteBits, NEW n \in INIT .. PARITY
  PROVE  /\ Stand(a, b, n) \in Views
         /\ Stand(a, b, n).state = n /\ Stand(a, b, n).data = DataAt(b, n)
         /\ Stand(a, b, n).parity = ParityAt(b, n) /\ Stand(a, b, n).inhibit = InhibitAt(n)
         /\ Stand(a, b, n).error = 0 /\ Stand(a, b, n).errState = 0
         /\ Stand(a, b, n).accepted = a
  <1> DEFINE v == Stand(a, b, n)
  <1>1. DataBits(n) \in 0 .. 8
    BY DEF DataBits
  <1>2. DataAt(b, n) \in ByteBits
    BY <1>1 DEF DataAt, ByteBits, Bit
  <1>3. ParityAt(b, n) \in Bit
    <2>1. Ones(b, DataBits(n)) \in Nat
      BY <1>1, OnesCounted
    <2>2. \A m \in Nat : (1 + m) % 2 \in {0, 1}
      OBVIOUS
    <2> QED  BY <2>1, <2>2 DEF Bit, ParityAt
  <1>4. InhibitAt(n) \in Bit /\ 0 \in Bit
    BY DEF Bit, InhibitAt
  <1>5. v = [Idle EXCEPT !.state = n, !.data = DataAt(b, n), !.parity = ParityAt(b, n),
                         !.inhibit = InhibitAt(n), !.accepted = a]
    BY DEF Stand
  <1> HIDE DEF v
  <1>6. v = [state |-> n, data |-> DataAt(b, n), parity |-> ParityAt(b, n),
             inhibit |-> InhibitAt(n), error |-> 0,
             errState |-> 0, pbuf |-> <<>>, accepted |-> a, dropped |-> FALSE]
    BY <1>5 DEF Idle
  <1>7. <<>> \in Seq(ByteBits)
    BY EmptySeq
  <1>8. v \in Receiver
    BY <1>2, <1>3, <1>4, <1>6, <1>7 DEF Receiver
  <1>9. /\ v.state = n /\ v.data = DataAt(b, n) /\ v.parity = ParityAt(b, n)
        /\ v.inhibit = InhibitAt(n) /\ v.error = 0 /\ v.errState = 0 /\ v.accepted = a
        /\ v.pbuf = <<>> /\ v.dropped = FALSE
    BY <1>6
  <1>10. View(v) = v
    BY <1>8, <1>9 DEF View, Receiver
  <1> QED  BY <1>8, <1>9, <1>10 DEF Views, v

\* The next bit of the frame takes the receiver on by one.
LEMMA StandAdvances ==
  ASSUME NEW a \in Seq(ByteBits), NEW b \in ByteBits, NEW n \in INIT .. BIT7
  PROVE  Advance(Stand(a, b, n), Frame(b)[n + 1]) = Stand(a, b, n + 1)
  <1> DEFINE v == Stand(a, b, n)
             bit == Frame(b)[n + 1]
             w == Advance(v, bit)
             z == Stand(a, b, n + 1)
  <1>0. n \in INIT .. PARITY /\ n + 1 \in INIT .. PARITY /\ n + 1 \in 1 .. 11
    OBVIOUS
  <1>1. bit \in Bit
    BY <1>0, FrameBits, ElementOfSeq
  <1>2. /\ v \in Views /\ v.state = n /\ v.data = DataAt(b, n) /\ v.parity = ParityAt(b, n)
        /\ v.inhibit = InhibitAt(n) /\ v.error = 0 /\ v.errState = 0 /\ v.accepted = a
    BY <1>0, StandTyped
  <1>3. /\ z \in Views /\ z.state = n + 1 /\ z.data = DataAt(b, n + 1)
        /\ z.parity = ParityAt(b, n + 1) /\ z.inhibit = InhibitAt(n + 1)
        /\ z.error = 0 /\ z.errState = 0 /\ z.accepted = a
    BY <1>0, StandTyped
  <1>4. w \in Views /\ Taken(v, bit, w)
    BY <1>1, <1>2, AdvanceCases
  <1>5. CASE n = INIT
    <2>1. /\ bit = 0 /\ DataAt(b, n) = DataAt(b, n + 1) /\ ParityAt(b, n) = ParityAt(b, n + 1)
          /\ InhibitAt(n + 1) = 1
      <3>1. DataBits(n) = 0 /\ DataBits(n + 1) = 0
        BY <1>5 DEF DataBits
      <3> QED  BY <1>5, <3>1, FrameBits DEF DataAt, ParityAt, InhibitAt
    <2> HIDE DEF v, w, z, bit
    <2>2. ~Rejects(v, v.state + 1, bit)
      BY <1>2, <1>5, <2>1 DEF Rejects
    <2>3. /\ w.state = z.state /\ w.data = z.data /\ w.parity = z.parity
          /\ w.inhibit = z.inhibit /\ w.error = z.error /\ w.errState = z.errState
          /\ w.accepted = z.accepted
      BY <1>2, <1>3, <1>4, <1>5, <2>1, <2>2 DEF Taken
    <2>4. w = z
      BY <1>3, <1>4, <2>3, EqualViews
    <2> QED  BY <2>4 DEF w, z, v, bit
  <1>6. CASE n \in START .. BIT7 - 1
    <2>1. bit = b[n] /\ DataBits(n) = n - 1 /\ DataBits(n + 1) = n
      <3>1. n \in 1 .. 8
        BY <1>6
      <3>2. bit = b[n]
        BY <3>1, FrameBits
      <3> QED  BY <1>6, <3>2 DEF DataBits
    <2>2. /\ Ones(b, n) = Ones(b, n - 1) + b[n]
          /\ Ones(b, n - 1) \in Nat /\ b[n] \in Bit
      <3>1. n - 1 \in 0 .. 7 /\ n - 1 \in 0 .. 8 /\ (n - 1) + 1 = n /\ n \in 1 .. 8
        BY <1>6
      <3>2. Ones(b, (n - 1) + 1) = Ones(b, n - 1) + b[(n - 1) + 1]
        BY <3>1, OnesCounted
      <3> QED  BY <3>1, <3>2, OnesCounted DEF ByteBits
    <2> HIDE DEF v, w, z, bit
    <2>3. ~Rejects(v, v.state + 1, bit) /\ v.state + 1 \in BIT0 .. BIT7
      BY <1>2, <1>6 DEF Rejects
    <2>4. w.data = Shift(v.data, bit) /\ w.parity = CountOne(v.parity, bit)
      BY <1>2, <1>4, <2>3 DEF Taken
    <2>5. w.data = z.data
      <3>1. \A i \in 1 .. 8 : DataAt(b, n + 1)[i] = IF i > 8 - n THEN b[i - (8 - n)] ELSE 0
        BY <2>1 DEF DataAt
      <3>2. \A i \in 1 .. 8 : DataAt(b, n)[i] = IF i > 9 - n THEN b[i - (9 - n)] ELSE 0
        <4>1. 8 - DataBits(n) = 9 - n
          BY <1>6, <2>1
        <4> QED  BY <4>1 DEF DataAt
      <3>3. \A i \in 1 .. 8 :
              (IF i = 8 THEN bit ELSE DataAt(b, n)[i + 1]) = DataAt(b, n + 1)[i]
        <4> SUFFICES ASSUME NEW i \in 1 .. 8
                     PROVE  (IF i = 8 THEN bit ELSE DataAt(b, n)[i + 1]) = DataAt(b, n + 1)[i]
          OBVIOUS
        <4>1. CASE i = 8
          <5>1. DataAt(b, n + 1)[i] = IF i > 8 - n THEN b[i - (8 - n)] ELSE 0
            BY <3>1
          <5>2. i > 8 - n /\ i - (8 - n) = n
            BY <1>6, <4>1
          <5> QED  BY <2>1, <4>1, <5>1, <5>2
        <4>2. CASE i # 8
          <5>1. i + 1 \in 1 .. 8 /\ (i + 1 > 9 - n <=> i > 8 - n)
                /\ (i + 1) - (9 - n) = i - (8 - n)
            BY <1>6, <4>2
          <5>2. DataAt(b, n)[i + 1] = IF i + 1 > 9 - n THEN b[(i + 1) - (9 - n)] ELSE 0
            BY <3>2, <5>1
          <5>3. DataAt(b, n + 1)[i] = IF i > 8 - n THEN b[i - (8 - n)] ELSE 0
            BY <3>1
          <5> QED  BY <4>2, <5>1, <5>2, <5>3
        <4> QED  BY <4>1, <4>2
      <3>4. w.data = [i \in 1 .. 8 |-> IF i = 8 THEN bit ELSE DataAt(b, n)[i + 1]]
        BY <1>2, <2>4 DEF Shift
      <3>5. w.data = [i \in 1 .. 8 |-> DataAt(b, n + 1)[i]]
        BY <3>3, <3>4
      <3> QED  BY <1>3, <3>5 DEF DataAt
    <2>6. w.parity = z.parity
      <3>1. \A m \in Nat, c \in Bit : (((1 + m) % 2) + c) % 2 = (1 + (m + c)) % 2
        BY DEF Bit
      <3> QED  BY <1>2, <1>3, <2>1, <2>2, <2>4, <3>1 DEF CountOne, ParityAt
    <2>7. /\ w.state = z.state /\ w.inhibit = z.inhibit /\ w.error = z.error
          /\ w.errState = z.errState /\ w.accepted = z.accepted
      BY <1>2, <1>3, <1>4, <1>6, <2>3 DEF Taken, InhibitAt
    <2>8. w = z
      BY <1>3, <1>4, <2>5, <2>6, <2>7, EqualViews
    <2> QED  BY <2>8 DEF w, z, v, bit
  <1>7. CASE n = BIT7
    <2>1. /\ bit = ParityAt(b, n) /\ DataAt(b, n) = DataAt(b, n + 1)
          /\ ParityAt(b, n) = ParityAt(b, n + 1) /\ InhibitAt(n) = 1 /\ InhibitAt(n + 1) = 1
      <3>1. DataBits(n) = 8 /\ DataBits(n + 1) = 8
        BY <1>7 DEF DataBits
      <3>2. bit = ParityOf(b)
        BY <1>7, FrameBits
      <3>3. ParityOf(b) = ParityAt(b, n)
        BY <3>1 DEF ParityAt, ParityOf, Ones
      <3> QED  BY <1>7, <3>1, <3>2, <3>3 DEF DataAt, ParityAt, InhibitAt
    <2>2. bit = v.parity
      BY <1>2, <2>1
    <2> HIDE DEF v, w, z, bit
    <2>3. ~Rejects(v, v.state + 1, bit) /\ v.state + 1 = PARITY
      BY <1>2, <1>7, <2>2 DEF Rejects
    <2>4. /\ w.state = z.state /\ w.data = z.data /\ w.parity = z.parity
          /\ w.inhibit = z.inhibit /\ w.error = z.error /\ w.errState = z.errState
          /\ w.accepted = z.accepted
      BY <1>2, <1>3, <1>4, <1>7, <2>1, <2>3 DEF Taken
    <2>5. w = z
      BY <1>3, <1>4, <2>4, EqualViews
    <2> QED  BY <2>5 DEF w, z, v, bit
  <1> QED  BY <1>5, <1>6, <1>7

\* Before a frame.
LEMMA StandInit ==
  ASSUME NEW e \in Seq(ByteBits), NEW d \in ByteBits
  PROVE  /\ Stand(e, d, INIT) \in Views /\ Stand(e, d, INIT).state = INIT
         /\ Stand(e, d, INIT).data = NoByte /\ Stand(e, d, INIT).parity = 1
         /\ Stand(e, d, INIT).inhibit = 0 /\ Stand(e, d, INIT).error = 0
         /\ Stand(e, d, INIT).errState = 0 /\ Stand(e, d, INIT).accepted = e
  <1>1. INIT \in INIT .. PARITY /\ DataBits(INIT) = 0
    BY DEF DataBits
  <1>2. DataAt(d, INIT) = NoByte
    BY <1>1 DEF DataAt, NoByte
  <1>3. Ones(d, 0) = 0
    BY OnesCounted
  <1>4. ParityAt(d, INIT) = 1 /\ InhibitAt(INIT) = 0
    BY <1>1, <1>3 DEF ParityAt, InhibitAt
  <1> QED  BY <1>1, <1>2, <1>4, StandTyped

\* The stop bit completes the byte; where the receiver stands before a frame
\* does not depend on the frame.
LEMMA StandCompletes ==
  ASSUME NEW a \in Seq(ByteBits), NEW b \in ByteBits, NEW c \in ByteBits
  PROVE  /\ Advance(Stand(a, b, PARITY), 1) = Stand(Append(a, b), c, INIT)
         /\ Stand(a, b, INIT) = Stand(a, c, INIT)
  <1> DEFINE v == Stand(a, b, PARITY)
             w == Advance(v, 1)
             z == Stand(Append(a, b), c, INIT)
  <1>0. 1 \in Bit /\ Append(a, b) \in Seq(ByteBits)
    BY AppendProperties DEF Bit
  <1>1. PARITY \in INIT .. PARITY
    OBVIOUS
  <1>2. DataBits(PARITY) = 8
    BY DEF DataBits
  <1>3. v \in Views /\ v.state = PARITY /\ v.error = 0 /\ v.errState = 0 /\ v.accepted = a
    BY <1>1, StandTyped
  <1>4. v.data = b
    <2>1. v.data = [i \in 1 .. 8 |->
                      IF i > 8 - DataBits(PARITY) THEN b[i - (8 - DataBits(PARITY))] ELSE 0]
      <3>1. v.data = DataAt(b, PARITY)
        BY <1>1, StandTyped
      <3> QED  BY <3>1 DEF DataAt
    <2>2. \A i \in 1 .. 8 : i > 8 - 8 /\ i - (8 - 8) = i
      OBVIOUS
    <2>3. v.data = [i \in 1 .. 8 |-> b[i]]
      BY <1>2, <2>1, <2>2
    <2> QED  BY <2>3 DEF ByteBits
  <1>5. w \in Views /\ Taken(v, 1, w)
    BY <1>0, <1>3, AdvanceCases
  <1>6. /\ z \in Views /\ z.state = INIT /\ z.data = NoByte /\ z.parity = 1
        /\ z.inhibit = 0 /\ z.error = 0 /\ z.errState = 0 /\ z.accepted = Append(a, b)
    BY <1>0, StandInit
  <1>7. w = z
    <2> HIDE DEF v, w, z
    <2>1. ~Rejects(v, v.state + 1, 1) /\ v.state + 1 = STOP
      BY <1>3 DEF Rejects
    <2>2. /\ w.state = z.state /\ w.data = z.data /\ w.parity = z.parity
          /\ w.inhibit = z.inhibit /\ w.error = z.error /\ w.errState = z.errState
          /\ w.accepted = z.accepted
      BY <1>3, <1>4, <1>5, <1>6, <2>1 DEF Taken
    <2> QED  BY <1>5, <1>6, <2>2, EqualViews
  <1>8. Stand(a, b, INIT) = Stand(a, c, INIT)
    <2>1. /\ Stand(a, b, INIT) \in Views /\ Stand(a, b, INIT).state = INIT
          /\ Stand(a, b, INIT).data = NoByte /\ Stand(a, b, INIT).parity = 1
          /\ Stand(a, b, INIT).inhibit = 0 /\ Stand(a, b, INIT).error = 0
          /\ Stand(a, b, INIT).errState = 0 /\ Stand(a, b, INIT).accepted = a
      BY StandInit
    <2>2. /\ Stand(a, c, INIT) \in Views /\ Stand(a, c, INIT).state = INIT
          /\ Stand(a, c, INIT).data = NoByte /\ Stand(a, c, INIT).parity = 1
          /\ Stand(a, c, INIT).inhibit = 0 /\ Stand(a, c, INIT).error = 0
          /\ Stand(a, c, INIT).errState = 0 /\ Stand(a, c, INIT).accepted = a
      BY StandInit
    <2> QED  BY <2>1, <2>2, EqualViews
  <1> QED  BY <1>7, <1>8
=============================================================================
