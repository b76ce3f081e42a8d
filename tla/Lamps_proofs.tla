---------------------------- MODULE Lamps_proofs ----------------------------
(***************************************************************************)
(* The timer that looks for a sleeping host, for every window, every size  *)
(* of the token counter and every number of tokens in a period: a host     *)
(* that polls is not taken for one that sleeps, and the diode is dark only *)
(* at the beginning of a suspend.                                          *)
(***************************************************************************)
EXTENDS Lamps, TLAPS

\* The tokens that were counted, as long as the counter has not overflown; and from
\* the first period of a window on, those of the last period are among them.
Counted ==
  /\ bus.total < CounterSize => timer.inTokenRec = bus.total
  /\ timer.looking => timer.count = 0
  /\ timer.count > 0 => bus.tokens <= bus.total \/ bus.total = CounterSize

IInv == TypeOK /\ Counted /\ NotSuspendedWhilePolled /\ LightComesBack

\* The types of the parts that steps share.
LEMMA ChangeTyped ==
  ASSUME NEW S, NEW s \in SUBSET S, NEW t \in SUBSET S
  PROVE  Change(s, t) \in SUBSET S
  BY DEF Change

\* What is noted is an accident.
LEMMA AccidentTyped ==
  ASSUME NEW S, NEW name \in S, NEW happened
  PROVE  Accident(name, happened) \in SUBSET S
  BY DEF Accident

\* A remainder is within the divisor, and a smaller number its own.
LEMMA ModIs ==
  ASSUME NEW n \in Nat, NEW m \in Nat, m > 0
  PROVE  /\ n % m \in 0 .. m - 1
         /\ n < m => n % m = n
  OBVIOUS

\* The invariant holds when the program starts.
LEMMA InitIInv == Init => IInv
  <1> SUFFICES ASSUME Init
               PROVE  IInv
    OBVIOUS
  <1>1. timer \in TimerType /\ bus \in BusType /\ hist \in HistoryType
    BY LampsAssumption DEF Init, TimerType, BusType, HistoryType
  <1>2. TypeOK
    BY <1>1 DEF Init, TypeOK
  <1>3. Counted /\ NotSuspendedWhilePolled /\ LightComesBack
    BY DEF Init, Counted, NotSuspendedWhilePolled, LightComesBack
  <1> QED  BY <1>2, <1>3 DEF IInv

\* Steps that touch neither the timer nor the count of tokens.
LEMMA OtherSteps ==
  ASSUME IInv, timer' = timer, bus' = bus, hist' \in HistoryType,
         hist.accidents \subseteq hist'.accidents,
         hist'.accidents \subseteq hist.accidents \cup {"again", "evened", "masked"}
  PROVE  /\ timer' \in TimerType /\ bus' \in BusType
         /\ Counted' /\ NotSuspendedWhilePolled' /\ LightComesBack'
  BY DEF IInv, TypeOK, Counted, NotSuspendedWhilePolled, LightComesBack

-----------------------------------------------------------------------------
(* The timer.                                                              *)

\* A token is counted, here and in eight bits.
LEMMA TokenStep ==
  ASSUME IInv, Token
  PROVE  IInv'
  <1> DEFINE total == bus.total + 1
  <1>1. /\ bus \in BusType /\ timer \in TimerType /\ TypeOK
        /\ UNCHANGED <<keyboard, leds, host, hist>>
        /\ bus.tokens \in Nat /\ bus.tokens < TokensPerTick /\ bus.total \in 0 .. CounterSize
        /\ timer.inTokenRec \in Nat /\ timer.inTokenRec < CounterSize
        /\ CounterSize \in Nat /\ CounterSize > 0 /\ TokensPerTick \in Nat
    BY LampsAssumption DEF IInv, TypeOK, Token, BusType, TimerType
  <1>2. /\ timer' = [timer EXCEPT !.inTokenRec = (timer.inTokenRec + 1) % CounterSize]
        /\ bus' = [bus EXCEPT !.tokens = bus.tokens + 1, !.total = Least(bus.total + 1, CounterSize)]
    BY DEF Token
  <1>3. (timer.inTokenRec + 1) % CounterSize \in 0 .. CounterSize - 1
    <2>1. timer.inTokenRec + 1 \in Nat
      BY <1>1
    <2> QED  BY <1>1, <2>1, ModIs
  <1>4. Least(bus.total + 1, CounterSize) \in 0 .. CounterSize
        /\ bus.tokens + 1 \in 0 .. TokensPerTick
    BY <1>1 DEF Least
  <1>5. timer' \in TimerType /\ bus' \in BusType
    BY <1>1, <1>2, <1>3, <1>4 DEF TimerType, BusType
  <1>6. TypeOK'
    BY <1>1, <1>5 DEF TypeOK, keyboard, leds
  <1>7. /\ timer'.inTokenRec = (timer.inTokenRec + 1) % CounterSize
        /\ timer'.count = timer.count /\ timer'.looking = timer.looking
        /\ timer'.light = timer.light /\ timer'.suspendMode = timer.suspendMode
        /\ bus'.tokens = bus.tokens + 1 /\ bus'.total = Least(bus.total + 1, CounterSize)
    BY <1>1, <1>2 DEF TimerType, BusType
  <1>8. bus'.total < CounterSize => timer'.inTokenRec = bus'.total
    <2> SUFFICES ASSUME bus'.total < CounterSize
                 PROVE  timer'.inTokenRec = bus'.total
      OBVIOUS
    <2>1. bus.total + 1 < CounterSize /\ bus'.total = bus.total + 1
      BY <1>1, <1>7 DEF Least
    <2>2. timer.inTokenRec = bus.total
      BY <1>1, <2>1 DEF IInv, Counted
    <2>3. (bus.total + 1) % CounterSize = bus.total + 1
      BY <1>1, <2>1, ModIs
    <2> QED  BY <1>7, <2>1, <2>2, <2>3
  <1>9. timer'.count > 0 => bus'.tokens <= bus'.total \/ bus'.total = CounterSize
    BY <1>1, <1>7 DEF Least, IInv, Counted
  <1>10. Counted'
    BY <1>7, <1>8, <1>9 DEF IInv, Counted
  <1>11. NotSuspendedWhilePolled' /\ LightComesBack'
    BY <1>1, <1>7 DEF IInv, NotSuspendedWhilePolled, LightComesBack
  <1> QED  BY <1>6, <1>10, <1>11 DEF IInv

\* A new period has no tokens.
LEMMA PeriodTyped ==
  ASSUME bus \in BusType, PeriodBegins
  PROVE  bus' \in BusType /\ bus'.tokens = 0 /\ bus'.total = bus.total
  <1>1. 0 \in 0 .. TokensPerTick /\ (bus.state = "awake") \in BOOLEAN
    BY LampsAssumption
  <1> QED  BY <1>1 DEF PeriodBegins, BusType

\* A period that ends without a look.
LEMMA CountStep ==
  ASSUME IInv, Count
  PROVE  IInv'
  <1>1. /\ bus \in BusType /\ timer \in TimerType /\ TypeOK
        /\ UNCHANGED <<keyboard, leds, host, hist>>
        /\ timer.count \in Nat /\ timer.count < Window /\ ~timer.looking
        /\ bus.total \in Nat /\ Window \in Nat /\ TokensPerTick \in Nat /\ LightAfter \in Nat
    BY LampsAssumption DEF IInv, TypeOK, Count, Due, BusType, TimerType
  <1> DEFINE light == IF timer.count + 1 = LightAfter /\ timer.suspendMode = 1 THEN 1 ELSE timer.light
  <1>2. /\ timer' = [timer EXCEPT !.count = timer.count + 1, !.light = light]
        /\ PeriodBegins
    BY DEF Count
  <1>3. light \in {0, 1} /\ timer.count + 1 \in 0 .. Window
    BY <1>1 DEF TimerType
  <1>4. /\ timer' \in TimerType /\ timer'.count = timer.count + 1 /\ timer'.light = light
        /\ timer'.looking = timer.looking /\ timer'.suspendMode = timer.suspendMode
        /\ timer'.inTokenRec = timer.inTokenRec
    <2> HIDE DEF light
    <2> QED  BY <1>1, <1>2, <1>3 DEF TimerType
  <1>5. bus' \in BusType /\ bus'.tokens = 0 /\ bus'.total = bus.total
    BY <1>1, <1>2, PeriodTyped
  <1>6. TypeOK'
    BY <1>1, <1>4, <1>5 DEF TypeOK, keyboard, leds
  <1>7. Counted'
    BY <1>1, <1>4, <1>5 DEF IInv, Counted
  <1>8. NotSuspendedWhilePolled'
    BY <1>1 DEF IInv, NotSuspendedWhilePolled
  <1>9. LightComesBack'
    <2> SUFFICES ASSUME light = 0, "dark" \notin hist.accidents
                 PROVE  timer.suspendMode = 1 /\ timer.count + 1 < LightAfter
      BY <1>1, <1>4 DEF LightComesBack
    <2>1. timer.light = 0
      OBVIOUS
    <2>2. timer.suspendMode = 1 /\ timer.count < LightAfter
      BY <2>1 DEF IInv, LightComesBack
    <2>3. timer.count + 1 # LightAfter
      BY <2>2
    <2> QED  BY <1>1, <2>2, <2>3
  <1> QED  BY <1>6, <1>7, <1>8, <1>9 DEF IInv

\* A look: had the host polled, the tokens of the last period would have been counted.
LEMMA LookStep ==
  ASSUME IInv, Look
  PROVE  IInv'
  <1>1. /\ bus \in BusType /\ timer \in TimerType /\ TypeOK
        /\ UNCHANGED <<keyboard, leds, host>> /\ PeriodBegins
        /\ timer.count = Window /\ ~timer.looking /\ (bus.whole => bus.tokens > 0)
        /\ bus.total \in Nat /\ bus.tokens \in Nat /\ Window \in Nat /\ Window > 0
        /\ LightAfter \in Nat /\ LightAfter > 0 /\ LightAfter <= Window /\ CounterSize \in Nat
    BY LampsAssumption DEF IInv, TypeOK, Look, Due, BusType, TimerType
  <1> DEFINE light == IF timer.inTokenRec = 0 THEN 0 ELSE timer.light
             mode == IF timer.inTokenRec = 0 THEN 1 ELSE 0
             misjudged == timer.inTokenRec = 0 /\ bus.whole /\ bus.total < CounterSize
  <1>2. timer' = [timer EXCEPT !.count = 0, !.looking = TRUE, !.suspendMode = mode, !.light = light]
    BY DEF Look
  <1>3. light \in {0, 1} /\ mode \in {0, 1} /\ 0 \in 0 .. Window
    BY <1>1 DEF TimerType
  <1>4. /\ timer' \in TimerType /\ timer'.count = 0 /\ timer'.light = light
        /\ timer'.suspendMode = mode /\ timer'.inTokenRec = timer.inTokenRec
    <2> HIDE DEF light, mode
    <2> QED  BY <1>1, <1>2, <1>3 DEF TimerType
  <1>5. bus' \in BusType /\ bus'.total = bus.total
    BY <1>1, PeriodTyped
  <1>6. ~misjudged
    <2> SUFFICES ASSUME misjudged
                 PROVE  FALSE
      OBVIOUS
    <2>1. bus.tokens > 0 /\ timer.inTokenRec = 0 /\ bus.total < CounterSize
      BY <1>1
    <2>2. timer.inTokenRec = bus.total /\ bus.tokens <= bus.total
      BY <1>1, <2>1 DEF IInv, Counted
    <2> QED  BY <1>1, <2>1, <2>2
  <1>7. hist' = hist
    <2>1. hist' = [hist EXCEPT !.accidents = hist.accidents \cup Accident("misjudged", misjudged)]
      BY DEF Look
    <2>2. Accident("misjudged", misjudged) = {}
      BY <1>6 DEF Accident
    <2>3. hist \in HistoryType
      BY <1>1 DEF TypeOK
    <2> HIDE DEF misjudged
    <2> QED  BY <2>1, <2>2, <2>3 DEF HistoryType
  <1>8. TypeOK'
    BY <1>1, <1>4, <1>5, <1>7 DEF TypeOK, keyboard, leds
  <1>9. Counted'
    BY <1>4, <1>5 DEF IInv, Counted
  <1>10. NotSuspendedWhilePolled'
    BY <1>7 DEF IInv, NotSuspendedWhilePolled
  <1>11. LightComesBack'
    <2> SUFFICES ASSUME light = 0, "dark" \notin hist.accidents
                 PROVE  mode = 1 /\ 0 < LightAfter
      BY <1>4, <1>7 DEF LightComesBack
    <2>1. CASE timer.inTokenRec # 0
      <3>1. timer.count < LightAfter
        BY <2>1 DEF IInv, LightComesBack
      <3> QED  BY <1>1, <3>1
    <2> QED  BY <1>1, <2>1
  <1> QED  BY <1>8, <1>9, <1>10, <1>11 DEF IInv

\* The counter is cleared: after a look, and when a command has been sent.
LEMMA ForgetStep ==
  ASSUME IInv, Forget
  PROVE  IInv'
  <1>1. /\ bus \in BusType /\ timer \in TimerType /\ TypeOK
        /\ UNCHANGED <<keyboard, leds, host, hist>>
        /\ timer.count = 0 /\ 0 \in 0 .. CounterSize - 1 /\ 0 \in 0 .. CounterSize
    BY LampsAssumption DEF IInv, TypeOK, Counted, Forget
  <1>2. /\ timer' = [timer EXCEPT !.looking = FALSE, !.inTokenRec = 0]
        /\ bus' = [bus EXCEPT !.total = 0]
    BY DEF Forget
  <1>3. /\ timer' \in TimerType /\ timer'.inTokenRec = 0 /\ timer'.count = 0 /\ ~timer'.looking
        /\ timer'.light = timer.light /\ timer'.suspendMode = timer.suspendMode
        /\ bus' \in BusType /\ bus'.total = 0
    BY <1>1, <1>2 DEF TimerType, BusType
  <1>4. TypeOK'
    BY <1>1, <1>3 DEF TypeOK, keyboard, leds
  <1>5. Counted'
    BY <1>3 DEF Counted
  <1>6. NotSuspendedWhilePolled' /\ LightComesBack'
    BY <1>1, <1>3 DEF IInv, NotSuspendedWhilePolled, LightComesBack
  <1> QED  BY <1>4, <1>5, <1>6 DEF IInv

\* The timer restarts, in the middle of a window.
LEMMA AdjustEndsStep ==
  ASSUME IInv, AdjustEnds
  PROVE  IInv'
  <1>1. /\ bus \in BusType /\ timer \in TimerType /\ TypeOK /\ ~timer.looking
        /\ UNCHANGED <<held, vusb_keyboard_leds, keyboard_leds, host, hist>>
        /\ 0 \in 0 .. CounterSize - 1 /\ 0 \in 0 .. CounterSize /\ 0 \in 0 .. TokensPerTick
        /\ (bus.state = "awake") \in BOOLEAN
    BY LampsAssumption DEF IInv, TypeOK, AdjustEnds, CommandEnds
  <1>2. /\ timer' = [timer EXCEPT !.on = TRUE, !.inTokenRec = 0]
        /\ bus' = [bus EXCEPT !.whole = (bus.state = "awake"), !.tokens = 0, !.total = 0]
    BY DEF AdjustEnds, timer0_init
  <1>3. /\ timer' \in TimerType /\ timer'.inTokenRec = 0 /\ timer'.count = timer.count
        /\ timer'.light = timer.light /\ timer'.suspendMode = timer.suspendMode
        /\ timer'.looking = timer.looking
        /\ bus' \in BusType /\ bus'.total = 0 /\ bus'.tokens = 0
    BY <1>1, <1>2 DEF TimerType, BusType
  <1>4. lamps' \subseteq Locks
    <2>1. /\ lamps' = {LampOf(b) : b \in ps2_led(keyboard_leds)}
          /\ keyboard_leds \subseteq Locks /\ Locks \subseteq {"num", "caps", "scroll"}
      BY <1>1, LampsAssumption DEF AdjustEnds, CommandEnds, TypeOK
    <2>2. \A l \in {"num", "caps", "scroll"} : LampOf(Ps2Bit[l]) = l
      BY DEF LampOf, Ps2Bit
    <2> QED  BY <2>1, <2>2 DEF ps2_led
  <1>5. loop' \in [pc : {"idle", "command"}, uncode : SUBSET Locks]
    BY DEF AdjustEnds, CommandEnds
  <1>6. keys' \subseteq Locks /\ kbuf' \in Seq(SUBSET Locks)
    <2>1. keys \ loop.uncode \subseteq Locks /\ kbuf \in Seq(SUBSET Locks) /\ keys \subseteq Locks
      BY <1>1 DEF TypeOK
    <2>2. Append(kbuf, keys \ loop.uncode) \in Seq(SUBSET Locks)
      BY <2>1
    <2> QED  BY <2>1, <2>2 DEF AdjustEnds, CommandEnds, SendReport
  <1>7. TypeOK'
    BY <1>1, <1>3, <1>4, <1>5, <1>6 DEF TypeOK
  <1>8. Counted' /\ NotSuspendedWhilePolled' /\ LightComesBack'
    BY <1>1, <1>3 DEF IInv, Counted, NotSuspendedWhilePolled, LightComesBack
  <1> QED  BY <1>7, <1>8 DEF IInv

-----------------------------------------------------------------------------
(* The main loop, the host and the bus.                                    *)

Accidents == {"again", "evened", "masked", "misjudged", "dark"}

\* The updates of the history.
LEMMA HistoryTyped ==
  ASSUME hist \in HistoryType, NEW w \in SUBSET Locks,
         NEW a \in SUBSET Accidents
  PROVE  /\ [hist EXCEPT !.strokes = @ + 1, !.wanted = w] \in HistoryType
         /\ [hist EXCEPT !.wanted = w, !.accidents = a] \in HistoryType
         /\ [hist EXCEPT !.strokes = @ + 1, !.wanted = w, !.accidents = a] \in HistoryType
         /\ [hist EXCEPT !.accidents = a] \in HistoryType
         /\ [hist EXCEPT !.sleeps = @ + 1] \in HistoryType
  <1>1. hist.strokes + 1 \in Nat /\ hist.sleeps + 1 \in Nat
    BY DEF HistoryType
  <1> QED  BY <1>1 DEF HistoryType, Accidents

\* Keys and lamps.
LEMMA KeyStep ==
  ASSUME IInv, NEW l \in Locks, Press(l) \/ Release(l)
  PROVE  IInv'
  <1>1. /\ TypeOK /\ hist \in HistoryType /\ hist.wanted \in SUBSET Locks
        /\ hist.accidents \in SUBSET Accidents /\ keys \in SUBSET Locks /\ held \in SUBSET Locks
        /\ UNCHANGED <<leds, clock, host>>
    BY DEF IInv, TypeOK, HistoryType, Press, Release, Accidents
  <1>2. Change(hist.wanted, {l}) \in SUBSET Locks
    BY <1>1, ChangeTyped
  <1>3. /\ \A k \in SUBSET Locks : Append(kbuf, k) \in Seq(SUBSET Locks)
        /\ kbuf \in Seq(SUBSET Locks)
    BY <1>1 DEF TypeOK
  <1>4. CASE Press(l)
    <2>1. held' \subseteq Locks /\ keys' \subseteq Locks /\ kbuf' \in Seq(SUBSET Locks)
      BY <1>1, <1>3, <1>4 DEF Press, SendReport
    <2> DEFINE w == IF l = "num" THEN hist.wanted ELSE Change(hist.wanted, {l})
    <2>2. w \in SUBSET Locks
      BY <1>1, <1>2
    <2>3. hist' = [hist EXCEPT !.strokes = @ + 1, !.wanted = w]
      BY <1>4 DEF Press
    <2> HIDE DEF w
    <2>4. hist' \in HistoryType /\ hist'.accidents = hist.accidents
      <3>1. [hist EXCEPT !.strokes = @ + 1, !.wanted = w] \in HistoryType
        BY <1>1, <2>2, HistoryTyped
      <3>2. hist'.accidents = hist.accidents
        BY <1>1, <2>3 DEF HistoryType
      <3> QED  BY <2>3, <3>1, <3>2
    <2>5. timer' \in TimerType /\ bus' \in BusType
          /\ Counted' /\ NotSuspendedWhilePolled' /\ LightComesBack'
      BY <1>1, <2>4, OtherSteps DEF clock
    <2> QED  BY <1>1, <2>1, <2>4, <2>5 DEF IInv, TypeOK, leds
  <1>5. CASE Release(l)
    <2>1. held' \subseteq Locks /\ keys' \subseteq Locks /\ kbuf' \in Seq(SUBSET Locks)
      BY <1>1, <1>3, <1>5 DEF Release, SendReport
    <2> DEFINE a == hist.accidents \cup Accident("again", l \in keys)
    <2>2. /\ a \in SUBSET Accidents
          /\ hist.accidents \subseteq a /\ a \subseteq hist.accidents \cup {"again"}
      BY <1>1 DEF Accident, Accidents
    <2>3. \/ hist' = hist
          \/ hist' = [hist EXCEPT !.wanted = Change(hist.wanted, {l}), !.accidents = a]
      BY <1>5 DEF Release
    <2> HIDE DEF a
    <2>4. hist' \in HistoryType /\ (hist'.accidents = hist.accidents \/ hist'.accidents = a)
      <3>1. [hist EXCEPT !.wanted = Change(hist.wanted, {l}), !.accidents = a] \in HistoryType
        BY <1>1, <1>2, <2>2, HistoryTyped
      <3>2. hist'.accidents = hist.accidents \/ hist'.accidents = a
        BY <1>1, <2>3 DEF HistoryType
      <3> QED  BY <1>1, <2>3, <3>1, <3>2
    <2>5. timer' \in TimerType /\ bus' \in BusType
          /\ Counted' /\ NotSuspendedWhilePolled' /\ LightComesBack'
      BY <1>1, <2>2, <2>4, OtherSteps DEF clock
    <2> QED  BY <1>1, <2>1, <2>4, <2>5 DEF IInv, TypeOK, leds
  <1> QED  BY <1>4, <1>5

\* The steps of the host, and the begin of a command.
LEMMA HostStep ==
  ASSUME IInv, PollKeyboard \/ (\E l \in Locks : OtherKeyboard(l)) \/ SendLamps \/ AdjustBegins
  PROVE  IInv'
  <1>1. /\ TypeOK /\ hist \in HistoryType /\ hist.wanted \in SUBSET Locks
        /\ hist.accidents \in SUBSET Accidents
        /\ host \in [locks : SUBSET Locks, report : SUBSET Locks, sent : SUBSET Locks]
        /\ vusb_keyboard_leds \in SUBSET Locks /\ keyboard_leds \in SUBSET Locks
        /\ host.locks \in SUBSET Locks
    BY DEF IInv, TypeOK, HistoryType, Accidents
  <1>2. \A b, c, d : Evened(b, c, d) \subseteq {"evened"}
    BY DEF Evened, Accident
  <1>3. \A b : Accident("masked", b) \subseteq {"masked"}
    BY DEF Accident
  <1>4. ASSUME NEW a, a \subseteq {"evened", "masked"},
               hist' \in {[hist EXCEPT !.accidents = hist.accidents \cup a]}
                         \cup {[hist EXCEPT !.strokes = @ + 1, !.wanted = w,
                                            !.accidents = hist.accidents \cup a] : w \in SUBSET Locks}
        PROVE  /\ hist' \in HistoryType
               /\ hist.accidents \subseteq hist'.accidents
               /\ hist'.accidents \subseteq hist.accidents \cup {"again", "evened", "masked"}
    <2>1. hist.accidents \cup a \in SUBSET Accidents
      BY <1>1, <1>4 DEF Accidents
    <2>2. hist' \in HistoryType
      <3>1. [hist EXCEPT !.accidents = hist.accidents \cup a] \in HistoryType
        BY <1>1, <2>1, HistoryTyped
      <3>2. \A w \in SUBSET Locks :
              [hist EXCEPT !.strokes = @ + 1, !.wanted = w,
                           !.accidents = hist.accidents \cup a] \in HistoryType
        BY <1>1, <2>1, HistoryTyped
      <3> QED  BY <1>4, <3>1, <3>2
    <2>3. hist'.accidents = hist.accidents \cup a
      BY <1>1, <1>4 DEF HistoryType
    <2> QED  BY <1>4, <2>2, <2>3
  <1>5. CASE PollKeyboard
    <2> DEFINE locks == Change(host.locks, Head(kbuf) \ host.report)
               a == Evened(host.sent, host.locks, locks)
    <2>1. /\ kbuf' = Tail(kbuf) /\ kbuf # <<>>
          /\ host' = [host EXCEPT !.report = Head(kbuf), !.locks = locks]
          /\ hist' = [hist EXCEPT !.accidents = hist.accidents \cup a]
          /\ UNCHANGED <<held, keys, leds, clock>>
      BY <1>5 DEF PollKeyboard
    <2>2. Head(kbuf) \in SUBSET Locks /\ kbuf' \in Seq(SUBSET Locks)
      BY <1>1, <2>1 DEF TypeOK
    <2>3. locks \in SUBSET Locks
      <3>1. Head(kbuf) \ host.report \in SUBSET Locks
        BY <2>2
      <3> QED  BY <1>1, <3>1, ChangeTyped
    <2>4. a \subseteq {"evened", "masked"}
      BY <1>2
    <2> HIDE DEF locks, a
    <2>5. host' \in [locks : SUBSET Locks, report : SUBSET Locks, sent : SUBSET Locks]
      BY <1>1, <2>1, <2>2, <2>3
    <2>6. /\ hist' \in HistoryType
          /\ hist.accidents \subseteq hist'.accidents
          /\ hist'.accidents \subseteq hist.accidents \cup {"again", "evened", "masked"}
      BY <1>4, <2>1, <2>4
    <2>7. timer' \in TimerType /\ bus' \in BusType
          /\ Counted' /\ NotSuspendedWhilePolled' /\ LightComesBack'
      BY <2>1, <2>6, OtherSteps DEF clock
    <2> QED  BY <1>1, <2>1, <2>2, <2>5, <2>6, <2>7 DEF IInv, TypeOK, leds
  <1>6. ASSUME NEW l \in Locks, OtherKeyboard(l)
        PROVE  IInv'
    <2> DEFINE locks == Change(host.locks, {l})
               w == Change(hist.wanted, {l})
               a == Evened(host.sent, host.locks, locks)
    <2>1. /\ host' = [host EXCEPT !.locks = locks]
          /\ hist' = [hist EXCEPT !.strokes = @ + 1, !.wanted = w,
                                  !.accidents = hist.accidents \cup a]
          /\ UNCHANGED <<keyboard, leds, clock>>
      BY <1>6 DEF OtherKeyboard
    <2>2. locks \in SUBSET Locks /\ w \in SUBSET Locks
      BY <1>1, ChangeTyped
    <2>3. a \subseteq {"evened", "masked"}
      BY <1>2
    <2> HIDE DEF locks, w, a
    <2>4. host' \in [locks : SUBSET Locks, report : SUBSET Locks, sent : SUBSET Locks]
      BY <1>1, <2>1, <2>2
    <2>5. /\ hist' \in HistoryType
          /\ hist.accidents \subseteq hist'.accidents
          /\ hist'.accidents \subseteq hist.accidents \cup {"again", "evened", "masked"}
      BY <1>4, <2>1, <2>2, <2>3
    <2>6. timer' \in TimerType /\ bus' \in BusType
          /\ Counted' /\ NotSuspendedWhilePolled' /\ LightComesBack'
      BY <2>1, <2>5, OtherSteps DEF clock
    <2> QED  BY <1>1, <2>1, <2>4, <2>5, <2>6 DEF IInv, TypeOK, leds, keyboard
  <1>7. CASE SendLamps
    <2> DEFINE a == Evened(keyboard_leds, vusb_keyboard_leds, host.locks)
    <2>1. /\ host' = [host EXCEPT !.sent = host.locks]
          /\ vusb_keyboard_leds' = host.locks
          /\ hist' = [hist EXCEPT !.accidents = hist.accidents \cup a]
          /\ UNCHANGED <<keyboard, keyboard_leds, loop, lamps, clock>>
      BY <1>7 DEF SendLamps
    <2>2. a \subseteq {"evened", "masked"}
      BY <1>2
    <2> HIDE DEF a
    <2>3. host' \in [locks : SUBSET Locks, report : SUBSET Locks, sent : SUBSET Locks]
      BY <1>1, <2>1
    <2>4. /\ hist' \in HistoryType
          /\ hist.accidents \subseteq hist'.accidents
          /\ hist'.accidents \subseteq hist.accidents \cup {"again", "evened", "masked"}
      BY <1>4, <2>1, <2>2
    <2>5. timer' \in TimerType /\ bus' \in BusType
          /\ Counted' /\ NotSuspendedWhilePolled' /\ LightComesBack'
      BY <2>1, <2>4, OtherSteps DEF clock
    <2> QED  BY <1>1, <2>1, <2>3, <2>4, <2>5 DEF IInv, TypeOK, keyboard
  <1>8. CASE AdjustBegins
    <2> DEFINE changed == Change(vusb_keyboard_leds, keyboard_leds)
               a == Accident("masked", {"num", "scroll"} \subseteq changed)
    <2>1. /\ loop' = [pc |-> "command", uncode |-> ChangedKey(changed)]
          /\ hist' = [hist EXCEPT !.accidents = hist.accidents \cup a]
          /\ keyboard_leds' = vusb_keyboard_leds
          /\ timer' = [timer EXCEPT !.on = FALSE]
          /\ UNCHANGED <<keyboard, vusb_keyboard_leds, lamps, host, bus>>
      BY <1>8 DEF AdjustBegins
    <2>2. changed \in SUBSET Locks
      BY <1>1, ChangeTyped
    <2>3. ChangedKey(changed) \in SUBSET Locks
      BY <2>2 DEF ChangedKey
    <2>4. a \subseteq {"evened", "masked"}
      BY <1>3
    <2> HIDE DEF changed, a
    <2>5. loop' \in [pc : {"idle", "command"}, uncode : SUBSET Locks]
      BY <2>1, <2>3
    <2>6. /\ hist' \in HistoryType
          /\ hist.accidents \subseteq hist'.accidents
          /\ hist'.accidents \subseteq hist.accidents \cup {"again", "evened", "masked"}
      BY <1>4, <2>1, <2>4
    <2>7. /\ timer' \in TimerType /\ timer'.count = timer.count /\ timer'.light = timer.light
          /\ timer'.looking = timer.looking /\ timer'.inTokenRec = timer.inTokenRec
          /\ timer'.suspendMode = timer.suspendMode
      BY <1>1, <2>1 DEF TypeOK, TimerType
    <2>8. Counted' /\ NotSuspendedWhilePolled' /\ LightComesBack'
      BY <2>1, <2>6, <2>7 DEF IInv, Counted, NotSuspendedWhilePolled, LightComesBack
    <2> QED  BY <1>1, <2>1, <2>5, <2>6, <2>7, <2>8 DEF IInv, TypeOK, keyboard
  <1> QED  BY <1>5, <1>6, <1>7, <1>8

\* Suspend, resume and remote wake-up.
LEMMA BusStep ==
  ASSUME IInv, WakeKey \/ Suspend \/ Resume
  PROVE  IInv'
  <1>1. /\ TypeOK /\ hist \in HistoryType /\ hist.accidents \in SUBSET Accidents
        /\ timer \in TimerType /\ bus \in BusType
        /\ UNCHANGED <<keyboard, leds, host>>
    BY DEF IInv, TypeOK, HistoryType, WakeKey, Suspend, Resume, Accidents
  <1>2. bus' \in BusType /\ bus'.tokens = bus.tokens /\ bus'.total = bus.total
    BY <1>1 DEF WakeKey, sendRemoteWakeUp, Suspend, Resume, BusType
  <1>3. CASE WakeKey
    <2> DEFINE a == hist.accidents \cup Accident("dark", timer.light = 0)
    <2>1. /\ timer' = [timer EXCEPT !.suspendMode = 0]
          /\ hist' = [hist EXCEPT !.accidents = a]
      BY <1>3 DEF WakeKey
    <2>2. a \in SUBSET Accidents /\ hist.accidents \subseteq a
          /\ a \subseteq hist.accidents \cup {"dark"} /\ (timer.light = 0 => "dark" \in a)
      BY <1>1 DEF Accident, Accidents
    <2> HIDE DEF a
    <2>3. [hist EXCEPT !.accidents = a] \in HistoryType
      <3>1. hist.wanted \in SUBSET Locks
        BY <1>1 DEF HistoryType
      <3> QED  BY <1>1, <2>2, <3>1, HistoryTyped
    <2>4. hist' \in HistoryType /\ hist'.accidents = a
      BY <1>1, <2>1, <2>3 DEF HistoryType
    <2>5. /\ timer' \in TimerType /\ timer'.count = timer.count /\ timer'.light = timer.light
          /\ timer'.looking = timer.looking /\ timer'.inTokenRec = timer.inTokenRec
      BY <1>1, <2>1 DEF TimerType
    <2>6. Counted' /\ NotSuspendedWhilePolled' /\ LightComesBack'
      BY <1>2, <2>2, <2>4, <2>5 DEF IInv, Counted, NotSuspendedWhilePolled, LightComesBack
    <2> QED  BY <1>1, <1>2, <2>4, <2>5, <2>6 DEF IInv, TypeOK, keyboard, leds
  <1>4. CASE Suspend \/ Resume
    <2>1. timer' = timer /\ hist' \in HistoryType /\ hist'.accidents = hist.accidents
      <3>1. [hist EXCEPT !.sleeps = @ + 1] \in HistoryType
        BY <1>1 DEF HistoryType
      <3> QED  BY <1>1, <1>4, <3>1 DEF Suspend, Resume, HistoryType
    <2>2. Counted' /\ NotSuspendedWhilePolled' /\ LightComesBack'
      BY <1>2, <2>1 DEF IInv, Counted, NotSuspendedWhilePolled, LightComesBack
    <2> QED  BY <1>1, <1>2, <2>1, <2>2 DEF IInv, TypeOK, keyboard, leds
  <1> QED  BY <1>3, <1>4

\* Every step keeps the invariant.
LEMMA NextIInv == IInv /\ [Next]_vars => IInv'
  <1>1. IInv /\ Next => IInv'
    BY TokenStep, CountStep, LookStep, ForgetStep, AdjustEndsStep, KeyStep, HostStep, BusStep
    DEF Next, Timer
  <1>2. IInv /\ UNCHANGED vars => IInv'
    BY DEF vars, IInv, TypeOK, Counted, NotSuspendedWhilePolled, LightComesBack
  <1> QED  BY <1>1, <1>2

\* The inductive invariant, of which the properties are parts.
THEOREM Invariance == Spec => []IInv
  BY InitIInv, NextIInv, PTL DEF Spec

\* Every count stays within its type, for every window and counter.
THEOREM TypeCorrect == Spec => []TypeOK
  BY Invariance, PTL DEF IInv

\* The timer does not take a host that polls for one that sleeps, although its
\* counter is cleared in the middle of a window whenever the lamps change, unless
\* as many tokens came in a window as the counter has values.
THEOREM NotSuspendedWhilePolledCorrect == Spec => []NotSuspendedWhilePolled
  BY Invariance, PTL DEF IInv

\* The diode is dark only in the first LightAfter interrupts of a suspend, unless a
\* key has woken the host just then.
THEOREM LightComesBackCorrect == Spec => []LightComesBack
  BY Invariance, PTL DEF IInv
=============================================================================
