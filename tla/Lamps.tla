------------------------------- MODULE Lamps -------------------------------
(***************************************************************************)
(* The lock keys, their lamps and the timer (main.c).  A lock key toggles  *)
(* a lock of the host; the host sends the new lamps; adjustKeyboardLeds    *)
(* sets the keyboard's lamps and takes the lock key out of the report: Num *)
(* Lock is put in it when it is released and has no other way out.  While  *)
(* the keyboard is commanded the timer stands still that looks whether the *)
(* host has sent IN tokens, and that is restarted afterwards.              *)
(* The way of the bytes is in KeyPath, the command in Ps2Host, the request *)
(* in UsbDevice; here each of them is a step.                              *)
(***************************************************************************)
EXTENDS Integers, Sequences, FiniteSets

CONSTANTS Locks,        \* lock keys of the keyboard
          Window,       \* timer interrupts between two looks, 100
          LightAfter,   \* the one that turns the light on again, 5
          CounterSize,  \* values of inTokenRec, 256
          TokensPerTick,\* most IN tokens between two timer interrupts
          MaxStrokes,   \* bound: lock keys pressed, here and on other keyboards
          MaxSleeps     \* bound: suspends and resumes of the bus

ASSUME LampsAssumption ==
  /\ Locks \subseteq {"num", "caps", "scroll"}
  /\ Window \in Nat /\ LightAfter \in 1 .. Window
  /\ CounterSize \in Nat \ {0, 1} /\ TokensPerTick \in Nat \ {0}
  /\ MaxStrokes \in Nat /\ MaxSleeps \in Nat

VARIABLES
  held,   \* lock keys held
  keys,   \* lock keys in keyboard_report
  kbuf,   \* reports waiting for the host
  vusb_keyboard_leds,
  keyboard_leds,
  loop,   \* adjustKeyboardLeds: "idle" or "command", the key to take out
  lamps,  \* the keyboard's lamps
  timer,  \* the timer interrupt, its counts, inTokenRec and suspendMode
  host,   \* its locks, the last report it has and the lamps it has sent
  bus,    \* whether the host polls, and since when
  hist    \* history: counts, the locks as the user wants them, accidents

vars == <<held, keys, kbuf, vusb_keyboard_leds, keyboard_leds, loop, lamps, timer,
          host, bus, hist>>
keyboard == <<held, keys, kbuf>>
leds == <<vusb_keyboard_leds, keyboard_leds, loop, lamps>>
clock == <<timer, bus>>

-----------------------------------------------------------------------------
\* PS2_LED_...: the bit of a lamp in the keyboard's command.
Ps2Bit == [scroll |-> 0, num |-> 1, caps |-> 2]
ps2_led(on) == {Ps2Bit[l] : l \in on}

\* The keyboard: bit 0 is Scroll Lock, bit 1 Num Lock, bit 2 Caps Lock.
LampOf(bit) == CASE bit = 0 -> "scroll" [] bit = 1 -> "num" [] bit = 2 -> "caps"

ChangedKeyBug(changed) ==
  IF "scroll" \in changed THEN {"scroll"}
  ELSE IF "caps" \in changed THEN {"caps"}
  ELSE changed \cap {"num"}

\* adjustKeyboardLeds: which key to take back.  One of the lamps that have changed.
ChangedKey(changed) ==
  IF "scroll" \in changed THEN {"scroll"}
  ELSE IF "num" \in changed THEN {"num"}
  ELSE changed \cap {"caps"}

Change(s, t) == (s \ t) \cup (t \ s)

Init ==
  /\ held = {} /\ keys = {} /\ kbuf = <<>>
  /\ vusb_keyboard_leds = {} /\ keyboard_leds = {} /\ lamps = {}
  /\ loop = [pc |-> "idle", uncode |-> {}]
  /\ timer = [on |-> TRUE, looking |-> FALSE, count |-> 0, inTokenRec |-> 0,
              suspendMode |-> 0, light |-> 1]
  /\ host = [locks |-> {}, report |-> {}, sent |-> {}]
  /\ bus = [state |-> "awake", whole |-> TRUE, tokens |-> 0, total |-> 0]
  /\ hist = [strokes |-> 0, sleeps |-> 0, wanted |-> {}, accidents |-> {}]

\* What befell, for the properties to except.
Accident(name, happened) == IF happened THEN {name} ELSE {}

\* Num Lock differs between a and b, but no longer once b is replaced by c.
Evened(a, b, c) == Accident("evened", "num" \in Change(a, b) \ Change(a, c))

-----------------------------------------------------------------------------
(* matrix_make and matrix_break for lock keys.                             *)

\* The main loop: not while a command is sent or the timer interrupt runs.
CanRun == loop.pc = "idle" /\ ~timer.looking

SendReport(k) == keys' = k /\ kbuf' = Append(kbuf, k)

PressBug(l) ==
  /\ CanRun /\ l \notin held /\ hist.strokes < MaxStrokes
  /\ held' = held \cup {l}
  /\ SendReport(keys \cup {l})
  /\ hist' = [hist EXCEPT !.strokes = @ + 1,
                          !.wanted = IF l = "num" THEN @ ELSE Change(@, {l})]
  /\ UNCHANGED <<leds, clock, host>>

\* Num Lock is not reported when it is pressed ...
Press(l) ==
  /\ CanRun /\ l \notin held /\ hist.strokes < MaxStrokes
  /\ held' = held \cup {l}
  /\ IF l = "num" THEN UNCHANGED <<keys, kbuf>> ELSE SendReport(keys \cup {l})
  /\ hist' = [hist EXCEPT !.strokes = @ + 1,
                          !.wanted = IF l = "num" THEN @ ELSE Change(@, {l})]
  /\ UNCHANGED <<leds, clock, host>>

\* ... but when it is released.
Release(l) ==
  /\ CanRun /\ l \in held
  /\ held' = held \ {l}
  /\ SendReport(IF l = "num" THEN keys \cup {l} ELSE keys \ {l})
  /\ hist' = IF l # "num" THEN hist
             ELSE [hist EXCEPT !.wanted = Change(@, {l}),
                               !.accidents = @ \cup Accident("again", l \in keys)]
  /\ UNCHANGED <<leds, clock, host>>

-----------------------------------------------------------------------------
(* The host.                                                               *)

\* A lock key that was not in the last report toggles the lock.
PollKeyboard ==
  /\ bus.state = "awake" /\ kbuf # <<>>
  /\ kbuf' = Tail(kbuf)
  /\ LET locks == Change(host.locks, Head(kbuf) \ host.report) IN
       /\ host' = [host EXCEPT !.report = Head(kbuf), !.locks = locks]
       /\ hist' = [hist EXCEPT !.accidents = @ \cup Evened(host.sent, host.locks, locks)]
  /\ UNCHANGED <<held, keys, leds, clock>>

\* Another keyboard of the host, or a program, toggles a lock.
OtherKeyboard(l) ==
  /\ bus.state = "awake" /\ hist.strokes < MaxStrokes
  /\ LET locks == Change(host.locks, {l}) IN
       /\ host' = [host EXCEPT !.locks = locks]
       /\ hist' = [hist EXCEPT !.strokes = @ + 1, !.wanted = Change(@, {l}),
                               !.accidents = @ \cup Evened(host.sent, host.locks, locks)]
  /\ UNCHANGED <<keyboard, leds, clock>>

\* The lamps, as usbFunctionWrite stores them; the main loop polls the bus while
\* a command is sent, too.
SendLamps ==
  /\ ~timer.looking /\ bus.state = "awake" /\ host.sent # host.locks
  /\ host' = [host EXCEPT !.sent = host.locks]
  /\ vusb_keyboard_leds' = host.locks
  /\ hist' = [hist EXCEPT !.accidents =
                 @ \cup Evened(keyboard_leds, vusb_keyboard_leds, host.locks)]
  /\ UNCHANGED <<keyboard, keyboard_leds, loop, lamps, clock>>

-----------------------------------------------------------------------------
(* adjustKeyboardLeds.                                                     *)

\* The lamps have changed: the timer is stopped and the keyboard commanded.
AdjustBegins ==
  /\ CanRun /\ vusb_keyboard_leds # keyboard_leds
  /\ LET changed == Change(vusb_keyboard_leds, keyboard_leds) IN
       /\ loop' = [pc |-> "command", uncode |-> ChangedKey(changed)]
       /\ hist' = [hist EXCEPT !.accidents =
                      @ \cup Accident("masked", {"num", "scroll"} \subseteq changed)]
  /\ keyboard_leds' = vusb_keyboard_leds
  /\ timer' = [timer EXCEPT !.on = FALSE]
  /\ UNCHANGED <<keyboard, vusb_keyboard_leds, lamps, host, bus>>

\* The command is done: the lamps, the key, ...
CommandEnds ==
  /\ loop.pc = "command" /\ ~timer.looking
  /\ lamps' = {LampOf(b) : b \in ps2_led(keyboard_leds)}
  /\ loop' = [pc |-> "idle", uncode |-> {}]
  /\ IF loop.uncode = {} THEN UNCHANGED <<keys, kbuf>> ELSE SendReport(keys \ loop.uncode)

timer0_initBug ==
  /\ timer' = [timer EXCEPT !.on = TRUE, !.inTokenRec = 0]
  /\ bus' = [bus EXCEPT !.total = 0]

\* ... and the timer, which starts a whole period; its count goes on.
timer0_init ==
  /\ timer' = [timer EXCEPT !.on = TRUE, !.inTokenRec = 0]
  /\ bus' = [bus EXCEPT !.whole = (bus.state = "awake"), !.tokens = 0, !.total = 0]

AdjustEnds ==
  /\ CommandEnds /\ timer0_init
  /\ UNCHANGED <<held, vusb_keyboard_leds, keyboard_leds, host, hist>>

-----------------------------------------------------------------------------
(* The timer interrupt, and the IN tokens the packet handler counts.        *)

Least(m, n) == IF m < n THEN m ELSE n

\* A host that is awake polls at least once in a period of the timer.
Token ==
  /\ bus.state = "awake" /\ bus.tokens < TokensPerTick
  /\ timer' = [timer EXCEPT !.inTokenRec = (@ + 1) % CounterSize]
  /\ bus' = [bus EXCEPT !.tokens = @ + 1, !.total = Least(@ + 1, CounterSize)]
  /\ UNCHANGED <<keyboard, leds, host, hist>>

Due == timer.on /\ ~timer.looking /\ (bus.whole => bus.tokens > 0)
PeriodBegins == bus' = [bus EXCEPT !.whole = (bus.state = "awake"), !.tokens = 0]

CountBug ==
  /\ Due /\ timer.count =< Window
  /\ timer' = [timer EXCEPT
       !.count = @ + 1,
       !.light = IF timer.count + 1 = LightAfter + 1 /\ timer.suspendMode = 1 THEN 1 ELSE @]
  /\ PeriodBegins
  /\ UNCHANGED <<keyboard, leds, host, hist>>

\* An interrupt that only counts; the fifth after a look lights the diode.
Count ==
  /\ Due /\ timer.count < Window
  /\ timer' = [timer EXCEPT
       !.count = @ + 1,
       !.light = IF timer.count + 1 = LightAfter /\ timer.suspendMode = 1 THEN 1 ELSE @]
  /\ PeriodBegins
  /\ UNCHANGED <<keyboard, leds, host, hist>>

\* An interrupt that looks at the tokens ...
Look ==
  /\ Due /\ timer.count = Window
  /\ timer' = [timer EXCEPT
       !.count = 0, !.looking = TRUE,
       !.suspendMode = IF timer.inTokenRec = 0 THEN 1 ELSE 0,
       !.light = IF timer.inTokenRec = 0 THEN 0 ELSE @]
  /\ PeriodBegins
  /\ hist' = [hist EXCEPT !.accidents = @ \cup Accident("misjudged",
       timer.inTokenRec = 0 /\ bus.whole /\ bus.total < CounterSize)]
  /\ UNCHANGED <<keyboard, leds, host>>

ForgetBug ==
  /\ timer.looking
  /\ timer' = [timer EXCEPT !.looking = FALSE]
  /\ bus' = [bus EXCEPT !.total = 0]
  /\ UNCHANGED <<keyboard, leds, host, hist>>

\* ... and forgets them, those included that came in between.
Forget ==
  /\ timer.looking
  /\ timer' = [timer EXCEPT !.looking = FALSE, !.inTokenRec = 0]
  /\ bus' = [bus EXCEPT !.total = 0]
  /\ UNCHANGED <<keyboard, leds, host, hist>>

\* The signal that a sleeping host answers with a resume.
sendRemoteWakeUp == bus' = [bus EXCEPT !.state = IF @ = "asleep" THEN "resuming" ELSE @]

\* register_code(KC_WAKE).
WakeKey ==
  /\ CanRun /\ timer.suspendMode = 1
  /\ timer' = [timer EXCEPT !.suspendMode = 0]
  /\ sendRemoteWakeUp
  /\ hist' = [hist EXCEPT !.accidents = @ \cup Accident("dark", timer.light = 0)]
  /\ UNCHANGED <<keyboard, leds, host>>

Suspend ==
  /\ bus.state = "awake" /\ hist.sleeps < MaxSleeps
  /\ bus' = [bus EXCEPT !.state = "asleep", !.whole = FALSE]
  /\ hist' = [hist EXCEPT !.sleeps = @ + 1]
  /\ UNCHANGED <<keyboard, leds, timer, host>>

Resume ==
  /\ bus.state # "awake"
  /\ bus' = [bus EXCEPT !.state = "awake"]
  /\ UNCHANGED <<keyboard, leds, timer, host, hist>>

Timer == Count \/ Look \/ Forget

Next ==
  \/ \E l \in Locks : Press(l) \/ Release(l) \/ OtherKeyboard(l)
  \/ PollKeyboard \/ SendLamps
  \/ AdjustBegins \/ AdjustEnds
  \/ Token \/ Timer
  \/ WakeKey \/ Suspend \/ Resume

Spec == Init /\ [][Next]_vars

\* Interrupts and the main loop run for ever, a host that is awake polls and sends
\* its lamps; whether it sleeps for ever is its own choice.
FairSpec ==
  /\ Spec
  /\ WF_vars(Timer) /\ WF_vars(Token)
  /\ SF_vars(AdjustBegins) /\ SF_vars(AdjustEnds)
  /\ SF_vars(PollKeyboard) /\ SF_vars(SendLamps)

-----------------------------------------------------------------------------
(* Properties.                                                             *)

TimerType == [on : BOOLEAN, looking : BOOLEAN, count : 0 .. Window,
              inTokenRec : 0 .. CounterSize - 1, suspendMode : {0, 1}, light : {0, 1}]
BusType == [state : {"awake", "asleep", "resuming"}, whole : BOOLEAN,
            tokens : 0 .. TokensPerTick, total : 0 .. CounterSize]
HistoryType == [strokes : Nat, sleeps : Nat, wanted : SUBSET Locks,
                accidents : SUBSET {"again", "evened", "masked", "misjudged", "dark"}]

TypeOK ==
  /\ held \subseteq Locks /\ keys \subseteq Locks /\ kbuf \in Seq(SUBSET Locks)
  /\ vusb_keyboard_leds \subseteq Locks /\ keyboard_leds \subseteq Locks
  /\ lamps \subseteq Locks
  /\ loop \in [pc : {"idle", "command"}, uncode : SUBSET Locks]
  /\ timer \in TimerType /\ bus \in BusType
  /\ host \in [locks : SUBSET Locks, report : SUBSET Locks, sent : SUBSET Locks]
  /\ hist \in HistoryType

\* In the end the keyboard's lamps are the host's locks, also when they change
\* while a command is sent, and Num Lock is not left in the report, unless the host
\* is asleep.
LocksSettle ==
  <>[](\/ bus.state # "awake"
       \/ /\ lamps = host.locks
          /\ "num" \notin keys \/ hist.accidents \cap {"masked", "evened"} # {})

\* Every stroke of a lock key toggles the host's lock once.
EveryStrokeCounts ==
  <>[](\/ host.locks = hist.wanted
       \/ "again" \in hist.accidents
       \/ bus.state # "awake")

\* The timer never takes a host that polls for one that sleeps, also when it has
\* been stopped and restarted in between, unless 256 tokens came in a window.
NotSuspendedWhilePolled == "misjudged" \notin hist.accidents

\* A host that stops polling is noticed.
SleepNoticed ==
  bus.state = "asleep" ~> timer.suspendMode = 1 \/ bus.state # "asleep"

\* The light is dark for the first interrupts of a suspend only.
LightComesBack ==
  timer.light = 0 /\ "dark" \notin hist.accidents =>
    timer.suspendMode = 1 /\ timer.count < LightAfter
=============================================================================
