------------------------------ MODULE KeyPath ------------------------------
(***************************************************************************)
(* The way of a key from the keyboard to the host: the bytes of its scan   *)
(* code wait in pbuf, matrix_scan decodes one of them per round of the     *)
(* main loop and updates matrix and report, vusb_transfer_keyboard hands   *)
(* queued reports to endpoint 1, the host polls it.  The receiver of the   *)
(* bytes is module Ps2Receiver; here a frame is received, spoilt (which    *)
(* latches an error) or, while the latch holds, ignored.                   *)
(***************************************************************************)
EXTENDS HidReport, ByteQueue

CONSTANTS KeyNames,     \* the keys pressed and released
          QueueRoom,    \* bytes that fit in pbuf
          MaxEvents,    \* bound: key events and changes of the host's LEDs
          MaxErrors,    \* bound: accidents, spoilt frames and overruns
          Suspends      \* bound: whether the bus may be suspended

ASSUME KeyPathAssumption ==
  /\ KeyNames \subseteq Keyboard
  /\ QueueRoom \in Nat \ {0} /\ MaxEvents \in Nat /\ MaxErrors \in Nat
  /\ Suspends \in BOOLEAN

VARIABLES
  down,       \* keys held
  pending,    \* bytes the keyboard has yet to send
  events,     \* key events and changes of the host's LEDs so far
  queue,      \* pbuf
  inhibit,    \* a frame is being received
  err,        \* ps2_error and the latch
  decoder,    \* state of matrix_scan
  kb,         \* matrix, report, kbuf, endpoint 3 (module HidReport)
  tx1,        \* the report in endpoint 1's buffer
  host,       \* the last report the host has
  errors,     \* accidents so far
  intact      \* history: the keyboard's bytes all got into pbuf

vars == <<down, pending, events, queue, inhibit, err, decoder, kb, tx1,
          host, errors, intact>>
device == <<down, pending, events>>

Init ==
  /\ down = {} /\ pending = <<>> /\ events = 0
  /\ queue = <<>> /\ inhibit = FALSE /\ err = FALSE
  /\ decoder = "INIT"
  /\ kb = KeyboardInit
  /\ tx1 = <<>> /\ host = EmptyReport
  /\ errors = 0 /\ intact = TRUE

-----------------------------------------------------------------------------
(* The keyboard and its user.                                              *)

\* The keyboard sends the next event's bytes once the last ones are out.
Send(bytes) ==
  /\ pending = <<>> /\ events < MaxEvents
  /\ pending' = bytes
  /\ events' = events + 1
  /\ UNCHANGED <<queue, inhibit, err, decoder, kb, tx1, host>>

\* A key that stands for another with a modifier held needs that modifier, and
\* one position is one physical key.
CanPress(k) ==
  /\ \A d \in down : Position(d) # Position(k)
  /\ k = "ShiftRight" => "LShift" \in down
  /\ k = "Right" => "LShift" \notin down

\* Pause is not held: it has no break code.
Press(k) ==
  /\ CanPress(k)
  /\ Send(MakeCode(k))
  /\ down' = IF BreakCode(k) = <<>> THEN down ELSE down \cup {k}
  /\ UNCHANGED <<errors, intact>>

Repeat(k) ==
  k \in down /\ Send(MakeCode(k)) /\ UNCHANGED <<down, errors, intact>>

Release(k) ==
  /\ k \in down
  /\ Send(BreakCode(k))
  /\ down' = down \ {k}
  /\ UNCHANGED <<errors, intact>>

\* The keyboard's own buffer overflows: a release is lost, 00 is sent for it.
Overrun(k) ==
  /\ k \in down /\ errors < MaxErrors
  /\ Send(<<0>>)
  /\ down' = down \ {k}
  /\ errors' = errors + 1
  /\ intact' = FALSE

-----------------------------------------------------------------------------
(* The receiver, as far as the key path sees it.                           *)

FrameBegins ==
  /\ pending # <<>> /\ ~inhibit /\ ~err
  /\ inhibit' = TRUE
  /\ UNCHANGED <<device, queue, err, decoder, kb, tx1, host, errors, intact>>

FrameReceived ==
  /\ inhibit
  /\ inhibit' = FALSE
  /\ queue' = Put(queue, Head(pending), QueueRoom)
  /\ intact' = (intact /\ Len(queue) < QueueRoom)
  /\ pending' = Tail(pending)
  /\ UNCHANGED <<down, events, err, decoder, kb, tx1, host, errors>>

FrameSpoilt ==
  /\ inhibit /\ errors < MaxErrors
  /\ inhibit' = FALSE
  /\ err' = TRUE
  /\ errors' = errors + 1
  /\ intact' = FALSE
  /\ pending' = Tail(pending)
  /\ UNCHANGED <<down, events, queue, decoder, kb, tx1, host>>

FrameIgnored ==
  /\ pending # <<>> /\ err
  /\ pending' = Tail(pending)
  /\ UNCHANGED <<down, events, queue, inhibit, err, decoder, kb, tx1, host, errors, intact>>

-----------------------------------------------------------------------------
(* The main loop.                                                          *)

\* adjustKeyboardLeds: a lamp of the host has changed, by a key of this keyboard or
\* of another, and its key is taken out of the report, held or not.  What commanding
\* the lamps does to the bytes is in Ps2Host.
adjustKeyboardLeds ==
  /\ events < MaxEvents
  /\ \E uncode \in LockCodes : kb' = unregister_code(kb, uncode)
  /\ events' = events + 1
  /\ UNCHANGED <<down, pending, queue, inhibit, err, decoder, tx1, host, errors, intact>>

\* A variant with a plausible mistake: the break of Pause is forgotten.
PauseBrokenBug(k) == k

\* Pause gets its break in the scan after the one that made it.
PauseBroken(k) == IF PAUSE \in k.matrix THEN matrix_break(k, PAUSE) ELSE k

\* matrix_scan: a byte is fetched before the error is looked at, and forgotten
\* when there is one; the answer 0 of the queue ends the scan.
matrix_scan ==
  LET code == First(queue)
      step == DecodeByte(decoder, code)
  IN /\ queue' = Rest(queue)
     /\ err' = FALSE
     /\ IF err
          THEN decoder' = "INIT" /\ kb' = PauseBroken(kb)
          ELSE IF code = 0
                 THEN UNCHANGED decoder /\ kb' = PauseBroken(kb)
                 ELSE /\ decoder' = step.state
                      /\ kb' = ApplyEffect(PauseBroken(kb), step.effect)
     /\ UNCHANGED <<device, inhibit, tx1, host, errors, intact>>

\* A frame is spoilt while the byte fetched is noted down: the second look at
\* ps2_error leaves that byte out and the decoder where it is.
ScanOvertaken ==
  /\ inhibit /\ ~err /\ First(queue) # 0 /\ errors < MaxErrors
  /\ queue' = Rest(queue)
  /\ kb' = PauseBroken(kb)
  /\ inhibit' = FALSE
  /\ err' = TRUE
  /\ errors' = errors + 1
  /\ intact' = FALSE
  /\ pending' = Tail(pending)
  /\ UNCHANGED <<down, events, decoder, tx1, host>>

\* vusb_transfer_keyboard: not while a frame comes in.
vusb_transfer_keyboard ==
  /\ tx1 = <<>> /\ ~inhibit /\ kb.kbuf # <<>>
  /\ tx1' = <<Head(kb.kbuf)>>
  /\ kb' = [kb EXCEPT !.kbuf = Tail(@)]
  /\ UNCHANGED <<device, queue, inhibit, err, decoder, host, errors, intact>>

-----------------------------------------------------------------------------
(* The host and the bus.                                                   *)

PollKeyboard ==
  /\ tx1 # <<>> /\ ~kb.suspendMode
  /\ host' = tx1[1]
  /\ tx1' = <<>>
  /\ UNCHANGED <<device, queue, inhibit, err, decoder, kb, errors, intact>>

PollSystem ==
  /\ kb.tx3 # <<>> /\ ~kb.suspendMode
  /\ kb' = [kb EXCEPT !.tx3 = <<>>]
  /\ UNCHANGED <<device, queue, inhibit, err, decoder, tx1, host, errors, intact>>

\* The timer interrupt notices that the bus went quiet or woke up.
SuspendOrResume ==
  /\ Suspends
  /\ kb' = [kb EXCEPT !.suspendMode = ~@]
  /\ UNCHANGED <<device, queue, inhibit, err, decoder, tx1, host, errors, intact>>

User == \E k \in KeyNames : Press(k) \/ Repeat(k) \/ Release(k) \/ Overrun(k)

Frame == FrameReceived \/ FrameIgnored

Next ==
  \/ User
  \/ FrameBegins
  \/ Frame
  \/ FrameSpoilt
  \/ adjustKeyboardLeds
  \/ matrix_scan
  \/ ScanOvertaken
  \/ vusb_transfer_keyboard
  \/ PollKeyboard
  \/ PollSystem
  \/ SuspendOrResume

Spec == Init /\ [][Next]_vars

\* The main loop runs for ever (weak fairness of its calls; frames come and go,
\* so the transfer needs strong fairness), a keyboard finishes what it sends,
\* and a host that is not asleep polls.
Fairness ==
  /\ WF_vars(matrix_scan)
  /\ SF_vars(vusb_transfer_keyboard)
  /\ WF_vars(FrameBegins)
  /\ WF_vars(Frame)
  /\ SF_vars(PollKeyboard)
FairSpec == Spec /\ Fairness

-----------------------------------------------------------------------------
(* Properties.                                                             *)

TypeOK ==
  /\ down \subseteq KeyNames
  /\ pending \in Seq(Byte) /\ events \in 0 .. MaxEvents
  /\ queue \in Seq(Byte)
  /\ inhibit \in BOOLEAN /\ err \in BOOLEAN
  /\ decoder \in DecoderStates
  /\ kb \in KeyboardState
  /\ tx1 \in Seq(Report) /\ host \in Report
  /\ errors \in 0 .. MaxErrors /\ intact \in BOOLEAN

\* The keys of a report and those at a set of positions.  The lock keys are left
\* out, since the answer of the host's LED takes them out of the report while they
\* are held; Num Lock is not even put in it before it is released.
InSlots(r) == {r.keys[i] : i \in Keys} \ {0}
CodesAt(positions) == {KeyAt[p] : p \in positions}
KeysOf(codes) == {c \in codes \ LockCodes : KindOf(c) = "key"}
ModsOf(codes) == {MOD_INDEX(c) : c \in {d \in codes : KindOf(d) = "mod"}}

HeldKeys == {Position(k) : k \in down}   \* never Pause, which is not held
HeldCodes == KeysOf(CodesAt(HeldKeys))

\* With every byte received, the matrix is the set of keys held whenever the
\* decoder has nothing left to read, whatever prefixes, postfixes and repeats
\* the keyboard added (matrix_scan; the tables in matrix.c).
MatrixTracksKeys ==
  intact /\ pending = <<>> /\ queue = <<>> =>
    decoder = "INIT" /\ kb.matrix \ {PAUSE} = HeldKeys

\* The report has no key twice, none the matrix does not have and, unless one has
\* found no slot, all it has but for lock keys, whatever the host's LEDs take out and
\* also after receive errors, as long as the matrix has not been cleared behind its
\* back; the modifiers agree exactly.
ReportTracksMatrix ==
  /\ \A i, j \in Keys : kb.keys[i] # 0 /\ kb.keys[i] = kb.keys[j] => i = j
  /\ ~kb.cleared => /\ InSlots(kb) \ {KC_NUMLOCK} \subseteq CodesAt(kb.matrix)
                    /\ kb.mods = ModsOf(CodesAt(kb.matrix))
                    /\ kb.crowded \/ KeysOf(CodesAt(kb.matrix)) \subseteq InSlots(kb)

\* A system control counts as pressed for send_system only while one of the
\* system keys is held, also when the bus was suspended between the press and
\* the release: else the next press of the same key would not be sent.
SystemReleased ==
  ~kb.cleared /\ kb.lastSystem # 0 => \E p \in kb.matrix : KindOf(KeyAt[p]) = "system"

\* In the end the host holds exactly the keys that are held, Pause released by its
\* pseudo break code included, unless a byte was lost, a report was dropped, or a key
\* found no slot.
HostConverges ==
  <>[](\/ ~intact \/ kb.dropped \/ kb.crowded
       \/ kb.suspendMode
       \/ /\ host.mods = ModsOf(CodesAt(HeldKeys))
          /\ InSlots(host) \ LockCodes = HeldCodes)

\* An overrun byte releases every key: the case Overrun in matrix_scan.
OverrunReleasesAll ==
  [][matrix_scan /\ queue # <<>> /\ Head(queue) = 0 /\ ~err => kb'.matrix = {}]_vars
=============================================================================
