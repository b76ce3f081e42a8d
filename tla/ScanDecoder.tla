---------------------------- MODULE ScanDecoder ----------------------------
(***************************************************************************)
(* The state machine of matrix_scan (matrix.c) that turns the bytes of     *)
(* scan code set 2 into keys made and broken, as a function of the state   *)
(* and the byte, and the byte sequences a keyboard sends for its keys.     *)
(***************************************************************************)
EXTENDS Integers, Sequences

\* Positions of exceptional keys in the matrix.
F7 == \h83
PRINT_SCREEN == \hFC
PAUSE == \hFE

\* The longest sequence, that of Pause, and Control'd Pause: each state waits
\* for one byte and falls back to INIT on any other.
PauseChain ==
  [E1               |-> [byte |-> \h14, to |-> "E1_14"],
   E1_14            |-> [byte |-> \h77, to |-> "E1_14_77"],
   E1_14_77         |-> [byte |-> \hE1, to |-> "E1_14_77_E1"],
   E1_14_77_E1      |-> [byte |-> \hF0, to |-> "E1_14_77_E1_F0"],
   E1_14_77_E1_F0   |-> [byte |-> \h14, to |-> "E1_14_77_E1_F0_14"],
   E1_14_77_E1_F0_14    |-> [byte |-> \hF0, to |-> "E1_14_77_E1_F0_14_F0"],
   E1_14_77_E1_F0_14_F0 |-> [byte |-> \h77, to |-> "INIT"],
   E0_7E            |-> [byte |-> \hE0, to |-> "E0_7E_E0"],
   E0_7E_E0         |-> [byte |-> \hF0, to |-> "E0_7E_E0_F0"],
   E0_7E_E0_F0      |-> [byte |-> \h7E, to |-> "INIT"]]

DecoderStates == {"INIT", "F0", "E0", "E0_F0"} \cup DOMAIN PauseChain

Byte == 0 .. 255

\* What a step of the decoder does to the matrix.
Nothing    == [do |-> "nothing", key |-> 0]
Make(pos)  == [do |-> "make", key |-> pos]
Break(pos) == [do |-> "break", key |-> pos]
Clear      == [do |-> "clear", key |-> 0]
To(state, effect) == [state |-> state, effect |-> effect]

FromINIT(c) ==
  CASE c = \hE0 -> To("E0", Nothing)
    [] c = \hF0 -> To("F0", Nothing)
    [] c = \hE1 -> To("E1", Nothing)
    [] c = \h83 -> To("INIT", Make(F7))
    [] c = \h84 -> To("INIT", Make(PRINT_SCREEN))
    [] c = 0    -> To("INIT", Clear)                     \* Overrun
    [] c < \h80 /\ c # 0 -> To("INIT", Make(c))
    [] OTHER    -> To("INIT", Clear)

\* Variants: the operators named ...Bug stand for a plausible mistake in the code
\* that the definition after them models; no specification uses them.
FromE0Bug(c) ==
  CASE c = \h7E -> To("E0_7E", Nothing)
    [] c = \hF0 -> To("E0_F0", Nothing)
    [] c < \h80 /\ c # \h7E -> To("INIT", Make(c + \h80))
    [] OTHER    -> To("INIT", Clear)

FromE0(c) ==
  CASE c \in {\h12, \h59} -> To("INIT", Nothing)
    [] c = \h7E -> To("E0_7E", Nothing)
    [] c = \hF0 -> To("E0_F0", Nothing)
    [] c < \h80 /\ c \notin {\h12, \h59, \h7E} -> To("INIT", Make(c + \h80))
    [] OTHER    -> To("INIT", Clear)

FromF0Bug(c) ==
  CASE c = \hF0 -> To("F0", Clear)
    [] c < \h80 -> To("INIT", Break(c))
    [] OTHER    -> To("INIT", Clear)

FromF0(c) ==
  CASE c = \h83 -> To("INIT", Break(F7))
    [] c = \h84 -> To("INIT", Break(PRINT_SCREEN))
    [] c = \hF0 -> To("F0", Clear)
    [] c < \h80 -> To("INIT", Break(c))
    [] OTHER    -> To("INIT", Clear)

FromE0_F0(c) ==
  CASE c \in {\h12, \h59} -> To("INIT", Nothing)
    [] c < \h80 /\ c \notin {\h12, \h59} -> To("INIT", Break(c + \h80))
    [] OTHER    -> To("INIT", Clear)

FromPause(s, c) ==
  IF c # PauseChain[s].byte THEN To("INIT", Nothing)
  ELSE To(PauseChain[s].to,
          IF PauseChain[s].to = "INIT" THEN Make(PAUSE) ELSE Nothing)

\* One run of the switch of matrix_scan, for a byte c in state s.
DecodeByte(s, c) ==
  CASE s = "INIT"  -> FromINIT(c)
    [] s = "E0"    -> FromE0(c)
    [] s = "F0"    -> FromF0(c)
    [] s = "E0_F0" -> FromE0_F0(c)
    [] s \in DOMAIN PauseChain -> FromPause(s, c)

-----------------------------------------------------------------------------
(* What a keyboard sends (the tables in matrix.c), for a few of its keys.  *)

Keyboard == {"A", "Z", "LShift", "F7", "NumLock", "CapsLock", "Right", "ShiftRight",
             "Power", "Wake", "PrtSc", "AltPrtSc", "Pause", "CtrlPause"}

MakeCode(k) ==
  CASE k = "A"         -> <<\h1C>>
    [] k = "Z"         -> <<\h1A>>
    [] k = "LShift"    -> <<\h12>>
    [] k = "F7"        -> <<\h83>>
    [] k = "NumLock"   -> <<\h77>>
    [] k = "CapsLock"  -> <<\h58>>
    [] k = "Right"     -> <<\hE0, \h74>>
    [] k = "ShiftRight"-> <<\hE0, \hF0, \h12, \hE0, \h74>>
    [] k = "Power"     -> <<\hE0, \h37>>
    [] k = "Wake"      -> <<\hE0, \h5E>>
    [] k = "PrtSc"     -> <<\hE0, \h12, \hE0, \h7C>>
    [] k = "AltPrtSc"  -> <<\h84>>
    [] k = "Pause"     -> <<\hE1, \h14, \h77, \hE1, \hF0, \h14, \hF0, \h77>>
    [] k = "CtrlPause" -> <<\hE0, \h7E, \hE0, \hF0, \h7E>>

\* Pause has no break code.
BreakCode(k) ==
  CASE k = "A"         -> <<\hF0, \h1C>>
    [] k = "Z"         -> <<\hF0, \h1A>>
    [] k = "LShift"    -> <<\hF0, \h12>>
    [] k = "F7"        -> <<\hF0, \h83>>
    [] k = "NumLock"   -> <<\hF0, \h77>>
    [] k = "CapsLock"  -> <<\hF0, \h58>>
    [] k = "Right"     -> <<\hE0, \hF0, \h74>>
    [] k = "ShiftRight"-> <<\hE0, \hF0, \h74, \hE0, \h12>>
    [] k = "Power"     -> <<\hE0, \hF0, \h37>>
    [] k = "Wake"      -> <<\hE0, \hF0, \h5E>>
    [] k = "PrtSc"     -> <<\hE0, \hF0, \h7C, \hE0, \hF0, \h12>>
    [] k = "AltPrtSc"  -> <<\hF0, \h84>>
    [] k \in {"Pause", "CtrlPause"} -> <<>>

\* Where the key is in the matrix.
Position(k) ==
  CASE k = "A"         -> \h1C
    [] k = "Z"         -> \h1A
    [] k = "LShift"    -> \h12
    [] k = "F7"        -> F7
    [] k = "NumLock"   -> \h77
    [] k = "CapsLock"  -> \h58
    [] k \in {"Right", "ShiftRight"}  -> \hF4
    [] k = "Power"     -> \hB7
    [] k = "Wake"      -> \hDE
    [] k \in {"PrtSc", "AltPrtSc"}    -> PRINT_SCREEN
    [] k \in {"Pause", "CtrlPause"}   -> PAUSE
=============================================================================
