----------------------------- MODULE HidReport -----------------------------
(***************************************************************************)
(* What making and breaking a key does (matrix_make and matrix_break in    *)
(* matrix.c, register_code and unregister_code in keyboard.c): the matrix, *)
(* the report of modifiers and key slots, its queue kbuf and the system    *)
(* control reports.  One function per C function, from a record of this    *)
(* state to the next.                                                      *)
(***************************************************************************)
EXTENDS ScanDecoder, Keycodes, FiniteSets

CONSTANTS Slots,      \* REPORT_KEYS
          KbufRoom,   \* reports that fit in kbuf, KBUF_SIZE - 1
          KeyAt       \* keymaps: the key code at each position of the matrix

\* No two positions have the same key.
ASSUME ReportAssumption ==
  /\ Slots \in Nat \ {0} /\ KbufRoom \in Nat \ {0}
  /\ KeyAt \in [Byte -> Byte]
  /\ \A p, q \in Byte : KeyAt[p] = KeyAt[q] /\ KeyAt[p] # KC_NO => p = q

Keys == 1 .. Slots
EmptyKeys == [i \in Keys |-> 0]
EmptyReport == [mods |-> {}, keys |-> EmptyKeys]

Report == [mods : SUBSET (0 .. 7), keys : [Keys -> Byte]]
SystemUsage == {0, SYSTEM_POWER_DOWN, SYSTEM_SLEEP}

KeyboardState ==
  [matrix : SUBSET Byte, mods : SUBSET (0 .. 7), keys : [Keys -> Byte],
   kbuf : Seq(Report), lastSystem : SystemUsage, tx3 : Seq(SystemUsage),
   suspendMode : BOOLEAN, crowded : BOOLEAN, dropped : BOOLEAN, cleared : BOOLEAN]

KeyboardInit ==
  [matrix |-> {}, mods |-> {}, keys |-> EmptyKeys, kbuf |-> <<>>,
   lastSystem |-> 0, tx3 |-> <<>>, suspendMode |-> FALSE,
   crowded |-> FALSE,       \* history: a key found no slot
   dropped |-> FALSE,       \* history: a report found kbuf full
   cleared |-> FALSE]       \* history: matrix_clear has run

\* Variants: the operators named ...Bug stand for a plausible mistake in the code
\* that the definition after them models; no specification uses them.
AddAgainBug(keys, c) ==
  LET free == {i \in Keys : keys[i] = 0}
  IN IF free = {} THEN keys
     ELSE [keys EXCEPT ![CHOOSE i \in free : \A j \in free : i <= j] = c]

\* add_key_byte: the first free slot, unless the key has one; no slot, no key.
add_key_byte(keys, c) ==
  LET free == {i \in Keys : keys[i] = 0}
  IN IF free = {} \/ \E i \in Keys : keys[i] = c
       THEN keys
       ELSE [keys EXCEPT ![CHOOSE i \in free : \A j \in free : i <= j] = c]

del_key_byte(keys, c) == [i \in Keys |-> IF keys[i] = c THEN 0 ELSE keys[i]]

\* A key that is pressed takes a slot, if one is free.
AddKey(kb, c) ==
  [kb EXCEPT !.keys = add_key_byte(@, c),
             !.crowded = @ \/ \A i \in Keys : kb.keys[i] \notin {0, c}]

\* send_keyboard_report: the report is queued or, when kbuf is full, dropped.
send_keyboard_report(kb) ==
  IF Len(kb.kbuf) < KbufRoom
    THEN [kb EXCEPT !.kbuf = Append(@, [mods |-> kb.mods, keys |-> kb.keys])]
    ELSE [kb EXCEPT !.dropped = TRUE]

\* send_system: only a change is sent, and only if endpoint 3 is ready now; it
\* counts as sent either way.
send_system(kb, usage) ==
  IF usage = kb.lastSystem THEN kb
  ELSE [kb EXCEPT !.lastSystem = usage,
                  !.tx3 = IF @ = <<>> THEN <<usage>> ELSE @]

\* register_code; sendRemoteWakeUp is the bus signal, which ends the suspend.
register_code(kb, code) ==
  CASE KindOf(code) = "none" -> kb
    [] KindOf(code) = "key" -> send_keyboard_report(AddKey(kb, code))
    [] KindOf(code) = "mod" ->
         send_keyboard_report([kb EXCEPT !.mods = @ \cup {MOD_INDEX(code)}])
    [] code = KC_WAKE -> [kb EXCEPT !.suspendMode = FALSE]
    [] code \in {KC_PWR, KC_SLEP} ->
         IF kb.suspendMode THEN kb ELSE send_system(kb, KEYCODE2SYSTEM(code))

UnregisterBug(kb, code) ==
  CASE KindOf(code) = "none" -> kb
    [] KindOf(code) = "key" ->
         send_keyboard_report([kb EXCEPT !.keys = del_key_byte(@, code)])
    [] KindOf(code) = "mod" ->
         send_keyboard_report([kb EXCEPT !.mods = @ \ {MOD_INDEX(code)}])
    [] KindOf(code) = "system" -> IF kb.suspendMode THEN kb ELSE send_system(kb, 0)

unregister_code(kb, code) ==
  CASE KindOf(code) = "none" -> kb
    [] KindOf(code) = "key" ->
         send_keyboard_report([kb EXCEPT !.keys = del_key_byte(@, code)])
    [] KindOf(code) = "mod" ->
         send_keyboard_report([kb EXCEPT !.mods = @ \ {MOD_INDEX(code)}])
    [] KindOf(code) = "system" -> send_system(kb, 0)

\* matrix_make: only a key that was off counts.  Num Lock is reported when it
\* is released and taken back when the host changes its LED.
matrix_make(kb, pos) ==
  LET on == [kb EXCEPT !.matrix = @ \cup {pos}]
  IN IF pos \in kb.matrix THEN kb
     ELSE IF KeyAt[pos] = KC_NUMLOCK THEN on ELSE register_code(on, KeyAt[pos])

matrix_break(kb, pos) ==
  LET off == [kb EXCEPT !.matrix = @ \ {pos}]
  IN IF pos \notin kb.matrix THEN kb
     ELSE IF KeyAt[pos] = KC_NUMLOCK THEN register_code(off, KC_NUMLOCK)
                                     ELSE unregister_code(off, KeyAt[pos])

\* matrix_clear touches the matrix only.
matrix_clear(kb) == [kb EXCEPT !.matrix = {}, !.cleared = TRUE]

ApplyEffect(kb, e) ==
  CASE e.do = "make"    -> matrix_make(kb, e.key)
    [] e.do = "break"   -> matrix_break(kb, e.key)
    [] e.do = "clear"   -> matrix_clear(kb)
    [] e.do = "nothing" -> kb
=============================================================================
