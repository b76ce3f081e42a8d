------------------------------ MODULE Keycodes ------------------------------
(* Key codes (keycode.h): the codes the program treats specially, the classes  *)
(* of codes, and what stands for a code in a report.                           *)
EXTENDS Integers

KC_NO == 0
KC_CAPSLOCK == \h39
KC_SCROLLLOCK == \h47
KC_NUMLOCK == \h53

\* The keys whose lamps adjustKeyboardLeds knows.
LockCodes == {KC_SCROLLLOCK, KC_NUMLOCK, KC_CAPSLOCK}

KC_PWR == \hA5
KC_SLEP == \hA6
KC_WAKE == \hA7

\* IS_KEY, IS_MOD and IS_SYSTEM; register_code does nothing with other codes,
\* those of consumer controls and of positions without a key.
KindOf(code) ==
  CASE code \in \h04 .. \hA4 -> "key"
    [] code \in \hE0 .. \hE7 -> "mod"
    [] code \in {KC_PWR, KC_SLEP, KC_WAKE} -> "system"
    [] OTHER -> "none"

MOD_INDEX(code) == code % 8

\* KEYCODE2SYSTEM, for the codes it is called with.
SYSTEM_POWER_DOWN == \h81
SYSTEM_SLEEP == \h82
KEYCODE2SYSTEM(code) == IF code = KC_PWR THEN SYSTEM_POWER_DOWN ELSE SYSTEM_SLEEP
=============================================================================
