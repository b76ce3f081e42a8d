------------------------------- MODULE Keymap -------------------------------
(***************************************************************************)
(* The keymap: what key is at a position of the matrix.  KEYMAP_ALL takes  *)
(* a name for each position in an order that shows the keyboard,           *)
(* keymap_plain.c gives the names in that order, keycode.h numbers them.   *)
(***************************************************************************)
EXTENDS Keycodes, Sequences

\* The keys that have a number in keycode.h: names numbered in order.
KeyboardUsages ==
  [first |-> \h04, names |-> <<
       "A", "B", "C", "D", "E", "F", "G", "H", "I", "J", "K", "L", "M", "N",
       "O", "P", "Q", "R", "S", "T", "U", "V", "W", "X", "Y", "Z", "1", "2",
       "3", "4", "5", "6", "7", "8", "9", "0", "ENT", "ESC", "BSPC", "TAB",
       "SPC", "MINS", "EQL", "LBRC", "RBRC", "BSLS", "NUHS", "SCLN", "QUOT",
       "GRV", "COMM", "DOT", "SLSH", "CAPS", "F1", "F2", "F3", "F4", "F5",
       "F6", "F7", "F8", "F9", "F10", "F11", "F12", "PSCR", "SLCK", "BRK",
       "INS", "HOME", "PGUP", "DEL", "END", "PGDN", "RGHT", "LEFT", "DOWN",
       "UP", "NLCK", "PSLS", "PAST", "PMNS", "PPLS", "PENT", "P1", "P2", "P3",
       "P4", "P5", "P6", "P7", "P8", "P9", "P0", "PDOT", "NUBS", "APP",
       "POWER", "PEQL", "F13", "F14", "F15", "F16", "F17", "F18", "F19",
       "F20", "F21", "F22", "F23", "F24" >>]
International == [first |-> \h87, names |-> <<"RO", "KANA", "JYEN", "HENK", "MHEN">>]
Modifiers ==
  [first |-> \hE0, names |-> <<"LCTL", "LSFT", "LALT", "LGUI", "RCTL", "RSFT", "RALT", "RGUI">>]

SpecialKeycodes ==
  [first |-> \hA5, names |-> <<
       "SYSTEM_POWER", "SYSTEM_SLEEP", "SYSTEM_WAKE", "AUDIO_MUTE",
       "AUDIO_VOL_UP", "AUDIO_VOL_DOWN", "MEDIA_NEXT_TRACK",
       "MEDIA_PREV_TRACK", "MEDIA_STOP", "MEDIA_PLAY_PAUSE", "MEDIA_SELECT",
       "MEDIA_EJECT", "MAIL", "CALCULATOR", "MY_COMPUTER", "WWW_SEARCH",
       "WWW_HOME", "WWW_BACK", "WWW_FORWARD", "WWW_STOP", "WWW_REFRESH",
       "WWW_FAVORITES" >>]

Codes(runs) ==
  [n \in UNION {{r.names[i] : i \in DOMAIN r.names} : r \in {runs[j] : j \in DOMAIN runs}} |->
     LET r == CHOOSE j \in DOMAIN runs : \E i \in DOMAIN runs[j].names : runs[j].names[i] = n
     IN  runs[r].first - 1 + CHOOSE i \in DOMAIN runs[r].names : runs[r].names[i] = n]
KC == Codes(<<KeyboardUsages, International, Modifiers, SpecialKeycodes>>)

\* The positions, in the order of KEYMAP_ALL's arguments.
KEYMAP_ALL ==
  <<
     \h76, \h05, \h06, \h04, \h0C, \h03, \h0B, \h83, \h0A, \h01, \h09, \h78,
     \h07, \hFC, \h7E, \hFE, \h0E, \h16, \h1E, \h26, \h25, \h2E, \h36, \h3D,
     \h3E, \h46, \h45, \h4E, \h55, \h66, \hF0, \hEC, \hFD, \h77, \hCA, \h7C,
     \h7B, \h0D, \h15, \h1D, \h24, \h2D, \h2C, \h35, \h3C, \h43, \h44, \h4D,
     \h54, \h5B, \h5D, \hF1, \hE9, \hFA, \h6C, \h75, \h7D, \h58, \h1C, \h1B,
     \h23, \h2B, \h34, \h33, \h3B, \h42, \h4B, \h4C, \h52, \h5A, \h6B, \h73,
     \h74, \h79, \h12, \h1A, \h22, \h21, \h2A, \h32, \h31, \h3A, \h41, \h49,
     \h4A, \h59, \hF5, \h69, \h72, \h7A, \h14, \h9F, \h11, \h29, \h91, \hA7,
     \hAF, \h94, \hEB, \hF2, \hF4, \h70, \h71, \hDA, \h61, \h51, \h13, \h6A,
     \h64, \h67, \h08, \h10, \h18, \h20, \h28, \h30, \h38, \h40, \h48, \h50,
     \h57, \h5F, \hB7, \hBF, \hDE, \hA3, \hB2, \hA1, \hCD, \h95, \hBB, \hB4,
     \hD0, \hC8, \hAB, \hC0, \h90, \hBA, \hB8, \hB0, \hA8, \hA0, \h98 >>

\* The names in that order: keymap_plain.c's, and those KEYMAP adds to them.
KEYMAP ==
  <<
     "ESC", "F1", "F2", "F3", "F4", "F5", "F6", "F7", "F8", "F9", "F10",
     "F11", "F12", "PSCR", "SLCK", "BRK", "GRV", "1", "2", "3", "4", "5", "6",
     "7", "8", "9", "0", "MINS", "EQL", "BSPC", "INS", "HOME", "PGUP", "NLCK",
     "PSLS", "PAST", "PMNS", "TAB", "Q", "W", "E", "R", "T", "Y", "U", "I",
     "O", "P", "LBRC", "RBRC", "BSLS", "DEL", "END", "PGDN", "P7", "P8", "P9",
     "CAPS", "A", "S", "D", "F", "G", "H", "J", "K", "L", "SCLN", "QUOT",
     "ENT", "P4", "P5", "P6", "PPLS", "LSFT", "Z", "X", "C", "V", "B", "N",
     "M", "COMM", "DOT", "SLSH", "RSFT", "UP", "P1", "P2", "P3", "LCTL",
     "LGUI", "LALT", "SPC", "RALT", "RGUI", "APP", "RCTL", "LEFT", "DOWN",
     "RGHT", "P0", "PDOT", "PENT" >>

NamesAdded ==
  <<
     "NUBS", "RO", "KANA", "JYEN", "HENK", "MHEN", "F13", "F14", "F15", "F16",
     "F17", "F18", "F19", "F20", "F21", "F22", "F23", "F24", "SYSTEM_POWER",
     "SYSTEM_SLEEP", "SYSTEM_WAKE", "AUDIO_MUTE", "AUDIO_VOL_UP",
     "AUDIO_VOL_DOWN", "MEDIA_NEXT_TRACK", "MEDIA_PREV_TRACK", "MEDIA_STOP",
     "MEDIA_PLAY_PAUSE", "MEDIA_SELECT", "MAIL", "CALCULATOR", "MY_COMPUTER",
     "WWW_SEARCH", "WWW_HOME", "WWW_BACK", "WWW_FORWARD", "WWW_STOP",
     "WWW_REFRESH", "WWW_FAVORITES" >>

keymaps ==
  LET names == KEYMAP \o NamesAdded
  IN  [pos \in 0 .. 255 |->
         IF \E i \in DOMAIN KEYMAP_ALL : KEYMAP_ALL[i] = pos
           THEN KC[names[CHOOSE i \in DOMAIN KEYMAP_ALL : KEYMAP_ALL[i] = pos]]
           ELSE KC_NO]
=============================================================================
