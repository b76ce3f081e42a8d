----------------------------- MODULE MCKeyPath -----------------------------
\* The key path with the keymap of keymap_plain.c, for model checking.
EXTENDS KeyHost, Keymap
=============================================================================
