--------------------------- MODULE KeyPath_proofs ---------------------------
(***************************************************************************)
(* The key path for every set of keys, number of slots, queue size and     *)
(* bound: the state keeps its type, the report agrees with the matrix, a   *)
(* system control is noted as pressed only while a system key is held,     *)
(* while no byte is lost the matrix is the set of keys held, and a host    *)
(* that reads the reports by the descriptors sees the keys of the matrix.  *)
(***************************************************************************)
EXTENDS KeyHost, SequenceTheorems, WellFoundedInduction, TLAPS

\* ReportTracksMatrix and SystemReleased of a keyboard state k, and that the slots
\* hold neither modifiers nor system keys, whose release leaves the slots alone.
Clean(keys) ==
  /\ \A i, j \in Keys : keys[i] # 0 /\ keys[i] = keys[j] => i = j
  /\ \A i \in Keys : keys[i] = 0 \/ KindOf(keys[i]) = "key"
Complete(k) == k.crowded \/ \A c \in KeysOf(CodesAt(k.matrix)) : \E i \in Keys : k.keys[i] = c
Backed(k) ==
  /\ \A i \in Keys : k.keys[i] \in CodesAt(k.matrix) \cup {0, KC_NUMLOCK}
  /\ k.mods = ModsOf(CodesAt(k.matrix))
  /\ Complete(k)
  /\ k.lastSystem # 0 => \E c \in CodesAt(k.matrix) : KindOf(c) = "system"
Agrees(k) == Clean(k.keys) /\ (~k.cleared => Backed(k))

\* A frame being received is one the keyboard has still to finish.
InFrame == inhibit => pending # <<>> /\ ~err

IInv == TypeOK /\ InFrame /\ Agrees(kb)

-----------------------------------------------------------------------------
(* Key codes.                                                              *)

LEMMA KindIs ==
  ASSUME NEW c
  PROVE  /\ KindOf(c) \in {"key", "mod", "system", "none"}
         /\ KindOf(c) = "system" => c \in {KC_PWR, KC_SLEP, KC_WAKE}
         /\ c \in {KC_PWR, KC_SLEP, KC_WAKE} => KindOf(c) = "system"
         /\ KindOf(KC_NUMLOCK) = "key" /\ KindOf(KC_NO) = "none" /\ KC_NO = 0
         /\ 0 \in Byte /\ KC_NUMLOCK \in LockCodes
         /\ \A d \in LockCodes : d \in Byte /\ d # 0 /\ KindOf(d) = "key"
         /\ KC_NUMLOCK \in Byte /\ KC_NUMLOCK # 0
  BY DEF KindOf, KC_PWR, KC_SLEP, KC_WAKE, KC_NUMLOCK, KC_CAPSLOCK, KC_SCROLLLOCK, LockCodes,
         KC_NO, Byte

\* Every modifier has a bit of its own in the report.
LEMMA ModBits ==
  /\ \A c : KindOf(c) = "mod" => MOD_INDEX(c) \in 0 .. 7
  /\ \A c, d : KindOf(c) = "mod" /\ KindOf(d) = "mod" /\ MOD_INDEX(c) = MOD_INDEX(d) => c = d
  <1>1. \A c : KindOf(c) = "mod" => c \in \hE0 .. \hE7
    BY DEF KindOf
  <1>2. \A c \in \hE0 .. \hE7 : c % 8 = c - \hE0
    OBVIOUS
  <1> QED  BY <1>1, <1>2 DEF MOD_INDEX

LEMMA SystemUsages == 0 \in SystemUsage /\ \A c : KEYCODE2SYSTEM(c) \in SystemUsage
  BY DEF KEYCODE2SYSTEM, SystemUsage

\* What a position adds to the codes and modifiers of a matrix, and takes from them.
LEMMA CodesMade ==
  ASSUME NEW m, NEW pos \in Byte
  PROVE  /\ CodesAt(m \cup {pos}) = CodesAt(m) \cup {KeyAt[pos]}
         /\ KindOf(KeyAt[pos]) # "mod" => ModsOf(CodesAt(m \cup {pos})) = ModsOf(CodesAt(m))
         /\ KindOf(KeyAt[pos]) = "mod" =>
              ModsOf(CodesAt(m \cup {pos})) = ModsOf(CodesAt(m)) \cup {MOD_INDEX(KeyAt[pos])}
  <1>1. CodesAt(m \cup {pos}) = CodesAt(m) \cup {KeyAt[pos]}
    BY DEF CodesAt
  <1> QED  BY <1>1 DEF ModsOf

LEMMA CodesBroken ==
  ASSUME NEW m \in SUBSET Byte, NEW pos \in m, KeyAt[pos] # KC_NO
  PROVE  /\ CodesAt(m \ {pos}) = CodesAt(m) \ {KeyAt[pos]}
         /\ KindOf(KeyAt[pos]) # "mod" => ModsOf(CodesAt(m \ {pos})) = ModsOf(CodesAt(m))
         /\ KindOf(KeyAt[pos]) = "mod" =>
              ModsOf(CodesAt(m \ {pos})) = ModsOf(CodesAt(m)) \ {MOD_INDEX(KeyAt[pos])}
  <1>1. CodesAt(m \ {pos}) = CodesAt(m) \ {KeyAt[pos]}
    <2>1. \A p \in m : KeyAt[p] = KeyAt[pos] => p = pos
      BY ReportAssumption
    <2> QED  BY <2>1 DEF CodesAt
  <1>2. KindOf(KeyAt[pos]) # "mod" => ModsOf(CodesAt(m) \ {KeyAt[pos]}) = ModsOf(CodesAt(m))
    BY DEF ModsOf
  <1>3. KindOf(KeyAt[pos]) = "mod" =>
          ModsOf(CodesAt(m) \ {KeyAt[pos]}) = ModsOf(CodesAt(m)) \ {MOD_INDEX(KeyAt[pos])}
    BY ModBits DEF ModsOf
  <1> QED  BY <1>1, <1>2, <1>3

\* A position without a key takes no key, modifier or system key away.
LEMMA NothingBroken ==
  ASSUME NEW m \in SUBSET Byte, NEW pos \in m, KindOf(KeyAt[pos]) = "none"
  PROVE  /\ \A c \in CodesAt(m) : KindOf(c) # "none" => c \in CodesAt(m \ {pos})
         /\ CodesAt(m \ {pos}) \subseteq CodesAt(m)
         /\ ModsOf(CodesAt(m \ {pos})) = ModsOf(CodesAt(m))
  <1>1. \A c \in CodesAt(m) : KindOf(c) # "none" => c \in CodesAt(m \ {pos})
    BY DEF CodesAt
  <1>2. CodesAt(m \ {pos}) \subseteq CodesAt(m)
    BY DEF CodesAt
  <1>3. {c \in CodesAt(m \ {pos}) : KindOf(c) = "mod"} = {c \in CodesAt(m) : KindOf(c) = "mod"}
    BY <1>1, <1>2
  <1> QED  BY <1>1, <1>2, <1>3 DEF ModsOf

-----------------------------------------------------------------------------
(* The key slots.                                                          *)

LEMMA Least ==
  ASSUME NEW T \in SUBSET Nat, T # {}
  PROVE  \E x \in T : \A y \in T : x <= y
  <1> DEFINE R == {p \in Nat \X Nat : p[1] < p[2]}
  <1>1. R = OpToRel(<, Nat)
    BY DEF OpToRel
  <1>2. IsWellFoundedOn(R, Nat)
    BY <1>1, NatLessThanWellFounded
  <1>3. PICK x \in T : \A y \in T : ~ (<<y, x>> \in R)
    <2> HIDE DEF R
    <2> QED  BY <1>2, WFMin
  <1>4. \A y \in T : ~ (y < x)
    BY <1>3
  <1> QED  BY <1>4

\* add_key_byte fills at most one slot, with the new key, and never one key twice; it
\* leaves the other keys, and the new one is in a slot unless all have others.
LEMMA AddKeyByte ==
  ASSUME NEW keys \in [Keys -> Byte], NEW c \in Byte, KindOf(c) = "key", Clean(keys)
  PROVE  /\ add_key_byte(keys, c) \in [Keys -> Byte]
         /\ Clean(add_key_byte(keys, c))
         /\ \A i \in Keys : add_key_byte(keys, c)[i] \in {keys[i], c}
         /\ \A i \in Keys : keys[i] # 0 => add_key_byte(keys, c)[i] = keys[i]
         /\ (\A i \in Keys : keys[i] \notin {0, c}) \/ \E i \in Keys : add_key_byte(keys, c)[i] = c
  <1>A. \A i \in Keys : keys[i] = c => c # 0
    BY KindIs DEF KC_NO
  <1>1. CASE add_key_byte(keys, c) = keys
    <2>1. {i \in Keys : keys[i] = 0} # {} => \E i \in Keys : keys[i] = c
      <3> SUFFICES ASSUME {i \in Keys : keys[i] = 0} # {}, \A i \in Keys : keys[i] # c
                   PROVE  FALSE  OBVIOUS
      <3> DEFINE free == {i \in Keys : keys[i] = 0}
      <3>1. add_key_byte(keys, c) = [keys EXCEPT ![CHOOSE i \in free : \A j \in free : i <= j] = c]
        BY DEF add_key_byte
      <3>2. \E i \in free : \A j \in free : i <= j
        <4>1. free \in SUBSET Nat
          BY ReportAssumption DEF Keys
        <4> HIDE DEF free
        <4> QED  BY <4>1, Least DEF free
      <3>3. PICK x \in free : add_key_byte(keys, c) = [keys EXCEPT ![x] = c]
        <4> HIDE DEF free
        <4> QED  BY <3>1, <3>2
      <3> QED  BY <1>1, <3>3
    <2> QED  BY <1>1, <2>1
  <1>2. CASE add_key_byte(keys, c) # keys
    <2>1. \A i \in Keys : keys[i] # c
      BY <1>2 DEF add_key_byte
    <2> DEFINE free == {i \in Keys : keys[i] = 0}
    <2>2. free # {} /\ add_key_byte(keys, c) =
            [keys EXCEPT ![CHOOSE i \in free : \A j \in free : i <= j] = c]
      BY <1>2 DEF add_key_byte
    <2>3. \E i \in free : \A j \in free : i <= j
      <3>1. free \in SUBSET Nat
        BY ReportAssumption DEF Keys
      <3> HIDE DEF free
      <3> QED  BY <2>2, <3>1, Least
    <2>4. PICK x \in free : add_key_byte(keys, c) = [keys EXCEPT ![x] = c]
      <3> HIDE DEF free
      <3> QED  BY <2>2, <2>3
    <2>5. x \in Keys /\ keys[x] = 0
      BY <2>4
    <2>6. add_key_byte(keys, c)[x] = c /\ \A i \in Keys \ {x} : add_key_byte(keys, c)[i] = keys[i]
      BY <2>4, <2>5
    <2> HIDE DEF free
    <2> QED  BY <1>A, <2>1, <2>4, <2>5, <2>6 DEF Clean
  <1> QED  BY <1>1, <1>2

\* del_key_byte frees the slots of the key and leaves the others.
LEMMA DelKey ==
  ASSUME NEW keys \in [Keys -> Byte], NEW c \in Byte, Clean(keys)
  PROVE  /\ del_key_byte(keys, c) \in [Keys -> Byte]
         /\ Clean(del_key_byte(keys, c))
         /\ \A i \in Keys : del_key_byte(keys, c)[i] \in ({keys[i]} \ {c}) \cup {0}
         /\ \A i \in Keys : keys[i] # c => del_key_byte(keys, c)[i] = keys[i]
  BY KindIs DEF del_key_byte, Clean

-----------------------------------------------------------------------------
(* The reports: neither queue changes what they are made from.             *)

LEMMA SendReport ==
  ASSUME NEW k \in KeyboardState
  PROVE  LET s == send_keyboard_report(k)
         IN /\ s \in KeyboardState
            /\ s.matrix = k.matrix /\ s.mods = k.mods /\ s.keys = k.keys
            /\ s.lastSystem = k.lastSystem /\ s.cleared = k.cleared /\ s.crowded = k.crowded
  <1> DEFINE r == [mods |-> k.mods, keys |-> k.keys]
  <1>1. r \in Report /\ k.kbuf \in Seq(Report)
    BY DEF KeyboardState, Report
  <1>2. Append(k.kbuf, r) \in Seq(Report)
    BY <1>1, AppendProperties
  <1>3. \/ send_keyboard_report(k) = [k EXCEPT !.kbuf = Append(k.kbuf, r)]
        \/ send_keyboard_report(k) = [k EXCEPT !.dropped = TRUE]
    BY DEF send_keyboard_report, KeyboardState
  <1> HIDE DEF r
  <1> QED  BY <1>2, <1>3 DEF KeyboardState

LEMMA SendSystem ==
  ASSUME NEW k \in KeyboardState, NEW u \in SystemUsage
  PROVE  LET s == send_system(k, u)
         IN /\ s \in KeyboardState
            /\ s.matrix = k.matrix /\ s.mods = k.mods /\ s.keys = k.keys
            /\ s.lastSystem = u /\ s.cleared = k.cleared /\ s.crowded = k.crowded
  <1> DEFINE t == IF k.tx3 = <<>> THEN <<u>> ELSE k.tx3
  <1>1. t \in Seq(SystemUsage)
    BY DEF KeyboardState
  <1>2. \/ k.lastSystem = u /\ send_system(k, u) = k
        \/ send_system(k, u) = [k EXCEPT !.lastSystem = u, !.tx3 = t]
    BY DEF send_system, KeyboardState
  <1> HIDE DEF t
  <1> QED  BY <1>1, <1>2 DEF KeyboardState

-----------------------------------------------------------------------------
(* Making and breaking a key.                                              *)

\* A report stays complete if it keeps the keys that stay in the matrix and gets
\* those that come, or notes that there was no slot.
LEMMA StaysComplete ==
  ASSUME NEW k, NEW a, Complete(k), k.crowded => a.crowded,
         \A c \in KeysOf(CodesAt(a.matrix)) :
           a.crowded \/ (\E i \in Keys : a.keys[i] = c) \/ c \in KeysOf(CodesAt(k.matrix)),
         \A i \in Keys : k.keys[i] \in KeysOf(CodesAt(a.matrix)) => a.keys[i] = k.keys[i]
  PROVE  Complete(a)
  BY DEF Complete

LEMMA SameComplete ==
  ASSUME NEW k, NEW a, Complete(k), a.crowded = k.crowded, a.keys = k.keys,
         KeysOf(CodesAt(a.matrix)) \subseteq KeysOf(CodesAt(k.matrix))
  PROVE  Complete(a)
  BY StaysComplete

\* What is sent is what the state says: sending changes nothing the invariant is about.
LEMMA SentAgrees ==
  ASSUME NEW k \in KeyboardState, Agrees(k)
  PROVE  send_keyboard_report(k) \in KeyboardState /\ Agrees(send_keyboard_report(k))
  <1> DEFINE s == send_keyboard_report(k)
  <1>1. /\ s \in KeyboardState
        /\ s.matrix = k.matrix /\ s.mods = k.mods /\ s.keys = k.keys
        /\ s.lastSystem = k.lastSystem /\ s.cleared = k.cleared /\ s.crowded = k.crowded
    BY SendReport
  <1> HIDE DEF s
  <1>2. Complete(k) => Complete(s)
    BY <1>1, SameComplete
  <1>3. Agrees(s)
    BY <1>1, <1>2 DEF Agrees, Backed
  <1> QED  BY <1>1, <1>3 DEF s

\* A key is made: the report gets it if it has a slot, and the matrix in any case.
LEMMA MakeKeeps ==
  ASSUME NEW k \in KeyboardState, Agrees(k), NEW pos \in Byte
  PROVE  matrix_make(k, pos) \in KeyboardState /\ Agrees(matrix_make(k, pos))
  <1> DEFINE on == [k EXCEPT !.matrix = k.matrix \cup {pos}]
             c == KeyAt[pos]
  <1>1. CASE pos \in k.matrix
    BY <1>1 DEF matrix_make
  <1>2. ASSUME pos \notin k.matrix
        PROVE  matrix_make(k, pos) = IF c = KC_NUMLOCK THEN on ELSE register_code(on, c)
    BY <1>2 DEF matrix_make, KeyboardState
  <1>3. /\ on \in KeyboardState
        /\ on.matrix = k.matrix \cup {pos} /\ on.mods = k.mods /\ on.keys = k.keys
        /\ on.lastSystem = k.lastSystem /\ on.cleared = k.cleared /\ on.crowded = k.crowded
    BY DEF KeyboardState
  <1>4. c \in Byte /\ CodesAt(on.matrix) = CodesAt(k.matrix) \cup {c}
    BY <1>3, CodesMade, ReportAssumption
  <1>M. KindOf(c) # "mod" => ModsOf(CodesAt(on.matrix)) = ModsOf(CodesAt(k.matrix))
    BY <1>3, CodesMade
  <1> HIDE DEF on, c
  <1>5. KindOf(c) \in {"system", "none"} \/ c = KC_NUMLOCK => Agrees(on)
    <2> SUFFICES ASSUME KindOf(c) \in {"system", "none"} \/ c = KC_NUMLOCK PROVE Agrees(on)
      OBVIOUS
    <2>1. KeysOf(CodesAt(on.matrix)) \subseteq KeysOf(CodesAt(k.matrix))
      BY <1>4, KindIs DEF KeysOf
    <2>2. Complete(k) => Complete(on)
      BY <1>3, <2>1, SameComplete
    <2>3. KindOf(c) # "mod"
      BY KindIs
    <2> QED  BY <1>3, <1>4, <1>M, <2>2, <2>3 DEF Agrees, Backed
  <1>6. CASE pos \notin k.matrix /\ (c = KC_NUMLOCK \/ KindOf(c) = "none")
    <2>1. matrix_make(k, pos) = on
      BY <1>2, <1>6, KindIs DEF register_code
    <2> QED  BY <1>3, <1>5, <1>6, <2>1, KindIs
  <1>7. CASE pos \notin k.matrix /\ c # KC_NUMLOCK /\ KindOf(c) = "key"
    <2> DEFINE a == AddKey(on, c)
    <2>1. on.keys \in [Keys -> Byte] /\ Clean(on.keys)
      BY <1>3 DEF KeyboardState, Agrees
    <2>2. /\ add_key_byte(on.keys, c) \in [Keys -> Byte]
          /\ Clean(add_key_byte(on.keys, c))
          /\ \A i \in Keys : add_key_byte(on.keys, c)[i] \in {on.keys[i], c}
          /\ \A i \in Keys : on.keys[i] # 0 => add_key_byte(on.keys, c)[i] = on.keys[i]
          /\ \/ \A i \in Keys : on.keys[i] \notin {0, c}
             \/ \E i \in Keys : add_key_byte(on.keys, c)[i] = c
      BY <1>4, <1>7, <2>1, AddKeyByte
    <2>3. /\ a \in KeyboardState
          /\ a.matrix = on.matrix /\ a.mods = on.mods /\ a.cleared = on.cleared
          /\ a.lastSystem = on.lastSystem /\ a.keys = add_key_byte(on.keys, c)
          /\ a.crowded = (on.crowded \/ \A i \in Keys : on.keys[i] \notin {0, c})
      BY <1>3, <2>2 DEF AddKey, KeyboardState
    <2> HIDE DEF a
    <2>C. Complete(k) => Complete(a)
      <3>1. \A d \in KeysOf(CodesAt(a.matrix)) : d = c \/ d \in KeysOf(CodesAt(k.matrix))
        BY <1>4, <2>3 DEF KeysOf
      <3>2. a.crowded \/ \E i \in Keys : a.keys[i] = c
        BY <2>2, <2>3
      <3>3. \A i \in Keys : k.keys[i] \in KeysOf(CodesAt(a.matrix)) => a.keys[i] = k.keys[i]
        BY <1>3, <2>2, <2>3, KindIs DEF KeysOf
      <3>4. k.crowded => a.crowded
        BY <1>3, <2>3
      <3> QED  BY <3>1, <3>2, <3>3, <3>4, StaysComplete
    <2>4. Agrees(a)
      BY <1>3, <1>4, <1>M, <1>7, <2>2, <2>3, <2>C DEF Agrees, Backed
    <2>5. matrix_make(k, pos) = send_keyboard_report(a)
      <3>1. register_code(on, c) = send_keyboard_report(a)
        BY <1>7, KindIs DEF register_code, a
      <3> QED  BY <1>2, <1>7, <3>1
    <2> QED  BY <2>3, <2>4, <2>5, SentAgrees
  <1>8. CASE pos \notin k.matrix /\ c # KC_NUMLOCK /\ KindOf(c) = "mod"
    <2> DEFINE a == [on EXCEPT !.mods = on.mods \cup {MOD_INDEX(c)}]
    <2>1. /\ a \in KeyboardState
          /\ a.matrix = on.matrix /\ a.mods = on.mods \cup {MOD_INDEX(c)} /\ a.cleared = on.cleared
          /\ a.lastSystem = on.lastSystem /\ a.keys = on.keys /\ a.crowded = on.crowded
      BY <1>3, <1>8, ModBits DEF KeyboardState
    <2>2. ModsOf(CodesAt(on.matrix)) = ModsOf(CodesAt(k.matrix)) \cup {MOD_INDEX(c)}
      BY <1>3, <1>8, CodesMade DEF c
    <2>C. Complete(k) => Complete(a)
      <3> HIDE DEF a
      <3>1. KeysOf(CodesAt(a.matrix)) \subseteq KeysOf(CodesAt(k.matrix))
        BY <1>4, <1>8, <2>1 DEF KeysOf
      <3> QED  BY <1>3, <2>1, <3>1, SameComplete
    <2>3. Agrees(a)
      BY <1>3, <1>4, <2>1, <2>2, <2>C DEF Agrees, Backed
    <2>4. matrix_make(k, pos) = send_keyboard_report(a)
      <3>1. register_code(on, c) = send_keyboard_report(a)
        BY <1>8, KindIs DEF register_code
      <3> QED  BY <1>2, <1>8, <3>1
    <2> HIDE DEF a
    <2> QED  BY <2>1, <2>3, <2>4, SentAgrees
  <1>9. CASE pos \notin k.matrix /\ c # KC_NUMLOCK /\ KindOf(c) = "system"
    <2>1. \/ matrix_make(k, pos) = [on EXCEPT !.suspendMode = FALSE]
          \/ matrix_make(k, pos) = on
          \/ matrix_make(k, pos) = send_system(on, KEYCODE2SYSTEM(c))
      BY <1>2, <1>9, KindIs DEF register_code
    <2>2. Agrees([on EXCEPT !.suspendMode = FALSE])
          /\ [on EXCEPT !.suspendMode = FALSE] \in KeyboardState
      BY <1>3, <1>5, <1>9 DEF Agrees, Backed, Complete, KeyboardState
    <2> DEFINE s == send_system(on, KEYCODE2SYSTEM(c))
    <2>3. /\ s \in KeyboardState
          /\ s.matrix = on.matrix /\ s.mods = on.mods /\ s.keys = on.keys
          /\ s.cleared = on.cleared /\ s.crowded = on.crowded
      BY <1>3, SystemUsages, SendSystem
    <2> HIDE DEF s
    <2>C. Complete(on) => Complete(s)
      BY <2>3, SameComplete
    <2>4. Agrees(s)
      BY <1>4, <1>5, <1>9, <2>3, <2>C DEF Agrees, Backed
    <2> QED  BY <1>3, <1>5, <1>9, <2>1, <2>2, <2>3, <2>4 DEF s
  <1> QED  BY <1>1, <1>6, <1>7, <1>8, <1>9, KindIs

\* A key is broken: it leaves the matrix and the report together.
LEMMA BreakKeeps ==
  ASSUME NEW k \in KeyboardState, Agrees(k), NEW pos \in Byte
  PROVE  matrix_break(k, pos) \in KeyboardState /\ Agrees(matrix_break(k, pos))
  <1> DEFINE off == [k EXCEPT !.matrix = k.matrix \ {pos}]
             c == KeyAt[pos]
  <1>1. CASE pos \notin k.matrix
    BY <1>1 DEF matrix_break
  <1>2. ASSUME pos \in k.matrix
        PROVE  matrix_break(k, pos) = IF c = KC_NUMLOCK THEN register_code(off, KC_NUMLOCK)
                                                       ELSE unregister_code(off, c)
    BY <1>2 DEF matrix_break, KeyboardState
  <1>3. /\ off \in KeyboardState
        /\ off.matrix = k.matrix \ {pos} /\ off.mods = k.mods /\ off.keys = k.keys
        /\ off.lastSystem = k.lastSystem /\ off.cleared = k.cleared /\ off.crowded = k.crowded
    BY DEF KeyboardState
  <1>4. /\ off.keys \in [Keys -> Byte] /\ Clean(off.keys)
        /\ k.matrix \in SUBSET Byte /\ c \in Byte
    BY <1>3, ReportAssumption DEF KeyboardState, Agrees
  <1>0. ASSUME pos \in k.matrix, KindOf(c) # "none"
        PROVE  /\ CodesAt(off.matrix) = CodesAt(k.matrix) \ {c}
               /\ KindOf(c) # "mod" => ModsOf(CodesAt(off.matrix)) = ModsOf(CodesAt(k.matrix))
               /\ KindOf(c) = "mod" =>
                    ModsOf(CodesAt(off.matrix)) = ModsOf(CodesAt(k.matrix)) \ {MOD_INDEX(c)}
    <2>1. c # KC_NO
      BY <1>0, KindIs
    <2> QED  BY <1>0, <1>3, <1>4, <2>1, CodesBroken
  <1> HIDE DEF off
  <1>C. /\ CodesAt(off.matrix) \subseteq CodesAt(k.matrix)
        /\ KeysOf(CodesAt(off.matrix)) \subseteq KeysOf(CodesAt(k.matrix))
        /\ Complete(k) => Complete(off)
    <2>1. CodesAt(off.matrix) \subseteq CodesAt(k.matrix)
      BY <1>3 DEF CodesAt
    <2>2. KeysOf(CodesAt(off.matrix)) \subseteq KeysOf(CodesAt(k.matrix))
      BY <2>1 DEF KeysOf
    <2> QED  BY <1>3, <2>1, <2>2, SameComplete
  <1>5. CASE pos \in k.matrix /\ c = KC_NUMLOCK
    <2> DEFINE a == AddKey(off, KC_NUMLOCK)
    <2>1. /\ add_key_byte(off.keys, KC_NUMLOCK) \in [Keys -> Byte]
          /\ Clean(add_key_byte(off.keys, KC_NUMLOCK))
          /\ \A i \in Keys : add_key_byte(off.keys, KC_NUMLOCK)[i] \in {off.keys[i], KC_NUMLOCK}
          /\ \A i \in Keys : off.keys[i] # 0 => add_key_byte(off.keys, KC_NUMLOCK)[i] = off.keys[i]
      BY <1>4, KindIs, AddKeyByte
    <2>2. /\ a \in KeyboardState
          /\ a.matrix = off.matrix /\ a.mods = off.mods /\ a.cleared = off.cleared
          /\ a.lastSystem = off.lastSystem /\ a.keys = add_key_byte(off.keys, KC_NUMLOCK)
          /\ off.crowded => a.crowded
      BY <1>3, <2>1 DEF AddKey, KeyboardState
    <2>C. Complete(k) => Complete(a)
      <3> HIDE DEF a
      <3>1. \A i \in Keys : k.keys[i] \in KeysOf(CodesAt(a.matrix)) => a.keys[i] = k.keys[i]
        BY <1>3, <2>1, <2>2, KindIs DEF KeysOf
      <3> QED  BY <1>3, <1>C, <2>2, <3>1, StaysComplete
    <2>3. Agrees(a)
      <3>1. KindOf(c) = "key"
        BY <1>5, KindIs
      <3>2. ~k.cleared => Backed(a)
        <4> SUFFICES ASSUME ~k.cleared PROVE Backed(a)  OBVIOUS
        <4>1. Backed(k)
          BY DEF Agrees
        <4>2. (\E d \in CodesAt(k.matrix) : KindOf(d) = "system")
                => \E d \in CodesAt(off.matrix) : KindOf(d) = "system"
          BY <1>0, <1>5, <3>1
        <4> QED  BY <1>0, <1>3, <1>5, <2>1, <2>2, <2>C, <3>1, <4>1, <4>2 DEF Backed
      <3> QED  BY <1>3, <2>1, <2>2, <3>2 DEF Agrees
    <2>4. matrix_break(k, pos) = send_keyboard_report(a)
      <3>1. register_code(off, KC_NUMLOCK) = send_keyboard_report(a)
        BY KindIs DEF register_code
      <3> QED  BY <1>2, <1>5, <3>1
    <2> HIDE DEF a
    <2> QED  BY <2>2, <2>3, <2>4, SentAgrees
  <1>6. CASE pos \in k.matrix /\ c # KC_NUMLOCK /\ KindOf(c) = "key"
    <2> DEFINE a == [off EXCEPT !.keys = del_key_byte(off.keys, c)]
    <2>1. /\ del_key_byte(off.keys, c) \in [Keys -> Byte]
          /\ Clean(del_key_byte(off.keys, c))
          /\ \A i \in Keys : del_key_byte(off.keys, c)[i] \in ({off.keys[i]} \ {c}) \cup {0}
          /\ \A i \in Keys : off.keys[i] # c => del_key_byte(off.keys, c)[i] = off.keys[i]
      BY <1>4, DelKey
    <2>2. /\ a \in KeyboardState
          /\ a.matrix = off.matrix /\ a.mods = off.mods /\ a.cleared = off.cleared
          /\ a.lastSystem = off.lastSystem /\ a.keys = del_key_byte(off.keys, c)
          /\ a.crowded = off.crowded
      BY <1>3, <2>1 DEF KeyboardState
    <2>C. Complete(k) => Complete(a)
      <3> HIDE DEF a
      <3>1. \A i \in Keys : k.keys[i] \in KeysOf(CodesAt(a.matrix)) => a.keys[i] = k.keys[i]
        <4>1. c \notin KeysOf(CodesAt(a.matrix))
          BY <1>0, <1>6, <2>2 DEF KeysOf
        <4> QED  BY <1>3, <2>1, <2>2, <4>1
      <3> QED  BY <1>3, <1>C, <2>2, <3>1, StaysComplete
    <2>3. Agrees(a)
      <3>1. ~k.cleared => Backed(a)
        BY <1>0, <1>3, <1>6, <2>1, <2>2, <2>C DEF Agrees, Backed
      <3> QED  BY <1>3, <2>1, <2>2, <3>1 DEF Agrees
    <2>4. matrix_break(k, pos) = send_keyboard_report(a)
      BY <1>2, <1>3, <1>6 DEF unregister_code, KeyboardState
    <2> HIDE DEF a
    <2> QED  BY <2>2, <2>3, <2>4, SentAgrees
  <1>7. CASE pos \in k.matrix /\ c # KC_NUMLOCK /\ KindOf(c) = "mod"
    <2> DEFINE a == [off EXCEPT !.mods = off.mods \ {MOD_INDEX(c)}]
    <2>1. /\ a \in KeyboardState
          /\ a.matrix = off.matrix /\ a.mods = off.mods \ {MOD_INDEX(c)} /\ a.cleared = off.cleared
          /\ a.lastSystem = off.lastSystem /\ a.keys = off.keys /\ a.crowded = off.crowded
      BY <1>3 DEF KeyboardState
    <2>C. Complete(k) => Complete(a)
      <3> HIDE DEF a
      <3> QED  BY <1>3, <1>C, <2>1, SameComplete
    <2>2. \A i \in Keys : k.keys[i] # c
      BY <1>7, KindIs DEF Agrees, Clean
    <2>3. Agrees(a)
      <3>1. ~k.cleared => Backed(a)
        BY <1>0, <1>3, <1>7, <2>1, <2>2, <2>C DEF Agrees, Backed
      <3> QED  BY <1>3, <1>4, <2>1, <3>1 DEF Agrees
    <2>4. matrix_break(k, pos) = send_keyboard_report(a)
      BY <1>2, <1>3, <1>7 DEF unregister_code, KeyboardState
    <2> HIDE DEF a
    <2> QED  BY <2>1, <2>3, <2>4, SentAgrees
  <1>8. CASE pos \in k.matrix /\ c # KC_NUMLOCK /\ KindOf(c) = "system"
    <2>1. matrix_break(k, pos) = send_system(off, 0)
      BY <1>2, <1>8 DEF unregister_code
    <2>2. \A i \in Keys : k.keys[i] # c
      BY <1>8, KindIs DEF Agrees, Clean
    <2> DEFINE r == matrix_break(k, pos)
    <2>3. r = send_system(off, 0)
      BY <2>1
    <2> HIDE DEF r
    <2>4. /\ r \in KeyboardState
          /\ r.matrix = off.matrix /\ r.mods = off.mods /\ r.keys = off.keys
          /\ r.lastSystem = 0 /\ r.cleared = off.cleared /\ r.crowded = off.crowded
      BY <1>3, <2>3, SendSystem, SystemUsages
    <2>C. Complete(k) => Complete(r)
      BY <1>3, <1>C, <2>4, SameComplete
    <2>5. Backed(k) => Backed(r)
      BY <1>0, <1>3, <1>8, <2>2, <2>4, <2>C DEF Backed
    <2>6. Agrees(r)
      BY <1>3, <2>4, <2>5 DEF Agrees
    <2> QED  BY <2>4, <2>6 DEF r
  <1>9. CASE pos \in k.matrix /\ c # KC_NUMLOCK /\ KindOf(c) = "none"
    <2>1. matrix_break(k, pos) = off
      BY <1>2, <1>9 DEF unregister_code
    <2>2. /\ \A d \in CodesAt(k.matrix) : KindOf(d) # "none" => d \in CodesAt(off.matrix)
          /\ ModsOf(CodesAt(off.matrix)) = ModsOf(CodesAt(k.matrix))
      BY <1>3, <1>4, <1>9, NothingBroken
    <2>3. Backed(k) /\ Clean(k.keys) => Backed(off)
      <3>1. KindOf(KC_NUMLOCK) = "key" /\ Clean(k.keys) =>
              \A i \in Keys : k.keys[i] # 0 => KindOf(k.keys[i]) = "key"
        BY DEF Clean
      <3> QED  BY <1>3, <1>C, <2>2, <3>1, KindIs DEF Backed
    <2>4. Agrees(off)
      BY <1>3, <2>3 DEF Agrees
    <2> QED  BY <1>3, <2>1, <2>4
  <1> QED  BY <1>1, <1>5, <1>6, <1>7, <1>8, <1>9, KindIs

\* A lock key that is taken out of the report is none that has to be in it.
LEMMA LedKeeps ==
  ASSUME NEW k \in KeyboardState, Agrees(k), NEW c \in LockCodes
  PROVE  unregister_code(k, c) \in KeyboardState /\ Agrees(unregister_code(k, c))
  <1> DEFINE a == [k EXCEPT !.keys = del_key_byte(k.keys, c)]
  <1>1. c \in Byte /\ KindOf(c) = "key" /\ k.keys \in [Keys -> Byte] /\ Clean(k.keys)
    BY KindIs DEF KeyboardState, Agrees
  <1>2. /\ del_key_byte(k.keys, c) \in [Keys -> Byte]
        /\ Clean(del_key_byte(k.keys, c))
        /\ \A i \in Keys : del_key_byte(k.keys, c)[i] \in ({k.keys[i]} \ {c}) \cup {0}
        /\ \A i \in Keys : k.keys[i] # c => del_key_byte(k.keys, c)[i] = k.keys[i]
    BY <1>1, DelKey
  <1>3. /\ a \in KeyboardState
        /\ a.matrix = k.matrix /\ a.mods = k.mods /\ a.cleared = k.cleared
        /\ a.lastSystem = k.lastSystem /\ a.keys = del_key_byte(k.keys, c)
        /\ a.crowded = k.crowded
    BY <1>2 DEF KeyboardState
  <1>4. unregister_code(k, c) = send_keyboard_report(a)
    BY <1>1 DEF unregister_code, KeyboardState
  <1> HIDE DEF a
  <1>5. Complete(k) => Complete(a)
    <2>1. \A i \in Keys : k.keys[i] \in KeysOf(CodesAt(a.matrix)) => a.keys[i] = k.keys[i]
      BY <1>2, <1>3 DEF KeysOf
    <2> QED  BY <1>3, <2>1, StaysComplete
  <1>6. Agrees(a)
    BY <1>2, <1>3, <1>5 DEF Agrees, Backed
  <1> QED  BY <1>3, <1>4, <1>6, SentAgrees

LEMMA ClearKeeps ==
  ASSUME NEW k \in KeyboardState, Agrees(k)
  PROVE  matrix_clear(k) \in KeyboardState /\ Agrees(matrix_clear(k))
  BY DEF matrix_clear, KeyboardState, Agrees

-----------------------------------------------------------------------------
(* The decoder.                                                            *)

Effect == [do : {"nothing", "make", "break", "clear"}, key : Byte]

LEMMA EffectKeeps ==
  ASSUME NEW k \in KeyboardState, Agrees(k), NEW e \in Effect
  PROVE  ApplyEffect(k, e) \in KeyboardState /\ Agrees(ApplyEffect(k, e))
  <1>1. e.key \in Byte /\ e.do \in {"nothing", "make", "break", "clear"}
    BY DEF Effect
  <1>2. CASE e.do = "make"
    BY <1>1, <1>2, MakeKeeps DEF ApplyEffect
  <1>3. CASE e.do = "break"
    BY <1>1, <1>3, BreakKeeps DEF ApplyEffect
  <1>4. CASE e.do = "clear"
    BY <1>4, ClearKeeps DEF ApplyEffect
  <1>5. CASE e.do = "nothing"
    BY <1>5 DEF ApplyEffect
  <1> QED  BY <1>1, <1>2, <1>3, <1>4, <1>5

LEMMA PauseKeeps ==
  ASSUME NEW k \in KeyboardState, Agrees(k)
  PROVE  PauseBroken(k) \in KeyboardState /\ Agrees(PauseBroken(k))
  <1>1. PAUSE \in Byte
    BY DEF PAUSE, Byte
  <1> QED  BY <1>1, BreakKeeps DEF PauseBroken

\* In every state and for every byte the decoder goes on to a state it knows, and
\* names a position inside the matrix.
LEMMA DecodeTyped ==
  ASSUME NEW s \in DecoderStates, NEW c \in Byte
  PROVE  /\ DecodeByte(s, c).state \in DecoderStates
         /\ DecodeByte(s, c).effect \in Effect
  <1> DEFINE Good(d) == d.state \in DecoderStates /\ d.effect \in Effect
  <1> USE DEF To
  <1>1. /\ {"INIT", "F0", "E0", "E0_F0", "E1", "E0_7E"} \subseteq DecoderStates
        /\ \A t \in DOMAIN PauseChain : PauseChain[t].to \in DecoderStates
    BY DEF DecoderStates, PauseChain
  <1>2. /\ Nothing \in Effect /\ Clear \in Effect
        /\ \A p \in Byte : Make(p) \in Effect /\ Break(p) \in Effect
        /\ {F7, PRINT_SCREEN, PAUSE} \subseteq Byte
        /\ c < \h80 => c + \h80 \in Byte
    BY DEF Nothing, Clear, Make, Break, Effect, Byte, F7, PRINT_SCREEN, PAUSE
  <1>3. Good(FromINIT(c))
    BY <1>1, <1>2 DEF FromINIT
  <1>4. Good(FromE0(c))
    BY <1>1, <1>2 DEF FromE0
  <1>5. Good(FromF0(c))
    BY <1>1, <1>2 DEF FromF0
  <1>6. Good(FromE0_F0(c))
    BY <1>1, <1>2 DEF FromE0_F0
  <1>7. \A t \in DOMAIN PauseChain : Good(FromPause(t, c))
    BY <1>1, <1>2 DEF FromPause
  <1>8. s \in {"INIT", "F0", "E0", "E0_F0"} \cup DOMAIN PauseChain
    BY DEF DecoderStates
  <1>9. {"INIT", "F0", "E0", "E0_F0"} \cap DOMAIN PauseChain = {}
    BY DEF PauseChain
  <1> HIDE DEF Good
  <1>10. Good(DecodeByte(s, c))
    BY <1>3, <1>4, <1>5, <1>6, <1>7, <1>8, <1>9 DEF DecodeByte
  <1> QED  BY <1>10 DEF Good

-----------------------------------------------------------------------------
(* Bytes on their way.                                                     *)

LEMMA CodesTyped ==
  ASSUME NEW k \in Keyboard
  PROVE  MakeCode(k) \in Seq(Byte) /\ BreakCode(k) \in Seq(Byte)
  <1>1. CASE k = "A"
    BY <1>1 DEF MakeCode, BreakCode, Byte
  <1>2. CASE k = "Z"
    BY <1>2 DEF MakeCode, BreakCode, Byte
  <1>3. CASE k = "LShift"
    BY <1>3 DEF MakeCode, BreakCode, Byte
  <1>4. CASE k = "F7"
    BY <1>4 DEF MakeCode, BreakCode, Byte
  <1>5. CASE k = "NumLock"
    BY <1>5 DEF MakeCode, BreakCode, Byte
  <1>6. CASE k = "Right"
    BY <1>6 DEF MakeCode, BreakCode, Byte
  <1>7. CASE k = "ShiftRight"
    BY <1>7 DEF MakeCode, BreakCode, Byte
  <1>8. CASE k = "Power"
    BY <1>8 DEF MakeCode, BreakCode, Byte
  <1>9. CASE k = "Wake"
    BY <1>9 DEF MakeCode, BreakCode, Byte
  <1>10. CASE k = "PrtSc"
    BY <1>10 DEF MakeCode, BreakCode, Byte
  <1>11. CASE k = "AltPrtSc"
    BY <1>11 DEF MakeCode, BreakCode, Byte
  <1>12. CASE k = "Pause"
    BY <1>12 DEF MakeCode, BreakCode, Byte
  <1>13. CASE k = "CtrlPause"
    BY <1>13 DEF MakeCode, BreakCode, Byte
  <1>14. CASE k = "CapsLock"
    BY <1>14 DEF MakeCode, BreakCode, Byte
  <1> QED  BY <1>1, <1>2, <1>3, <1>4, <1>5, <1>6, <1>7, <1>8, <1>9, <1>10, <1>11,
           <1>12, <1>13, <1>14
           DEF Keyboard

LEMMA QueueTyped ==
  ASSUME NEW q \in Seq(Byte)
  PROVE  /\ First(q) \in Byte /\ Rest(q) \in Seq(Byte)
         /\ \A d \in Byte : Put(q, d, QueueRoom) \in Seq(Byte)
  <1>1. q # <<>> => Head(q) \in Byte /\ Tail(q) \in Seq(Byte)
    BY HeadTailProperties
  <1>2. \A d \in Byte : Append(q, d) \in Seq(Byte)
    BY AppendProperties
  <1> QED  BY <1>1, <1>2, KindIs DEF First, Rest, Put
-----------------------------------------------------------------------------
(* The invariant.                                                          *)

LEMMA InitInvariant == Init => IInv
  <1> SUFFICES ASSUME Init PROVE IInv  OBVIOUS
  <1>1. EmptyReport \in Report /\ 0 \in Byte /\ \A S : <<>> \in Seq(S)
    BY KindIs, EmptySeq DEF EmptyReport, EmptyKeys, Report
  <1>2. kb \in KeyboardState
    BY <1>1, SystemUsages DEF Init, KeyboardInit, KeyboardState, EmptyKeys
  <1>3. Agrees(kb)
    BY KindIs DEF Init, KeyboardInit, EmptyKeys, Agrees, Clean, Backed, Complete, CodesAt, ModsOf,
                  KeysOf
  <1>4. "INIT" \in DecoderStates
    BY DEF DecoderStates
  <1>5. 0 \in 0 .. MaxEvents /\ 0 \in 0 .. MaxErrors
    BY KeyPathAssumption
  <1>6. TypeOK
    BY <1>1, <1>2, <1>4, <1>5 DEF Init, TypeOK
  <1> QED  BY <1>3, <1>6 DEF Init, InFrame, IInv

LEMMA StepInvariant == IInv /\ [Next]_vars => IInv'
  <1> SUFFICES ASSUME IInv, [Next]_vars PROVE IInv'  OBVIOUS
  <1> USE DEF IInv, device
  <1>T. /\ kb \in KeyboardState /\ Agrees(kb)
        /\ pending \in Seq(Byte) /\ queue \in Seq(Byte) /\ tx1 \in Seq(Report)
        /\ <<>> \in Seq(Report)
        /\ MaxErrors \in Nat /\ MaxEvents \in Nat
        /\ pending # <<>> => Head(pending) \in Byte /\ Tail(pending) \in Seq(Byte)
    BY HeadTailProperties, EmptySeq, KeyPathAssumption DEF TypeOK
  \* The keyboard and its user.
  <1>1. ASSUME NEW k \in KeyNames, Press(k) \/ Repeat(k) \/ Release(k) \/ Overrun(k)
        PROVE  IInv'
    <2>1. /\ MakeCode(k) \in Seq(Byte) /\ BreakCode(k) \in Seq(Byte)
          /\ <<0>> \in Seq(Byte)
      BY CodesTyped, KeyPathAssumption, KindIs
    <2>2. /\ pending' \in Seq(Byte) /\ down' \subseteq KeyNames
          /\ pending = <<>> /\ events < MaxEvents /\ events' = events + 1
          /\ UNCHANGED <<queue, inhibit, err, decoder, kb, tx1, host>>
      BY <1>1, <2>1 DEF Press, Repeat, Release, Overrun, Send, TypeOK
    <2>3. \/ errors' = errors /\ intact' = intact
          \/ errors < MaxErrors /\ errors' = errors + 1 /\ intact' = FALSE
      BY <1>1 DEF Press, Repeat, Release, Overrun
    <2>4. errors' \in 0 .. MaxErrors
      BY <1>T, <2>3 DEF TypeOK
    <2>5. intact' \in BOOLEAN
      BY <2>3 DEF TypeOK
    <2>6. events' \in 0 .. MaxEvents
      BY <1>T, <2>2 DEF TypeOK
    <2>7. TypeOK'
      BY <2>2, <2>4, <2>5, <2>6 DEF TypeOK
    <2> QED  BY <2>2, <2>7 DEF InFrame
  \* The receiver.
  <1>2. CASE FrameBegins
    <2>1. TypeOK'
      BY <1>2 DEF FrameBegins, TypeOK
    <2> QED  BY <1>2, <2>1 DEF FrameBegins, InFrame
  <1>3. CASE FrameReceived
    <2>1. /\ Put(queue, Head(pending), QueueRoom) \in Seq(Byte)
          /\ Tail(pending) \in Seq(Byte)
      BY <1>3, <1>T, QueueTyped DEF FrameReceived, InFrame
    <2>2. TypeOK'
      BY <1>3, <2>1 DEF FrameReceived, TypeOK
    <2> QED  BY <1>3, <2>2 DEF FrameReceived, InFrame
  <1>4. CASE FrameSpoilt
    <2>1. Tail(pending) \in Seq(Byte)
      BY <1>4, <1>T DEF FrameSpoilt, InFrame
    <2>2. errors' \in 0 .. MaxErrors
      BY <1>4, <1>T DEF FrameSpoilt, TypeOK
    <2>3. TypeOK'
      BY <1>4, <2>1, <2>2 DEF FrameSpoilt, TypeOK
    <2> QED  BY <1>4, <2>3 DEF FrameSpoilt, InFrame
  <1>5. CASE FrameIgnored
    <2>1. TypeOK'
      BY <1>5, <1>T DEF FrameIgnored, TypeOK
    <2> QED  BY <1>5, <2>1 DEF FrameIgnored, InFrame
  \* The main loop.
  <1>6. CASE matrix_scan
    <2> DEFINE step == DecodeByte(decoder, First(queue))
               p == PauseBroken(kb)
    <2>1. p \in KeyboardState /\ Agrees(p)
      BY <1>T, PauseKeeps
    <2>2. step.state \in DecoderStates /\ step.effect \in Effect
      BY <1>T, QueueTyped, DecodeTyped DEF TypeOK
    <2>3. ApplyEffect(p, step.effect) \in KeyboardState /\ Agrees(ApplyEffect(p, step.effect))
      BY <2>1, <2>2, EffectKeeps
    <2>4. /\ decoder' \in {"INIT", decoder, step.state}
          /\ kb' \in {p, ApplyEffect(p, step.effect)}
          /\ queue' = Rest(queue) /\ err' = FALSE
          /\ UNCHANGED <<device, inhibit, tx1, host, errors, intact>>
      BY <1>6 DEF matrix_scan
    <2>5. "INIT" \in DecoderStates /\ Rest(queue) \in Seq(Byte)
      BY <1>T, QueueTyped DEF DecoderStates
    <2> HIDE DEF step, p
    <2>6. kb' \in KeyboardState /\ Agrees(kb')
      BY <2>1, <2>3, <2>4
    <2>7. TypeOK'
      BY <2>2, <2>4, <2>5, <2>6 DEF TypeOK
    <2> QED  BY <2>4, <2>6, <2>7 DEF InFrame
  <1>7. CASE vusb_transfer_keyboard
    <2>1. kb.kbuf \in Seq(Report) /\ kb.kbuf # <<>>
      BY <1>7, <1>T DEF vusb_transfer_keyboard, KeyboardState
    <2>2. Head(kb.kbuf) \in Report /\ Tail(kb.kbuf) \in Seq(Report)
      BY <2>1, HeadTailProperties
    <2>3. tx1' \in Seq(Report)
      BY <1>7, <2>2 DEF vusb_transfer_keyboard
    <2>4. kb' \in KeyboardState /\ Agrees(kb')
      BY <1>7, <1>T, <2>2 DEF vusb_transfer_keyboard, KeyboardState, Agrees, Backed, Complete
    <2>5. TypeOK'
      BY <1>7, <2>3, <2>4 DEF vusb_transfer_keyboard, TypeOK
    <2> QED  BY <1>7, <2>4, <2>5 DEF vusb_transfer_keyboard, InFrame
  \* The host and the bus.
  <1>8. CASE PollKeyboard
    <2>1. tx1[1] \in Report
      <3>1. Head(tx1) \in Report /\ Head(tx1) = tx1[1]
        BY <1>8, <1>T, HeadTailProperties DEF PollKeyboard
      <3> QED  BY <3>1
    <2>2. TypeOK'
      BY <1>8, <1>T, <2>1 DEF PollKeyboard, TypeOK
    <2> QED  BY <1>8, <2>2 DEF PollKeyboard, InFrame
  <1>9. CASE PollSystem
    <2>1. kb' \in KeyboardState /\ Agrees(kb')
      BY <1>9, <1>T, EmptySeq DEF PollSystem, KeyboardState, Agrees, Backed, Complete
    <2>2. TypeOK'
      BY <1>9, <2>1 DEF PollSystem, TypeOK
    <2> QED  BY <1>9, <2>1, <2>2 DEF PollSystem, InFrame
  <1>10. CASE SuspendOrResume
    <2>1. kb' \in KeyboardState /\ Agrees(kb')
      BY <1>10, <1>T DEF SuspendOrResume, KeyboardState, Agrees, Backed, Complete
    <2>2. TypeOK'
      BY <1>10, <2>1 DEF SuspendOrResume, TypeOK
    <2> QED  BY <1>10, <2>1, <2>2 DEF SuspendOrResume, InFrame
  \* The host's LEDs, and a frame spoilt in the middle of matrix_scan.
  <1>11. CASE adjustKeyboardLeds
    <2>1. kb' \in KeyboardState /\ Agrees(kb')
      BY <1>11, <1>T, LedKeeps DEF adjustKeyboardLeds
    <2>2. events' \in 0 .. MaxEvents
      BY <1>11, <1>T DEF adjustKeyboardLeds, TypeOK
    <2>3. TypeOK'
      BY <1>11, <2>1, <2>2 DEF adjustKeyboardLeds, TypeOK
    <2> QED  BY <1>11, <2>1, <2>3 DEF adjustKeyboardLeds, InFrame
  <1>12. CASE ScanOvertaken
    <2>1. kb' \in KeyboardState /\ Agrees(kb')
      BY <1>12, <1>T, PauseKeeps DEF ScanOvertaken
    <2>2. Rest(queue) \in Seq(Byte) /\ Tail(pending) \in Seq(Byte)
      BY <1>12, <1>T, QueueTyped DEF ScanOvertaken, InFrame
    <2>3. errors' \in 0 .. MaxErrors
      BY <1>12, <1>T DEF ScanOvertaken, TypeOK
    <2>4. TypeOK'
      BY <1>12, <2>1, <2>2, <2>3 DEF ScanOvertaken, TypeOK
    <2> QED  BY <1>12, <2>1, <2>4 DEF ScanOvertaken, InFrame
  <1>13. CASE UNCHANGED vars
    BY <1>13 DEF vars, TypeOK, InFrame
  <1> QED
    BY <1>1, <1>2, <1>3, <1>4, <1>5, <1>6, <1>7, <1>8, <1>9, <1>10, <1>11, <1>12, <1>13
    DEF Next, User, Frame

LEMMA Invariance == Spec => []IInv
  BY InitInvariant, StepInvariant, PTL DEF Spec

-----------------------------------------------------------------------------
\* From the keyboard's bytes to the host's report every step keeps the type: in
\* particular every position the decoder names is inside the matrix and no key
\* is stored beyond the slots of the report.
THEOREM TypeCorrect == Spec => []TypeOK
  <1>1. IInv => TypeOK
    BY DEF IInv
  <1> QED  BY <1>1, Invariance, PTL

\* The report never holds a key twice, holds no key the matrix does not have, all it
\* has, lock keys apart, unless one found no slot, and exactly the modifiers it has,
\* whatever bytes the decoder is given and whichever lock keys the host's LEDs take
\* out, as long as matrix_clear has not run.
THEOREM ReportAgrees == Spec => []ReportTracksMatrix
  <1>1. IInv => ReportTracksMatrix
    <2> SUFFICES ASSUME IInv PROVE ReportTracksMatrix  OBVIOUS
    <2>1. Clean(kb.keys) /\ (~kb.cleared => Backed(kb))
      BY DEF IInv, Agrees
    <2>2. \A i, j \in Keys : kb.keys[i] # 0 /\ kb.keys[i] = kb.keys[j] => i = j
      BY <2>1 DEF Clean
    <2>3. ~kb.cleared => /\ InSlots(kb) \ {KC_NUMLOCK} \subseteq CodesAt(kb.matrix)
                         /\ kb.mods = ModsOf(CodesAt(kb.matrix))
      BY <2>1 DEF Backed, InSlots
    <2>4. ~kb.cleared => kb.crowded \/ KeysOf(CodesAt(kb.matrix)) \subseteq InSlots(kb)
      <3>1. \A c \in KeysOf(CodesAt(kb.matrix)) : c # 0
        BY KindIs DEF KeysOf
      <3> QED  BY <2>1, <3>1 DEF Backed, Complete, InSlots
    <2> QED  BY <2>2, <2>3, <2>4 DEF ReportTracksMatrix
  <1> QED  BY <1>1, Invariance, PTL

\* send_system remembers a system control as pressed only while a system key is
\* in the matrix, so that a press after a release is always a change.
THEOREM SystemIsReleased == Spec => []SystemReleased
  <1>1. IInv => SystemReleased
    BY DEF IInv, Agrees, Backed, SystemReleased, CodesAt
  <1> QED  BY <1>1, Invariance, PTL

-----------------------------------------------------------------------------
(* The matrix and the keys: what is still to be decoded leads from the      *)
(* matrix as it is to the keys that are held.  The bytes between are read   *)
(* by a trace of decoder and matrix, so that one read in front and a key's  *)
(* bytes behind are a step and a concatenation of traces.                   *)

\* Decoder and matrix, the key of Pause aside: it is taken back one scan later.
At(s, m) == [state |-> s, keys |-> m]
EffectOn(m, e) ==
  (IF e.do = "make" THEN m \cup {e.key}
   ELSE IF e.do = "break" THEN m \ {e.key}
   ELSE IF e.do = "clear" THEN {}
   ELSE m) \ {PAUSE}
Advance(x, c) ==
  At(DecodeByte(x.state, c).state, EffectOn(x.keys, DecodeByte(x.state, c).effect))

IsTrace(st, bytes, x, y) ==
  /\ st[0] = x /\ st[Len(bytes)] = y
  /\ \A i \in 1 .. Len(bytes) : bytes[i] # 0 /\ st[i] = Advance(st[i - 1], bytes[i])
Leads(bytes, x, y) == \E st : IsTrace(st, bytes, x, y)

Now == At(decoder, kb.matrix \ {PAUSE})
Settled == At("INIT", HeldKeys)

\* One position is one key, and a key without break code is never held.
HeldApart ==
  /\ \A d, e \in down : Position(d) = Position(e) => d = e
  /\ \A d \in down : BreakCode(d) # <<>>

Tracks == intact => ~err /\ Leads(queue \o pending, Now, Settled)

\* Without bytes a trace stays where it is.
LEMMA LeadsNowhere == \A x, y : Leads(<<>>, x, y) <=> x = y
  <1>1. ASSUME NEW x, NEW y, Leads(<<>>, x, y) PROVE x = y
    <2>1. PICK st : IsTrace(st, <<>>, x, y)
      BY <1>1 DEF Leads
    <2>2. Len(<<>>) = 0
      BY EmptySeq
    <2> QED  BY <2>1, <2>2 DEF IsTrace
  <1>2. ASSUME NEW x PROVE Leads(<<>>, x, x)
    <2>1. IsTrace([i \in {0} |-> x], <<>>, x, x)
      BY EmptySeq DEF IsTrace
    <2> QED  BY <2>1 DEF Leads
  <1> QED  BY <1>1, <1>2

\* The first byte of a trace is a step.
LEMMA LeadsFirst ==
  ASSUME NEW b \in Seq(Byte), b # <<>>, NEW x, NEW y, Leads(b, x, y)
  PROVE  Head(b) # 0 /\ Leads(Tail(b), Advance(x, Head(b)), y)
  <1>1. PICK st : IsTrace(st, b, x, y)
    BY DEF Leads
  <1> DEFINE n == Len(b)
             t == [i \in 0 .. n - 1 |-> st[i + 1]]
  <1>2. /\ n \in Nat \ {0} /\ Len(Tail(b)) = n - 1
        /\ Head(b) = b[1] /\ \A i \in 1 .. n - 1 : Tail(b)[i] = b[i + 1]
    BY HeadTailProperties, EmptySeq, LenProperties
  <1>3. /\ st[0] = x /\ st[n] = y
        /\ \A i \in 1 .. n : b[i] # 0 /\ st[i] = Advance(st[i - 1], b[i])
    BY <1>1 DEF IsTrace
  <1> HIDE DEF n
  <1>4. b[1] # 0 /\ st[1] = Advance(x, b[1])
    BY <1>2, <1>3
  <1>5. t[0] = Advance(x, Head(b)) /\ t[n - 1] = y
    BY <1>2, <1>3, <1>4
  <1>6. ASSUME NEW i \in 1 .. n - 1
        PROVE  Tail(b)[i] # 0 /\ t[i] = Advance(t[i - 1], Tail(b)[i])
    <2>1. i + 1 \in 1 .. n /\ (i + 1) - 1 = i /\ i \in 0 .. n - 1 /\ i - 1 \in 0 .. n - 1
          /\ (i - 1) + 1 = i
      BY <1>2
    <2>2. b[i + 1] # 0 /\ st[i + 1] = Advance(st[i], b[i + 1])
      BY <1>3, <2>1
    <2>3. t[i] = st[i + 1] /\ t[i - 1] = st[i]
      BY <2>1
    <2> QED  BY <1>2, <2>2, <2>3
  <1>7. IsTrace(t, Tail(b), Advance(x, Head(b)), y)
    BY <1>2, <1>5, <1>6 DEF IsTrace
  <1> QED  BY <1>2, <1>4, <1>7 DEF Leads

\* Two traces, one behind the other.
LEMMA LeadsOn ==
  ASSUME NEW a \in Seq(Byte), NEW b \in Seq(Byte), NEW x, NEW y, NEW z,
         Leads(a, x, y), Leads(b, y, z)
  PROVE  Leads(a \o b, x, z)
  <1>1. PICK s : IsTrace(s, a, x, y)
    BY DEF Leads
  <1>2. PICK t : IsTrace(t, b, y, z)
    BY DEF Leads
  <1> DEFINE m == Len(a)
             n == Len(b)
             c == a \o b
             u == [i \in 0 .. m + n |-> IF i <= m THEN s[i] ELSE t[i - m]]
  <1>3. /\ m \in Nat /\ n \in Nat /\ Len(c) = m + n
        /\ \A i \in 1 .. m + n : c[i] = IF i <= m THEN a[i] ELSE b[i - m]
    BY ConcatProperties, LenProperties
  <1>4. /\ s[0] = x /\ s[m] = y
        /\ \A i \in 1 .. m : a[i] # 0 /\ s[i] = Advance(s[i - 1], a[i])
    BY <1>1 DEF IsTrace
  <1>5. /\ t[0] = y /\ t[n] = z
        /\ \A i \in 1 .. n : b[i] # 0 /\ t[i] = Advance(t[i - 1], b[i])
    BY <1>2 DEF IsTrace
  <1> HIDE DEF m, n, c
  <1>6. u[0] = x
    BY <1>3, <1>4
  <1>7. u[m + n] = z
    <2>1. CASE n = 0
      BY <1>3, <1>4, <1>5, <2>1
    <2>2. CASE n # 0
      <3>1. m + n \in 0 .. m + n /\ ~(m + n <= m) /\ (m + n) - m = n
        BY <1>3, <2>2
      <3> QED  BY <1>5, <3>1
    <2> QED  BY <2>1, <2>2
  <1>8. ASSUME NEW i \in 1 .. m + n
        PROVE  c[i] # 0 /\ u[i] = Advance(u[i - 1], c[i])
    <2>1. CASE i <= m
      <3>1. u[i] = s[i] /\ u[i - 1] = s[i - 1] /\ c[i] = a[i] /\ i \in 1 .. m
        BY <1>3, <2>1
      <3> QED  BY <1>4, <3>1
    <2>2. CASE i = m + 1
      <3>0. /\ i - 1 = m /\ i - m = 1 /\ 1 \in 1 .. n /\ ~(i <= m)
            /\ i \in 0 .. m + n /\ m \in 0 .. m + n /\ m <= m
        BY <1>3, <2>2
      <3>1. u[i] = t[1] /\ u[i - 1] = s[m] /\ c[i] = b[1]
        BY <1>3, <3>0
      <3>2. t[1] = Advance(t[0], b[1]) /\ b[1] # 0
        BY <1>5, <3>0
      <3> QED  BY <1>4, <1>5, <3>0, <3>1, <3>2
    <2>3. CASE i > m + 1
      <3>1. PICK j \in 1 .. n : i = m + j /\ j # 1
        BY <1>3, <2>3
      <3>2. /\ i - m = j /\ (i - 1) - m = j - 1 /\ ~(i <= m) /\ ~(i - 1 <= m)
            /\ i \in 0 .. m + n /\ i - 1 \in 0 .. m + n
        BY <1>3, <3>1
      <3>3. u[i] = t[j] /\ u[i - 1] = t[j - 1] /\ c[i] = b[j]
        BY <1>3, <3>2
      <3>4. b[j] # 0 /\ t[j] = Advance(t[j - 1], b[j])
        BY <1>5
      <3> QED  BY <3>3, <3>4
    <2> QED  BY <1>3, <2>1, <2>2, <2>3
  <1> HIDE DEF u
  <1>9. IsTrace(u, c, x, z)
    BY <1>3, <1>6, <1>7, <1>8 DEF IsTrace
  <1> QED  BY <1>9 DEF Leads, c

\* A trace spelt out.
LEMMA LeadsAlong ==
  ASSUME NEW b \in Seq(Byte), NEW s, Len(s) = Len(b) + 1,
         \A i \in 1 .. Len(b) : b[i] # 0 /\ s[i + 1] = Advance(s[i], b[i])
  PROVE  Leads(b, s[1], s[Len(s)])
  <1> DEFINE n == Len(b)
             st == [i \in 0 .. n |-> s[i + 1]]
  <1>1. n \in Nat
    BY LenProperties
  <1>2. \A i \in 1 .. n : b[i] # 0 /\ s[i + 1] = Advance(s[i], b[i])
    OBVIOUS
  <1> HIDE DEF n
  <1>3. st[0] = s[1] /\ st[n] = s[n + 1]
    BY <1>1
  <1>4. ASSUME NEW i \in 1 .. n PROVE st[i] = Advance(st[i - 1], b[i])
    <2>1. i - 1 \in 0 .. n /\ i \in 0 .. n /\ (i - 1) + 1 = i
      BY <1>1
    <2>2. st[i] = s[i + 1] /\ st[i - 1] = s[i]
      BY <2>1
    <2> QED  BY <1>2, <2>2
  <1> HIDE DEF st
  <1>5. IsTrace(st, b, s[1], s[n + 1])
    BY <1>1, <1>2, <1>3, <1>4 DEF IsTrace, n
  <1> QED  BY <1>5 DEF Leads, n

\* The decoder's effects on the matrix, the key of Pause aside.
LEMMA Effects ==
  ASSUME NEW m \in SUBSET Byte, PAUSE \notin m
  PROVE  /\ EffectOn(m, Nothing) = m /\ EffectOn(m, Make(PAUSE)) = m
         /\ \A p \in Byte \ {PAUSE} : EffectOn(m, Make(p)) = m \cup {p}
         /\ \A p \in Byte : EffectOn(m, Break(p)) = m \ {p}
  BY DEF EffectOn, Nothing, Make, Break

\* What a step of the decoder means for the trace, by its effect.
LEMMA AdvanceNothing ==
  ASSUME NEW s, NEW m \in SUBSET Byte, PAUSE \notin m, NEW c, NEW t,
         DecodeByte(s, c) = To(t, Nothing) \/ DecodeByte(s, c) = To(t, Make(PAUSE))
  PROVE  Advance(At(s, m), c) = At(t, m)
  <1>1. EffectOn(m, Nothing) = m /\ EffectOn(m, Make(PAUSE)) = m
    BY Effects
  <1> QED  BY <1>1 DEF Advance, At, To

LEMMA AdvanceMake ==
  ASSUME NEW s, NEW m \in SUBSET Byte, PAUSE \notin m, NEW c, NEW t, NEW p \in Byte \ {PAUSE},
         DecodeByte(s, c) = To(t, Make(p))
  PROVE  Advance(At(s, m), c) = At(t, m \cup {p})
  <1>1. EffectOn(m, Make(p)) = m \cup {p}
    BY Effects
  <1> QED  BY <1>1 DEF Advance, At, To

LEMMA AdvanceBreak ==
  ASSUME NEW s, NEW m \in SUBSET Byte, PAUSE \notin m, NEW c, NEW t, NEW p \in Byte,
         DecodeByte(s, c) = To(t, Break(p))
  PROVE  Advance(At(s, m), c) = At(t, m \ {p})
  <1>1. EffectOn(m, Break(p)) = m \ {p}
    BY Effects
  <1> QED  BY <1>1 DEF Advance, At, To

\* The last bytes of the keys, without and with the prefix E0.
PlainBytes == {\h1C, \h1A, \h12, \h77, \h58}
PrefixedBytes == {\h74, \h37, \h5E, \h7C}

\* What the bytes of a keyboard do one by one: the prefixes, a key of its own, ...
LEMMA StepsPlain ==
  ASSUME NEW m \in SUBSET Byte, PAUSE \notin m
  PROVE  /\ Advance(At("INIT", m), \hE0) = At("E0", m)
         /\ Advance(At("INIT", m), \hF0) = At("F0", m)
         /\ Advance(At("INIT", m), \hE1) = At("E1", m)
         /\ Advance(At("INIT", m), \h83) = At("INIT", m \cup {F7})
         /\ Advance(At("INIT", m), \h84) = At("INIT", m \cup {PRINT_SCREEN})
         /\ Advance(At("F0", m), \h83) = At("INIT", m \ {F7})
         /\ Advance(At("F0", m), \h84) = At("INIT", m \ {PRINT_SCREEN})
  <1>1. \A c : DecodeByte("INIT", c) = FromINIT(c)
    BY DEF DecodeByte, PauseChain
  <1>2. \A c : DecodeByte("F0", c) = FromF0(c)
    BY DEF DecodeByte, PauseChain
  <1>3. /\ FromINIT(\hE0) = To("E0", Nothing)
        /\ FromINIT(\hF0) = To("F0", Nothing)
        /\ FromINIT(\hE1) = To("E1", Nothing)
        /\ FromINIT(\h83) = To("INIT", Make(F7))
        /\ FromINIT(\h84) = To("INIT", Make(PRINT_SCREEN))
    BY DEF FromINIT
  <1>4. /\ FromF0(\h83) = To("INIT", Break(F7))
        /\ FromF0(\h84) = To("INIT", Break(PRINT_SCREEN))
    BY DEF FromF0
  <1>5. F7 \in Byte \ {PAUSE} /\ PRINT_SCREEN \in Byte \ {PAUSE}
    BY DEF PAUSE, Byte, F7, PRINT_SCREEN
  <1> QED  BY <1>1, <1>2, <1>3, <1>4, <1>5, AdvanceNothing, AdvanceMake, AdvanceBreak

LEMMA StepsKey ==
  ASSUME NEW m \in SUBSET Byte, PAUSE \notin m, NEW c \in PlainBytes
  PROVE  /\ Advance(At("INIT", m), c) = At("INIT", m \cup {c})
         /\ Advance(At("F0", m), c) = At("INIT", m \ {c})
  <1>1. DecodeByte("INIT", c) = FromINIT(c)
    BY DEF DecodeByte, PauseChain
  <1>2. DecodeByte("F0", c) = FromF0(c)
    BY DEF DecodeByte, PauseChain
  <1>3. FromINIT(c) = To("INIT", Make(c)) /\ FromF0(c) = To("INIT", Break(c))
    BY DEF FromINIT, FromF0, PlainBytes
  <1>4. c \in Byte \ {PAUSE}
    BY DEF PAUSE, Byte, PlainBytes
  <1> QED  BY <1>1, <1>2, <1>3, <1>4, AdvanceNothing, AdvanceMake, AdvanceBreak

\* ... a key behind a prefix, ...
LEMMA StepsPrefixed ==
  ASSUME NEW m \in SUBSET Byte, PAUSE \notin m
  PROVE  /\ Advance(At("E0", m), \hF0) = At("E0_F0", m)
         /\ Advance(At("E0", m), \h12) = At("INIT", m)
         /\ Advance(At("E0", m), \h7E) = At("E0_7E", m)
         /\ Advance(At("E0_F0", m), \h12) = At("INIT", m)
  <1>1. \A c : DecodeByte("E0", c) = FromE0(c)
    BY DEF DecodeByte, PauseChain
  <1>2. \A c : DecodeByte("E0_F0", c) = FromE0_F0(c)
    BY DEF DecodeByte, PauseChain
  <1>3. /\ FromE0(\hF0) = To("E0_F0", Nothing) /\ FromE0(\h12) = To("INIT", Nothing)
        /\ FromE0(\h7E) = To("E0_7E", Nothing)
    BY DEF FromE0
  <1>4. FromE0_F0(\h12) = To("INIT", Nothing)
    BY DEF FromE0_F0
  <1> QED  BY <1>1, <1>2, <1>3, <1>4, AdvanceNothing, AdvanceMake, AdvanceBreak

LEMMA StepsPrefixedKey ==
  ASSUME NEW m \in SUBSET Byte, PAUSE \notin m, NEW c \in PrefixedBytes
  PROVE  /\ Advance(At("E0", m), c) = At("INIT", m \cup {c + \h80})
         /\ Advance(At("E0_F0", m), c) = At("INIT", m \ {c + \h80})
  <1>1. DecodeByte("E0", c) = FromE0(c)
    BY DEF DecodeByte, PauseChain
  <1>2. DecodeByte("E0_F0", c) = FromE0_F0(c)
    BY DEF DecodeByte, PauseChain
  <1>3. FromE0(c) = To("INIT", Make(c + \h80)) /\ FromE0_F0(c) = To("INIT", Break(c + \h80))
    BY DEF FromE0, FromE0_F0, PrefixedBytes
  <1>4. c + \h80 \in Byte \ {PAUSE}
    BY DEF PAUSE, Byte, PrefixedBytes
  <1> DEFINE p == c + \h80
  <1>5. /\ DecodeByte("E0", c) = To("INIT", Make(p))
        /\ DecodeByte("E0_F0", c) = To("INIT", Break(p))
        /\ p \in Byte \ {PAUSE}
    BY <1>1, <1>2, <1>3, <1>4
  <1> HIDE DEF p
  <1>6. Advance(At("E0", m), c) = At("INIT", m \cup {p})
    BY <1>5, AdvanceNothing, AdvanceMake, AdvanceBreak
  <1>7. Advance(At("E0_F0", m), c) = At("INIT", m \ {p})
    BY <1>5, AdvanceNothing, AdvanceMake, AdvanceBreak
  <1> QED  BY <1>6, <1>7 DEF p

\* ... and the chain of Pause.
LEMMA StepsPause ==
  ASSUME NEW m \in SUBSET Byte, PAUSE \notin m, NEW s \in DOMAIN PauseChain
  PROVE  Advance(At(s, m), PauseChain[s].byte) = At(PauseChain[s].to, m)
  <1>1. DecodeByte(s, PauseChain[s].byte) = FromPause(s, PauseChain[s].byte)
    BY DEF DecodeByte, PauseChain
  <1>2. \/ FromPause(s, PauseChain[s].byte) = To(PauseChain[s].to, Make(PAUSE))
        \/ FromPause(s, PauseChain[s].byte) = To(PauseChain[s].to, Nothing)
    BY DEF FromPause
  <1> QED  BY <1>1, <1>2, AdvanceNothing, AdvanceMake, AdvanceBreak

LEMMA StepsPauseKey ==
  ASSUME NEW m \in SUBSET Byte, PAUSE \notin m
  PROVE  /\ Advance(At("E1", m), \h14) = At("E1_14", m)
         /\ Advance(At("E1_14", m), \h77) = At("E1_14_77", m)
         /\ Advance(At("E1_14_77", m), \hE1) = At("E1_14_77_E1", m)
         /\ Advance(At("E1_14_77_E1", m), \hF0) = At("E1_14_77_E1_F0", m)
         /\ Advance(At("E1_14_77_E1_F0", m), \h14) = At("E1_14_77_E1_F0_14", m)
         /\ Advance(At("E1_14_77_E1_F0_14", m), \hF0) = At("E1_14_77_E1_F0_14_F0", m)
         /\ Advance(At("E1_14_77_E1_F0_14_F0", m), \h77) = At("INIT", m)
         /\ Advance(At("E0_7E", m), \hE0) = At("E0_7E_E0", m)
         /\ Advance(At("E0_7E_E0", m), \hF0) = At("E0_7E_E0_F0", m)
         /\ Advance(At("E0_7E_E0_F0", m), \h7E) = At("INIT", m)
  BY StepsPause DEF PauseChain

\* Sequences of one byte to six: each byte takes the trace one state on.
LEMMA Leads1 ==
  ASSUME NEW c1 \in Byte \ {0}, NEW x, NEW y, Advance(x, c1) = y
  PROVE  Leads(<<c1>>, x, y)
  <1> DEFINE b == <<c1>>
             s == <<x, y>>
  <1>1. b \in Seq(Byte) /\ Len(b) = 1 /\ Len(s) = 2 /\ s[1] = x /\ s[2] = y
    OBVIOUS
  <1>2. ASSUME NEW i \in 1 .. 1 PROVE b[i] # 0 /\ s[i + 1] = Advance(s[i], b[i])
    OBVIOUS
  <1> HIDE DEF b, s
  <1>3. Len(s) = Len(b) + 1 /\ \A i \in 1 .. Len(b) : b[i] # 0 /\ s[i + 1] = Advance(s[i], b[i])
    BY <1>1, <1>2
  <1>4. Leads(b, s[1], s[Len(s)])
    BY <1>1, <1>3, LeadsAlong
  <1> QED  BY <1>1, <1>4 DEF b

LEMMA Leads2 ==
  ASSUME NEW c1 \in Byte \ {0}, NEW c2 \in Byte \ {0}, NEW x, NEW x1, NEW y,
         Advance(x, c1) = x1, Advance(x1, c2) = y
  PROVE  Leads(<<c1, c2>>, x, y)
  <1> DEFINE b == <<c1, c2>>
             s == <<x, x1, y>>
  <1>1. b \in Seq(Byte) /\ Len(b) = 2 /\ Len(s) = 3 /\ s[1] = x /\ s[3] = y
    OBVIOUS
  <1>2. ASSUME NEW i \in 1 .. 2 PROVE b[i] # 0 /\ s[i + 1] = Advance(s[i], b[i])
    OBVIOUS
  <1> HIDE DEF b, s
  <1>3. Len(s) = Len(b) + 1 /\ \A i \in 1 .. Len(b) : b[i] # 0 /\ s[i + 1] = Advance(s[i], b[i])
    BY <1>1, <1>2
  <1>4. Leads(b, s[1], s[Len(s)])
    BY <1>1, <1>3, LeadsAlong
  <1> QED  BY <1>1, <1>4 DEF b

LEMMA Leads3 ==
  ASSUME NEW c1 \in Byte \ {0}, NEW c2 \in Byte \ {0}, NEW c3 \in Byte \ {0}, NEW x,
         NEW x1, NEW x2, NEW y, Advance(x, c1) = x1, Advance(x1, c2) = x2,
         Advance(x2, c3) = y
  PROVE  Leads(<<c1, c2, c3>>, x, y)
  <1> DEFINE b == <<c1, c2, c3>>
             s == <<x, x1, x2, y>>
  <1>1. b \in Seq(Byte) /\ Len(b) = 3 /\ Len(s) = 4 /\ s[1] = x /\ s[4] = y
    OBVIOUS
  <1>2. ASSUME NEW i \in 1 .. 3 PROVE b[i] # 0 /\ s[i + 1] = Advance(s[i], b[i])
    OBVIOUS
  <1> HIDE DEF b, s
  <1>3. Len(s) = Len(b) + 1 /\ \A i \in 1 .. Len(b) : b[i] # 0 /\ s[i + 1] = Advance(s[i], b[i])
    BY <1>1, <1>2
  <1>4. Leads(b, s[1], s[Len(s)])
    BY <1>1, <1>3, LeadsAlong
  <1> QED  BY <1>1, <1>4 DEF b

LEMMA Leads4 ==
  ASSUME NEW c1 \in Byte \ {0}, NEW c2 \in Byte \ {0}, NEW c3 \in Byte \ {0},
         NEW c4 \in Byte \ {0}, NEW x, NEW x1, NEW x2, NEW x3, NEW y,
         Advance(x, c1) = x1, Advance(x1, c2) = x2, Advance(x2, c3) = x3,
         Advance(x3, c4) = y
  PROVE  Leads(<<c1, c2, c3, c4>>, x, y)
  <1> DEFINE b == <<c1, c2, c3, c4>>
             s == <<x, x1, x2, x3, y>>
  <1>1. b \in Seq(Byte) /\ Len(b) = 4 /\ Len(s) = 5 /\ s[1] = x /\ s[5] = y
    OBVIOUS
  <1>2. ASSUME NEW i \in 1 .. 4 PROVE b[i] # 0 /\ s[i + 1] = Advance(s[i], b[i])
    OBVIOUS
  <1> HIDE DEF b, s
  <1>3. Len(s) = Len(b) + 1 /\ \A i \in 1 .. Len(b) : b[i] # 0 /\ s[i + 1] = Advance(s[i], b[i])
    BY <1>1, <1>2
  <1>4. Leads(b, s[1], s[Len(s)])
    BY <1>1, <1>3, LeadsAlong
  <1> QED  BY <1>1, <1>4 DEF b

LEMMA Leads5 ==
  ASSUME NEW c1 \in Byte \ {0}, NEW c2 \in Byte \ {0}, NEW c3 \in Byte \ {0},
         NEW c4 \in Byte \ {0}, NEW c5 \in Byte \ {0}, NEW x, NEW x1, NEW x2, NEW x3,
         NEW x4, NEW y, Advance(x, c1) = x1, Advance(x1, c2) = x2, Advance(x2, c3) = x3,
         Advance(x3, c4) = x4, Advance(x4, c5) = y
  PROVE  Leads(<<c1, c2, c3, c4, c5>>, x, y)
  <1> DEFINE b == <<c1, c2, c3, c4, c5>>
             s == <<x, x1, x2, x3, x4, y>>
  <1>1. b \in Seq(Byte) /\ Len(b) = 5 /\ Len(s) = 6 /\ s[1] = x /\ s[6] = y
    OBVIOUS
  <1>2. ASSUME NEW i \in 1 .. 5 PROVE b[i] # 0 /\ s[i + 1] = Advance(s[i], b[i])
    OBVIOUS
  <1> HIDE DEF b, s
  <1>3. Len(s) = Len(b) + 1 /\ \A i \in 1 .. Len(b) : b[i] # 0 /\ s[i + 1] = Advance(s[i], b[i])
    BY <1>1, <1>2
  <1>4. Leads(b, s[1], s[Len(s)])
    BY <1>1, <1>3, LeadsAlong
  <1> QED  BY <1>1, <1>4 DEF b

LEMMA Leads6 ==
  ASSUME NEW c1 \in Byte \ {0}, NEW c2 \in Byte \ {0}, NEW c3 \in Byte \ {0},
         NEW c4 \in Byte \ {0}, NEW c5 \in Byte \ {0}, NEW c6 \in Byte \ {0}, NEW x,
         NEW x1, NEW x2, NEW x3, NEW x4, NEW x5, NEW y, Advance(x, c1) = x1,
         Advance(x1, c2) = x2, Advance(x2, c3) = x3, Advance(x3, c4) = x4,
         Advance(x4, c5) = x5, Advance(x5, c6) = y
  PROVE  Leads(<<c1, c2, c3, c4, c5, c6>>, x, y)
  <1> DEFINE b == <<c1, c2, c3, c4, c5, c6>>
             s == <<x, x1, x2, x3, x4, x5, y>>
  <1>1. b \in Seq(Byte) /\ Len(b) = 6 /\ Len(s) = 7 /\ s[1] = x /\ s[7] = y
    OBVIOUS
  <1>2. ASSUME NEW i \in 1 .. 6 PROVE b[i] # 0 /\ s[i + 1] = Advance(s[i], b[i])
    OBVIOUS
  <1> HIDE DEF b, s
  <1>3. Len(s) = Len(b) + 1 /\ \A i \in 1 .. Len(b) : b[i] # 0 /\ s[i + 1] = Advance(s[i], b[i])
    BY <1>1, <1>2
  <1>4. Leads(b, s[1], s[Len(s)])
    BY <1>1, <1>3, LeadsAlong
  <1> QED  BY <1>1, <1>4 DEF b

\* What a keyboard sends for a key makes and breaks the key's position, whatever
\* else is in the matrix; for Pause, nothing but that position.
Makes(bytes, m, p) == Leads(bytes, At("INIT", m), At("INIT", m \cup {p}))
Breaks(bytes, m, p) == Leads(bytes, At("INIT", m), At("INIT", m \ {p}))

\* Keys without prefix, ...
LEMMA PlainKeys ==
  ASSUME NEW m \in SUBSET Byte, PAUSE \notin m, NEW c \in PlainBytes
  PROVE  Makes(<<c>>, m, c) /\ Breaks(<<\hF0, c>>, m, c)
  <1> DEFINE x == At("INIT", m)
             f == At("F0", m)
             y == At("INIT", m \cup {c})
             z == At("INIT", m \ {c})
             F == \hF0
  <1>1. Advance(x, c) = y /\ Advance(f, c) = z
    BY StepsKey
  <1>2. Advance(x, F) = f
    BY StepsPlain
  <1>3. c \in Byte \ {0} /\ F \in Byte \ {0}
    BY DEF PlainBytes, Byte
  <1> HIDE DEF x, f, y, z, F
  <1>4. Leads(<<c>>, x, y)
    BY <1>1, <1>3, Leads1
  <1>5. Leads(<<F, c>>, x, z)
    BY <1>1, <1>2, <1>3, Leads2
  <1> QED  BY <1>4, <1>5 DEF Makes, Breaks, x, y, z, F

\* ... and with E0.
LEMMA PrefixedKeys ==
  ASSUME NEW m \in SUBSET Byte, PAUSE \notin m, NEW c \in PrefixedBytes, NEW p, p = c + \h80
  PROVE  Makes(<<\hE0, c>>, m, p) /\ Breaks(<<\hE0, \hF0, c>>, m, p)
  <1> DEFINE x == At("INIT", m)
             e == At("E0", m)
             f == At("E0_F0", m)
             y == At("INIT", m \cup {p})
             z == At("INIT", m \ {p})
             E == \hE0
             F == \hF0
  <1>1. Advance(e, c) = y /\ Advance(f, c) = z
    BY StepsPrefixedKey
  <1>2. Advance(x, E) = e
    BY StepsPlain
  <1>3. Advance(e, F) = f
    BY StepsPrefixed
  <1>4. c \in Byte \ {0} /\ E \in Byte \ {0} /\ F \in Byte \ {0}
    BY DEF PrefixedBytes, Byte
  <1> HIDE DEF x, e, f, y, z, E, F
  <1>5. Leads(<<E, c>>, x, y)
    BY <1>1, <1>2, <1>4, Leads2
  <1>6. Leads(<<E, F, c>>, x, z)
    BY <1>1, <1>2, <1>3, <1>4, Leads3
  <1> QED  BY <1>5, <1>6 DEF Makes, Breaks, x, y, z, E, F

\* F7 and Alt'd Print Screen have codes of their own.
LEMMA OddKeys ==
  ASSUME NEW m \in SUBSET Byte, PAUSE \notin m
  PROVE  /\ Makes(<<\h83>>, m, F7) /\ Breaks(<<\hF0, \h83>>, m, F7)
         /\ Makes(<<\h84>>, m, PRINT_SCREEN) /\ Breaks(<<\hF0, \h84>>, m, PRINT_SCREEN)
  <1> DEFINE x == At("INIT", m)
             f == At("F0", m)
             y1 == At("INIT", m \cup {F7})
             z1 == At("INIT", m \ {F7})
             y2 == At("INIT", m \cup {PRINT_SCREEN})
             z2 == At("INIT", m \ {PRINT_SCREEN})
             F == \hF0
             c == \h83
             d == \h84
  <1>1. Advance(x, c) = y1
    BY StepsPlain
  <1>2. Advance(x, d) = y2
    BY StepsPlain
  <1>3. Advance(x, F) = f
    BY StepsPlain
  <1>4. Advance(f, c) = z1
    BY StepsPlain
  <1>5. Advance(f, d) = z2
    BY StepsPlain
  <1>6. c \in Byte \ {0} /\ d \in Byte \ {0} /\ F \in Byte \ {0}
    BY DEF Byte
  <1> HIDE DEF x, f, y1, z1, y2, z2, F, c, d
  <1>7. Leads(<<c>>, x, y1) /\ Leads(<<d>>, x, y2)
    BY <1>1, <1>2, <1>6, Leads1
  <1>8. Leads(<<F, c>>, x, z1) /\ Leads(<<F, d>>, x, z2)
    BY <1>3, <1>4, <1>5, <1>6, Leads2
  <1> QED  BY <1>7, <1>8 DEF Makes, Breaks, x, y1, z1, y2, z2, F, c, d

\* The keypad's arrows and Print Screen take a shift back, or pretend one: the
\* shift's bytes behind E0 count for nothing.
LEMMA ShiftedKeys ==
  ASSUME NEW m \in SUBSET Byte, PAUSE \notin m
  PROVE  /\ Makes(<<\hE0, \hF0, \h12, \hE0, \h74>>, m, \hF4)
         /\ Breaks(<<\hE0, \hF0, \h74, \hE0, \h12>>, m, \hF4)
         /\ Makes(<<\hE0, \h12, \hE0, \h7C>>, m, \hFC)
         /\ Breaks(<<\hE0, \hF0, \h7C, \hE0, \hF0, \h12>>, m, \hFC)
  <1> DEFINE x == At("INIT", m)
             e == At("E0", m)
             f == At("E0_F0", m)
             y1 == At("INIT", m \cup {\hF4})
             n1 == m \ {\hF4}
             n2 == m \ {\hFC}
             z1 == At("INIT", n1)
             y2 == At("INIT", m \cup {\hFC})
             z2 == At("INIT", n2)
             e1 == At("E0", n1)
             e2 == At("E0", n2)
             f2 == At("E0_F0", n2)
             E == \hE0
             F == \hF0
             S == \h12
             c == \h74
             d == \h7C
  <1>1. c \in PrefixedBytes /\ d \in PrefixedBytes /\ c + \h80 = \hF4 /\ d + \h80 = \hFC
    BY DEF PrefixedBytes
  <1>2. n1 \in SUBSET Byte /\ n2 \in SUBSET Byte /\ PAUSE \notin n1 /\ PAUSE \notin n2
    OBVIOUS
  <1>3. Advance(e, c) = y1 /\ Advance(f, c) = z1
    BY <1>1, StepsPrefixedKey
  <1>4. Advance(e, d) = y2 /\ Advance(f, d) = z2
    BY <1>1, StepsPrefixedKey
  <1>5. Advance(x, E) = e
    BY StepsPlain
  <1>6. Advance(e, F) = f
    BY StepsPrefixed
  <1>7. Advance(e, S) = x
    BY StepsPrefixed
  <1>8. Advance(f, S) = x
    BY StepsPrefixed
  <1> HIDE DEF n1, n2
  <1>9. Advance(z1, E) = e1
    BY <1>2, StepsPlain
  <1>10. Advance(e1, S) = z1
    BY <1>2, StepsPrefixed
  <1>11. Advance(z2, E) = e2
    BY <1>2, StepsPlain
  <1>12. Advance(e2, F) = f2
    BY <1>2, StepsPrefixed
  <1>13. Advance(f2, S) = z2
    BY <1>2, StepsPrefixed
  <1>14. {c, d, E, F, S} \subseteq Byte \ {0}
    BY DEF Byte
  <1> HIDE DEF x, e, f, y1, z1, y2, z2, e1, e2, f2, E, F, S, c, d
  <1>15. Leads(<<E, F, S, E, c>>, x, y1)
    BY <1>3, <1>5, <1>6, <1>8, <1>14, Leads5
  <1>16. Leads(<<E, F, c, E, S>>, x, z1)
    BY <1>3, <1>5, <1>6, <1>9, <1>10, <1>14, Leads5
  <1>17. Leads(<<E, S, E, d>>, x, y2)
    BY <1>4, <1>5, <1>7, <1>14, Leads4
  <1>18. Leads(<<E, F, d, E, F, S>>, x, z2)
    BY <1>4, <1>5, <1>6, <1>11, <1>12, <1>13, <1>14, Leads6
  <1> QED
    BY <1>15, <1>16, <1>17, <1>18
    DEF Makes, Breaks, x, y1, n1, z1, y2, n2, z2, E, F, S, c, d

\* Pause and Control'd Pause end where they began: their position aside.
LEMMA PauseKeys ==
  ASSUME NEW m \in SUBSET Byte, PAUSE \notin m
  PROVE  LET x == At("INIT", m) IN
         /\ Leads(<<\hE1, \h14, \h77, \hE1, \hF0, \h14, \hF0, \h77>>, x, x)
         /\ Leads(<<\hE0, \h7E, \hE0, \hF0, \h7E>>, x, x)
  <1> DEFINE x == At("INIT", m)
             a1 == At("E1", m)
             a2 == At("E1_14", m)
             a3 == At("E1_14_77", m)
             a4 == At("E1_14_77_E1", m)
             a5 == At("E1_14_77_E1_F0", m)
             a6 == At("E1_14_77_E1_F0_14", m)
             a7 == At("E1_14_77_E1_F0_14_F0", m)
             b1 == At("E0", m)
             b2 == At("E0_7E", m)
             b3 == At("E0_7E_E0", m)
             b4 == At("E0_7E_E0_F0", m)
             E1 == \hE1
             E == \hE0
             F == \hF0
             c == \h14
             d == \h77
             p == \h7E
  <1>1. Advance(x, E1) = a1 /\ Advance(x, E) = b1
    BY StepsPlain
  <1>2. Advance(b1, p) = b2
    BY StepsPrefixed
  <1>3. Advance(a1, c) = a2 /\ Advance(a2, d) = a3 /\ Advance(a3, E1) = a4
    BY StepsPauseKey
  <1>4. Advance(a4, F) = a5 /\ Advance(a5, c) = a6 /\ Advance(a6, F) = a7 /\ Advance(a7, d) = x
    BY StepsPauseKey
  <1>5. Advance(b2, E) = b3 /\ Advance(b3, F) = b4 /\ Advance(b4, p) = x
    BY StepsPauseKey
  <1>6. {E1, E, F, c, d, p} \subseteq Byte \ {0}
    BY DEF Byte
  <1> HIDE DEF x, a1, a2, a3, a4, a5, a6, a7, b1, b2, b3, b4, E1, E, F, c, d, p
  <1>7. Leads(<<E1, c, d, E1, F, c, F, d>>, x, x)
    <2> DEFINE b == <<E1, c, d, E1, F, c, F, d>>
               s == <<x, a1, a2, a3, a4, a5, a6, a7, x>>
    <2>1. b \in Seq(Byte) /\ Len(b) = 8 /\ Len(s) = 9 /\ s[1] = x /\ s[9] = x
      BY <1>6
    <2>2. ASSUME NEW i \in 1 .. 8 PROVE b[i] # 0 /\ s[i + 1] = Advance(s[i], b[i])
      BY <1>1, <1>3, <1>4, <1>6
    <2> HIDE DEF b, s
    <2>3. Len(s) = Len(b) + 1 /\ \A i \in 1 .. Len(b) : b[i] # 0 /\ s[i + 1] = Advance(s[i], b[i])
      BY <2>1, <2>2
    <2>4. Leads(b, s[1], s[Len(s)])
      BY <2>1, <2>3, LeadsAlong
    <2> QED  BY <2>1, <2>4 DEF b
  <1>8. Leads(<<E, p, E, F, p>>, x, x)
    BY <1>1, <1>2, <1>5, <1>6, Leads5
  <1> QED  BY <1>7, <1>8 DEF x, E1, E, F, c, d, p

\* Each key's codes: those that are broken again make and break their position.
LEMMA KeyLeads ==
  ASSUME NEW k \in Keyboard, NEW m \in SUBSET Byte, PAUSE \notin m
  PROVE  /\ BreakCode(k) # <<>> =>
              /\ Position(k) \in Byte \ {PAUSE}
              /\ Makes(MakeCode(k), m, Position(k)) /\ Breaks(BreakCode(k), m, Position(k))
         /\ BreakCode(k) = <<>> => Leads(MakeCode(k), At("INIT", m), At("INIT", m))
  <1> DEFINE Good == /\ Position(k) \in Byte \ {PAUSE}
                     /\ Makes(MakeCode(k), m, Position(k)) /\ Breaks(BreakCode(k), m, Position(k))
                     /\ BreakCode(k) # <<>>
             Silent == BreakCode(k) = <<>> /\ Leads(MakeCode(k), At("INIT", m), At("INIT", m))
  <1>1. /\ {\h1C, \h1A, \h12, \h77, \h58} = PlainBytes
        /\ {\h1C, \h1A, \h12, \h77, \h58, F7, \hF4, \hB7, \hDE, PRINT_SCREEN} \subseteq Byte \ {PAUSE}
    BY DEF Byte, PAUSE, F7, PRINT_SCREEN, PlainBytes
  <1>2. \h1C \in PlainBytes /\ \h1A \in PlainBytes /\ \h12 \in PlainBytes /\ \h77 \in PlainBytes
        /\ \h58 \in PlainBytes
    BY DEF PlainBytes
  <1>3. /\ Makes(<<\h1C>>, m, \h1C) /\ Breaks(<<\hF0, \h1C>>, m, \h1C)
        /\ Makes(<<\h1A>>, m, \h1A) /\ Breaks(<<\hF0, \h1A>>, m, \h1A)
        /\ Makes(<<\h12>>, m, \h12) /\ Breaks(<<\hF0, \h12>>, m, \h12)
        /\ Makes(<<\h77>>, m, \h77) /\ Breaks(<<\hF0, \h77>>, m, \h77)
        /\ Makes(<<\h58>>, m, \h58) /\ Breaks(<<\hF0, \h58>>, m, \h58)
    BY <1>2, PlainKeys
  <1>4. /\ \h74 \in PrefixedBytes /\ \h74 + \h80 = \hF4
        /\ \h37 \in PrefixedBytes /\ \h37 + \h80 = \hB7
        /\ \h5E \in PrefixedBytes /\ \h5E + \h80 = \hDE
        /\ \hFC = PRINT_SCREEN
    BY DEF PrefixedBytes, PRINT_SCREEN
  <1>5. ASSUME NEW c \in PrefixedBytes, NEW p, p = c + \h80
        PROVE  Makes(<<\hE0, c>>, m, p) /\ Breaks(<<\hE0, \hF0, c>>, m, p)
    BY <1>5, PrefixedKeys
  <1>6. k = "A" => Good
    BY <1>1, <1>3 DEF MakeCode, BreakCode, Position
  <1>7. k = "Z" => Good
    BY <1>1, <1>3 DEF MakeCode, BreakCode, Position
  <1>8. k = "LShift" => Good
    BY <1>1, <1>3 DEF MakeCode, BreakCode, Position
  <1>9. k = "NumLock" => Good
    BY <1>1, <1>3 DEF MakeCode, BreakCode, Position
  <1>10. k = "Right" => Good
    BY <1>1, <1>4, <1>5 DEF MakeCode, BreakCode, Position
  <1>11. k = "Power" => Good
    BY <1>1, <1>4, <1>5 DEF MakeCode, BreakCode, Position
  <1>12. k = "Wake" => Good
    BY <1>1, <1>4, <1>5 DEF MakeCode, BreakCode, Position
  <1>13. k = "F7" => Good
    BY <1>1, OddKeys DEF MakeCode, BreakCode, Position
  <1>14. k = "AltPrtSc" => Good
    BY <1>1, OddKeys DEF MakeCode, BreakCode, Position
  <1>15. k = "ShiftRight" => Good
    BY <1>1, ShiftedKeys DEF MakeCode, BreakCode, Position
  <1>16. k = "PrtSc" => Good
    BY <1>1, <1>4, ShiftedKeys DEF MakeCode, BreakCode, Position
  <1>17. k = "Pause" => Silent
    BY PauseKeys DEF MakeCode, BreakCode
  <1>18. k = "CtrlPause" => Silent
    BY PauseKeys DEF MakeCode, BreakCode
  <1>19. k = "CapsLock" => Good
    BY <1>1, <1>3 DEF MakeCode, BreakCode, Position
  <1>20. Good \/ Silent
    BY <1>6, <1>7, <1>8, <1>9, <1>10, <1>11, <1>12, <1>13, <1>14, <1>15, <1>16, <1>17, <1>18,
       <1>19
    DEF Keyboard
  <1> HIDE DEF Good
  <1> QED  BY <1>20 DEF Good

\* Whatever becomes of the report, the matrix takes exactly the decoder's effect.
LEMMA RegisterLeavesMatrix ==
  ASSUME NEW k \in KeyboardState, NEW c
  PROVE  register_code(k, c).matrix = k.matrix /\ unregister_code(k, c).matrix = k.matrix
  <1>1. ASSUME NEW v, NEW w
        PROVE  /\ send_keyboard_report([k EXCEPT !.keys = v]).matrix = k.matrix
               /\ send_keyboard_report([k EXCEPT !.mods = w]).matrix = k.matrix
               /\ send_system(k, v).matrix = k.matrix
               /\ [k EXCEPT !.suspendMode = v].matrix = k.matrix
    BY DEF send_keyboard_report, send_system, KeyboardState
  <1>9. send_keyboard_report(AddKey(k, c)).matrix = k.matrix
    BY DEF send_keyboard_report, AddKey, KeyboardState
  <1>2. CASE KindOf(c) = "none"
    BY <1>2, KindIs DEF register_code, unregister_code
  <1>3. CASE KindOf(c) = "key"
    BY <1>1, <1>3, <1>9 DEF register_code, unregister_code
  <1>4. CASE KindOf(c) = "mod"
    BY <1>1, <1>4 DEF register_code, unregister_code
  <1>5. CASE KindOf(c) = "system"
    <2>1. unregister_code(k, c) = send_system(k, 0)
      BY <1>5 DEF unregister_code
    <2>2. \/ register_code(k, c) = [k EXCEPT !.suspendMode = FALSE]
          \/ register_code(k, c) = k
          \/ register_code(k, c) = send_system(k, KEYCODE2SYSTEM(c))
      BY <1>5, KindIs DEF register_code
    <2> QED  BY <1>1, <2>1, <2>2
  <1> QED  BY <1>2, <1>3, <1>4, <1>5, KindIs

LEMMA MatrixEffect ==
  ASSUME NEW k \in KeyboardState, NEW e \in Effect
  PROVE  /\ ApplyEffect(k, e).matrix \ {PAUSE} = EffectOn(k.matrix \ {PAUSE}, e)
         /\ PauseBroken(k).matrix \ {PAUSE} = k.matrix \ {PAUSE}
  <1> DEFINE On(p) == [k EXCEPT !.matrix = k.matrix \cup {p}]
             Off(p) == [k EXCEPT !.matrix = k.matrix \ {p}]
  <1>1. ASSUME NEW p \in Byte
        PROVE  /\ On(p) \in KeyboardState /\ On(p).matrix = k.matrix \cup {p}
               /\ Off(p) \in KeyboardState /\ Off(p).matrix = k.matrix \ {p}
    BY DEF KeyboardState
  <1>2. ASSUME NEW p \in Byte PROVE matrix_make(k, p).matrix = k.matrix \cup {p}
    <2>1. CASE p \in k.matrix
      BY <2>1 DEF matrix_make
    <2>2. CASE p \notin k.matrix
      <3>1. matrix_make(k, p) \in {On(p), register_code(On(p), KeyAt[p])}
        BY <2>2 DEF matrix_make
      <3> HIDE DEF On, Off
      <3> QED  BY <1>1, <3>1, RegisterLeavesMatrix
    <2> QED  BY <2>1, <2>2
  <1>3. ASSUME NEW p \in Byte PROVE matrix_break(k, p).matrix = k.matrix \ {p}
    <2>1. CASE p \notin k.matrix
      BY <2>1 DEF matrix_break
    <2>2. CASE p \in k.matrix
      <3>1. matrix_break(k, p) \in {register_code(Off(p), KC_NUMLOCK),
                                    unregister_code(Off(p), KeyAt[p])}
        BY <2>2 DEF matrix_break
      <3> HIDE DEF On, Off
      <3> QED  BY <1>1, <3>1, RegisterLeavesMatrix
    <2> QED  BY <2>1, <2>2
  <1>4. matrix_clear(k).matrix = {}
    BY DEF matrix_clear, KeyboardState
  <1>5. e.key \in Byte /\ e.do \in {"nothing", "make", "break", "clear"} /\ PAUSE \in Byte
    BY DEF Effect, PAUSE, Byte
  <1> HIDE DEF On, Off
  <1>6. PauseBroken(k).matrix \ {PAUSE} = k.matrix \ {PAUSE}
    BY <1>3, <1>5 DEF PauseBroken
  <1>7. CASE e.do = "make"
    BY <1>2, <1>5, <1>6, <1>7 DEF ApplyEffect, EffectOn
  <1>8. CASE e.do = "break"
    BY <1>3, <1>5, <1>6, <1>8 DEF ApplyEffect, EffectOn
  <1>9. CASE e.do = "clear"
    BY <1>4, <1>6, <1>9 DEF ApplyEffect, EffectOn
  <1>10. CASE e.do = "nothing"
    BY <1>6, <1>10 DEF ApplyEffect, EffectOn
  <1> QED  BY <1>5, <1>7, <1>8, <1>9, <1>10

LEMMA PauseEffect ==
  ASSUME NEW k \in KeyboardState
  PROVE  PauseBroken(k).matrix \ {PAUSE} = k.matrix \ {PAUSE}
  <1>1. Nothing \in Effect
    BY DEF Nothing, Effect, Byte
  <1> QED  BY <1>1, MatrixEffect

-----------------------------------------------------------------------------
(* The trace holds.                                                        *)

\* One byte taken from a sequence and put in front of it again.
LEMMA InFront ==
  ASSUME NEW h \in Byte, NEW s \in Seq(Byte)
  PROVE  /\ <<h>> \o s \in Seq(Byte) /\ <<h>> \o s # <<>>
         /\ Head(<<h>> \o s) = h /\ Tail(<<h>> \o s) = s
  <1> DEFINE one == <<h>>
             c == one \o s
  <1>1. one \in Seq(Byte) /\ Len(one) = 1 /\ one[1] = h /\ Len(s) \in Nat
    BY LenProperties
  <1> HIDE DEF one
  <1>2. /\ c \in Seq(Byte) /\ Len(c) = 1 + Len(s)
        /\ \A i \in 1 .. 1 + Len(s) : c[i] = IF i <= 1 THEN one[i] ELSE s[i - 1]
    <2>1. /\ c \in Seq(Byte) /\ Len(c) = Len(one) + Len(s)
          /\ \A i \in 1 .. Len(one) + Len(s) :
               c[i] = IF i <= Len(one) THEN one[i] ELSE s[i - Len(one)]
      BY <1>1, ConcatProperties
    <2> QED  BY <1>1, <2>1
  <1> HIDE DEF c
  <1>3. c # <<>>
    BY <1>1, <1>2, EmptySeq
  <1>4. Head(c) = h
    <2>1. Head(c) = c[1]
      BY <1>2, <1>3
    <2> QED  BY <1>1, <1>2, <2>1
  <1>5. Tail(c) = s
    <2>1. /\ Tail(c) \in Seq(Byte) /\ Len(Tail(c)) = Len(s)
          /\ \A i \in 1 .. Len(s) : Tail(c)[i] = c[i + 1]
      BY <1>1, <1>2, <1>3, HeadTailProperties
    <2>2. ASSUME NEW i \in 1 .. Len(s) PROVE Tail(c)[i] = s[i]
      <3>1. i + 1 \in 1 .. 1 + Len(s) /\ ~(i + 1 <= 1) /\ (i + 1) - 1 = i
        BY <1>1
      <3> QED  BY <1>2, <2>1, <3>1
    <2> QED  BY <2>1, <2>2, SeqEqual
  <1> QED  BY <1>2, <1>3, <1>4, <1>5 DEF c, one

LEMMA HeadAndTail ==
  ASSUME NEW p \in Seq(Byte), p # <<>>
  PROVE  /\ Head(p) \in Byte /\ Tail(p) \in Seq(Byte) /\ <<Head(p)>> \in Seq(Byte)
         /\ p = <<Head(p)>> \o Tail(p)
  <1> DEFINE h == Head(p)
             t == Tail(p)
             one == <<h>>
             c == one \o t
  <1>1. /\ h \in Byte /\ t \in Seq(Byte) /\ h = p[1] /\ Len(t) = Len(p) - 1
        /\ \A i \in 1 .. Len(t) : t[i] = p[i + 1]
        /\ Len(p) \in Nat
    BY HeadTailProperties, LenProperties
  <1>2. one \in Seq(Byte) /\ Len(one) = 1 /\ one[1] = h
    BY <1>1
  <1> HIDE DEF h, t, one
  <1>3. /\ c \in Seq(Byte) /\ Len(c) = Len(p)
        /\ \A i \in 1 .. Len(p) : c[i] = IF i <= 1 THEN one[i] ELSE t[i - 1]
    <2>1. /\ c \in Seq(Byte) /\ Len(c) = Len(one) + Len(t)
          /\ \A i \in 1 .. Len(one) + Len(t) :
               c[i] = IF i <= Len(one) THEN one[i] ELSE t[i - Len(one)]
      <3>1. one \in Seq(Byte) /\ t \in Seq(Byte)
        BY <1>1, <1>2
      <3> QED  BY ONLY <3>1, ConcatProperties DEF c
    <2>2. Len(one) + Len(t) = Len(p)
      BY <1>1, <1>2
    <2> QED  BY <1>2, <2>1, <2>2
  <1> HIDE DEF c
  <1>4. ASSUME NEW i \in 1 .. Len(c) PROVE c[i] = p[i]
    <2>0. i \in 1 .. Len(p)
      BY <1>3
    <2>1. CASE i = 1
      <3>1. i <= 1
        BY <2>1
      <3> QED  BY <1>1, <1>2, <1>3, <2>0, <2>1, <3>1
    <2>2. CASE i # 1
      <3>1. ~(i <= 1) /\ i - 1 \in 1 .. Len(t) /\ (i - 1) + 1 = i
        BY <1>1, <2>0, <2>2
      <3> QED  BY <1>1, <1>3, <2>0, <3>1
    <2> QED  BY <2>1, <2>2
  <1>5. c = p
    BY <1>3, <1>4, SeqEqual
  <1> QED  BY <1>1, <1>2, <1>5 DEF h, t, one, c

\* A byte passes from the keyboard into pbuf and from there to the decoder.
LEMMA Queued ==
  ASSUME NEW q \in Seq(Byte), NEW p \in Seq(Byte)
  PROVE  /\ q \o p \in Seq(Byte) /\ q \o <<>> = q
         /\ p # <<>> => Append(q, Head(p)) \o Tail(p) = q \o p
         /\ q # <<>> => /\ q \o p # <<>>
                        /\ Head(q \o p) = Head(q) /\ Tail(q \o p) = Tail(q) \o p
  <1>1. q \o p \in Seq(Byte) /\ q \o <<>> = q
    BY ConcatProperties, ConcatEmptySeq
  <1>2. ASSUME p # <<>> PROVE Append(q, Head(p)) \o Tail(p) = q \o p
    <2> DEFINE h == Head(p)
               t == Tail(p)
               one == <<h>>
    <2>1. h \in Byte /\ t \in Seq(Byte) /\ one \in Seq(Byte) /\ p = one \o t
      BY <1>2, HeadAndTail
    <2>2. Append(q, h) = q \o one
      BY <2>1, AppendIsConcat
    <2> HIDE DEF h, t, one
    <2>3. (q \o one) \o t = q \o (one \o t)
      BY <2>1, ConcatAssociative
    <2> QED  BY <2>1, <2>2, <2>3 DEF h, t
  <1>3. ASSUME q # <<>>
        PROVE  q \o p # <<>> /\ Head(q \o p) = Head(q) /\ Tail(q \o p) = Tail(q) \o p
    <2> DEFINE h == Head(q)
               t == Tail(q)
               one == <<h>>
    <2>1. h \in Byte /\ t \in Seq(Byte) /\ one \in Seq(Byte) /\ q = one \o t
      BY <1>3, HeadAndTail
    <2> HIDE DEF h, t
    <2>2. t \o p \in Seq(Byte)
      BY <2>1, ConcatProperties
    <2>3. /\ one \o (t \o p) # <<>> /\ Head(one \o (t \o p)) = h /\ Tail(one \o (t \o p)) = t \o p
      BY <2>1, <2>2, InFront
    <2> HIDE DEF one
    <2>4. q \o p = one \o (t \o p)
      BY <2>1, ConcatAssociative
    <2> QED  BY <2>3, <2>4 DEF h, t
  <1> QED  BY <1>1, <1>2, <1>3

LEMMA HeldTyped ==
  ASSUME IInv, HeldApart
  PROVE  /\ HeldKeys \in SUBSET Byte /\ PAUSE \notin HeldKeys
         /\ queue \in Seq(Byte) /\ pending \in Seq(Byte) /\ down \subseteq Keyboard
         /\ KeyNames \subseteq Keyboard
  <1>1. /\ down \subseteq Keyboard /\ KeyNames \subseteq Keyboard
        /\ queue \in Seq(Byte) /\ pending \in Seq(Byte)
    BY KeyPathAssumption DEF IInv, TypeOK
  <1>2. \A d \in down : Position(d) \in Byte \ {PAUSE}
    BY <1>1, KeyLeads DEF HeldApart
  <1> QED  BY <1>1, <1>2 DEF HeldKeys

LEMMA InitTracks == Init => HeldApart /\ Tracks
  <1> SUFFICES ASSUME Init PROVE HeldApart /\ Tracks  OBVIOUS
  <1>1. queue \o pending = <<>>
    BY EmptySeq, ConcatEmptySeq DEF Init
  <1>2. Now = Settled
    BY DEF Init, KeyboardInit, Now, Settled, HeldKeys, At
  <1> QED  BY <1>1, <1>2, LeadsNowhere DEF Init, HeldApart, Tracks

\* What the keyboard sends is read behind what is on its way.
LEMMA SendTracks ==
  ASSUME IInv, HeldApart, Tracks, NEW bytes \in Seq(Byte), Send(bytes), intact' = intact,
         Leads(bytes, Settled, Settled')
  PROVE  Tracks'
  <1> SUFFICES ASSUME intact' PROVE ~err' /\ Leads(queue \o pending, Now, Settled)'
    BY DEF Tracks
  <1>1. /\ pending = <<>> /\ pending' = bytes
        /\ UNCHANGED <<queue, err, decoder, kb>>
    BY DEF Send
  <1>2. ~err /\ Leads(queue, Now, Settled) /\ queue \in Seq(Byte)
    BY <1>1, Queued, HeldTyped DEF Tracks
  <1>3. Leads(queue \o bytes, Now, Settled')
    BY <1>2, LeadsOn
  <1>4. Now' = Now /\ (queue \o pending)' = queue \o bytes
    BY <1>1 DEF Now
  <1>5. Leads(queue \o pending, Now, Settled)' <=> Leads((queue \o pending)', Now', Settled')
    BY DEF Leads, IsTrace, Advance
  <1> QED  BY <1>1, <1>2, <1>3, <1>4, <1>5

\* What matrix_scan reads is read from the front.
LEMMA ScanTracks ==
  ASSUME IInv, HeldApart, Tracks, matrix_scan
  PROVE  Tracks'
  <1> SUFFICES ASSUME intact' PROVE ~err' /\ Leads(queue \o pending, Now, Settled)'
    BY DEF Tracks
  <1> DEFINE p == PauseBroken(kb)
             c == First(queue)
             e == DecodeByte(decoder, c).effect
             b == queue \o pending
  <1>0. /\ ~err' /\ queue' = Rest(queue) /\ pending' = pending /\ down' = down /\ intact
        /\ kb \in KeyboardState /\ Agrees(kb) /\ decoder \in DecoderStates
    BY DEF matrix_scan, device, IInv, TypeOK
  <1>1. ~err /\ Leads(b, Now, Settled) /\ queue \in Seq(Byte) /\ pending \in Seq(Byte)
    BY <1>0, HeldTyped DEF Tracks
  <1>2. p \in KeyboardState /\ p.matrix \ {PAUSE} = kb.matrix \ {PAUSE}
    BY <1>0, PauseKeeps, PauseEffect
  <1>3. Leads(b, Now, Settled)' <=> Leads(b', Now', Settled)
    BY <1>0 DEF Leads, IsTrace, Advance, Settled, HeldKeys
  <1>4. CASE queue = <<>>
    <2>1. c = 0 /\ queue' = queue
      BY <1>0, <1>4 DEF First, Rest
    <2>2. decoder' = decoder /\ kb' = p
      BY <1>1, <2>1 DEF matrix_scan
    <2>3. Now' = Now /\ b' = b
      BY <1>0, <1>2, <2>1, <2>2 DEF Now
    <2> QED  BY <1>0, <1>1, <1>3, <2>3
  <1>5. CASE queue # <<>>
    <2>1. b \in Seq(Byte) /\ b # <<>> /\ Head(b) = c /\ b' = Tail(b) /\ c \in Byte
      BY <1>0, <1>1, <1>5, Queued, HeadAndTail DEF First, Rest
    <2>2. c # 0 /\ Leads(Tail(b), Advance(Now, c), Settled)
      BY <1>1, <2>1, LeadsFirst
    <2>3. /\ decoder' = DecodeByte(decoder, c).state
          /\ kb' = ApplyEffect(p, e)
      BY <1>1, <2>2 DEF matrix_scan
    <2>4. e \in Effect
      BY <1>0, <2>1, DecodeTyped
    <2> HIDE DEF p, c, e
    <2>5. kb'.matrix \ {PAUSE} = EffectOn(kb.matrix \ {PAUSE}, e)
      BY <1>2, <2>3, <2>4, MatrixEffect
    <2>6. Now' = Advance(Now, c)
      BY <2>3, <2>5 DEF Now, Advance, At, e
    <2> QED  BY <1>0, <1>3, <2>1, <2>2, <2>6
  <1> QED  BY <1>4, <1>5

\* Every other step leaves the bytes, or sets intact to FALSE.
LEMMA StepTracks ==
  ASSUME IInv, HeldApart, Tracks, [Next]_vars
  PROVE  HeldApart' /\ Tracks'
  <1> USE DEF device
  <1>T. /\ HeldKeys \in SUBSET Byte /\ PAUSE \notin HeldKeys
        /\ queue \in Seq(Byte) /\ pending \in Seq(Byte) /\ down \subseteq Keyboard
        /\ KeyNames \subseteq Keyboard
    BY HeldTyped
  <1>H. down' \subseteq down => HeldApart'
    BY DEF HeldApart
  <1>S. ASSUME down' = down, UNCHANGED <<intact, err, decoder>>,
               kb'.matrix = kb.matrix, intact => (queue \o pending)' = queue \o pending
        PROVE  HeldApart' /\ Tracks'
    <2>1. Now' = Now /\ Settled' = Settled
      BY <1>S DEF Now, Settled, HeldKeys
    <2>2. Leads(queue \o pending, Now, Settled)' <=> Leads((queue \o pending)', Now', Settled')
      BY DEF Leads, IsTrace, Advance
    <2> QED  BY <1>H, <1>S, <2>1, <2>2 DEF Tracks
  \* The keyboard and its user.
  <1>1. ASSUME NEW k \in KeyNames, Press(k) PROVE HeldApart' /\ Tracks'
    <2>1. /\ \A d \in down : Position(d) # Position(k)
          /\ Send(MakeCode(k)) /\ intact' = intact
          /\ down' = IF BreakCode(k) = <<>> THEN down ELSE down \cup {k}
      BY <1>1 DEF Press, CanPress
    <2>2. HeldApart'
      BY <2>1 DEF HeldApart
    <2>3. MakeCode(k) \in Seq(Byte) /\ k \in Keyboard
      BY <1>T, CodesTyped
    <2>4. HeldKeys' = IF BreakCode(k) = <<>> THEN HeldKeys ELSE HeldKeys \cup {Position(k)}
      BY <2>1 DEF HeldKeys
    <2>5. Leads(MakeCode(k), Settled, Settled')
      BY <1>T, <2>3, <2>4, KeyLeads DEF Makes, Settled
    <2> QED  BY <2>1, <2>2, <2>3, <2>5, SendTracks
  <1>2. ASSUME NEW k \in KeyNames, Repeat(k) PROVE HeldApart' /\ Tracks'
    <2>1. k \in down /\ Send(MakeCode(k)) /\ intact' = intact /\ down' = down
      BY <1>2 DEF Repeat
    <2>2. MakeCode(k) \in Seq(Byte) /\ k \in Keyboard /\ BreakCode(k) # <<>>
      BY <1>T, <2>1, CodesTyped DEF HeldApart
    <2>3. HeldKeys' = HeldKeys \cup {Position(k)}
      BY <2>1 DEF HeldKeys
    <2>4. Leads(MakeCode(k), Settled, Settled')
      BY <1>T, <2>2, <2>3, KeyLeads DEF Makes, Settled
    <2> QED  BY <1>H, <2>1, <2>2, <2>4, SendTracks
  <1>3. ASSUME NEW k \in KeyNames, Release(k) PROVE HeldApart' /\ Tracks'
    <2>1. k \in down /\ Send(BreakCode(k)) /\ intact' = intact /\ down' = down \ {k}
      BY <1>3 DEF Release
    <2>2. BreakCode(k) \in Seq(Byte) /\ k \in Keyboard /\ BreakCode(k) # <<>>
      BY <1>T, <2>1, CodesTyped DEF HeldApart
    <2>3. HeldKeys' = HeldKeys \ {Position(k)}
      BY <2>1 DEF HeldKeys, HeldApart
    <2>4. Leads(BreakCode(k), Settled, Settled')
      BY <1>T, <2>2, <2>3, KeyLeads DEF Breaks, Settled
    <2> QED  BY <1>H, <2>1, <2>2, <2>4, SendTracks
  <1>4. ASSUME NEW k \in KeyNames, Overrun(k) PROVE HeldApart' /\ Tracks'
    BY <1>H, <1>4 DEF Overrun, Tracks
  \* The receiver.
  <1>5. CASE FrameBegins
    BY <1>S, <1>5 DEF FrameBegins
  <1>6. CASE FrameReceived
    <2>1. pending # <<>> /\ down' = down /\ UNCHANGED <<err, decoder, kb>>
          /\ intact' = (intact /\ Len(queue) < QueueRoom)
          /\ queue' = Put(queue, Head(pending), QueueRoom) /\ pending' = Tail(pending)
      BY <1>6 DEF FrameReceived, IInv, InFrame
    <2>2. CASE intact'
      <3>1. queue' = Append(queue, Head(pending)) /\ intact /\ intact' = intact
        BY <2>1, <2>2 DEF Put, IInv, TypeOK
      <3>2. Append(queue, Head(pending)) \o Tail(pending) = queue \o pending
        BY <1>T, <2>1, Queued
      <3>3. (queue \o pending)' = queue \o pending
        BY <2>1, <3>1, <3>2
      <3> QED  BY <1>S, <2>1, <3>1, <3>3
    <2>3. CASE ~intact'
      BY <1>H, <2>1, <2>3 DEF Tracks
    <2> QED  BY <2>2, <2>3
  <1>7. CASE FrameIgnored
    <2>1. ~intact /\ intact' = intact /\ down' = down
      BY <1>7 DEF FrameIgnored, Tracks
    <2> QED  BY <1>H, <2>1 DEF Tracks
  <1>8. CASE FrameSpoilt
    BY <1>H, <1>8 DEF FrameSpoilt, Tracks
  \* The main loop.
  <1>9. CASE matrix_scan
    BY <1>H, <1>9, ScanTracks DEF matrix_scan
  <1>10. CASE vusb_transfer_keyboard
    <2>1. kb'.matrix = kb.matrix
      BY <1>10 DEF vusb_transfer_keyboard, IInv, TypeOK, KeyboardState
    <2> QED  BY <1>S, <1>10, <2>1 DEF vusb_transfer_keyboard
  \* The host and the bus.
  <1>11. CASE PollKeyboard
    BY <1>S, <1>11 DEF PollKeyboard
  <1>12. CASE PollSystem
    <2>1. kb'.matrix = kb.matrix
      BY <1>12 DEF PollSystem, IInv, TypeOK, KeyboardState
    <2> QED  BY <1>S, <1>12, <2>1 DEF PollSystem
  <1>13. CASE SuspendOrResume
    <2>1. kb'.matrix = kb.matrix
      BY <1>13 DEF SuspendOrResume, IInv, TypeOK, KeyboardState
    <2> QED  BY <1>S, <1>13, <2>1 DEF SuspendOrResume
  \* The host's LEDs, and a frame spoilt in the middle of matrix_scan.
  <1>14. CASE adjustKeyboardLeds
    <2>1. kb'.matrix = kb.matrix
      BY <1>14, RegisterLeavesMatrix DEF adjustKeyboardLeds, IInv, TypeOK
    <2> QED  BY <1>S, <1>14, <2>1 DEF adjustKeyboardLeds
  <1>15. CASE ScanOvertaken
    BY <1>H, <1>15 DEF ScanOvertaken, Tracks
  <1>16. CASE UNCHANGED vars
    BY <1>S, <1>16 DEF vars
  <1> QED
    BY <1>1, <1>2, <1>3, <1>4, <1>5, <1>6, <1>7, <1>8, <1>9, <1>10, <1>11, <1>12, <1>13, <1>14,
       <1>15, <1>16
    DEF Next, User, Frame

LEMMA TracksAlways == Spec => [](HeldApart /\ Tracks)
  BY Invariance, InitTracks, StepTracks, PTL DEF Spec

\* With every byte received the matrix is the set of keys held whenever nothing is
\* left to decode, for every mix of keys, repeats, prefixes and postfixes and however
\* many keys' bytes wait in pbuf: matrix_scan and the tables in matrix.c agree.
THEOREM MatrixTracks == Spec => []MatrixTracksKeys
  <1>1. IInv /\ HeldApart /\ Tracks => MatrixTracksKeys
    <2> SUFFICES ASSUME IInv, HeldApart, Tracks, intact, pending = <<>>, queue = <<>>
                 PROVE  decoder = "INIT" /\ kb.matrix \ {PAUSE} = HeldKeys
      BY DEF MatrixTracksKeys
    <2>1. queue \o pending = <<>>
      BY EmptySeq, ConcatEmptySeq
    <2>2. Now = Settled
      BY <2>1, LeadsNowhere DEF Tracks
    <2> QED  BY <2>2 DEF Now, Settled, At
  <1> QED  BY <1>1, Invariance, TracksAlways, PTL

-----------------------------------------------------------------------------
(* What the host reads.                                                     *)

\* The number a host reads begins in one byte and goes on in those after it.
Reads(bytes, at, offset, size) ==
  \E rest \in Nat :
    BitsAt(bytes, offset, size) = ((bytes[at] + 256 * rest) \div 2^(offset % 8)) % 2^size

LEMMA BitsIs ==
  ASSUME NEW bytes \in Seq(Byte), NEW at \in 1 .. Len(bytes),
         NEW offset, (offset \div 8) + 1 = at, NEW size
  PROVE  Reads(bytes, at, offset, size)
  <1> DEFINE y == IF at + 1 \in DOMAIN bytes THEN bytes[at + 1] ELSE 0
             z == IF at + 2 \in DOMAIN bytes THEN bytes[at + 2] ELSE 0
  <1>1. \A i \in DOMAIN bytes : bytes[i] \in Byte
    BY ElementOfSeq, LenProperties
  <1>2. y \in Nat /\ z \in Nat
    <2>1. \A n \in Byte : n \in Nat
      BY DEF Byte
    <2> QED  BY <1>1, <2>1
  <1>3. at \in DOMAIN bytes
    BY LenProperties
  <1>4. BitsAt(bytes, offset, size)
          = ((bytes[at] + 256 * (y + 256 * z)) \div 2^(offset % 8)) % 2^size
    BY <1>3 DEF BitsAt
  <1> HIDE DEF y, z
  <1>5. y + 256 * z \in Nat
    BY <1>2, SMT
  <1> QED  BY <1>4, <1>5, Zenon DEF Reads

\* A byte of the report by its bits.
LEMMA WholeByte ==
  ASSUME NEW bytes \in Seq(Byte), NEW k \in Nat, k < Len(bytes)
  PROVE  BitsAt(bytes, 8 * k, 8) = bytes[k + 1]
  <1> DEFINE offset == 8 * k
  <1>1. (offset \div 8) + 1 = k + 1 /\ offset % 8 = 0
    BY SMT
  <1> HIDE DEF offset
  <1>2. k + 1 \in 1 .. Len(bytes) /\ bytes[k + 1] \in 0 .. 255
    <2>1. k + 1 \in 1 .. Len(bytes)
      BY LenProperties
    <2>2. bytes[k + 1] \in Byte
      BY <2>1, ElementOfSeq
    <2> QED  BY <2>1, <2>2 DEF Byte
  <1>3. Reads(bytes, k + 1, offset, 8)
    BY <1>1, <1>2, BitsIs
  <1>4. PICK rest \in Nat : BitsAt(bytes, offset, 8) = ((bytes[k + 1] + 256 * rest) \div 1) % 256
    BY <1>1, <1>3, 2^0 = 1, 2^8 = 256 DEF Reads
  <1>5. \A x \in 0 .. 255 : ((x + 256 * rest) \div 1) % 256 = x
    BY SMT
  <1> QED  BY <1>2, <1>4, <1>5 DEF offset

\* A number has a bit of a given weight: what is below it, the bit, what is above it.
BitIs(n, w, bit) ==
  /\ bit \in {0, 1}
  /\ \E low, high \in Nat : low < w /\ n = low + w * (bit + 2 * high)

Weighs(i, w) == w \in {1, 2, 4, 8, 16, 32, 64, 128} /\ w = 2^i

LEMMA OneBit ==
  ASSUME NEW bytes \in Seq(Byte), 0 < Len(bytes), NEW i \in 0 .. 7,
         NEW w, Weighs(i, w), NEW bit, BitIs(bytes[1], w, bit)
  PROVE  BitsAt(bytes, i, 1) = bit
  <1>1. (i \div 8) + 1 = 1 /\ i % 8 = i /\ 2^1 = 2
    BY SMT
  <1>2. 1 \in 1 .. Len(bytes)
    BY LenProperties
  <1>3. Reads(bytes, 1, i, 1)
    <2> DEFINE at == 1
    <2>1. at \in 1 .. Len(bytes) /\ (i \div 8) + 1 = at
      BY <1>1, <1>2
    <2> HIDE DEF at
    <2>2. Reads(bytes, at, i, 1)
      BY <2>1, BitsIs
    <2> QED  BY <2>2 DEF at
  <1>4. PICK rest \in Nat : BitsAt(bytes, i, 1) = ((bytes[1] + 256 * rest) \div w) % 2
    BY <1>1, <1>3 DEF Reads, Weighs
  <1>5. PICK low \in Nat, high \in Nat : low < w /\ bytes[1] = low + w * (bit + 2 * high)
    BY DEF BitIs
  <1>6. ((bytes[1] + 256 * rest) \div w) % 2 = bit
    <2>1. w \in {1, 2, 4, 8, 16, 32, 64, 128} /\ bit \in {0, 1}
      BY DEF Weighs, BitIs
    <2> QED  BY <1>5, <2>1, SMT
  <1> QED  BY <1>4, <1>6

\* What the fields of a report say, given the numbers in them.
Numbers(bytes, offset, size, count, v) ==
  \A i \in 0 .. count - 1 : BitsAt(bytes, offset + i * size, size) = v[i]

\* The numbers of a field are in the report and have no sign.
Legible(bytes, offset, size, count, min) ==
  ~(offset + count * size > 8 * Len(bytes)) /\ ~(min < 0)

LEMMA ReadValues ==
  ASSUME NEW id, NEW offset, NEW size, NEW count, NEW page, NEW flags, NEW min, NEW max,
         NEW usages, NEW bytes, NEW v, Numbers(bytes, offset, size, count, v),
         flags \notin {CONSTANT_FIELD, ARRAY}, Legible(bytes, offset, size, count, min)
  PROVE  ReadField(InputField(id, offset, size, count, page, flags, min, max, usages), bytes)
           = {<<page, usages[i], v[i]>> :
                i \in {j \in 0 .. count - 1 : v[j] \in min .. max /\ v[j] # 0}}
  <1> DEFINE f == InputField(id, offset, size, count, page, flags, min, max, usages)
             value == [i \in 0 .. f.count - 1 |-> BitsAt(bytes, f.offset + i * f.size, f.size)]
             says == {i \in DOMAIN value : value[i] \in f.min .. f.max /\ value[i] # 0}
  <1>1. /\ f.offset = offset /\ f.size = size /\ f.count = count /\ f.page = page
        /\ f.flags = flags /\ f.min = min /\ f.max = max /\ f.usages = usages
    BY DEF InputField
  <1> HIDE DEF f
  <1>2. ReadField(f, bytes) = {<<f.page, f.usages[i], value[i]>> : i \in says}
    BY <1>1, Zenon DEF ReadField, Legible
  <1>3. \A i \in 0 .. count - 1 : value[i] = v[i]
    BY <1>1, Zenon DEF Numbers
  <1>4. DOMAIN value = 0 .. count - 1
    BY <1>1
  <1> HIDE DEF value
  <1> QED  BY <1>1, <1>2, <1>3, <1>4 DEF f

\* An array names its usages from the first one on.
Named(usages, min, v, count, named) ==
  \A i \in 0 .. count - 1 : named[i] = usages[0] + v[i] - min

LEMMA ReadArray ==
  ASSUME NEW id, NEW offset, NEW size, NEW count, NEW page, NEW min, NEW max,
         NEW usages, NEW bytes, NEW v, Numbers(bytes, offset, size, count, v),
         NEW named, Named(usages, min, v, count, named), Legible(bytes, offset, size, count, min)
  PROVE  ReadField(InputField(id, offset, size, count, page, ARRAY, min, max, usages), bytes)
           = {<<page, named[i], 1>> :
                i \in {j \in 0 .. count - 1 : v[j] \in min .. max /\ v[j] # 0}}
  <1> DEFINE f == InputField(id, offset, size, count, page, ARRAY, min, max, usages)
             value == [i \in 0 .. f.count - 1 |-> BitsAt(bytes, f.offset + i * f.size, f.size)]
             says == {i \in DOMAIN value : value[i] \in f.min .. f.max /\ value[i] # 0}
  <1>1. /\ f.offset = offset /\ f.size = size /\ f.count = count /\ f.page = page
        /\ f.flags = ARRAY /\ f.min = min /\ f.max = max /\ f.usages = usages
    BY DEF InputField
  <1>0. ARRAY # CONSTANT_FIELD
    BY DEF ARRAY, CONSTANT_FIELD
  <1> HIDE DEF f
  <1>2. ReadField(f, bytes) = {<<f.page, f.usages[0] + value[i] - f.min, 1>> : i \in says}
    BY <1>0, <1>1, Zenon DEF ReadField, Legible
  <1>3. \A i \in 0 .. count - 1 : value[i] = v[i]
    BY <1>1, Zenon DEF Numbers
  <1>4. DOMAIN value = 0 .. count - 1
    BY <1>1
  <1> HIDE DEF value
  <1> QED  BY <1>1, <1>2, <1>3, <1>4 DEF f, Named

\* The bytes of the keyboard's report, and the bits of the first.
LEMMA HeadAndKeys ==
  ASSUME NEW h \in Seq(Byte), Len(h) = 2, NEW s \in Seq(Byte), Len(s) = 6
  PROVE  /\ h \o s \in Seq(Byte) /\ Len(h \o s) = 8 /\ (h \o s)[1] = h[1]
         /\ \A i \in 0 .. 5 : (h \o s)[i + 3] = s[i + 1]
  <1> DEFINE c == h \o s
  <1>0. /\ c \in Seq(Byte) /\ Len(c) = Len(h) + Len(s)
        /\ \A i \in 1 .. Len(h) + Len(s) : c[i] = IF i <= Len(h) THEN h[i] ELSE s[i - Len(h)]
    BY ConcatProperties, Zenon
  <1> HIDE DEF c
  <1>1. c \in Seq(Byte) /\ Len(c) = 8
    BY <1>0
  <1>2. \A i \in 1 .. 8 : c[i] = IF i <= 2 THEN h[i] ELSE s[i - 2]
    BY <1>0
  <1>3. c[1] = h[1]
    BY <1>2
  <1>4. \A i \in 0 .. 5 : c[i + 3] = s[i + 1]
    <2> TAKE i \in 0 .. 5
    <2>1. i + 3 \in 1 .. 8 /\ ~(i + 3 <= 2) /\ (i + 3) - 2 = i + 1
      BY SMT
    <2>2. c[i + 3] = s[(i + 3) - 2]
      BY <1>2, <2>1
    <2> QED  BY <2>1, <2>2
  <1> QED  BY <1>1, <1>3, <1>4 DEF c

\* The modifiers as a number: each bit is one of them.
LEMMA EightBits ==
  ASSUME NEW b \in [0 .. 7 -> {0, 1}], NEW n,
         n = b[0] + 2 * b[1] + 4 * b[2] + 8 * b[3] + 16 * b[4] + 32 * b[5] + 64 * b[6] + 128 * b[7]
  PROVE  /\ n \in 0 .. 255
         /\ BitIs(n, 1, b[0]) /\ BitIs(n, 2, b[1]) /\ BitIs(n, 4, b[2]) /\ BitIs(n, 8, b[3])
         /\ BitIs(n, 16, b[4]) /\ BitIs(n, 32, b[5]) /\ BitIs(n, 64, b[6]) /\ BitIs(n, 128, b[7])
  <1>1. PICK b0 \in {0, 1}, b1 \in {0, 1}, b2 \in {0, 1}, b3 \in {0, 1},
             b4 \in {0, 1}, b5 \in {0, 1}, b6 \in {0, 1}, b7 \in {0, 1} :
          /\ b[0] = b0 /\ b[1] = b1 /\ b[2] = b2 /\ b[3] = b3
          /\ b[4] = b4 /\ b[5] = b5 /\ b[6] = b6 /\ b[7] = b7
    <2>1. /\ b[0] \in {0, 1} /\ b[1] \in {0, 1} /\ b[2] \in {0, 1} /\ b[3] \in {0, 1}
          /\ b[4] \in {0, 1} /\ b[5] \in {0, 1} /\ b[6] \in {0, 1} /\ b[7] \in {0, 1}
      BY SMT
    <2> QED  BY <2>1, Zenon
  <1>2. n = b0 + 2 * b1 + 4 * b2 + 8 * b3 + 16 * b4 + 32 * b5 + 64 * b6 + 128 * b7
    BY <1>1
  <1>3. BitIs(n, 1, b0)
    <2>1. PICK low \in Nat : low = 0
      BY SMT
    <2>2. PICK high \in Nat : high = b1 + 2 * b2 + 4 * b3 + 8 * b4 + 16 * b5 + 32 * b6 + 64 * b7
      BY SMT
    <2>3. low < 1 /\ n = low + 1 * (b0 + 2 * high)
      BY <1>2, <2>1, <2>2, SMT
    <2> QED  BY <2>3, Zenon DEF BitIs
  <1>4. BitIs(n, 2, b1)
    <2>1. PICK low \in Nat : low = b0
      BY SMT
    <2>2. PICK high \in Nat : high = b2 + 2 * b3 + 4 * b4 + 8 * b5 + 16 * b6 + 32 * b7
      BY SMT
    <2>3. low < 2 /\ n = low + 2 * (b1 + 2 * high)
      BY <1>2, <2>1, <2>2, SMT
    <2> QED  BY <2>3, Zenon DEF BitIs
  <1>5. BitIs(n, 4, b2)
    <2>1. PICK low \in Nat : low = b0 + 2 * b1
      BY SMT
    <2>2. PICK high \in Nat : high = b3 + 2 * b4 + 4 * b5 + 8 * b6 + 16 * b7
      BY SMT
    <2>3. low < 4 /\ n = low + 4 * (b2 + 2 * high)
      BY <1>2, <2>1, <2>2, SMT
    <2> QED  BY <2>3, Zenon DEF BitIs
  <1>6. BitIs(n, 8, b3)
    <2>1. PICK low \in Nat : low = b0 + 2 * b1 + 4 * b2
      BY SMT
    <2>2. PICK high \in Nat : high = b4 + 2 * b5 + 4 * b6 + 8 * b7
      BY SMT
    <2>3. low < 8 /\ n = low + 8 * (b3 + 2 * high)
      BY <1>2, <2>1, <2>2, SMT
    <2> QED  BY <2>3, Zenon DEF BitIs
  <1>7. BitIs(n, 16, b4)
    <2>1. PICK low \in Nat : low = b0 + 2 * b1 + 4 * b2 + 8 * b3
      BY SMT
    <2>2. PICK high \in Nat : high = b5 + 2 * b6 + 4 * b7
      BY SMT
    <2>3. low < 16 /\ n = low + 16 * (b4 + 2 * high)
      BY <1>2, <2>1, <2>2, SMT
    <2> QED  BY <2>3, Zenon DEF BitIs
  <1>8. BitIs(n, 32, b5)
    <2>1. PICK low \in Nat : low = b0 + 2 * b1 + 4 * b2 + 8 * b3 + 16 * b4
      BY SMT
    <2>2. PICK high \in Nat : high = b6 + 2 * b7
      BY SMT
    <2>3. low < 32 /\ n = low + 32 * (b5 + 2 * high)
      BY <1>2, <2>1, <2>2, SMT
    <2> QED  BY <2>3, Zenon DEF BitIs
  <1>9. BitIs(n, 64, b6)
    <2>1. PICK low \in Nat : low = b0 + 2 * b1 + 4 * b2 + 8 * b3 + 16 * b4 + 32 * b5
      BY SMT
    <2>2. PICK high \in Nat : high = b7
      BY SMT
    <2>3. low < 64 /\ n = low + 64 * (b6 + 2 * high)
      BY <1>2, <2>1, <2>2, SMT
    <2> QED  BY <2>3, Zenon DEF BitIs
  <1>10. BitIs(n, 128, b7)
    <2>1. PICK low \in Nat : low = b0 + 2 * b1 + 4 * b2 + 8 * b3 + 16 * b4 + 32 * b5 + 64 * b6
      BY SMT
    <2>2. PICK high \in Nat : high = 0
      BY SMT
    <2>3. low < 128 /\ n = low + 128 * (b7 + 2 * high)
      BY <1>2, <2>1, <2>2, SMT
    <2> QED  BY <2>3, Zenon DEF BitIs
  <1>11. n \in 0 .. 255
    BY <1>2, SMT
  <1> QED  BY <1>1, <1>3, <1>4, <1>5, <1>6, <1>7, <1>8, <1>9, <1>10, <1>11, Zenon

Weights == <<1, 2, 4, 8, 16, 32, 64, 128>>

LEMMA WeightIs ==
  ASSUME NEW i \in 0 .. 7
  PROVE  Weighs(i, Weights[i + 1])
  <1>1. CASE i = 0  BY <1>1 DEF Weights, Weighs
  <1>2. CASE i = 1  BY <1>2 DEF Weights, Weighs
  <1>3. CASE i = 2  BY <1>3 DEF Weights, Weighs
  <1>4. CASE i = 3  BY <1>4 DEF Weights, Weighs
  <1>5. CASE i = 4  BY <1>5 DEF Weights, Weighs
  <1>6. CASE i = 5  BY <1>6 DEF Weights, Weighs
  <1>7. CASE i = 6  BY <1>7 DEF Weights, Weighs
  <1>8. CASE i = 7  BY <1>8 DEF Weights, Weighs
  <1> QED  BY <1>1, <1>2, <1>3, <1>4, <1>5, <1>6, <1>7, <1>8

LEMMA ModByteIs ==
  ASSUME NEW mods \in SUBSET (0 .. 7)
  PROVE  /\ ModByte(mods) \in Byte
         /\ \A i \in 0 .. 7 : BitIs(ModByte(mods), Weights[i + 1], IF i \in mods THEN 1 ELSE 0)
  <1> DEFINE b == [i \in 0 .. 7 |-> IF i \in mods THEN 1 ELSE 0]
             t == [i \in 0 .. 7 |-> IF i \in mods THEN 2^i ELSE 0]
             n == ModByte(mods)
  <1>1. n = t[0] + t[1] + t[2] + t[3] + t[4] + t[5] + t[6] + t[7]
    BY SMT DEF ModByte
  <1>2. /\ t[0] = b[0] /\ t[1] = 2 * b[1] /\ t[2] = 4 * b[2] /\ t[3] = 8 * b[3]
        /\ t[4] = 16 * b[4] /\ t[5] = 32 * b[5] /\ t[6] = 64 * b[6] /\ t[7] = 128 * b[7]
    BY SMT
  <1>3. b \in [0 .. 7 -> {0, 1}] /\ \A i \in 0 .. 7 : b[i] = IF i \in mods THEN 1 ELSE 0
    BY SMT
  <1> HIDE DEF b, t, n
  <1>4. n = b[0] + 2 * b[1] + 4 * b[2] + 8 * b[3] + 16 * b[4] + 32 * b[5] + 64 * b[6] + 128 * b[7]
    BY <1>1, <1>2
  <1>5. /\ n \in 0 .. 255
        /\ BitIs(n, 1, b[0]) /\ BitIs(n, 2, b[1]) /\ BitIs(n, 4, b[2]) /\ BitIs(n, 8, b[3])
        /\ BitIs(n, 16, b[4]) /\ BitIs(n, 32, b[5]) /\ BitIs(n, 64, b[6]) /\ BitIs(n, 128, b[7])
    BY <1>3, <1>4, EightBits
  <1>6. ASSUME NEW i \in 0 .. 7 PROVE BitIs(n, Weights[i + 1], b[i])
    <2>1. i = 0 \/ i = 1 \/ i = 2 \/ i = 3 \/ i = 4 \/ i = 5 \/ i = 6 \/ i = 7
      BY SMT
    <2> QED  BY <1>5, <2>1 DEF Weights
  <1>7. n \in Byte
    BY <1>5 DEF Byte
  <1> QED  BY <1>3, <1>6, <1>7 DEF n

LEMMA ReportBytes ==
  ASSUME Slots = 6, NEW mods \in SUBSET (0 .. 7), NEW keys \in [Keys -> Byte]
  PROVE  LET r == KeyboardBytes(mods, keys)
         IN  /\ r \in Seq(Byte) /\ Len(r) = 8 /\ r[1] = ModByte(mods)
             /\ \A i \in 0 .. 5 : r[i + 3] = keys[i + 1]
  <1>1. ModByte(mods) \in Byte
    BY ModByteIs
  <1>2. /\ <<ModByte(mods), 0>> \in Seq(Byte) /\ Len(<<ModByte(mods), 0>>) = 2
        /\ <<ModByte(mods), 0>>[1] = ModByte(mods)
    BY <1>1, KindIs
  <1>3. keys \in Seq(Byte) /\ Len(keys) = 6
    <2>1. keys \in [1 .. 6 -> Byte]
      BY DEF Keys
    <2> QED  BY <2>1
  <1> QED  BY <1>2, <1>3, HeadAndKeys, Zenon DEF KeyboardBytes

LEMMA ModifierBits ==
  ASSUME Slots = 6, NEW mods \in SUBSET (0 .. 7), NEW keys \in [Keys -> Byte], NEW i \in 0 .. 7
  PROVE  BitsAt(KeyboardBytes(mods, keys), i, 1) = IF i \in mods THEN 1 ELSE 0
  <1> DEFINE r == KeyboardBytes(mods, keys)
             bit == IF i \in mods THEN 1 ELSE 0
             w == Weights[i + 1]
  <1>1. Weighs(i, w)
    BY WeightIs
  <1>2. r \in Seq(Byte) /\ Len(r) = 8 /\ r[1] = ModByte(mods)
    BY ReportBytes, Zenon
  <1>3. BitIs(ModByte(mods), w, bit)
    BY ModByteIs, Zenon
  <1> HIDE DEF r, bit, w
  <1>4. 0 < Len(r) /\ BitIs(r[1], w, bit)
    BY <1>2, <1>3
  <1>5. BitsAt(r, i, 1) = bit
    BY <1>1, <1>2, <1>4, OneBit
  <1> QED  BY <1>5 DEF r, bit

\* The three fields of the keyboard's report.
LEMMA ReadModifiers ==
  ASSUME Slots = 6, NEW mods \in SUBSET (0 .. 7), NEW keys \in [Keys -> Byte]
  PROVE  ReadField(InputField(0, 0, 1, 8, 7, ABSOLUTE, 0, 1, From(\hE0, 8)),
                   KeyboardBytes(mods, keys))
           = {<<7, \hE0 + i, 1>> : i \in mods}
  <1> DEFINE r == KeyboardBytes(mods, keys)
             v == [i \in 0 .. 7 |-> IF i \in mods THEN 1 ELSE 0]
             u == From(\hE0, 8)
  <1>1. Len(r) = 8
    BY ReportBytes, Zenon
  <1>2. \A i \in 0 .. 7 : BitsAt(r, i, 1) = v[i]
    BY ModifierBits
  <1>3. \A i \in 0 .. 7 : (v[i] \in 0 .. 1 /\ v[i] # 0 <=> i \in mods) /\ (i \in mods => v[i] = 1)
    BY SMT
  <1>0. v \in [0 .. 7 -> 0 .. 1]
    OBVIOUS
  <1>4. \A i \in 0 .. 7 : u[i] = \hE0 + i
    BY DEF From
  <1> HIDE DEF r, v, u
  <1>5. Numbers(r, 0, 1, 8, v)
    BY <1>2 DEF Numbers
  <1>6. ABSOLUTE \notin {CONSTANT_FIELD, ARRAY}
    BY DEF ABSOLUTE, CONSTANT_FIELD, ARRAY
  <1>7. Legible(r, 0, 1, 8, 0)
    BY <1>1 DEF Legible
  <1>8. ReadField(InputField(0, 0, 1, 8, 7, ABSOLUTE, 0, 1, u), r)
          = {<<7, u[i], v[i]>> : i \in {j \in 0 .. 8 - 1 : v[j] \in 0 .. 1 /\ v[j] # 0}}
    BY <1>5, <1>6, <1>7, ReadValues
  <1>9. {j \in 0 .. 8 - 1 : v[j] \in 0 .. 1 /\ v[j] # 0} = mods
    <2> DEFINE On(j) == v[j] \in 0 .. 1 /\ v[j] # 0
    <2>1. \A j \in 0 .. 7 : On(j) <=> j \in mods
      BY <1>3, Zenon
    <2>2. mods \subseteq 0 .. 7
      OBVIOUS
    <2>3. 0 .. 8 - 1 = 0 .. 7
      BY SMT
    <2> HIDE DEF On
    <2>4. {j \in 0 .. 8 - 1 : On(j)} = mods
      BY <2>1, <2>2, <2>3, Zenon
    <2> QED  BY <2>4, Zenon DEF On
  <1>10. {<<7, u[i], v[i]>> : i \in mods} = {<<7, \hE0 + i, 1>> : i \in mods}
    BY <1>3, <1>4
  <1> QED  BY <1>8, <1>9, <1>10 DEF r, u

LEMMA ReadKeys ==
  ASSUME Slots = 6, NEW mods \in SUBSET (0 .. 7), NEW keys \in [Keys -> Byte]
  PROVE  ReadField(InputField(0, 16, 8, 6, 7, ARRAY, 0, 255, From(0, 6)),
                   KeyboardBytes(mods, keys))
           = {<<7, c, 1>> : c \in {keys[i] : i \in Keys} \ {0}}
  <1> DEFINE r == KeyboardBytes(mods, keys)
             v == [i \in 0 .. 5 |-> keys[i + 1]]
             u == From(0, 6)
  <1>1. r \in Seq(Byte) /\ Len(r) = 8 /\ \A i \in 0 .. 5 : r[i + 3] = keys[i + 1]
    BY ReportBytes, Zenon
  <1>2. \A i \in 0 .. 5 : v[i] = keys[i + 1]
    BY Zenon
  <1>3. \A i \in 0 .. 5 : v[i] \in 0 .. 255
    <2>1. \A i \in 0 .. 5 : i + 1 \in Keys
      BY DEF Keys
    <2>2. \A j \in Keys : keys[j] \in Byte
      OBVIOUS
    <2> QED  BY <1>2, <2>1, <2>2 DEF Byte
  <1>0. v \in [0 .. 5 -> 0 .. 255]
    BY <1>3
  <1>4. u[0] = 0
    BY DEF From
  <1> HIDE DEF r, v, u
  <1>5. Numbers(r, 16, 8, 6, v)
    <2> SUFFICES ASSUME NEW i \in 0 .. 5 PROVE BitsAt(r, 16 + i * 8, 8) = v[i]
      BY DEF Numbers
    <2>1. i + 2 \in Nat /\ i + 2 < Len(r) /\ 8 * (i + 2) = 16 + i * 8 /\ (i + 2) + 1 = i + 3
      BY <1>1, SMT
    <2>2. BitsAt(r, 8 * (i + 2), 8) = r[(i + 2) + 1]
      BY <1>1, <2>1, WholeByte
    <2> QED  BY <1>1, <1>2, <2>1, <2>2
  <1>6. Legible(r, 16, 8, 6, 0)
    BY <1>1 DEF Legible
  <1>7. Named(u, 0, v, 6, v)
    <2>1. \A i \in 0 .. 5 : v[i] = u[0] + v[i] - 0
      BY <1>0, <1>4
    <2> QED  BY <2>1 DEF Named
  <1>8. ReadField(InputField(0, 16, 8, 6, 7, ARRAY, 0, 255, u), r)
          = {<<7, v[i], 1>> : i \in {j \in 0 .. 6 - 1 : v[j] \in 0 .. 255 /\ v[j] # 0}}
    BY <1>5, <1>6, <1>7, ReadArray
  <1>9. {j \in 0 .. 6 - 1 : v[j] \in 0 .. 255 /\ v[j] # 0} = {j \in 0 .. 5 : v[j] # 0}
    BY <1>0
  <1>10. ReadField(InputField(0, 16, 8, 6, 7, ARRAY, 0, 255, u), r)
           = {<<7, v[i], 1>> : i \in {j \in 0 .. 5 : v[j] # 0}}
    BY <1>8, <1>9
  <1>11. {v[i] : i \in {j \in 0 .. 5 : v[j] # 0}} = {keys[i] : i \in Keys} \ {0}
    <2>1. \A i \in Keys : i - 1 \in 0 .. 5 /\ (i - 1) + 1 = i
      BY DEF Keys
    <2>2. \A i \in 0 .. 5 : i + 1 \in Keys
      BY DEF Keys
    <2> QED  BY <1>2, <2>1, <2>2
  <1>12. {<<7, v[i], 1>> : i \in {j \in 0 .. 5 : v[j] # 0}}
           = {<<7, c, 1>> : c \in {v[i] : i \in {j \in 0 .. 5 : v[j] # 0}}}
    BY Zenon
  <1> QED  BY <1>10, <1>11, <1>12 DEF r, u

\* What the host reads in the keyboard's report: its modifiers and its keys.
LEMMA ReadKeyboard ==
  ASSUME Slots = 6, NEW mods \in SUBSET (0 .. 7), NEW keys \in [Keys -> Byte]
  PROVE  ReadReport(KeyboardFields, KeyboardBytes(mods, keys))
           = {<<7, \hE0 + i, 1>> : i \in mods}
             \cup {<<7, c, 1>> : c \in {keys[i] : i \in Keys} \ {0}}
  <1> DEFINE f == InputField(0, 0, 1, 8, 7, ABSOLUTE, 0, 1, From(\hE0, 8))
             g == InputField(0, 8, 8, 1, 7, CONSTANT_FIELD, 0, 1, Unused)
             h == InputField(0, 16, 8, 6, 7, ARRAY, 0, 255, From(0, 6))
             r == KeyboardBytes(mods, keys)
  <1>1. KeyboardFields = {f, g, h}
    BY DescriptorsAssumption
  <1>2. f.id = 0 /\ g.id = 0 /\ h.id = 0 /\ g.flags = CONSTANT_FIELD
    BY DEF InputField
  <1>3. ReadField(g, r) = {}
    <2> HIDE DEF g, r
    <2> QED  BY <1>2, Zenon DEF ReadField
  <1>4. /\ ReadField(f, r) = {<<7, \hE0 + i, 1>> : i \in mods}
        /\ ReadField(h, r) = {<<7, c, 1>> : c \in {keys[i] : i \in Keys} \ {0}}
    BY ReadModifiers, ReadKeys
  <1> HIDE DEF f, g, h, r
  <1>5. ReadReport(KeyboardFields, r) = UNION {ReadField(e, r) : e \in {f, g, h}}
    BY <1>1, <1>2 DEF ReadReport
  <1>6. UNION {ReadField(e, r) : e \in {f, g, h}} = ReadField(f, r) \cup ReadField(g, r) \cup ReadField(h, r)
    BY Zenon
  <1>7. ReadReport(KeyboardFields, r) = ReadField(f, r) \cup ReadField(h, r)
    BY <1>3, <1>5, <1>6
  <1> QED  BY <1>4, <1>7 DEF r

\* The system report: one number of sixteen bits, a control counted from 1 on.
LEMMA ReadSystemField ==
  ASSUME NEW n \in Byte, n \in 0 .. \hB7
  PROVE  ReadField(InputField(2, 0, 16, 1, 1, ARRAY, 1, \hB7, From(1, 1)), <<n, 0>>)
           = {<<1, u, 1>> : u \in {n} \ {0}}
  <1> DEFINE b == <<n, 0>>
             v == [i \in {0} |-> n]
             u == From(1, 1)
  <1>1. Len(b) = 2 /\ DOMAIN b = {1, 2} /\ b[1] = n /\ b[2] = 0
    BY SMT
  <1>2. v[0] = n /\ u[0] = 1
    BY DEF From
  <1>3. 0 .. 1 - 1 = {0}
    BY SMT
  <1> HIDE DEF b, v, u
  <1>4. BitsAt(b, 0, 16) = n
    <2>1. (0 \div 8) + 1 = 1 /\ 1 + 1 = 2 /\ 1 + 2 = 3
      BY SMT
    <2>2. BitsAt(b, 0, 16) = ((n + 256 * (0 + 256 * 0)) \div 2^(0 % 8)) % 2^16
      BY <1>1, <2>1 DEF BitsAt
    <2>3. 2^(0 % 8) = 1 /\ 2^16 = 65536
      BY SMT
    <2> QED  BY <2>2, <2>3, SMT DEF Byte
  <1>5. Numbers(b, 0, 16, 1, v)
    <2> SUFFICES ASSUME NEW i \in {0} PROVE BitsAt(b, 0 + i * 16, 16) = v[i]
      BY <1>3 DEF Numbers
    <2>1. i = 0 /\ 0 + i * 16 = 0
      BY SMT
    <2> QED  BY <1>2, <1>4, <2>1
  <1>6. Legible(b, 0, 16, 1, 1)
    BY <1>1 DEF Legible
  <1>7. Named(u, 1, v, 1, v)
    <2>1. v[0] = u[0] + v[0] - 1
      BY <1>2 DEF Byte
    <2> QED  BY <1>3, <2>1 DEF Named
  <1>8. ReadField(InputField(2, 0, 16, 1, 1, ARRAY, 1, \hB7, u), b)
          = {<<1, v[i], 1>> : i \in {j \in 0 .. 1 - 1 : v[j] \in 1 .. \hB7 /\ v[j] # 0}}
    <2> DEFINE count == 1
               min == 1
               S == {j \in 0 .. count - 1 : v[j] \in min .. \hB7 /\ v[j] # 0}
    <2>1. Numbers(b, 0, 16, count, v) /\ Legible(b, 0, 16, count, min) /\ Named(u, min, v, count, v)
      BY <1>5, <1>6, <1>7
    <2> HIDE DEF count, min
    <2>2. ReadField(InputField(2, 0, 16, count, 1, ARRAY, min, \hB7, u), b)
            = {<<1, v[i], 1>> : i \in S}
      BY <2>1, ReadArray
    <2> QED  BY <2>2 DEF count, min
  <1>9. n \in 1 .. \hB7 <=> n # 0
    BY SMT
  <1>10. {<<1, v[i], 1>> : i \in {j \in 0 .. 1 - 1 : v[j] \in 1 .. \hB7 /\ v[j] # 0}}
           = {<<1, w, 1>> : w \in {n} \ {0}}
    BY <1>2, <1>3, <1>9
  <1> QED  BY <1>8, <1>10 DEF b, u

LEMMA ReadSystem ==
  ASSUME NEW n \in SystemUsage
  PROVE  ReadReport(Endpoint3Fields, SystemBytes(n)) = {<<1, u, 1>> : u \in {n} \ {0}}
  <1> DEFINE f == InputField(2, 0, 16, 1, 1, ARRAY, 1, \hB7, From(1, 1))
             r == SystemBytes(n)
  <1>1. n \in Byte /\ n \in 0 .. \hB7 /\ n % 256 = n /\ n \div 256 = 0
    BY DEF SystemUsage, SYSTEM_POWER_DOWN, SYSTEM_SLEEP, Byte
  <1>2. r = <<2, n, 0>>
    BY <1>1 DEF SystemBytes, REPORT_ID_SYSTEM, ByteOf
  <1>3. r[1] = 2 /\ Tail(r) = <<n, 0>>
    BY <1>2
  <1>4. f \in Endpoint3Fields /\ f.id = 2
    BY DescriptorsAssumption DEF InputField
  <1>5. \A g \in Endpoint3Fields : g.id = 2 => g = f
    BY DescriptorsAssumption DEF InputField
  <1>6. ReadField(f, Tail(r)) = {<<1, u, 1>> : u \in {n} \ {0}}
    BY <1>1, <1>3, ReadSystemField
  <1> HIDE DEF f, r
  <1>7. {g \in Endpoint3Fields : g.id = r[1]} = {f}
    BY <1>3, <1>4, <1>5
  <1>8. \E g \in Endpoint3Fields : g.id # 0
    BY <1>4
  <1>9. ReadReport(Endpoint3Fields, r) = UNION {ReadField(g, Tail(r)) : g \in {f}}
    BY <1>7, <1>8, Zenon DEF ReadReport
  <1>10. UNION {ReadField(g, Tail(r)) : g \in {f}} = ReadField(f, Tail(r))
    BY Zenon
  <1> QED  BY <1>6, <1>9, <1>10 DEF r

\* The bit of a modifier is its place among the usages, and a complete report has
\* the modifiers and, but for lock keys, the keys of the matrix.
LEMMA ControlsAre ==
  ASSUME NEW codes, NEW mods, mods = ModsOf(codes), NEW keys, Clean(keys),
         \A i \in Keys : keys[i] \in codes \cup {0, KC_NUMLOCK},
         \A c \in KeysOf(codes) : \E i \in Keys : keys[i] = c
  PROVE  LET told == {\hE0 + i : i \in mods} \cup ({keys[i] : i \in Keys} \ {0})
             on == {d \in codes : KindOf(d) \in {"key", "mod"}}
         IN  told \ {KC_NUMLOCK} \subseteq on /\ on \ LockCodes \subseteq told
  <1> DEFINE held == {d \in codes : KindOf(d) = "mod"}
             slots == {keys[i] : i \in Keys} \ {0}
             on == {d \in codes : KindOf(d) \in {"key", "mod"}}
  <1>1. {\hE0 + i : i \in mods} = held
    <2>1. \A d : KindOf(d) = "mod" => d \in \hE0 .. \hE7
      BY DEF KindOf
    <2>2. \A d \in \hE0 .. \hE7 : \hE0 + (d % 8) = d
      BY SMT
    <2>3. \A d \in held : \hE0 + MOD_INDEX(d) = d
      BY <2>1, <2>2, SMT DEF MOD_INDEX
    <2>4. mods = {MOD_INDEX(d) : d \in held}
      BY DEF ModsOf
    <2> HIDE DEF held
    <2> QED  BY <2>3, <2>4
  <1>2. slots \ {KC_NUMLOCK} \subseteq on
    BY DEF Clean
  <1>3. KeysOf(codes) \subseteq slots
    <2>1. \A c \in KeysOf(codes) : c # 0 /\ \E i \in Keys : keys[i] = c
      BY KindIs DEF KeysOf
    <2> QED  BY <2>1
  <1>4. held \subseteq on /\ on \ LockCodes \subseteq held \cup KeysOf(codes)
    BY DEF KeysOf
  <1> HIDE DEF held, slots, on
  <1>5. (held \cup slots) \ {KC_NUMLOCK} \subseteq on /\ on \ LockCodes \subseteq held \cup slots
    BY <1>2, <1>3, <1>4
  <1> QED  BY <1>1, <1>5 DEF slots, on

\* A host that reads the reports by the descriptors sees modifiers and keys of the
\* matrix in the keyboard's report, all of them but for lock keys, whichever of these
\* its LEDs take out, and the control that was sent in the system report: for every
\* set of keys and every queue, with the six slots the descriptor declares.
THEOREM HostReadsCorrect ==
  ASSUME Slots = 6
  PROVE  Spec => []HostReads
  <1>1. IInv => HostReads
    <2> SUFFICES ASSUME IInv PROVE HostReads  OBVIOUS
    <2>1. kb \in KeyboardState /\ Agrees(kb)
      BY DEF IInv, TypeOK
    <2> DEFINE read == ReadReport(KeyboardFields, KeyboardBytes(kb.mods, kb.keys))
               on == {d \in CodesAt(kb.matrix) : KindOf(d) \in {"key", "mod"}}
    <2>2. ASSUME ~kb.cleared, ~kb.crowded
          PROVE  /\ read \ KeyUsages({KC_NUMLOCK}) \subseteq KeyUsages(on)
                 /\ KeyUsages(on \ LockCodes) \subseteq read
      <3> DEFINE codes == CodesAt(kb.matrix)
                 mods == {\hE0 + i : i \in kb.mods}
                 keys == {kb.keys[i] : i \in Keys} \ {0}
      <3>1. kb.mods \in SUBSET (0 .. 7) /\ kb.keys \in [Keys -> Byte]
        BY <2>1 DEF KeyboardState
      <3>2. read = {<<7, \hE0 + i, 1>> : i \in kb.mods} \cup {<<7, c, 1>> : c \in keys}
        BY <3>1, ReadKeyboard
      <3>3. {<<7, \hE0 + i, 1>> : i \in kb.mods} = {<<7, c, 1>> : c \in mods}
        BY Zenon
      <3>4. (mods \cup keys) \ {KC_NUMLOCK} \subseteq on /\ on \ LockCodes \subseteq mods \cup keys
        <4>1. Clean(kb.keys) /\ kb.mods = ModsOf(codes)
          BY <2>1, <2>2 DEF Agrees, Backed
        <4>2. \A i \in Keys : kb.keys[i] \in codes \cup {0, KC_NUMLOCK}
          BY <2>1, <2>2 DEF Agrees, Backed
        <4>3. \A c \in KeysOf(codes) : \E i \in Keys : kb.keys[i] = c
          BY <2>1, <2>2 DEF Agrees, Backed, Complete
        <4> QED  BY <4>1, <4>2, <4>3, ControlsAre
      <3> HIDE DEF codes, mods, keys, on, read
      <3>5. read = KeyUsages(mods \cup keys)
        BY <3>2, <3>3 DEF KeyUsages
      <3> QED  BY <3>4, <3>5 DEF KeyUsages
    <2>3. ASSUME kb.tx3 # <<>>
          PROVE  ReadReport(Endpoint3Fields, SystemBytes(kb.tx3[1]))
                   = {<<1, u, 1>> : u \in {kb.tx3[1]} \ {0}}
      <3>1. kb.tx3[1] \in SystemUsage
        BY <2>1, <2>3 DEF KeyboardState
      <3> QED  BY <3>1, ReadSystem
    <2> QED  BY <2>2, <2>3 DEF HostReads
  <1> QED  BY <1>1, Invariance, PTL
=============================================================================
