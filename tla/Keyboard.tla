------------------------------ MODULE Keyboard -----------------------------
(***************************************************************************)
(* The keyboard interrupt handler of devices/kbd.c: scan codes, the state  *)
(* of the shift keys, and the characters that go to the input buffer.      *)
(* Characters are ASCII codes.                                             *)
(***************************************************************************)
EXTENDS Integers, Sequences, FiniteSets

CONSTANTS
  Key,        \* scan codes of the keys that are pressed and released
  INPUT_SIZE  \* the room in the input buffer

ASSUME KeyboardConstants == Key \subseteq Nat /\ INPUT_SIZE \in Nat

VARIABLES
  shift_key,  \* the handler's left_shift, right_shift, left_alt, ... that are set
  caps_lock, key_cnt,
  typed,      \* the input buffer; each character with the key, and the keys held then
  held        \* the keys that are down

kbdVars == <<shift_key, caps_lock, key_cnt, typed, held>>

Prefixed(code) == 224 * 256 + code
LeftShift == 42
RightShift == 54
LeftAlt == 56
RightAlt == Prefixed(56)
LeftCtrl == 29
RightCtrl == Prefixed(29)
ShiftKeys == {LeftShift, RightShift, LeftAlt, RightAlt, LeftCtrl, RightCtrl}
CapsLock == 58
DEL == 127

(* The key maps: each entry is a first scan code and its characters.       *)
invariant_keymap ==
  {<<1, <<27>>>>, <<14, <<8>>>>, <<15, <<9, 81, 87, 69, 82, 84, 89, 85, 73, 79, 80>>>>,
   <<28, <<13>>>>, <<30, <<65, 83, 68, 70, 71, 72, 74, 75, 76>>>>,
   <<44, <<90, 88, 67, 86, 66, 78, 77>>>>, <<55, <<42>>>>, <<57, <<32>>>>, <<83, <<DEL>>>>}
unshifted_keymap ==
  {<<2, <<49, 50, 51, 52, 53, 54, 55, 56, 57, 48, 45, 61>>>>, <<26, <<91, 93>>>>,
   <<39, <<59, 39, 96>>>>, <<43, <<92>>>>, <<51, <<44, 46, 47>>>>}
shifted_keymap ==
  {<<2, <<33, 64, 35, 36, 37, 94, 38, 42, 40, 41, 95, 43>>>>, <<26, <<123, 125>>>>,
   <<39, <<58, 34, 126>>>>, <<43, <<124>>>>, <<51, <<60, 62, 63>>>>}

(* map_key: the characters of the entries that hold the scan code.         *)
map_key(k, code) == {e[2][code - e[1] + 1] : e \in {x \in k : code \in x[1]..(x[1] + Len(x[2]) - 1)}}

tolower(c) == IF c \in 65..90 THEN c + 32 ELSE c

(* The character of a key, with Ctrl before Shift and Caps Lock, and Alt   *)
(* as the high bit.                                                        *)
Cooked(c, shift, ctrl, alt) ==
  (IF ctrl /\ c \in 64..95 THEN c - 64 ELSE IF shift = caps_lock THEN tolower(c) ELSE c)
  + (IF alt THEN 128 ELSE 0)

(* keyboard_interrupt for the press or the release of a key.  Ctrl+Alt+Del *)
(* reboots, which no behaviour goes past.                                  *)
keyboard_interrupt(code, release) ==
  LET shift == shift_key \cap {LeftShift, RightShift} # {}
      alt == shift_key \cap {LeftAlt, RightAlt} # {}
      ctrl == shift_key \cap {LeftCtrl, RightCtrl} # {}
      c == map_key(invariant_keymap, code)
           \cup map_key(IF shift THEN shifted_keymap ELSE unshifted_keymap, code)
  IN CASE code = CapsLock ->
            /\ caps_lock' = (IF release THEN caps_lock ELSE ~caps_lock)
            /\ UNCHANGED <<shift_key, key_cnt, typed>>
       [] code # CapsLock /\ c # {} ->
            /\ ~release => ~(c = {DEL} /\ ctrl /\ alt)
            /\ IF release \/ Len(typed) = INPUT_SIZE THEN UNCHANGED <<key_cnt, typed>>
               ELSE /\ key_cnt' = key_cnt + 1
                    /\ typed' = Append(typed, [c |-> Cooked(CHOOSE x \in c : TRUE, shift, ctrl, alt),
                                            key |-> code, held |-> held, caps |-> caps_lock])
            /\ UNCHANGED <<shift_key, caps_lock>>
       [] OTHER ->
            /\ shift_key' = IF code \notin ShiftKeys THEN shift_key
                            ELSE IF release THEN shift_key \ {code} ELSE shift_key \cup {code}
            /\ UNCHANGED <<caps_lock, key_cnt, typed>>

Press(code) == code \notin held /\ held' = held \cup {code} /\ keyboard_interrupt(code, FALSE)
Release(code) == code \in held /\ held' = held \ {code} /\ keyboard_interrupt(code, TRUE)

KbdInit == shift_key = {} /\ caps_lock = FALSE /\ key_cnt = 0 /\ typed = <<>> /\ held = {}
KbdNext == \E code \in Key : Press(code) \/ Release(code)
KbdSpec == KbdInit /\ [][KbdNext]_kbdVars

-----------------------------------------------------------------------------
Letter == 65..90

(* The shift state is that of the keys that are down, however presses and  *)
(* releases of the left and the right key interleave; and a letter typed   *)
(* with Ctrl is its control character whatever the case, otherwise upper   *)
(* case when Shift and Caps Lock differ, with the high bit set under Alt.  *)
KeysFollowed ==
  /\ shift_key = held \cap ShiftKeys
  /\ key_cnt = Len(typed)
  /\ \A i \in 1..Len(typed) :
       LET e == typed[i]
           Down(K) == e.held \cap K # {}
       IN /\ (e.c >= 128) = Down({LeftAlt, RightAlt})
          /\ \A u \in map_key(invariant_keymap, e.key) \cap Letter :
               e.c % 128 = IF Down({LeftCtrl, RightCtrl}) THEN u - 64
                           ELSE IF Down({LeftShift, RightShift}) = e.caps THEN u + 32
                           ELSE u
=============================================================================
