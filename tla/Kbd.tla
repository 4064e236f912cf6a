-------------------------------- MODULE Kbd --------------------------------
(***************************************************************************)
(* The keyboard of the console driver (drivers/tty/kbd.c): scan codes to   *)
(* characters.  The controller is external: kbd_getchar may read any code  *)
(* of Codes at any time, so that repeated keys and codes that the          *)
(* controller lost, a release for instance, are included.                  *)
(*                                                                         *)
(* Characters are bytes, and -1 is no character.  Of the keys that are     *)
(* alike one stands for all: F1 for the keys without a character, which    *)
(* the tables give a space.                                                *)
(***************************************************************************)
EXTENDS Integers

CONSTANT Codes            \* scan codes; a release is the code of the key + 128

VARIABLE mods             \* kbd_state_t: which modifier keys are held

BS == 8
LF == 10
CR == 13
LEFT == 131
RIGHT == 132

ModifierOf ==
    [k \in {29, 42, 54, 58, 90} |->
        CASE k = 29 -> "lctrl" [] k = 90 -> "rctrl"
          [] k = 42 -> "lshift" [] k = 54 -> "rshift"
          [] k = 58 -> "capslock"]

Arrows ==
    [k \in {72, 75, 77, 80} |->
        CASE k = 72 -> 134 [] k = 80 -> 133 [] k = 75 -> LEFT [] k = 77 -> RIGHT]

(* keymap_base and keymap_shift: backspace, Enter, f, h, b and F1.         *)
Keymap ==
    [k \in {14, 28, 33, 35, 48, 59} |->
        CASE k = 14 -> <<BS, BS>> [] k = 28 -> <<CR, CR>>
          [] k = 33 -> <<102, 70>> [] k = 35 -> <<104, 72>> [] k = 48 -> <<98, 66>>
          [] k = 59 -> <<32, 32>>]

(* The prefix 0xe0 reads as the release of a key that does not exist.      *)
Keys == DOMAIN ModifierOf \cup DOMAIN Arrows \cup DOMAIN Keymap

ASSUME KbdAssumption == \A c \in Codes : c \in Keys \cup {k + 128 : k \in Keys} \cup {224}

(* kbd_init.                                                               *)
KbdInit == mods = [m \in {"lctrl", "rctrl", "lshift", "rshift", "capslock"} |-> FALSE]

Shifted == mods.lshift \/ mods.rshift
Control == mods.lctrl \/ mods.rctrl

(* _parse_scan_code: the modifier keys and the character.                  *)
Held(c) ==
    IF c % 128 \in DOMAIN ModifierOf
    THEN [mods EXCEPT ![ModifierOf[c % 128]] = c < 128]
    ELSE mods

Character(c) ==
    IF c >= 128 \/ c \in DOMAIN ModifierOf THEN -1
    ELSE IF c \in DOMAIN Arrows THEN Arrows[c]
    ELSE Keymap[c][IF Shifted THEN 2 ELSE 1]

(* What a character is with a control key held.                            *)
Commands ==
    [a \in {66, 70, 72, 98, 102, 104} |->
        CASE a \in {72, 104} -> BS [] a \in {66, 98} -> LEFT [] a \in {70, 102} -> RIGHT]

Commanded(a) == IF Control /\ a \in DOMAIN Commands THEN Commands[a] ELSE a

(* kbd_getchar when the controller has the scan code c: what it returns.   *)
GetChar(c) == IF Commanded(Character(c)) = CR THEN LF ELSE Commanded(Character(c))
=============================================================================
