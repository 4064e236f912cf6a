----------------------------- MODULE LineEditor -----------------------------
(***************************************************************************)
(* What the line of a terminal promises to the person at the keyboard: the *)
(* text to the left and to the right of a cursor, at most Cap characters;  *)
(* a key types the shifted character exactly while a shift key is held;    *)
(* with a control key held the command keys type nothing; and Enter        *)
(* delivers the whole line and its end wherever the cursor is.             *)
(***************************************************************************)
EXTENDS Naturals, Sequences

CONSTANTS Letters,      \* keys, as <<character, shifted character>>
          CommandKeys,  \* the letters that are commands with a control key
          Newline,      \* what ends a line
          Cap

VARIABLES left, right,  \* the text before and after the cursor
          down,         \* the modifier keys that are held
          out           \* the line delivered by the last step

vars == <<left, right, down, out>>

Init == left = << >> /\ right = << >> /\ down = {} /\ out = << >>

Shift == down \cap {"lshift", "rshift"} # {}
Control == down \cap {"lctrl", "rctrl"} # {}

Insert(k) ==
    /\ ~(Control /\ k \in CommandKeys)
    /\ Len(left) + Len(right) < Cap
    /\ left' = Append(left, IF Shift THEN k[2] ELSE k[1])
    /\ out' = << >>
    /\ UNCHANGED <<right, down>>

Backspace ==
    /\ left # << >>
    /\ left' = SubSeq(left, 1, Len(left) - 1)
    /\ out' = << >>
    /\ UNCHANGED <<right, down>>

MoveLeft ==
    /\ left # << >>
    /\ left' = SubSeq(left, 1, Len(left) - 1)
    /\ right' = <<left[Len(left)]>> \o right
    /\ out' = << >>
    /\ UNCHANGED down

MoveRight ==
    /\ right # << >>
    /\ left' = Append(left, Head(right))
    /\ right' = Tail(right)
    /\ out' = << >>
    /\ UNCHANGED down

Enter ==
    /\ left' = << >> /\ right' = << >>
    /\ out' = Append(left \o right, Newline)
    /\ UNCHANGED down

(* A modifier key goes down or up, or a step that is not about the line.   *)
Hold(m) == down' = down \cup {m} /\ out' = << >> /\ UNCHANGED <<left, right>>
Release(m) == down' = down \ {m} /\ out' = << >> /\ UNCHANGED <<left, right>>
Other == out' = << >> /\ UNCHANGED <<left, right, down>>

Next ==
    \/ \E k \in Letters : Insert(k)
    \/ Backspace \/ MoveLeft \/ MoveRight \/ Enter
    \/ \E m \in {"lctrl", "rctrl", "lshift", "rshift", "capslock"} : Hold(m) \/ Release(m)
    \/ Other

Spec == Init /\ [][Next]_vars
=============================================================================
