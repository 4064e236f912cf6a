-------------------------------- MODULE Tty --------------------------------
(***************************************************************************)
(* The console driver (drivers/tty): the line under edit (tty.c) and the   *)
(* text screen (console.c), fed by the keyboard (Kbd).  A step is one      *)
(* round of a loop of console_proc: a scan code from the keyboard          *)
(* (kbd_getchar), echoed if it is a character, or a character that a       *)
(* program wrote to the device (driver_getc).  The keyboard and the        *)
(* programs may be silent for any time, so the two loops and the sleep     *)
(* between rounds give every order of such steps.  Echo is on, as main.c   *)
(* sets it.  out is what driver_putc is called with; the result is ignored *)
(* and each call is taken to return.  What the device does with the bytes, *)
(* when it is full or its lock is held, is modelled in Devfs.              *)
(*                                                                         *)
(* Characters are bytes.  A cell of the screen is the word 256 * attr + ch *)
(* in video memory; a store beyond the memory that is mapped is a page     *)
(* fault, which stops the system.                                          *)
(***************************************************************************)
EXTENDS Kbd, Sequences

CONSTANTS OutChars,       \* what programs write, other than backspace and newline
          LineSize,       \* TTY_LINEBUFSIZE
          Width, Height,
          Slack,          \* cells mapped after the screen (48 of 2048)
          MaxEnd          \* bound: no newline when the text ends beyond this cell

ASSUME TtyAssumption ==
    /\ OutChars \subseteq 0 .. 255
    /\ LineSize \in Nat \ {0} /\ Width \in Nat \ {0} /\ Height \in Nat \ {0}
    /\ Slack \in Nat /\ MaxEnd \in Nat

VARIABLES cur, len, buf,  \* tty_line_buffer_t
          vram, eob, lmark,  \* the video memory; screen_t
          out,            \* what the last step handed to driver_putc
          status          \* "ok" or "fault"

line == <<cur, len, buf>>
screen == <<vram, eob, lmark>>
vars == <<mods, cur, len, buf, vram, eob, lmark, out, status>>

Cells == 0 .. Width * Height + Slack - 1

Blank == [attr |-> 15, ch |-> 32]   \* 0x0f20
Null == [attr |-> 0, ch |-> 0]      \* memset with 0x00

(* 0x0f00 | c with c a char, which is sign-extended.                       *)
Echoed(c) == [attr |-> IF c < 128 THEN 15 ELSE 255, ch |-> c]
(* 0x0f | c; a tab is a space.                                             *)
Printed(c) == LET p == IF c = 9 THEN 32 ELSE c IN [attr |-> 0, ch |-> p - (p % 16) + 15]

(* tty_line_buffer_init, console_init.                                     *)
Init ==
    /\ KbdInit
    /\ cur = 0 /\ len = 0 /\ buf = [i \in 0 .. LineSize - 1 |-> 0]
    /\ vram = [i \in Cells |-> IF i < Width * Height THEN Blank ELSE Null]
    /\ eob = 0 /\ lmark = 0
    /\ out = << >>
    /\ status = "ok"

-----------------------------------------------------------------------------
(* n characters of the array f from position a on, as a sequence.          *)
Text(f, a, n) == [i \in 1 .. n |-> f[a + i - 1]]

(* memmove within buf: n characters from position from to position to.     *)
Moved(to, from, n) ==
    [i \in DOMAIN buf |-> IF i \in to .. to + n - 1 THEN buf[from + i - to] ELSE buf[i]]

(* _insert_char, _backspace, _move_left and _move_right: the new line      *)
(* buffer, as [cur, len, buf].                                             *)
Same == [cur |-> cur, len |-> len, buf |-> buf]

InsertBehind(c) ==
    IF len >= LineSize \/ len < cur THEN Same
    ELSE [cur |-> cur, len |-> len + 1,
          buf |-> [Moved(cur + 1, cur, len - cur) EXCEPT ![cur] = c]]
InsertChar(c) ==
    IF len >= LineSize \/ len < cur THEN Same
    ELSE [cur |-> cur + 1, len |-> len + 1,
          buf |-> [Moved(cur + 1, cur, len - cur) EXCEPT ![cur] = c]]

Backspace ==
    IF len < cur \/ cur = 0 THEN Same
    ELSE [cur |-> cur - 1, len |-> len - 1, buf |-> Moved(cur - 1, cur, len - cur)]

MoveLeft == IF len < cur \/ cur = 0 THEN Same ELSE [Same EXCEPT !.cur = cur - 1]

MoveRight == IF len < cur \/ len = cur THEN Same ELSE [Same EXCEPT !.cur = cur + 1]

(* _update_line_buffer for the line buffer b: the cells of the old line    *)
(* are cleared, then the line is written.                                  *)
WrittenCells(b) == lmark .. lmark + (IF eob - lmark > b.len THEN eob - lmark ELSE b.len) - 1

Echo(b) ==
    [i \in Cells |-> IF i \in lmark .. lmark + b.len - 1 THEN Echoed(b.buf[i - lmark])
                     ELSE IF i \in WrittenCells(b) THEN Blank
                     ELSE vram[i]]

Fault == status' = "fault" /\ out' = << >> /\ UNCHANGED <<line, screen>>

(* A key that edits the line, and its echo.                                *)
Edit(b) ==
    /\ status = "ok"
    /\ \/ /\ WrittenCells(b) \subseteq Cells
          /\ cur' = b.cur /\ len' = b.len /\ buf' = b.buf
          /\ vram' = Echo(b) /\ eob' = lmark + b.len /\ out' = << >>
          /\ UNCHANGED <<lmark, status>>
       \/ ~(WrittenCells(b) \subseteq Cells) /\ Fault

(* _putc of '\n' when the screen is v and ends at e: on the last line the  *)
(* screen scrolls.                                                         *)
OnLastLine(e) == e \div Width + 1 = Height

Scrolled(v) ==
    [i \in Cells |-> IF i < Width * (Height - 1) THEN v[i + Width]
                     ELSE IF i < Width * Height THEN Null
                     ELSE v[i]]

NewLine(v, e) ==
    /\ e <= MaxEnd
    /\ vram' = IF OnLastLine(e) THEN Scrolled(v) ELSE v
    /\ eob' = IF OnLastLine(e) THEN e - (e % Width) ELSE e + Width - (e % Width)
    /\ lmark' = eob'

(* Enter: the cursor goes to the head, the line is echoed and ended, and   *)
(* its characters and a newline are handed to the device.                  *)
Submitted == Append(Text(buf, 0, len), LF)

Enter ==
    /\ status = "ok"
    /\ \/ /\ WrittenCells(Same) \subseteq Cells
          /\ NewLine(Echo(Same), lmark + len)
          /\ out' = Submitted
          /\ cur' = 0 /\ len' = 0
          /\ UNCHANGED <<buf, status>>
       \/ ~(WrittenCells(Same) \subseteq Cells) /\ Fault

(* A character of a program: _putc of a newline, ...                       *)
OutputNewLine ==
    /\ status = "ok"
    /\ NewLine(vram, eob)
    /\ out' = << >>
    /\ UNCHANGED <<mods, line, status>>

(* ... of a backspace, ...                                                 *)
OutputBackspace ==
    /\ status = "ok"
    /\ \/ /\ eob - 1 \in Cells \/ eob = 0
          /\ eob' = IF eob > 0 THEN eob - 1 ELSE eob
          /\ vram' = IF eob > 0 THEN [vram EXCEPT ![eob - 1] = Blank] ELSE vram
          /\ lmark' = eob' /\ out' = << >>
          /\ UNCHANGED <<line, status>>
       \/ eob > 0 /\ eob - 1 \notin Cells /\ Fault
    /\ UNCHANGED mods

(* ... and of another character.                                           *)
OutputKeepingMark(c) ==
    /\ status = "ok"
    /\ \/ /\ eob \in Cells
          /\ vram' = [vram EXCEPT ![eob] = Printed(c)]
          /\ eob' = eob + 1 /\ out' = << >>
          /\ UNCHANGED <<line, lmark, status>>
       \/ eob \notin Cells /\ Fault
    /\ UNCHANGED mods
Output(c) ==
    /\ status = "ok"
    /\ \/ /\ eob \in Cells
          /\ vram' = [vram EXCEPT ![eob] = Printed(c)]
          /\ eob' = eob + 1 /\ lmark' = eob' /\ out' = << >>
          /\ UNCHANGED <<line, status>>
       \/ eob \notin Cells /\ Fault
    /\ UNCHANGED mods

(* A scan code that is no character, and tty_line_buffer_putc of one.      *)
NoKey == status = "ok" /\ out' = << >> /\ UNCHANGED <<line, screen, status>>

Put(c) ==
    \/ c = -1 /\ NoKey
    \/ c = BS /\ Edit(Backspace)
    \/ c = LF /\ Enter
    \/ c = LEFT /\ Edit(MoveLeft)
    \/ c = RIGHT /\ Edit(MoveRight)
    \/ c \notin {-1, BS, LF, LEFT, RIGHT} /\ Edit(InsertChar(c))

Key(c) == mods' = Held(c) /\ Put(GetChar(c))

Next == (\E c \in Codes : Key(c)) \/ OutputNewLine \/ OutputBackspace \/ \E c \in OutChars : Output(c)

Spec == Init /\ [][Next]_vars

-----------------------------------------------------------------------------
(* The keys that type a character: the arrows up and down do, too.  With a *)
(* control key held, b, f and h are commands.                              *)
Letters == {Keymap[k] : k \in DOMAIN Keymap} \cup {<<a, a>> : a \in {133, 134}}
CommandKeys == {<<98, 66>>, <<102, 70>>, <<104, 72>>}

Editor ==
    INSTANCE LineEditor WITH
        Cap <- LineSize,
        Newline <- LF,
        down <- {m \in DOMAIN mods : mods[m]},
        left <- Text(buf, 0, cur),
        right <- Text(buf, cur, len - cur)

(* The keyboard, the buffer, its length and its cursor implement a line    *)
(* editor: inserts, deletes and moves in any order keep every other        *)
(* character and its place, a character is the shifted one exactly while a *)
(* shift key is held, whichever of the two was released, and Enter         *)
(* hands over the whole line and its newline (_parse_scan_code,            *)
(* kbd_getchar, tty_line_buffer_putc and console_proc).                    *)
EditsLine == Editor!Spec

(* Whenever a line is shown, it is the line in the buffer, whole, and ends *)
(* where the text ends, and nothing is left on the screen after that,      *)
(* whatever was deleted, printed or scrolled in between                    *)
(* (_update_line_buffer, and the marks of _putc).                          *)
EchoShown ==
    /\ eob # lmark =>
          /\ eob = lmark + len
          /\ \A i \in 0 .. len - 1 : vram[lmark + i] = Echoed(buf[i])
    /\ \A i \in Cells : i >= eob => vram[i].ch \in {0, 32}
=============================================================================
