----------------------------- MODULE TtyProofs -----------------------------
(***************************************************************************)
(* Proofs, for every size of the line buffer, every set of scan codes and  *)
(* every screen: the keyboard and the line buffer of the console driver    *)
(* implement the line editor, and the screen shows the line.               *)
(***************************************************************************)
EXTENDS Tty, SequenceTheorems, TLAPS

Modifiers == {"lctrl", "rctrl", "lshift", "rshift", "capslock"}

(* The cursor is within the line and the line within the buffer: the tests *)
(* len < cur of tty.c never succeed.                                       *)
LineInv ==
    /\ len \in 0 .. LineSize /\ cur \in 0 .. len
    /\ buf \in [0 .. LineSize - 1 -> Int]
    /\ mods \in [Modifiers -> BOOLEAN]

-----------------------------------------------------------------------------
(* Facts about a text as a sequence.                                       *)

LEMMA FunSeq ==
    ASSUME NEW n \in Nat, NEW s \in [1 .. n -> Int] PROVE s \in Seq(Int) /\ Len(s) = n
<1>1. s \in Seq(Int)
  OBVIOUS
<1>. QED
  BY <1>1, LenProperties

LEMMA TextAppend ==
    ASSUME NEW N \in Nat, NEW f \in [0 .. N - 1 -> Int], NEW g \in [0 .. N - 1 -> Int],
           NEW n \in Nat, n < N, \A i \in 0 .. n - 1 : g[i] = f[i]
    PROVE  Text(g, 0, n + 1) = Append(Text(f, 0, n), g[n])
<1>. DEFINE s == Text(f, 0, n)  t == Text(g, 0, n + 1)
<1>1. s \in [1 .. n -> Int] /\ \A i \in 1 .. n : s[i] = f[i - 1]
  BY DEF Text
<1>2. t \in [1 .. n + 1 -> Int] /\ \A i \in 1 .. n + 1 : t[i] = g[i - 1]
  BY DEF Text
<1>. HIDE DEF s, t
<1>3. s \in Seq(Int) /\ Len(s) = n /\ t \in Seq(Int) /\ Len(t) = n + 1
  BY <1>1, <1>2, FunSeq
<1>4. g[n] \in Int
  OBVIOUS
<1>5. /\ Append(s, g[n]) \in Seq(Int) /\ Len(Append(s, g[n])) = n + 1
      /\ \A i \in 1 .. n : Append(s, g[n])[i] = s[i]
      /\ Append(s, g[n])[n + 1] = g[n]
  BY <1>3, <1>4, AppendProperties
<1>6. \A i \in 1 .. n + 1 : t[i] = Append(s, g[n])[i]
  BY <1>1, <1>2, <1>5
<1>7. t = Append(s, g[n])
  BY <1>3, <1>5, <1>6, SeqEqual
<1>. QED
  BY <1>7 DEF s, t

LEMMA TextFront ==
    ASSUME NEW N \in Nat, NEW f \in [0 .. N - 1 -> Int], NEW n \in Nat, 0 < n, n <= N
    PROVE  SubSeq(Text(f, 0, n), 1, n - 1) = Text(f, 0, n - 1)
<1>. DEFINE s == Text(f, 0, n)  t == Text(f, 0, n - 1)  u == SubSeq(s, 1, n - 1)
<1>1. s \in [1 .. n -> Int] /\ \A i \in 1 .. n : s[i] = f[i - 1]
  BY DEF Text
<1>2. t \in [1 .. n - 1 -> Int] /\ \A i \in 1 .. n - 1 : t[i] = f[i - 1]
  BY DEF Text
<1>. HIDE DEF s, t
<1>3. t \in Seq(Int) /\ Len(t) = n - 1
  BY <1>2, n - 1 \in Nat, FunSeq
<1>4. u \in Seq(Int) /\ Len(u) = n - 1 /\ \A i \in 1 .. n - 1 : u[i] = s[i]
  BY <1>1, SubSeqProperties
<1>. HIDE DEF u
<1>5. ASSUME NEW i \in 1 .. n - 1 PROVE u[i] = t[i]
  <2>1. i \in 1 .. n
    OBVIOUS
  <2>. QED
    BY <1>1, <1>2, <1>4, <2>1
<1>6. u = t
  BY <1>3, <1>4, <1>5, SeqEqual
<1>. QED
  BY <1>6 DEF s, t, u

LEMMA TextCons ==
    ASSUME NEW N \in Nat, NEW f \in [0 .. N - 1 -> Int], NEW a \in Nat, NEW n \in Nat,
           0 < a, a + n <= N
    PROVE  <<f[a - 1]>> \o Text(f, a, n) = Text(f, a - 1, n + 1)
<1>. DEFINE s == Text(f, a, n)  t == Text(f, a - 1, n + 1)  h == <<f[a - 1]>>
             r == h \o s
<1>1. s \in [1 .. n -> Int] /\ \A i \in 1 .. n : s[i] = f[a + i - 1]
  BY DEF Text
<1>2. t \in [1 .. n + 1 -> Int] /\ \A i \in 1 .. n + 1 : t[i] = f[a + i - 2]
  BY DEF Text
<1>3. h \in Seq(Int) /\ Len(h) = 1 /\ h[1] = f[a - 1]
  OBVIOUS
<1>. HIDE DEF s, t, h
<1>4. s \in Seq(Int) /\ Len(s) = n /\ t \in Seq(Int) /\ Len(t) = n + 1
  BY <1>1, <1>2, FunSeq
<1>5. /\ r \in Seq(Int) /\ Len(r) = Len(h) + Len(s)
      /\ \A i \in 1 .. Len(h) + Len(s) :
             r[i] = IF i <= Len(h) THEN h[i] ELSE s[i - Len(h)]
  BY <1>3, <1>4, ConcatProperties
<1>. HIDE DEF r
<1>6. ASSUME NEW i \in 1 .. Len(h) + Len(s) PROVE r[i] = t[i]
  <2>1. CASE i = 1
    BY <1>2, <1>3, <1>4, <1>5, <2>1
  <2>2. CASE i # 1
    <3>1. i - 1 \in 1 .. n /\ i \in 1 .. n + 1 /\ ~(i <= Len(h)) /\ i - Len(h) = i - 1
      BY <1>3, <1>4, <2>2
    <3>2. r[i] = s[i - 1]
      BY <1>5, <3>1
    <3>. QED
      BY <1>1, <1>2, <3>1, <3>2
  <2>. QED
    BY <2>1, <2>2
<1>7. Len(r) = Len(t) /\ \A i \in 1 .. Len(r) : r[i] = t[i]
  BY <1>3, <1>4, <1>5, <1>6
<1>8. r = t
  BY <1>4, <1>5, <1>7, SeqEqual
<1>. QED
  BY <1>8 DEF s, t, h, r

LEMMA TextTail ==
    ASSUME NEW N \in Nat, NEW f \in [0 .. N - 1 -> Int], NEW a \in Nat, NEW n \in Nat,
           0 < n, a + n <= N
    PROVE  Head(Text(f, a, n)) = f[a] /\ Tail(Text(f, a, n)) = Text(f, a + 1, n - 1)
<1>. DEFINE s == Text(f, a, n)  t == Text(f, a + 1, n - 1)
<1>1. s \in [1 .. n -> Int] /\ \A i \in 1 .. n : s[i] = f[a + i - 1]
  BY DEF Text
<1>2. t \in [1 .. n - 1 -> Int] /\ \A i \in 1 .. n - 1 : t[i] = f[a + i]
  BY DEF Text
<1>. HIDE DEF s, t
<1>3. s \in Seq(Int) /\ Len(s) = n /\ s # << >>
  BY <1>1, FunSeq
<1>4. t \in Seq(Int) /\ Len(t) = n - 1
  BY <1>2, n - 1 \in Nat, FunSeq
<1>5. /\ Tail(s) \in Seq(Int) /\ Len(Tail(s)) = n - 1
      /\ \A i \in 1 .. n - 1 : Tail(s)[i] = s[i + 1]
  BY <1>3, HeadTailProperties
<1>6. \A i \in 1 .. n - 1 : Tail(s)[i] = t[i]
  BY <1>1, <1>2, <1>5
<1>7. Tail(s) = t
  BY <1>4, <1>5, <1>6, SeqEqual
<1>8. Head(s) = f[a]
  BY <1>1, <1>3
<1>. QED
  BY <1>7, <1>8 DEF s, t

LEMMA TextConcat ==
    ASSUME NEW N \in Nat, NEW f \in [0 .. N - 1 -> Int], NEW n \in Nat, NEW m \in Nat,
           n + m <= N
    PROVE  Text(f, 0, n) \o Text(f, n, m) = Text(f, 0, n + m)
<1>. DEFINE s == Text(f, 0, n)  t == Text(f, n, m)  u == Text(f, 0, n + m)
<1>1. s \in [1 .. n -> Int] /\ \A i \in 1 .. n : s[i] = f[i - 1]
  BY DEF Text
<1>2. t \in [1 .. m -> Int] /\ \A i \in 1 .. m : t[i] = f[n + i - 1]
  BY DEF Text
<1>3. u \in [1 .. n + m -> Int] /\ \A i \in 1 .. n + m : u[i] = f[i - 1]
  BY DEF Text
<1>. HIDE DEF s, t, u
<1>4. s \in Seq(Int) /\ Len(s) = n /\ t \in Seq(Int) /\ Len(t) = m /\ u \in Seq(Int) /\ Len(u) = n + m
  BY <1>1, <1>2, <1>3, FunSeq
<1>5. /\ s \o t \in Seq(Int) /\ Len(s \o t) = n + m
      /\ \A i \in 1 .. n + m : (s \o t)[i] = IF i <= n THEN s[i] ELSE t[i - n]
  BY <1>4, ConcatProperties
<1>6. \A i \in 1 .. n + m : (s \o t)[i] = u[i]
  BY <1>1, <1>2, <1>3, <1>5
<1>7. s \o t = u
  BY <1>4, <1>5, <1>6, SeqEqual
<1>. QED
  BY <1>7 DEF s, t, u

-----------------------------------------------------------------------------
(* Facts about the keyboard.                                               *)

LEMMA CodeRange == ASSUME NEW c \in Codes PROVE c \in 0 .. 255
  BY KbdAssumption DEF Keys, ModifierOf, Arrows, Keymap

(* Only the code of a modifier key, which is no character, changes which   *)
(* keys are held, and it changes that key alone.                           *)
LEMMA HeldChanges ==
    ASSUME LineInv, NEW c \in Codes
    PROVE  /\ Held(c) \in [Modifiers -> BOOLEAN]
           /\ GetChar(c) # -1 => Held(c) = mods
           /\ \/ Held(c) = mods
              \/ \E m \in Modifiers : \E b \in BOOLEAN : Held(c) = [mods EXCEPT ![m] = b]
<1>. DEFINE m == ModifierOf[c % 128]
<1>1. c \in 0 .. 255 /\ c % 128 \in Int /\ (c < 128 => c % 128 = c)
  BY CodeRange
<1>2. CASE c % 128 \in DOMAIN ModifierOf
  <2>1. m \in Modifiers
    BY <1>2 DEF ModifierOf, Modifiers
  <2>2. Held(c) = [mods EXCEPT ![m] = (c < 128)] /\ (c < 128) \in BOOLEAN
    BY <1>1, <1>2 DEF Held
  <2>3. Character(c) = -1
    BY <1>1, <1>2 DEF Character
  <2>4. GetChar(c) = -1
    BY <2>3 DEF GetChar, Commanded, Commands, CR
  <2>. QED
    <3>1. [mods EXCEPT ![m] = (c < 128)] \in [Modifiers -> BOOLEAN]
      BY <2>2 DEF LineInv
    <3>. QED
      BY <2>1, <2>2, <2>4, <3>1
<1>3. CASE c % 128 \notin DOMAIN ModifierOf
  BY <1>3 DEF Held, LineInv
<1>. QED
  BY <1>2, <1>3

(* A character that goes into the line is that of a key, shifted while a   *)
(* shift key is held, and not a command.                                   *)
LEMMA TypedKey ==
    ASSUME LineInv, NEW c \in Codes, GetChar(c) \notin {-1, BS, LF, LEFT, RIGHT}
    PROVE  /\ GetChar(c) \in Int
           /\ \E k \in Letters : /\ ~(Control /\ k \in CommandKeys)
                                 /\ GetChar(c) = IF Shifted THEN k[2] ELSE k[1]
<1>. USE DEF BS, LF, CR, LEFT, RIGHT
<1>1. Shifted \in BOOLEAN /\ Control \in BOOLEAN
  BY DEF LineInv, Shifted, Control, Modifiers
<1>2. c \in DOMAIN Arrows \cup DOMAIN Keymap
  <2>1. ~(c >= 128 \/ c \in DOMAIN ModifierOf)
    BY DEF GetChar, Commanded, Character, Commands
  <2>. QED
    BY <2>1, KbdAssumption DEF Keys, ModifierOf, Arrows, Keymap
<1>3. Character(c) \in Int
  BY <1>1, <1>2 DEF Character, Arrows, Keymap, ModifierOf
<1>4. GetChar(c) = Character(c) /\ ~(Control /\ Character(c) \in DOMAIN Commands)
  BY <1>1, <1>3 DEF GetChar, Commanded, Commands
<1>5. CASE c \in DOMAIN Arrows
  <2>1. Character(c) = Arrows[c] /\ Arrows[c] \in {133, 134}
    BY <1>2, <1>4, <1>5 DEF Character, Arrows, ModifierOf
  <2>2. <<Arrows[c], Arrows[c]>> \in Letters /\ <<Arrows[c], Arrows[c]>> \notin CommandKeys
    BY <2>1 DEF Letters, CommandKeys
  <2>. QED
    BY <1>3, <1>4, <2>1, <2>2
<1>6. CASE c \in DOMAIN Keymap
  <2>. DEFINE k == Keymap[c]
  <2>1. Character(c) = IF Shifted THEN k[2] ELSE k[1]
    BY <1>1, <1>6 DEF Character, Arrows, ModifierOf, Keymap
  <2>2. k \in Letters
    BY <1>6 DEF Letters
  <2>3. k \in CommandKeys => k[1] \in DOMAIN Commands /\ k[2] \in DOMAIN Commands
    BY DEF CommandKeys, Commands
  <2>. HIDE DEF k
  <2>. QED
    BY <1>1, <1>3, <1>4, <2>1, <2>2, <2>3
<1>. QED
  BY <1>2, <1>5, <1>6

-----------------------------------------------------------------------------
(* The operations on the line.                                             *)

(* The lengths of the two parts of the line.                               *)
LEMMA Lengths ==
    ASSUME LineInv
    PROVE  /\ cur \in Nat /\ len \in Nat /\ len - cur \in Nat /\ LineSize \in Nat
           /\ Text(buf, 0, cur) \in Seq(Int) /\ Len(Text(buf, 0, cur)) = cur
           /\ Text(buf, cur, len - cur) \in Seq(Int)
           /\ Len(Text(buf, cur, len - cur)) = len - cur
           /\ cur > 0 => Text(buf, 0, cur) # << >> /\ Text(buf, 0, cur)[cur] = buf[cur - 1]
           /\ len - cur > 0 => Text(buf, cur, len - cur) # << >>
<1>1. cur \in Nat /\ len \in Nat /\ len - cur \in Nat /\ LineSize \in Nat
  BY TtyAssumption DEF LineInv
<1>. DEFINE s == Text(buf, 0, cur)  t == Text(buf, cur, len - cur)
<1>2. s \in [1 .. cur -> Int] /\ \A i \in 1 .. cur : s[i] = buf[i - 1]
  BY <1>1 DEF Text, LineInv
<1>3. t \in [1 .. len - cur -> Int]
  BY <1>1 DEF Text, LineInv
<1>. HIDE DEF s, t
<1>4. s \in Seq(Int) /\ Len(s) = cur /\ t \in Seq(Int) /\ Len(t) = len - cur
  BY <1>1, <1>2, <1>3, FunSeq
<1>5. /\ cur > 0 => s # << >> /\ s[cur] = buf[cur - 1]
      /\ len - cur > 0 => t # << >>
  BY <1>1, <1>2, <1>4
<1>. QED
  BY <1>1, <1>4, <1>5 DEF s, t

LEMMA InsertLine ==
    ASSUME LineInv, NEW c \in Int, len < LineSize
    PROVE  LET b == InsertChar(c)
           IN  /\ b.cur = cur + 1 /\ b.len = len + 1 /\ b.buf \in [0 .. LineSize - 1 -> Int]
               /\ Text(b.buf, 0, cur + 1) = Append(Text(buf, 0, cur), c)
               /\ Text(b.buf, cur + 1, len - cur) = Text(buf, cur, len - cur)
<1>. DEFINE g == [Moved(cur + 1, cur, len - cur) EXCEPT ![cur] = c]
<1>1. InsertChar(c) = [cur |-> cur + 1, len |-> len + 1, buf |-> g]
  BY Lengths DEF InsertChar, LineInv
<1>2. cur \in Nat /\ len - cur \in Nat /\ LineSize \in Nat /\ cur < LineSize
  BY Lengths DEF LineInv
<1>3. /\ g \in [0 .. LineSize - 1 -> Int] /\ g[cur] = c
      /\ \A i \in 0 .. cur - 1 : g[i] = buf[i]
      /\ \A i \in 1 .. len - cur : g[cur + 1 + i - 1] = buf[cur + i - 1]
  BY <1>2 DEF Moved, LineInv
<1>. HIDE DEF g
<1>4. Text(g, 0, cur + 1) = Append(Text(buf, 0, cur), g[cur])
  BY <1>2, <1>3, TextAppend DEF LineInv
<1>5. Text(g, cur + 1, len - cur) = Text(buf, cur, len - cur)
  BY <1>3 DEF Text
<1>. QED
  BY <1>1, <1>3, <1>4, <1>5

LEMMA BackspaceLine ==
    ASSUME LineInv, cur > 0
    PROVE  /\ Backspace.cur = cur - 1 /\ Backspace.len = len - 1
           /\ Backspace.buf \in [0 .. LineSize - 1 -> Int]
           /\ Text(Backspace.buf, 0, cur - 1) = SubSeq(Text(buf, 0, cur), 1, cur - 1)
           /\ Text(Backspace.buf, cur - 1, len - cur) = Text(buf, cur, len - cur)
<1>. DEFINE g == Moved(cur - 1, cur, len - cur)
<1>1. Backspace = [cur |-> cur - 1, len |-> len - 1, buf |-> g]
  BY DEF Backspace, LineInv
<1>2. /\ cur \in Nat /\ len \in Nat /\ len - cur \in Nat /\ LineSize \in Nat
      /\ cur - 1 \in Nat /\ cur <= LineSize
  BY Lengths DEF LineInv
<1>3. /\ g \in [0 .. LineSize - 1 -> Int]
      /\ \A i \in 1 .. cur - 1 : g[0 + i - 1] = buf[0 + i - 1]
      /\ \A i \in 1 .. len - cur : g[cur - 1 + i - 1] = buf[cur + i - 1]
  BY <1>2 DEF Moved, LineInv
<1>. HIDE DEF g
<1>4. Text(g, 0, cur - 1) = Text(buf, 0, cur - 1)
  BY <1>3 DEF Text
<1>5. Text(g, cur - 1, len - cur) = Text(buf, cur, len - cur)
  BY <1>3 DEF Text
<1>6. SubSeq(Text(buf, 0, cur), 1, cur - 1) = Text(buf, 0, cur - 1)
  BY <1>2, TextFront DEF LineInv
<1>. QED
  BY <1>1, <1>3, <1>4, <1>5, <1>6

-----------------------------------------------------------------------------
(* The steps: each keeps the invariant and is a step of the editor.        *)

Down == {m \in DOMAIN mods : mods[m]}

LEMMA SameModifiers ==
    ASSUME LineInv
    PROVE  /\ Editor!Shift <=> Shifted
           /\ Editor!Control <=> Control
  BY DEF LineInv, Editor!Shift, Editor!Control, Shifted, Control, Modifiers

(* A step that leaves the line and the modifier keys as they are.          *)
LEMMA OtherStep ==
    ASSUME LineInv, UNCHANGED <<line, mods>>, out' = << >>
    PROVE  LineInv' /\ Editor!Next
  BY DEF LineInv, line, Editor!Next, Editor!Other

LEMMA NoKeyStep ==
    ASSUME LineInv, NEW c \in Codes, mods' = Held(c), UNCHANGED line, out' = << >>
    PROVE  LineInv' /\ Editor!Next
<1>1. LineInv'
  BY HeldChanges DEF LineInv, line
<1>2. CASE mods' = mods
  BY <1>2, OtherStep
<1>3. ASSUME NEW m \in Modifiers, NEW b \in BOOLEAN, mods' = [mods EXCEPT ![m] = b]
      PROVE  Editor!Next
  <2>1. Down' = IF b THEN Down \cup {m} ELSE Down \ {m}
    BY <1>3 DEF Down, LineInv
  <2>2. Editor!Hold(m) \/ Editor!Release(m)
    BY <2>1 DEF Down, Editor!Hold, Editor!Release, line
  <2>. QED
    BY <2>2 DEF Editor!Next, Modifiers
<1>. QED
  BY <1>1, <1>2, <1>3, HeldChanges

LEMMA InsertStep ==
    ASSUME LineInv, NEW c \in Codes, GetChar(c) \notin {-1, BS, LF, LEFT, RIGHT},
           cur' = InsertChar(GetChar(c)).cur, len' = InsertChar(GetChar(c)).len,
           buf' = InsertChar(GetChar(c)).buf, mods' = mods, out' = << >>
    PROVE  LineInv' /\ Editor!Next
<1>. DEFINE a == GetChar(c)
<1>1. CASE len < LineSize
  <2>1. /\ cur' = cur + 1 /\ len' = len + 1 /\ buf' \in [0 .. LineSize - 1 -> Int]
        /\ Text(buf', 0, cur') = Append(Text(buf, 0, cur), a)
        /\ Text(buf', cur', len - cur) = Text(buf, cur, len - cur)
    <3>1. a \in Int
      BY TypedKey
    <3>. QED
      BY <1>1, <3>1, InsertLine
  <2>2. len' - cur' = len - cur
    <3>1. cur \in Nat /\ len \in Nat
      BY Lengths
    <3>. QED
      BY <2>1, <3>1
  <2>3. LineInv'
    <3>1. cur \in Nat /\ len \in Nat /\ cur <= len /\ LineSize \in Nat
      BY TtyAssumption DEF LineInv
    <3>2. len' \in 0 .. LineSize /\ cur' \in 0 .. len'
      BY <1>1, <2>1, <3>1
    <3>. QED
      BY <2>1, <3>2 DEF LineInv
  <2>4. Len(Text(buf, 0, cur)) + Len(Text(buf, cur, len - cur)) < LineSize
    BY <1>1, Lengths
  <2>5. PICK k \in Letters : /\ ~(Control /\ k \in CommandKeys)
                             /\ a = IF Shifted THEN k[2] ELSE k[1]
    BY TypedKey
  <2>. HIDE DEF a
  <2>6. Editor!Insert(k)
    BY <2>1, <2>2, <2>4, <2>5, SameModifiers DEF Editor!Insert
  <2>. QED
    BY <2>3, <2>6 DEF Editor!Next
<1>2. CASE ~(len < LineSize)
  <2>1. UNCHANGED line
    BY <1>2, Lengths DEF InsertChar, Same, line
  <2>. QED
    BY <2>1, OtherStep
<1>. QED
  BY <1>1, <1>2

LEMMA BackspaceStep ==
    ASSUME LineInv, cur' = Backspace.cur, len' = Backspace.len, buf' = Backspace.buf,
           mods' = mods, out' = << >>
    PROVE  LineInv' /\ Editor!Next
<1>1. CASE cur > 0
  <2>1. /\ cur' = cur - 1 /\ len' = len - 1 /\ buf' \in [0 .. LineSize - 1 -> Int]
        /\ Text(buf', 0, cur') = SubSeq(Text(buf, 0, cur), 1, cur - 1)
        /\ Text(buf', cur', len - cur) = Text(buf, cur, len - cur)
    BY <1>1, BackspaceLine
  <2>2. len' - cur' = len - cur
    BY <2>1, Lengths
  <2>3. LineInv'
    BY <1>1, <2>1, Lengths DEF LineInv
  <2>4. Editor!Backspace
    BY <1>1, <2>1, <2>2, Lengths DEF Editor!Backspace
  <2>. QED
    BY <2>3, <2>4 DEF Editor!Next
<1>2. CASE ~(cur > 0)
  <2>1. UNCHANGED line
    BY <1>2, Lengths DEF Backspace, Same, line
  <2>. QED
    BY <2>1, OtherStep
<1>. QED
  BY <1>1, <1>2

LEMMA MoveStep ==
    ASSUME LineInv, mods' = mods, out' = << >>,
           \E b \in {MoveLeft, MoveRight} : cur' = b.cur /\ len' = b.len /\ buf' = b.buf
    PROVE  LineInv' /\ Editor!Next
<1>1. len' = len /\ buf' = buf
  BY DEF MoveLeft, MoveRight, Same
<1>. /\ LineSize \in Nat /\ buf \in [0 .. LineSize - 1 -> Int]
     /\ cur \in Nat /\ len \in Nat /\ len - cur \in Nat
     /\ cur + (len - cur) <= LineSize /\ cur <= LineSize
  BY Lengths DEF LineInv
<1>2. CASE cur' = cur
  BY <1>1, <1>2, OtherStep DEF line
<1>3. CASE cur > 0 /\ cur' = cur - 1
  <2>1. cur - 1 \in Nat /\ len' - cur' = len - cur + 1
    BY <1>1, <1>3
  <2>2. SubSeq(Text(buf, 0, cur), 1, cur - 1) = Text(buf, 0, cur - 1)
    BY <1>3, TextFront
  <2>3. <<buf[cur - 1]>> \o Text(buf, cur, len - cur) = Text(buf, cur - 1, len - cur + 1)
    <3>. DEFINE n == len - cur
    <3>1. n \in Nat /\ 0 < cur /\ cur + n <= LineSize
      BY <1>3
    <3>. HIDE DEF n
    <3>2. <<buf[cur - 1]>> \o Text(buf, cur, n) = Text(buf, cur - 1, n + 1)
      BY ZenonT(40), <3>1, TextCons
    <3>. QED
      BY <3>2 DEF n
  <2>4. Editor!MoveLeft
    BY <1>1, <1>3, <2>1, <2>2, <2>3, Lengths DEF Editor!MoveLeft
  <2>5. LineInv'
    BY <1>1, <1>3 DEF LineInv
  <2>. QED
    BY <2>4, <2>5 DEF Editor!Next
<1>4. CASE cur < len /\ cur' = cur + 1
  <2>1. len' - cur' = len - cur - 1 /\ len - cur > 0
    BY <1>1, <1>4
  <2>2. /\ Head(Text(buf, cur, len - cur)) = buf[cur]
        /\ Tail(Text(buf, cur, len - cur)) = Text(buf, cur + 1, len - cur - 1)
    <3>. DEFINE n == len - cur
    <3>1. n \in Nat /\ 0 < n /\ cur + n <= LineSize
      BY <2>1
    <3>. HIDE DEF n
    <3>2. Head(Text(buf, cur, n)) = buf[cur] /\ Tail(Text(buf, cur, n)) = Text(buf, cur + 1, n - 1)
      BY ZenonT(40), <3>1, TextTail
    <3>. QED
      BY <3>2 DEF n
  <2>3. Text(buf, 0, cur + 1) = Append(Text(buf, 0, cur), buf[cur])
    <3>1. cur < LineSize
      BY <2>1
    <3>. QED
      BY <3>1, TextAppend
  <2>4. Editor!MoveRight
    BY <1>1, <1>4, <2>1, <2>2, <2>3, Lengths DEF Editor!MoveRight
  <2>5. LineInv'
    BY <1>1, <1>4 DEF LineInv
  <2>. QED
    BY <2>4, <2>5 DEF Editor!Next
<1>5. cur' = cur \/ (cur > 0 /\ cur' = cur - 1) \/ (cur < len /\ cur' = cur + 1)
  <2>1. MoveLeft.cur = IF cur = 0 \/ len < cur THEN cur ELSE cur - 1
    BY DEF MoveLeft, Same
  <2>2. MoveRight.cur = IF cur = len \/ len < cur THEN cur ELSE cur + 1
    BY DEF MoveRight, Same
  <2>. QED
    BY <2>1, <2>2
<1>. QED
  BY <1>2, <1>3, <1>4, <1>5

LEMMA EnterStep ==
    ASSUME LineInv, out' = Submitted, cur' = 0, len' = 0, buf' = buf, mods' = mods
    PROVE  LineInv' /\ Editor!Next
<1>1. LineInv'
  BY Lengths DEF LineInv
<1>2. /\ len - cur \in Nat /\ cur \in Nat /\ cur + (len - cur) = len
      /\ LineSize \in Nat /\ buf \in [0 .. LineSize - 1 -> Int] /\ len <= LineSize
  BY Lengths DEF LineInv
<1>3. Text(buf, 0, cur) \o Text(buf, cur, len - cur) = Text(buf, 0, cur + (len - cur))
  BY <1>2, TextConcat
<1>4. Text(buf', 0, cur') = << >> /\ Text(buf', cur', len' - cur') = << >>
  BY DEF Text
<1>5. Editor!Enter
  BY <1>2, <1>3, <1>4 DEF Editor!Enter, Submitted
<1>. QED
  BY <1>1, <1>5 DEF Editor!Next

LEMMA KeyStep ==
    ASSUME LineInv, NEW c \in Codes, Key(c) PROVE LineInv' /\ Editor!Next
<1>. DEFINE a == GetChar(c)
<1>1. mods' = Held(c) /\ Put(a)
  BY DEF Key
<1>2. CASE Fault
  BY <1>1, <1>2, NoKeyStep DEF Fault
<1>3. CASE a = -1 /\ NoKey
  BY <1>1, <1>3, NoKeyStep DEF NoKey
<1>4. CASE a # -1 /\ ~Fault
  <2>1. mods' = mods
    BY <1>1, <1>4, HeldChanges
  <2>2. CASE a = BS /\ Edit(Backspace)
    BY <1>4, <2>1, <2>2, BackspaceStep DEF Edit
  <2>3. CASE a = LF /\ Enter
    BY <1>4, <2>1, <2>3, EnterStep DEF Enter
  <2>4. CASE Edit(MoveLeft) \/ Edit(MoveRight)
    BY <1>4, <2>1, <2>4, MoveStep DEF Edit
  <2>5. CASE a \notin {-1, BS, LF, LEFT, RIGHT} /\ Edit(InsertChar(a))
    BY <1>4, <2>1, <2>5, InsertStep DEF Edit
  <2>. QED
    BY <1>1, <1>4, <2>2, <2>3, <2>4, <2>5 DEF Put
<1>. QED
  BY <1>1, <1>2, <1>3, <1>4 DEF Put, BS, LF, LEFT, RIGHT

LEMMA EditorStep == LineInv /\ [Next]_vars => LineInv' /\ [Editor!Next]_Editor!vars
<1>. SUFFICES ASSUME LineInv, [Next]_vars PROVE LineInv' /\ [Editor!Next]_Editor!vars
  OBVIOUS
<1>1. CASE \E c \in Codes : Key(c)
  BY <1>1, KeyStep
<1>2. CASE OutputNewLine \/ OutputBackspace \/ \E c \in OutChars : Output(c)
  BY <1>2, OtherStep DEF OutputNewLine, OutputBackspace, Output, Fault
<1>3. CASE UNCHANGED vars
  BY <1>3 DEF vars, LineInv, Editor!vars
<1>. QED
  BY <1>1, <1>2, <1>3 DEF Next

LEMMA EditorInit == Init => LineInv /\ Editor!Init
<1>. SUFFICES ASSUME Init PROVE LineInv /\ Editor!Init
  OBVIOUS
<1>1. LineInv
  BY TtyAssumption DEF Init, KbdInit, LineInv, Modifiers
<1>2. Text(buf, 0, cur) = << >> /\ Text(buf, cur, len - cur) = << >>
  BY DEF Init, Text
<1>. QED
  BY <1>1, <1>2 DEF Init, KbdInit, Editor!Init

(* For every size of the line buffer, every keyboard and every screen, the *)
(* scan codes, the buffer with its memmoves and the delivery of lines      *)
(* implement the line editor (_parse_scan_code, kbd_getchar,               *)
(* tty_line_buffer_putc, console_proc).                                    *)
THEOREM LinesAreEdited == Spec => EditsLine
<1>1. Init => LineInv /\ Editor!Init
  BY EditorInit
<1>2. LineInv /\ [Next]_vars => LineInv' /\ [Editor!Next]_Editor!vars
  BY EditorStep
<1>. QED
  BY <1>1, <1>2, PTL DEF Spec, EditsLine, Editor!Spec

-----------------------------------------------------------------------------
(* The screen.                                                             *)

Words == [attr : Int, ch : Int]

BlankFrom(v, e) == \A i \in Cells : i >= e => v[i].ch \in {0, 32}

ScreenInv ==
    /\ lmark \in Nat /\ eob \in Nat /\ lmark <= eob
    /\ vram \in [Cells -> Words]
    /\ EchoShown

(* Where a newline on the last line leads, and elsewhere.                  *)
LEMMA LineArithmetic ==
    ASSUME NEW e \in Nat
    PROVE  /\ Width * (Height - 1) \in Nat /\ Width * Height \in Nat
           /\ e - (e % Width) \in Nat /\ e + Width - (e % Width) \in Nat
           /\ e + Width - (e % Width) > e
           /\ OnLastLine(e) => /\ e - (e % Width) = Width * (Height - 1)
                               /\ e < Width * Height
<1>1. Width \in Nat \ {0} /\ Height \in Nat \ {0}
  BY TtyAssumption
<1>2. e % Width \in 0 .. Width - 1
  BY <1>1
<1>3. e = Width * (e \div Width) + (e % Width)
  BY <1>1
<1>4. /\ Width * (Height - 1) \in Nat /\ Width * Height \in Nat
      /\ Width * (Height - 1) + Width = Width * Height
  BY <1>1
<1>5. e \div Width \in Nat /\ Width * (e \div Width) \in Nat
  BY <1>1
<1>6. OnLastLine(e) => e \div Width = Height - 1
  BY <1>1, <1>5 DEF OnLastLine
<1>7. OnLastLine(e) => e = Width * (Height - 1) + (e % Width)
  BY <1>3, <1>6
<1>. QED
  BY <1>1, <1>2, <1>3, <1>4, <1>5, <1>7

LEMMA NewLineStep ==
    ASSUME NEW v \in [Cells -> Words], NEW e \in Nat, BlankFrom(v, e), NewLine(v, e)
    PROVE  vram' \in [Cells -> Words] /\ eob' \in Nat /\ lmark' = eob' /\ BlankFrom(vram', eob')
<1>1. CASE OnLastLine(e)
  <2>1. vram' = Scrolled(v) /\ eob' = Width * (Height - 1) /\ eob' \in Nat /\ lmark' = eob'
    BY <1>1, LineArithmetic DEF NewLine
  <2>2. /\ Width \in Nat /\ Width * Height \in Nat /\ e < Width * Height
        /\ Width * (Height - 1) + Width = Width * Height /\ Slack \in Nat
    BY <1>1, LineArithmetic, TtyAssumption
  <2>3. Cells \subseteq Nat
    BY DEF Cells
  <2>4. ASSUME NEW i \in Cells, i < Width * (Height - 1) PROVE i + Width \in Cells
    BY <2>2, <2>4, <2>1 DEF Cells
  <2>5. Null \in Words /\ Null.ch = 0
    BY DEF Null, Words
  <2>6. vram' \in [Cells -> Words]
    BY <2>1, <2>4, <2>5 DEF Scrolled
  <2>7. ASSUME NEW i \in Cells, i >= eob' PROVE vram'[i].ch \in {0, 32}
    <3>1. CASE i < Width * Height
      BY <2>1, <2>3, <2>5, <2>7, <3>1 DEF Scrolled
    <3>2. CASE ~(i < Width * Height)
      BY <2>1, <2>2, <2>3, <2>7, <3>2 DEF Scrolled, BlankFrom
    <3>. QED
      BY <3>1, <3>2
  <2>. QED
    BY <2>1, <2>6, <2>7 DEF BlankFrom
<1>2. CASE ~OnLastLine(e)
  <2>1. vram' = v /\ eob' \in Nat /\ eob' > e /\ lmark' = eob'
    BY <1>2, LineArithmetic DEF NewLine
  <2>. QED
    BY <2>1 DEF BlankFrom, Cells
<1>. QED
  BY <1>1, <1>2

(* The echo of a line: its characters, and nothing after them.             *)
LEMMA EchoLine ==
    ASSUME ScreenInv, NEW b, b.len \in 0 .. LineSize, b.buf \in [0 .. LineSize - 1 -> Int],
           WrittenCells(b) \subseteq Cells
    PROVE  /\ Echo(b) \in [Cells -> Words]
           /\ \A i \in 0 .. b.len - 1 : Echo(b)[lmark + i] = Echoed(b.buf[i])
           /\ BlankFrom(Echo(b), lmark + b.len)
<1>1. LineSize \in Nat /\ b.len \in Nat /\ lmark \in Nat /\ eob \in Nat /\ lmark <= eob
  BY TtyAssumption DEF ScreenInv
<1>2. Blank \in Words /\ Blank.ch = 32
  BY DEF Blank, Words
<1>3. ASSUME NEW i \in 0 .. b.len - 1
      PROVE  /\ b.buf[i] \in Int /\ Echoed(b.buf[i]) \in Words
             /\ lmark + i \in Cells /\ lmark + i \in lmark .. lmark + b.len - 1
             /\ lmark + i - lmark = i
  <2>1. b.buf[i] \in Int
    BY <1>1
  <2>2. Echoed(b.buf[i]) \in Words
    BY <2>1 DEF Echoed, Words
  <2>3. lmark + i \in WrittenCells(b)
    BY <1>1 DEF WrittenCells
  <2>. QED
    BY <1>1, <2>1, <2>2, <2>3
<1>4. ASSUME NEW j \in Cells, j \in lmark .. lmark + b.len - 1
      PROVE  Echoed(b.buf[j - lmark]) \in Words
  <2>1. j - lmark \in 0 .. b.len - 1
    BY <1>1, <1>4
  <2>. QED
    BY <1>3, <2>1
<1>5. Echo(b) \in [Cells -> Words]
  BY <1>2, <1>4 DEF Echo, ScreenInv
<1>6. ASSUME NEW i \in 0 .. b.len - 1 PROVE Echo(b)[lmark + i] = Echoed(b.buf[i])
  <2>. DEFINE j == lmark + i
  <2>1. j \in Cells /\ j \in lmark .. lmark + b.len - 1 /\ j - lmark = i
    BY <1>1, <1>3
  <2>. HIDE DEF j
  <2>2. Echo(b)[j] = Echoed(b.buf[j - lmark])
    BY <2>1 DEF Echo
  <2>. QED
    BY <2>1, <2>2 DEF j
<1>7. ASSUME NEW i \in Cells, i >= lmark + b.len PROVE Echo(b)[i].ch \in {0, 32}
  <2>1. i \in Int /\ i \notin lmark .. lmark + b.len - 1
    BY <1>1, <1>7 DEF Cells
  <2>2. CASE i \in WrittenCells(b)
    BY <1>2, <2>1, <2>2 DEF Echo
  <2>3. CASE i \notin WrittenCells(b)
    <3>1. i >= eob
      BY <1>1, <1>7, <2>1, <2>3 DEF WrittenCells
    <3>2. Echo(b)[i] = vram[i]
      BY <2>1, <2>3 DEF Echo
    <3>. QED
      BY <3>1, <3>2 DEF ScreenInv, EchoShown
  <2>. QED
    BY <2>2, <2>3
<1>. QED
  BY <1>5, <1>6, <1>7 DEF BlankFrom

LEMMA ScreenKept ==
    ASSUME ScreenInv, UNCHANGED <<line, screen>> PROVE ScreenInv'
  BY DEF ScreenInv, EchoShown, line, screen

LEMMA EditShows ==
    ASSUME LineInv', ScreenInv, NEW b, Edit(b) PROVE ScreenInv'
<1>1. CASE Fault
  BY <1>1, ScreenKept DEF Fault
<1>2. CASE ~Fault
  <2>1. /\ WrittenCells(b) \subseteq Cells /\ len' = b.len /\ buf' = b.buf
        /\ vram' = Echo(b) /\ eob' = lmark + b.len /\ lmark' = lmark
    BY <1>2 DEF Edit
  <2>2. b.len \in 0 .. LineSize /\ b.buf \in [0 .. LineSize - 1 -> Int]
    BY <2>1, TtyAssumption DEF LineInv
  <2>3. /\ vram' \in [Cells -> Words]
        /\ \A i \in 0 .. len' - 1 : vram'[lmark' + i] = Echoed(buf'[i])
        /\ BlankFrom(vram', eob')
    BY <2>1, <2>2, EchoLine
  <2>4. lmark' \in Nat /\ eob' \in Nat /\ lmark' <= eob' /\ eob' = lmark' + len'
    BY <2>1, <2>2, TtyAssumption DEF ScreenInv
  <2>. QED
    BY <2>3, <2>4 DEF ScreenInv, EchoShown, BlankFrom
<1>. QED
  BY <1>1, <1>2

LEMMA EnterShows ==
    ASSUME LineInv, ScreenInv, Enter PROVE ScreenInv'
<1>1. CASE Fault
  BY <1>1, ScreenKept DEF Fault
<1>2. CASE ~Fault
  <2>1. WrittenCells(Same) \subseteq Cells /\ NewLine(Echo(Same), lmark + len)
    BY <1>2 DEF Enter
  <2>2. Same.len = len /\ Same.buf = buf
    BY DEF Same
  <2>3. /\ Same.len \in 0 .. LineSize /\ Same.buf \in [0 .. LineSize - 1 -> Int]
        /\ lmark + len \in Nat
    BY <2>2, TtyAssumption DEF LineInv, ScreenInv
  <2>4. Echo(Same) \in [Cells -> Words] /\ BlankFrom(Echo(Same), lmark + len)
    BY <2>1, <2>2, <2>3, EchoLine
  <2>5. vram' \in [Cells -> Words] /\ eob' \in Nat /\ lmark' = eob' /\ BlankFrom(vram', eob')
    BY <2>1, <2>3, <2>4, NewLineStep
  <2>. QED
    BY <2>5 DEF ScreenInv, EchoShown, BlankFrom
<1>. QED
  BY <1>1, <1>2

LEMMA OutputShows ==
    ASSUME ScreenInv, OutputNewLine \/ OutputBackspace \/ \E c \in OutChars : Output(c)
    PROVE  ScreenInv'
<1>1. CASE Fault
  BY <1>1, ScreenKept DEF Fault
<1>2. CASE ~Fault /\ OutputNewLine
  <2>1. NewLine(vram, eob) /\ eob \in Nat /\ vram \in [Cells -> Words] /\ BlankFrom(vram, eob)
    BY <1>2 DEF OutputNewLine, ScreenInv, EchoShown, BlankFrom
  <2>2. vram' \in [Cells -> Words] /\ eob' \in Nat /\ lmark' = eob' /\ BlankFrom(vram', eob')
    BY <2>1, NewLineStep
  <2>. QED
    BY <2>2 DEF ScreenInv, EchoShown, BlankFrom
<1>3. CASE ~Fault /\ OutputBackspace
  <2>1. Blank \in Words /\ Blank.ch = 32
    BY DEF Blank, Words
  <2>2. vram' \in [Cells -> Words] /\ eob' \in Nat /\ lmark' = eob'
    BY <1>3, <2>1 DEF OutputBackspace, ScreenInv
  <2>3. ASSUME NEW i \in Cells, i >= eob' PROVE vram'[i].ch \in {0, 32}
    <3>1. i \in Nat /\ eob \in Nat /\ (i >= eob => vram[i].ch \in {0, 32})
      BY DEF ScreenInv, EchoShown, Cells
    <3>2. CASE eob = 0
      BY <1>3, <2>3, <3>1, <3>2 DEF OutputBackspace
    <3>3. CASE eob > 0
      <4>1. eob' = eob - 1 /\ vram' = [vram EXCEPT ![eob - 1] = Blank]
        BY <1>3, <3>3 DEF OutputBackspace
      <4>2. vram'[i] = IF i = eob - 1 THEN Blank ELSE vram[i]
        BY <4>1 DEF ScreenInv
      <4>. QED
        BY <2>1, <2>3, <3>1, <4>1, <4>2
    <3>. QED
      BY <3>1, <3>2, <3>3
  <2>. QED
    BY <2>2, <2>3 DEF ScreenInv, EchoShown
<1>4. ASSUME ~Fault, NEW c \in OutChars, Output(c) PROVE ScreenInv'
  <2>1. Printed(c) \in Words
    BY TtyAssumption DEF Printed, Words
  <2>2. vram' \in [Cells -> Words] /\ eob' = eob + 1 /\ eob' \in Nat /\ lmark' = eob'
    BY <1>4, <2>1 DEF Output, ScreenInv
  <2>3. ASSUME NEW i \in Cells, i >= eob' PROVE vram'[i].ch \in {0, 32}
    BY <1>4, <2>2, <2>3 DEF Output, ScreenInv, EchoShown, Cells
  <2>. QED
    BY <2>2, <2>3 DEF ScreenInv, EchoShown
<1>. QED
  BY <1>1, <1>2, <1>3, <1>4

LEMMA ScreenStep == LineInv /\ LineInv' /\ ScreenInv /\ [Next]_vars => ScreenInv'
<1>. SUFFICES ASSUME LineInv, LineInv', ScreenInv, [Next]_vars PROVE ScreenInv'
  OBVIOUS
<1>1. ASSUME NEW c \in Codes, Key(c) PROVE ScreenInv'
  <2>1. Put(GetChar(c))
    BY <1>1 DEF Key
  <2>2. CASE NoKey
    BY <2>2, ScreenKept DEF NoKey
  <2>3. CASE Enter
    BY <2>3, EnterShows
  <2>4. ASSUME NEW b, Edit(b) PROVE ScreenInv'
    BY <2>4, EditShows
  <2>. QED
    BY <2>1, <2>2, <2>3, <2>4 DEF Put
<1>2. CASE UNCHANGED vars
  BY <1>2, ScreenKept DEF vars, line, screen
<1>. QED
  BY <1>1, <1>2, OutputShows DEF Next

LEMMA ScreenStart == Init => ScreenInv
<1>. SUFFICES ASSUME Init PROVE ScreenInv
  OBVIOUS
<1>1. Blank \in Words /\ Blank.ch = 32 /\ Null \in Words /\ Null.ch = 0
  BY DEF Blank, Null, Words
<1>2. vram \in [Cells -> Words]
  BY <1>1 DEF Init
<1>3. \A i \in Cells : vram[i].ch \in {0, 32}
  BY <1>1 DEF Init
<1>. QED
  BY <1>2, <1>3 DEF Init, ScreenInv, EchoShown

(* For every width, height and line size, every keyboard and everything    *)
(* processes print: what was typed stands from line_mark on as long as the *)
(* screen shows the line, and the screen is blank after its end (the       *)
(* redraw in console_proc and the scrolling in _putc).                     *)
THEOREM EchoIsShown == Spec => []EchoShown
<1>1. Init => LineInv /\ ScreenInv
  BY EditorInit, ScreenStart
<1>2. LineInv /\ ScreenInv /\ [Next]_vars => LineInv' /\ ScreenInv'
  BY EditorStep, ScreenStep
<1>3. ScreenInv => EchoShown
  BY DEF ScreenInv
<1>. QED
  BY <1>1, <1>2, <1>3, PTL DEF Spec
=============================================================================
