------------------------------ MODULE LcdLink -------------------------------
(***************************************************************************)
(* The line to the display: LiquidCrystal_I2C writes bytes as two nibbles, *)
(* each latched by a pulse, into a controller that may be reading bytes or *)
(* nibbles, and that a reset of the microcontroller does not reset.  The   *)
(* pulses go through a bus expander; whether it took a transfer is not     *)
(* looked at, and one may be lost.                                         *)
(*                                                                         *)
(* The driver cannot read the controller.  It keeps copies of the modes it *)
(* has set, and sends all bits of a mode when one of them changes.         *)
(*                                                                         *)
(* The display has two lines; only its first columns are looked at.  A     *)
(* character is any byte but the 0 that ends a string.                     *)
(***************************************************************************)
EXTENDS Integers, Sequences, SequencesExt

CONSTANTS
  Columns,    \* columns looked at
  Text,       \* the texts shown on a line
  Extra,      \* the calls made besides those of the sketch
  MaxResets,  \* bound: resets of the microcontroller
  MaxLosses,  \* bound: transfers to the expander that are lost
  MaxBlind    \* bound: calls made between a loss and the next reset

Option == {"display", "cursor", "blink"}
ExtraCall == Option \cup {"direction", "autoscroll", "scroll", "createChar", "home"}

ASSUME DisplayAssumption ==
  /\ Columns \in 1 .. 16
  /\ Text \subseteq UNION {[1 .. n -> 1 .. 255] : n \in 0 .. Columns}
  /\ Extra \subseteq ExtraCall
  /\ MaxResets \in Nat /\ MaxLosses \in Nat /\ MaxBlind \in Nat

Space == 32
Row == {0, 1}
Page == [Row -> Text]
NoPage == [r \in Row |-> <<0>>]

Nibble == 0 .. 15
Byte == 0 .. 255

\* A byte for the expander, the backlight bit apart: RS, En and a nibble.
Transfer == [rs : BOOLEAN, nibble : Nibble, en : BOOLEAN]

VARIABLES
  todo,             \* the transfers that are still to be made
  started,          \* begin() is running or has run
  _backlightval,    \* the backlight bit or-ed into every byte
  _displaycontrol,  \* the options that are on
  _displaymode,     \* text runs to the right, and the display moves with it
  page,             \* the page being drawn or last drawn, if nothing else was done to it
  lines,            \* the expander: the transfer it last took
  lit,              \* the expander: the backlight line
  lcd,              \* the controller
  intact,           \* history: no transfer was lost since begin()
  resets, losses,   \* history: how many so far
  blind             \* history: calls since the loss

driver == <<todo, started, _backlightval, _displaycontrol, _displaymode, page>>
expander == <<lines, lit>>
history == <<intact, resets, losses, blind>>
vars == <<driver, expander, lcd, history>>

Cell == {r * 64 + c : r \in Row, c \in 0 .. Columns - 1}
Bits(rs, nibble, en) == [rs |-> rs, nibble |-> nibble, en |-> en]
Quiet == Bits(FALSE, 0, FALSE)
Rightward == [right |-> TRUE, moving |-> FALSE]
Unset == [right |-> FALSE, moving |-> FALSE]

\* The controller may be left in any mode, within any byte, by what ran before.
Init ==
  /\ todo = <<>> /\ started = FALSE
  /\ _backlightval = FALSE
  /\ _displaycontrol = {} /\ _displaymode = Unset
  /\ page = NoPage
  /\ lines = Quiet /\ lit \in BOOLEAN
  /\ lcd \in [four : BOOLEAN, half : Nibble \cup {-1}, cells : {[a \in Cell |-> Space]},
              addr : {0}, ddram : BOOLEAN, options : {{}, Option},
              mode : [right : BOOLEAN, moving : BOOLEAN], shift : {0}]
  /\ ~lcd.four => lcd.half = -1
  /\ intact = FALSE /\ resets = 0 /\ losses = 0 /\ blind = 0

-----------------------------------------------------------------------------
(* The controller, an HD44780.                                             *)

Bit(byte, n) == (byte \div n) % 2 = 1

\* A character goes to the cell at the address, and the display may move.
Store(l, byte) ==
  [l EXCEPT !.cells = IF l.ddram /\ l.addr \in Cell THEN [@ EXCEPT ![l.addr] = byte] ELSE @,
            !.addr = (@ + (IF l.mode.right THEN 1 ELSE 127)) % 128,
            !.shift = IF l.ddram /\ l.mode.moving
                        THEN (@ + (IF l.mode.right THEN 1 ELSE 39)) % 40 ELSE @]

Command(l, byte) ==
  CASE byte >= 128 -> [l EXCEPT !.addr = byte % 128, !.ddram = TRUE]
    [] byte \in 64 .. 127 -> [l EXCEPT !.addr = byte % 64, !.ddram = FALSE]
    [] byte \in 32 .. 63 -> [l EXCEPT !.four = ~Bit(byte, 16)]
    [] byte \in 24 .. 31 -> [l EXCEPT !.shift = (@ + (IF Bit(byte, 4) THEN 39 ELSE 1)) % 40]
    [] byte \in 16 .. 23 -> [l EXCEPT !.addr = (@ + (IF Bit(byte, 4) THEN 1 ELSE 127)) % 128]
    [] byte \in 8 .. 15 ->
         [l EXCEPT !.options = {o \in Option : Bit(byte, CASE o = "display" -> 4
                                                           [] o = "cursor" -> 2
                                                           [] o = "blink" -> 1)}]
    [] byte \in 4 .. 7 -> [l EXCEPT !.mode = [right |-> Bit(byte, 2), moving |-> Bit(byte, 1)]]
    [] byte \in 2 .. 3 -> [l EXCEPT !.addr = 0, !.ddram = TRUE, !.shift = 0]
    [] byte = 1 -> [l EXCEPT !.cells = [a \in Cell |-> Space], !.addr = 0, !.ddram = TRUE,
                             !.shift = 0, !.mode.right = TRUE]
    [] OTHER -> l

Execute(l, rs, byte) == IF rs THEN Store(l, byte) ELSE Command(l, byte)

\* The falling edge of En: the upper half of a byte, or what completes one.
Latch(l, t) ==
  CASE ~l.four -> Execute(l, t.rs, t.nibble * 16)
    [] l.four /\ l.half = -1 -> [l EXCEPT !.half = t.nibble]
    [] OTHER -> Execute([l EXCEPT !.half = -1], t.rs, l.half * 16 + t.nibble)

-----------------------------------------------------------------------------
(* What the library sends.                                                 *)

\* A nibble, and a pulse on En.
write4bits(nibble, rs) ==
  <<Bits(rs, nibble, FALSE), Bits(rs, nibble, TRUE), Bits(rs, nibble, FALSE)>>

\* Slip: the low half is not cut to four bits.
sendUncut(value, rs) == write4bits(value \div 16, rs) \o write4bits(value, rs)

send(value, rs) == write4bits(value \div 16, rs) \o write4bits(value % 16, rs)
command(value) == send(value, FALSE)

OptionBits(options) ==
  (IF "display" \in options THEN 4 ELSE 0) + (IF "cursor" \in options THEN 2 ELSE 0)
    + (IF "blink" \in options THEN 1 ELSE 0)
ModeBits(mode) == (IF mode.right THEN 2 ELSE 0) + (IF mode.moving THEN 1 ELSE 0)

clear == command(1)
home == command(2)

\* Slip: the first of the three tries is left out.
twoTries ==
  <<Quiet>> \o write4bits(3, FALSE) \o write4bits(3, FALSE) \o write4bits(2, FALSE)
    \o command(40) \o command(8 + OptionBits({"display"})) \o clear
    \o command(4 + ModeBits(Rightward)) \o home

\* begin(): all lines low, three tries at 8-bit mode, then 4-bit mode;
\* function set, display on, clear, entry mode and home.
begin ==
  <<Quiet>> \o write4bits(3, FALSE) \o write4bits(3, FALSE) \o write4bits(3, FALSE)
    \o write4bits(2, FALSE) \o command(40) \o command(8 + OptionBits({"display"})) \o clear
    \o command(4 + ModeBits(Rightward)) \o home

\* A row past the last is taken for the last, but for the one next to it.
setCursor(col, row) ==
  LET r == IF row > 2 THEN 1 ELSE row
  IN  command(128 + col + <<0, 64, 20, 84>>[r + 1])

print(text) == FlattenSeq([i \in 1 .. Len(text) |-> send(text[i], TRUE)])

\* Slip: the page is written over the one before it.
drawOver(p) == setCursor(0, 0) \o print(p[0]) \o setCursor(0, 1) \o print(p[1])

\* displayNowTime and displayEditModeUI: clear, and the two lines.
draw(p) == clear \o setCursor(0, 0) \o print(p[0]) \o setCursor(0, 1) \o print(p[1])

-----------------------------------------------------------------------------
(* Steps.                                                                  *)

Idle == started /\ todo = <<>>

\* A call of the driver that makes the transfers `bytes'.
Call(bytes) ==
  /\ Idle
  /\ todo' = bytes
  /\ blind' = IF intact THEN blind ELSE blind + 1
  /\ blind' <= MaxBlind
  /\ UNCHANGED <<started, expander, lcd, intact, resets, losses>>

Start ==
  /\ ~started
  /\ started' = TRUE /\ intact' = TRUE
  /\ todo' = begin
  /\ _displaycontrol' = {"display"} /\ _displaymode' = Rightward
  /\ UNCHANGED <<_backlightval, page, expander, lcd, resets, losses, blind>>

\* expanderWrite: when En falls, the controller latches the lines as they
\* were or as they become.
Write ==
  /\ todo # <<>>
  /\ todo' = Tail(todo)
  /\ lines' = Head(todo) /\ lit' = _backlightval
  /\ IF lines.en /\ ~lines'.en
       THEN \E t \in {lines, lines'} : lcd' = Latch(lcd, t)
       ELSE lcd' = lcd
  /\ UNCHANGED <<started, _backlightval, _displaycontrol, _displaymode, page, history>>

\* The expander does not take the transfer, and expanderWrite does not look.
Lose ==
  /\ todo # <<>> /\ losses < MaxLosses
  /\ losses' = losses + 1 /\ intact' = FALSE
  /\ todo' = Tail(todo)
  /\ UNCHANGED <<started, _backlightval, _displaycontrol, _displaymode, page, expander, lcd,
                 resets, blind>>

Draw(p) ==
  /\ Call(draw(p))
  /\ page' = p
  /\ UNCHANGED <<_backlightval, _displaycontrol, _displaymode>>

\* backlight() and noBacklight().
Light(b) ==
  /\ Call(<<Quiet>>)
  /\ _backlightval' = b
  /\ UNCHANGED <<_displaycontrol, _displaymode, page>>

\* Slip: the options that were on are not sent with the new one.
SetOptionAlone(o, on) ==
  /\ _displaycontrol' = IF on THEN _displaycontrol \cup {o} ELSE _displaycontrol \ {o}
  /\ Call(command(8 + OptionBits(IF on THEN {o} ELSE {})))
  /\ UNCHANGED <<_backlightval, _displaymode, page>>

\* display(), cursor(), blink() and their opposites.
SetOption(o, on) ==
  /\ _displaycontrol' = IF on THEN _displaycontrol \cup {o} ELSE _displaycontrol \ {o}
  /\ Call(command(8 + OptionBits(_displaycontrol')))
  /\ UNCHANGED <<_backlightval, _displaymode, page>>

\* leftToRight(), rightToLeft(), autoscroll() and noAutoscroll().
SetMode(mode) ==
  /\ _displaymode' = mode
  /\ Call(command(4 + ModeBits(mode)))
  /\ page' = NoPage
  /\ UNCHANGED <<_backlightval, _displaycontrol>>

\* createChar(): eight rows of dots for a character of one's own.
createChar(location) ==
  command(64 + location * 8) \o FlattenSeq([i \in 1 .. 8 |-> send(0, TRUE)])

\* createChar(), scrollDisplayLeft(), scrollDisplayRight() and home().
Send(bytes) ==
  /\ Call(bytes)
  /\ page' = NoPage
  /\ UNCHANGED <<_backlightval, _displaycontrol, _displaymode>>

\* Bounds: the display is scrolled one position away, and after a loss only
\* the calls of the sketch are made.
ExtraCalls ==
  /\ intact
  /\ \/ \E o \in Option \cap Extra : \E on \in BOOLEAN : SetOption(o, on)
     \/ "direction" \in Extra /\ \E b \in BOOLEAN : SetMode([_displaymode EXCEPT !.right = b])
     \/ "autoscroll" \in Extra /\ \E b \in BOOLEAN : SetMode([_displaymode EXCEPT !.moving = b])
     \/ "scroll" \in Extra /\ lcd.shift = 0 /\ \E byte \in {24, 28} : Send(command(byte))
     \/ "createChar" \in Extra /\ Send(createChar(1))
     \/ "home" \in Extra /\ Send(home)

\* The microcontroller starts over; expander and controller stay powered.
Reset ==
  /\ resets < MaxResets
  /\ resets' = resets + 1
  /\ started' = FALSE /\ intact' = FALSE /\ todo' = <<>>
  /\ _backlightval' = FALSE
  /\ _displaycontrol' = {} /\ _displaymode' = Unset
  /\ page' = NoPage
  /\ blind' = 0
  /\ UNCHANGED <<expander, lcd, losses>>

\* The bounds are used up.
Spent == Idle /\ ~intact /\ blind = MaxBlind /\ resets = MaxResets /\ UNCHANGED vars

Next ==
  \/ Start \/ Write \/ Lose
  \/ \E p \in Page : Draw(p)
  \/ \E b \in BOOLEAN : Light(b)
  \/ ExtraCalls
  \/ Reset \/ Spent

Spec == Init /\ [][Next]_vars

-----------------------------------------------------------------------------
(* Properties.                                                             *)

TypeOK ==
  /\ todo \in Seq(Transfer)
  /\ started \in BOOLEAN /\ _backlightval \in BOOLEAN
  /\ _displaycontrol \subseteq Option
  /\ _displaymode \in [right : BOOLEAN, moving : BOOLEAN]
  /\ page \in Page \cup {NoPage}
  /\ lines \in Transfer /\ lit \in BOOLEAN
  /\ lcd \in [four : BOOLEAN, half : Nibble \cup {-1}, cells : [Cell -> Byte],
              addr : 0 .. 127, ddram : BOOLEAN, options : SUBSET Option,
              mode : [right : BOOLEAN, moving : BOOLEAN], shift : 0 .. 39]
  /\ intact \in BOOLEAN /\ resets \in 0 .. MaxResets /\ losses \in 0 .. MaxLosses

InOrder == Idle /\ intact

(* Wherever the microcontroller was reset, within a byte or a pulse, and   *)
(* whatever was lost before, after a begin() that lost nothing the         *)
(* controller reads nibbles and waits for the first of a byte, with En     *)
(* down: library and controller agree on what the next pulse is.           *)
InStep == InOrder => lcd.four /\ lcd.half = -1 /\ ~lines.en

(* The driver's copies are true: the options and the entry mode it would   *)
(* send back with the next change are those of the controller, and the     *)
(* backlight is the one last asked for.  Of one bit the copy may be old:   *)
(* a clear has turned the text to the right again.                         *)
CopiesAreTrue ==
  InOrder =>
    /\ lcd.options = _displaycontrol
    /\ lcd.mode.moving = _displaymode.moving
    /\ _displaymode.right => lcd.mode.right
    /\ lit = _backlightval

\* What the display shows, column by column.
Shown(r, c) ==
  IF "display" \in lcd.options /\ lcd.shift = 0 THEN lcd.cells[r * 64 + c] ELSE Space

(* When a page has been drawn, the display shows it and nothing else: no   *)
(* rest of a longer text, no line in the place of the other, and nothing   *)
(* of it beside the display or in the characters' memory, whatever was     *)
(* scrolled, turned or defined before.                                     *)
ShowsThePage ==
  InOrder /\ page # NoPage /\ "display" \in _displaycontrol /\ ~_displaymode.moving =>
    \A r \in Row : \A c \in 0 .. Columns - 1 :
      Shown(r, c) = IF c < Len(page[r]) THEN page[r][c + 1] ELSE Space

=============================================================================
