------------------------------- MODULE Screen -------------------------------
(***************************************************************************)
(* The text screen of src/src/drivers/screen.c: glyphs drawn at a cursor,  *)
(* line breaks and scrolling, in a frame buffer without borders.           *)
(*                                                                         *)
(* The frame buffer is the set of addresses of lit pixels; the pixel in    *)
(* row y and column x has address pitch * y + x.  The kernel's code prints *)
(* in steps, because the keyboard's interrupt prints what is typed at the  *)
(* same cursor: as the module is compiled, screen_putch reads the cursor   *)
(* once, row before column, and writes it back after it has drawn, column  *)
(* before row.                                                             *)
(***************************************************************************)
EXTENDS Integers, FiniteSetsExt, SequencesExt

CONSTANTS
  width, height, pitch,   (* of the frame buffer, in pixels                 *)
  FONT_WIDTH, FONT_HEIGHT,
  font_scale,
  font8x8_buff,           (* character -> the <<row, column>> of its bits   *)
  NL                      (* the newline                                    *)

Bits == (0 .. FONT_HEIGHT - 1) \X (0 .. FONT_WIDTH - 1)

ASSUME FrameAssumption ==
  /\ width \in Nat \ {0} /\ height \in Nat \ {0} /\ pitch \in Nat /\ pitch >= width
  /\ FONT_WIDTH \in Nat \ {0} /\ FONT_HEIGHT \in Nat \ {0}
  /\ font_scale \in Nat \ {0}
  /\ \A ch \in DOMAIN font8x8_buff : font8x8_buff[ch] \subseteq Bits

VARIABLES
  lit,                 (* the addresses of the lit pixels                   *)
  cursor_x, cursor_y,
  print,               (* the kernel's screen_print: the characters left,   *)
                       (* where it is in screen_putch, what it has read     *)
  text,                (* the last lines of the text printed so far, as     *)
                       (* many as the screen has, <<>> once raced           *)
  raced                (* an interrupt has printed in the middle of a       *)
                       (* character of the kernel's                         *)

screenVars == <<lit, cursor_x, cursor_y, print, text, raced>>

CellWidth == FONT_WIDTH * font_scale
CellHeight == FONT_HEIGHT * font_scale

-----------------------------------------------------------------------------
(***************************************************************************)
(* What screen_putch does, on a frame buffer l and a cursor at x and y     *)
(***************************************************************************)

\* Every bit is a square of font_scale pixels.
Glyph(ch, x, y) ==
  {pitch * (y + bit[1] * font_scale + dy) + x + bit[2] * font_scale + dx :
     bit \in font8x8_buff[ch], dx, dy \in 0 .. font_scale - 1}

Drawn(l, ch, x, y) == IF ch = NL THEN l ELSE l \cup Glyph(ch, x, y)

BreaksLine(ch, x) == ch = NL \/ x + CellWidth >= width
IsLastRow(y) == y + CellHeight >= height

NextX(ch, x) == IF BreaksLine(ch, x) THEN 0 ELSE x + CellWidth

\* Whether memmove copies its byte j before its byte i.
\* Mutated: the two orders are exchanged.
CopiedBeforeSwapped(j, i, dest, src) == IF src > dest THEN j > i ELSE j < i
CopiedBefore(j, i, dest, src) == IF src > dest THEN j < i ELSE j > i

\* A byte read where memmove has written before is the byte written there.
Memmove(l, dest, src, n) ==
  LET moved[i \in 0 .. n - 1] ==
        LET j == src + i - dest
        IN  IF j \in 0 .. n - 1 /\ CopiedBefore(j, i, dest, src)
            THEN moved[j] ELSE src + i \in l
  IN  {a \in l : a - dest \notin 0 .. n - 1} \cup
      {dest + i : i \in {k \in 0 .. n - 1 : moved[k]}}

\* The rows that stay on the screen; what screen_scroll moves and what it clears.
BytesToMove == (height - CellHeight) * pitch
ScrollMoves(l) == Memmove(l, 0, CellHeight * pitch, BytesToMove)
ScrollClears(l) == {a \in l : a < BytesToMove \/ a >= height * pitch}

\* All of it at once, on a record of the frame buffer and the cursor.
Putch(s, ch) ==
  LET l == Drawn(s.lit, ch, s.x, s.y)
      breaks == BreaksLine(ch, s.x)
  IN  [lit |-> IF breaks /\ IsLastRow(s.y) THEN ScrollClears(ScrollMoves(l)) ELSE l,
       x |-> NextX(ch, s.x),
       y |-> IF breaks /\ ~IsLastRow(s.y) THEN s.y + CellHeight ELSE s.y]

-----------------------------------------------------------------------------
(***************************************************************************)
(* What the screen is to show: the last lines of the text                  *)
(***************************************************************************)

Columns == width \div CellWidth
Rows == height \div CellHeight

\* A line that is full is followed by a new one at once.
AddChar(lines, ch) ==
  LET line == Append(Last(lines), ch)
      all  == CASE ch = NL -> Append(lines, <<>>)
                [] ch # NL /\ Len(line) < Columns -> Append(Front(lines), line)
                [] OTHER -> Front(lines) \o <<line, <<>> >>
  IN  IF Len(all) <= Rows THEN all ELSE SubSeq(all, Len(all) - Rows + 1, Len(all))

AddChars(lines, chars) ==
  LET after[i \in 0 .. Len(chars)] ==
        IF i = 0 THEN lines ELSE AddChar(after[i - 1], chars[i])
  IN  after[Len(chars)]

\* The pixels of lines, one to a row of cells.
Shown(lines) ==
  UNION {Glyph(lines[p[1]][p[2]], (p[2] - 1) * CellWidth, (p[1] - 1) * CellHeight) :
           p \in {q \in (1 .. Rows) \X (1 .. Columns) :
                   q[1] <= Len(lines) /\ q[2] <= Len(lines[q[1]])}}

-----------------------------------------------------------------------------
(***************************************************************************)
(* screen_print                                                            *)
(***************************************************************************)

\* Screen s after all of chars.
Printed(s, chars) ==
  LET after[i \in 0 .. Len(chars)] ==
        IF i = 0 THEN s ELSE Putch(after[i - 1], chars[i])
  IN  after[Len(chars)]

\* All of chars, with nothing in between.
Prints(chars) ==
  LET s == Printed([lit |-> lit, x |-> cursor_x, y |-> cursor_y], chars)
  IN  /\ lit' = s.lit
      /\ cursor_x' = s.x
      /\ cursor_y' = s.y

\* A call made while no interrupt prints.
PrintAtOnce(chars) ==
  /\ Prints(chars)
  /\ text' = IF raced THEN text ELSE AddChars(text, chars)
  /\ UNCHANGED <<print, raced>>

\* A character typed: the callback of the keyboard's interrupt prints it.
Echo(ch) ==
  /\ Prints(<<ch>>)
  /\ raced' = (raced \/ print.at # "next")
  /\ text' = IF raced' THEN <<>> ELSE AddChar(text, ch)
  /\ UNCHANGED print

Printing == print.rest # <<>>
Current == Head(print.rest)
PrintAt(step) == Printing /\ print.at = step

StartPrint(chars) ==
  /\ ~Printing
  /\ print' = [print EXCEPT !.rest = chars]
  /\ UNCHANGED <<lit, cursor_x, cursor_y, text, raced>>

ReadRow ==
  /\ PrintAt("next")
  /\ print' = [print EXCEPT !.at = "column", !.y = cursor_y]
  /\ text' = IF raced THEN text ELSE AddChar(text, Current)
  /\ UNCHANGED <<lit, cursor_x, cursor_y, raced>>

ReadColumn ==
  /\ PrintAt("column")
  /\ print' = [print EXCEPT !.at = "draw", !.x = cursor_x]
  /\ UNCHANGED <<lit, cursor_x, cursor_y, text, raced>>

Draw ==
  /\ PrintAt("draw")
  /\ lit' = Drawn(lit, Current, print.x, print.y)
  /\ print' = [print EXCEPT !.at = "write"]
  /\ UNCHANGED <<cursor_x, cursor_y, text, raced>>

PrintNext == [rest |-> Tail(print.rest), at |-> "next", x |-> 0, y |-> 0]

WriteColumn ==
  /\ PrintAt("write")
  /\ cursor_x' = NextX(Current, print.x)
  /\ print' = CASE ~BreaksLine(Current, print.x) -> PrintNext
                [] BreaksLine(Current, print.x) /\ IsLastRow(print.y) ->
                     [print EXCEPT !.at = "scroll"]
                [] OTHER -> [print EXCEPT !.at = "row"]
  /\ UNCHANGED <<lit, cursor_y, text, raced>>

\* Mutated: the row is read again.
RowBelowCurrent(y) == cursor_y + CellHeight

\* The row below the one that was read.
RowBelow(y) == y + CellHeight

WriteRow ==
  /\ PrintAt("row")
  /\ cursor_y' = RowBelow(print.y)
  /\ print' = PrintNext
  /\ UNCHANGED <<lit, cursor_x, text, raced>>

Scroll ==
  /\ PrintAt("scroll")
  /\ lit' = ScrollMoves(lit)
  /\ print' = [print EXCEPT !.at = "clear"]
  /\ UNCHANGED <<cursor_x, cursor_y, text, raced>>

Clear ==
  /\ PrintAt("clear")
  /\ lit' = ScrollClears(lit)
  /\ print' = PrintNext
  /\ UNCHANGED <<cursor_x, cursor_y, text, raced>>

PrintStep ==
  \/ ReadRow \/ ReadColumn \/ Draw \/ WriteColumn \/ WriteRow \/ Scroll \/ Clear

\* After screen_init and screen_set_font_scale, on a dark frame buffer.
ScreenInit ==
  /\ lit = {}
  /\ cursor_x = 0 /\ cursor_y = 0
  /\ print = [rest |-> <<>>, at |-> "next", x |-> 0, y |-> 0]
  /\ text = << <<>> >>
  /\ raced = FALSE

-----------------------------------------------------------------------------
IsWholeCells == width % CellWidth = 0 /\ height % CellHeight = 0

(***************************************************************************)
(* On a screen of whole cells, the cursor is always at a cell of it, and   *)
(* nothing is lit behind the frame buffer, whatever the interrupt prints   *)
(* between two steps of screen_putch (screen.c:189-201).                   *)
(***************************************************************************)
StaysOnScreen ==
  IsWholeCells =>
    /\ cursor_x + CellWidth <= width
    /\ cursor_y + CellHeight <= height
    /\ \A a \in lit : a < height * pitch

(***************************************************************************)
(* Between characters, the screen shows the last lines of the text and     *)
(* nothing else, and the cursor is behind it, unless an interrupt has      *)
(* printed in the middle of a character (screen.c:170-231, with memmove    *)
(* over a region that overlaps itself).                                    *)
(***************************************************************************)
ShowsTheText ==
  IsWholeCells /\ ~raced /\ print.at = "next" =>
    /\ lit = Shown(text)
    /\ cursor_x = CellWidth * Len(Last(text))
    /\ cursor_y = CellHeight * (Len(text) - 1)
=============================================================================
