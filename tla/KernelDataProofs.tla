-------------------------- MODULE KernelDataProofs --------------------------
(***************************************************************************)
(* Proofs about what Kernel shows and reads, for any size of the screen,   *)
(* any font, any messages and any headers: what is printed stays on the    *)
(* screen, the screen shows the last lines of the text unless an interrupt *)
(* has printed in the middle of a character, and gpt_init notices damage   *)
(* to a header.                                                            *)
(***************************************************************************)
EXTENDS KernelProofs, LoopProofs, SequenceTheorems

-----------------------------------------------------------------------------
(***************************************************************************)
(* The screen                                                              *)
(***************************************************************************)

Chars == DOMAIN font8x8_buff \cup {NL}

LEMMA CellFacts ==
  /\ width \in Nat \ {0} /\ height \in Nat \ {0} /\ pitch \in Nat /\ pitch >= width
  /\ FONT_WIDTH \in Nat \ {0} /\ FONT_HEIGHT \in Nat \ {0} /\ font_scale \in Nat \ {0}
  /\ CellWidth \in Nat \ {0} /\ CellHeight \in Nat \ {0}
  /\ \A ch \in DOMAIN font8x8_buff : font8x8_buff[ch] \subseteq Bits
<1>1. \A m, n \in Nat \ {0} : m * n \in Nat \ {0}
  OBVIOUS
<1> QED BY <1>1, FrameAssumption DEF CellWidth, CellHeight

\* The next cell of a row or column of whole cells is on it, or the last was the last.
LEMMA NextCell ==
  ASSUME NEW x \in Nat, NEW c \in Nat \ {0}, NEW w \in Nat,
         x % c = 0, w % c = 0, x + c < w
  PROVE  (x + c) % c = 0 /\ x + c + c <= w
<1>1. PICK q \in Nat : x = q * c
  OBVIOUS
<1>2. PICK r \in Nat : w = r * c
  OBVIOUS
<1>3. (q + 1) * c = q * c + c /\ (q + 1) * c + c = (q + 2) * c
  OBVIOUS
<1>4. x + c = (q + 1) * c /\ x + c + c = (q + 2) * c
  BY <1>1, <1>3
<1>5. q + 2 <= r
  <2>1. ASSUME r <= q + 1 PROVE FALSE
    <3>1. r * c <= (q + 1) * c
      BY <2>1
    <3> QED BY <1>2, <1>4, <3>1
  <2> QED BY <2>1
<1>6. (q + 2) * c <= r * c
  BY <1>5
<1>7. ((q + 1) * c) % c = 0
  <2>1. \A k \in Nat : (k * c + 0) % c = 0
    OBVIOUS
  <2>2. q + 1 \in Nat /\ (q + 1) * c = (q + 1) * c + 0
    OBVIOUS
  <2> QED BY <2>1, <2>2
<1> QED BY <1>2, <1>4, <1>6, <1>7

\* A cell of the screen, and pixels that are not behind it.
OnRow(x) == x \in Nat /\ x % CellWidth = 0 /\ x + CellWidth <= width
OnColumn(y) == y \in Nat /\ y % CellHeight = 0 /\ y + CellHeight <= height
LitOk(l) == \A a \in l : a \in Int /\ a < height * pitch

Good(s) == LitOk(s.lit) /\ OnRow(s.x) /\ OnColumn(s.y)

LEMMA FirstCell == IsWholeCells => OnRow(0) /\ OnColumn(0)
<1>1. ASSUME NEW w \in Nat \ {0}, NEW c \in Nat \ {0}, w % c = 0
      PROVE  0 % c = 0 /\ 0 + c <= w
  <2>1. PICK q \in Nat : w = q * c
    BY <1>1
  <2>2. q >= 1
    BY <2>1
  <2>3. q * c >= 1 * c
    BY <2>2
  <2> QED BY <2>1, <2>3
<1> QED BY <1>1, CellFacts DEF IsWholeCells, OnRow, OnColumn

LEMMA NextXIsOnRow ==
  ASSUME IsWholeCells, NEW ch, NEW x, OnRow(x)
  PROVE  OnRow(NextX(ch, x))
<1>1. CASE BreaksLine(ch, x)
  BY <1>1, FirstCell DEF NextX
<1>2. CASE ~BreaksLine(ch, x)
  <2>1. x \in Nat /\ x + CellWidth < width /\ NextX(ch, x) = x + CellWidth
    BY <1>2, CellFacts DEF BreaksLine, NextX, OnRow
  <2>2. (x + CellWidth) % CellWidth = 0 /\ x + CellWidth + CellWidth <= width
    BY <2>1, CellFacts, NextCell DEF OnRow, IsWholeCells
  <2> QED BY <2>1, <2>2, CellFacts DEF OnRow
<1> QED BY <1>1, <1>2

LEMMA NextRowIsOnColumn ==
  ASSUME IsWholeCells, NEW y, OnColumn(y), ~IsLastRow(y)
  PROVE  OnColumn(y + CellHeight)
<1>1. y \in Nat /\ y + CellHeight < height
  BY CellFacts DEF IsLastRow, OnColumn
<1>2. (y + CellHeight) % CellHeight = 0 /\ y + CellHeight + CellHeight <= height
  BY <1>1, CellFacts, NextCell DEF OnColumn, IsWholeCells
<1> QED BY <1>1, <1>2, CellFacts DEF OnColumn

\* The pixels of a glyph at a cell are pixels of the frame buffer.
LEMMA GlyphIsOnScreen ==
  ASSUME NEW ch \in DOMAIN font8x8_buff, NEW x, NEW y, OnRow(x), OnColumn(y)
  PROVE  LitOk(Glyph(ch, x, y))
<1> SUFFICES ASSUME NEW bit \in font8x8_buff[ch],
                    NEW dx \in 0 .. font_scale - 1, NEW dy \in 0 .. font_scale - 1
             PROVE  LET a == pitch * (y + bit[1] * font_scale + dy) + x
                             + bit[2] * font_scale + dx
                    IN  a \in Int /\ a < height * pitch
  BY DEF Glyph, LitOk
<1> DEFINE r == bit[1] * font_scale + dy
           c == bit[2] * font_scale + dx
<1>1. bit[1] \in 0 .. FONT_HEIGHT - 1 /\ bit[2] \in 0 .. FONT_WIDTH - 1
  BY CellFacts DEF Bits
<1>2. ASSUME NEW n \in Nat \ {0}, NEW k \in 0 .. n - 1, NEW d \in 0 .. font_scale - 1
      PROVE  k * font_scale + d \in Nat /\ k * font_scale + d < n * font_scale
  <2>1. font_scale \in Nat \ {0}
    BY CellFacts
  <2>2. k * font_scale \in Nat /\ (k + 1) * font_scale = k * font_scale + font_scale
    BY <2>1
  <2>3. (k + 1) * font_scale <= n * font_scale
    BY <2>1
  <2> QED BY <2>1, <2>2, <2>3
<1>3. r \in Nat /\ r < CellHeight /\ c \in Nat /\ c < CellWidth
  BY <1>1, <1>2, CellFacts DEF CellHeight, CellWidth
<1>4. pitch * (y + bit[1] * font_scale + dy) + x + bit[2] * font_scale + dx
        = pitch * (y + r) + (x + c)
  <2>1. /\ bit[1] * font_scale \in Nat /\ bit[2] * font_scale \in Nat
    BY <1>1, CellFacts
  <2>2. y + bit[1] * font_scale + dy = y + r
    BY <2>1 DEF OnColumn
  <2>3. pitch * (y + r) \in Nat
    BY <1>3, CellFacts DEF OnColumn
  <2> DEFINE p == pitch * (y + r)
             b == bit[2] * font_scale
  <2>4. p \in Nat /\ b \in Nat /\ c = b + dx /\ x \in Nat
    BY <2>1, <2>3 DEF OnRow
  <2> HIDE DEF p, b, c
  <2>5. p + x + b + dx = p + (x + c)
    BY <2>4
  <2> QED BY <2>2, <2>5 DEF p, b
<1> HIDE DEF r, c
<1> DEFINE row == y + r
           col == x + c
<1>5. row \in Nat /\ row + 1 <= height /\ col \in Nat /\ col < pitch
  BY <1>3, CellFacts DEF OnRow, OnColumn
<1> HIDE DEF row, col
<1>6. pitch * row + col \in Int /\ pitch * row + col < height * pitch
  <2>1. pitch * (row + 1) = pitch * row + pitch /\ pitch * row \in Nat
    BY <1>5, CellFacts
  <2>2. pitch * (row + 1) <= pitch * height
    BY <1>5, CellFacts
  <2>3. pitch * height = height * pitch
    BY CellFacts
  <2> QED BY <1>5, <2>1, <2>2, <2>3, CellFacts
<1> QED BY <1>4, <1>6 DEF row, col

LEMMA DrawnIsOnScreen ==
  ASSUME NEW l, LitOk(l), NEW ch \in Chars, NEW x, NEW y, OnRow(x), OnColumn(y)
  PROVE  LitOk(Drawn(l, ch, x, y))
<1>1. CASE ch = NL
  BY <1>1 DEF Drawn
<1>2. CASE ch # NL
  <2>1. LitOk(Glyph(ch, x, y))
    BY <1>2, GlyphIsOnScreen DEF Chars
  <2> QED BY <1>2, <2>1 DEF Drawn, LitOk
<1> QED BY <1>1, <1>2

\* What memmove writes lies in its destination, whatever it reads.
LEMMA ScrollIsOnScreen ==
  ASSUME NEW l, LitOk(l)
  PROVE  LitOk(ScrollMoves(l)) /\ LitOk(ScrollClears(l))
<1>1. ASSUME NEW n, NEW src, NEW a \in Memmove(l, 0, src, n)
      PROVE  a \in l \/ (\E i \in 0 .. n - 1 : a = 0 + i)
  BY DEF Memmove
<1>2. BytesToMove \in Int /\ BytesToMove <= height * pitch /\ height * pitch \in Int
  <2>1. (height - CellHeight) * pitch = height * pitch - CellHeight * pitch
    BY CellFacts
  <2>2. height * pitch \in Nat /\ CellHeight * pitch \in Nat
    BY CellFacts
  <2> QED BY <2>1, <2>2 DEF BytesToMove
<1>3. ASSUME NEW a \in ScrollMoves(l) PROVE a \in Int /\ a < height * pitch
  <2>1. a \in l \/ (\E i \in 0 .. BytesToMove - 1 : a = 0 + i)
    BY <1>1 DEF ScrollMoves
  <2>2. CASE a \in l
    BY <2>2 DEF LitOk
  <2>3. CASE \E i \in 0 .. BytesToMove - 1 : a = 0 + i
    BY <1>2, <2>3
  <2> QED BY <2>1, <2>2, <2>3
<1> QED BY <1>3 DEF ScrollClears, LitOk

LEMMA PutchKeeps ==
  ASSUME IsWholeCells, NEW s, Good(s), NEW ch \in Chars
  PROVE  Good(Putch(s, ch))
<1> DEFINE l == Drawn(s.lit, ch, s.x, s.y)
           p == Putch(s, ch)
<1>1. /\ LitOk(l) /\ OnRow(NextX(ch, s.x))
  BY DrawnIsOnScreen, NextXIsOnRow DEF Good
<1>2. /\ p.lit = IF BreaksLine(ch, s.x) /\ IsLastRow(s.y)
                 THEN ScrollClears(ScrollMoves(l)) ELSE l
      /\ p.x = NextX(ch, s.x)
      /\ p.y = IF BreaksLine(ch, s.x) /\ ~IsLastRow(s.y) THEN s.y + CellHeight ELSE s.y
  BY DEF Putch
<1>3. LitOk(ScrollClears(ScrollMoves(l)))
  BY <1>1, ScrollIsOnScreen
<1>4. ~IsLastRow(s.y) => OnColumn(s.y + CellHeight)
  BY NextRowIsOnColumn DEF Good
<1> HIDE DEF p, l
<1>5. LitOk(p.lit) /\ OnRow(p.x) /\ OnColumn(p.y)
  BY <1>1, <1>2, <1>3, <1>4 DEF Good
<1> QED BY <1>5 DEF Good, p

\* The function that Printed computes has a value at every character.
IsAfter(f, s, chars) ==
  f = [i \in 0 .. Len(chars) |-> IF i = 0 THEN s ELSE Putch(f[i - 1], chars[i])]

LEMMA PrintedIsDefined ==
  ASSUME NEW s, NEW chars \in Seq(Chars)
  PROVE  \E f : IsAfter(f, s, chars)
<1> DEFINE Is(f, n) == f = [i \in 0 .. n |-> IF i = 0 THEN s
                                             ELSE Putch(f[i - 1], chars[i])]
           T == {n \in Nat : \E f : Is(f, n)}
<1>1. 0 \in T
  <2>1. Is([i \in 0 .. 0 |-> s], 0)
    OBVIOUS
  <2> QED BY <2>1
<1>2. ASSUME NEW n \in T PROVE n + 1 \in T
  <2>1. n \in Nat /\ n + 1 \in Nat
    OBVIOUS
  <2>2. PICK f : Is(f, n)
    BY <1>2
  <2> DEFINE g == [i \in 0 .. n + 1 |-> IF i = n + 1 THEN Putch(f[n], chars[n + 1])
                                        ELSE f[i]]
  <2>3. ASSUME NEW i \in 0 .. n + 1
        PROVE  g[i] = IF i = 0 THEN s ELSE Putch(g[i - 1], chars[i])
    <3>1. CASE i = n + 1
      <4>1. i - 1 = n /\ i # 0 /\ n \in 0 .. n + 1 /\ n # n + 1
        BY <2>1, <3>1
      <4>2. g[i] = Putch(f[n], chars[n + 1]) /\ g[n] = f[n]
        BY <3>1, <4>1
      <4> QED BY <3>1, <4>1, <4>2
    <3>2. CASE i = 0
      <4>1. g[i] = f[i] /\ 0 \in 0 .. n
        BY <2>1, <3>2
      <4>2. f[0] = s
        BY <2>2, <4>1
      <4> QED BY <3>2, <4>1, <4>2
    <3>3. CASE i \in 1 .. n
      <4>1. i # 0 /\ i # n + 1 /\ i - 1 # n + 1 /\ i \in 0 .. n /\ i - 1 \in 0 .. n + 1
        BY <2>1, <3>3
      <4>2. g[i] = f[i] /\ g[i - 1] = f[i - 1]
        BY <4>1
      <4>3. f[i] = Putch(f[i - 1], chars[i])
        BY <2>2, <4>1
      <4> QED BY <4>1, <4>2, <4>3
    <3>4. i = n + 1 \/ i = 0 \/ i \in 1 .. n
      BY <2>1
    <3> QED BY <3>1, <3>2, <3>3, <3>4
  <2>4. Is(g, n + 1)
    <3>1. g = [i \in 0 .. n + 1 |-> g[i]]
      OBVIOUS
    <3> HIDE DEF g
    <3> QED BY <2>3, <3>1
  <2> HIDE DEF g
  <2> QED BY <2>1, <2>4
<1>3. T = Nat
  <2> HIDE DEF Is
  <2>1. T \subseteq Nat
    OBVIOUS
  <2> HIDE DEF T
  <2> QED BY <1>1, <1>2, <2>1, NatSet
<1>4. Len(chars) \in Nat
  OBVIOUS
<1>5. PICK f : Is(f, Len(chars))
  BY <1>3, <1>4
<1> QED BY <1>5 DEF IsAfter

LEMMA PrintedSteps ==
  ASSUME NEW s, NEW chars \in Seq(Chars)
  PROVE  \E f : /\ f[0] = s /\ Printed(s, chars) = f[Len(chars)]
                /\ \A i \in 1 .. Len(chars) : f[i] = Putch(f[i - 1], chars[i])
<1> DEFINE after == CHOOSE f : IsAfter(f, s, chars)
<1>1. Printed(s, chars) = after[Len(chars)]
  BY DEF Printed, IsAfter
<1>2. Len(chars) \in Nat
  OBVIOUS
<1>3. IsAfter(after, s, chars)
  BY PrintedIsDefined
<1> HIDE DEF after
<1>4. after[0] = s /\ \A i \in 1 .. Len(chars) : after[i] = Putch(after[i - 1], chars[i])
  BY <1>2, <1>3 DEF IsAfter
<1> QED BY <1>1, <1>4

LEMMA PrintedKeeps ==
  ASSUME IsWholeCells, NEW s, Good(s), NEW chars \in Seq(Chars)
  PROVE  Good(Printed(s, chars))
<1>1. PICK after : /\ after[0] = s /\ Printed(s, chars) = after[Len(chars)]
                   /\ \A i \in 1 .. Len(chars) : after[i] = Putch(after[i - 1], chars[i])
  BY PrintedSteps
<1>2. Len(chars) \in Nat
  OBVIOUS
<1> DEFINE T == {n \in Nat : n <= Len(chars) => Good(after[n])}
<1>5. 0 \in T
  BY <1>1
<1>6. ASSUME NEW n \in T PROVE n + 1 \in T
  <2>1. n \in Nat /\ n + 1 \in Nat
    OBVIOUS
  <2>2. SUFFICES ASSUME n + 1 <= Len(chars) PROVE Good(after[n + 1])
    BY <2>1
  <2>3. n + 1 \in 1 .. Len(chars) /\ (n + 1) - 1 = n /\ n <= Len(chars)
    BY <1>2, <2>1, <2>2
  <2>4. Good(after[n]) /\ chars[n + 1] \in Chars
    BY <2>3
  <2>5. after[n + 1] = Putch(after[n], chars[n + 1])
    BY <1>1, <2>3
  <2> QED BY <2>4, <2>5, PutchKeeps
<1>7. T = Nat
  <2>1. T \subseteq Nat
    OBVIOUS
  <2> HIDE DEF T
  <2> QED BY <1>5, <1>6, <2>1, NatSet
<1>8. Len(chars) \in T
  BY <1>2, <1>7
<1> QED BY <1>1, <1>2, <1>8

(***************************************************************************)
(* The cursor, what the kernel's screen_print has read of it, and the      *)
(* pixels, at every step                                                   *)
(***************************************************************************)

PrintSteps == {"next", "column", "draw", "write", "row", "scroll", "clear"}

PrintOk ==
  /\ print \in [rest : Seq(Chars), at : PrintSteps, x : Nat, y : Nat]
  /\ OnRow(print.x) /\ OnColumn(print.y)
  /\ print.at = "row" => ~IsLastRow(print.y)

ScreenOk == LitOk(lit) /\ OnRow(cursor_x) /\ OnColumn(cursor_y)

ScreenInv == IsWholeCells => ScreenOk /\ PrintOk

LEMMA PrintsStep ==
  ASSUME IsWholeCells, ScreenOk, NEW chars \in Seq(Chars), Prints(chars)
  PROVE  ScreenOk'
<1> DEFINE s0 == [lit |-> lit, x |-> cursor_x, y |-> cursor_y]
           s == Printed(s0, chars)
<1>1. Good(s0)
  BY DEF Good, ScreenOk
<1> HIDE DEF s0
<1>2. Good(s)
  BY <1>1, PrintedKeeps
<1>3. lit' = s.lit /\ cursor_x' = s.x /\ cursor_y' = s.y
  BY DEF Prints, s0
<1> HIDE DEF s
<1> QED BY <1>2, <1>3 DEF Good, ScreenOk, LitOk, OnRow, OnColumn

LEMMA PrintAtOnceStep ==
  ASSUME ScreenInv, NEW chars \in Seq(Chars), PrintAtOnce(chars)
  PROVE  ScreenInv'
<1>1. IsWholeCells' = IsWholeCells
  BY DEF IsWholeCells
<1> SUFFICES ASSUME IsWholeCells PROVE ScreenOk' /\ PrintOk'
  BY <1>1 DEF ScreenInv
<1>2. ScreenOk'
  BY PrintsStep DEF PrintAtOnce, ScreenInv
<1>3. PrintOk'
  BY DEF PrintAtOnce, ScreenInv, PrintOk, OnRow, OnColumn, IsLastRow
<1> QED BY <1>2, <1>3

LEMMA EchoStep ==
  ASSUME ScreenInv, Echo(Letter)
  PROVE  ScreenInv'
<1>1. IsWholeCells' = IsWholeCells
  BY DEF IsWholeCells
<1> SUFFICES ASSUME IsWholeCells PROVE ScreenOk' /\ PrintOk'
  BY <1>1 DEF ScreenInv
<1>2. <<Letter>> \in Seq(Chars)
  BY MessageAssumption DEF Chars
<1>3. ScreenOk'
  BY <1>2, PrintsStep DEF Echo, ScreenInv
<1>4. PrintOk'
  BY DEF Echo, ScreenInv, PrintOk, OnRow, OnColumn, IsLastRow
<1> QED BY <1>3, <1>4

LEMMA StartPrintStep ==
  ASSUME ScreenInv, StartPrint(Prompt)
  PROVE  ScreenInv'
<1>1. Prompt \in Seq(Chars)
  BY MessageAssumption DEF Chars
<1> QED BY <1>1 DEF StartPrint, ScreenInv, ScreenOk, PrintOk, OnRow, OnColumn, LitOk,
                    IsLastRow, IsWholeCells

LEMMA ScreenUnchanged ==
  ASSUME ScreenInv, UNCHANGED screenVars
  PROVE  ScreenInv'
BY DEF ScreenInv, ScreenOk, PrintOk, OnRow, OnColumn, LitOk, IsLastRow, IsWholeCells,
       screenVars

\* An interrupt may have moved the cursor between any two of these.
LEMMA PrintStepStep ==
  ASSUME ScreenInv, PrintStep
  PROVE  ScreenInv'
<1>1. IsWholeCells' = IsWholeCells
  BY DEF IsWholeCells
<1> SUFFICES ASSUME IsWholeCells PROVE ScreenOk' /\ PrintOk'
  BY <1>1 DEF ScreenInv
<1> USE DEF PrintAt
<1>2. ScreenOk /\ PrintOk
  BY DEF ScreenInv
<1>3. Printing => Current \in Chars /\ PrintNext \in [rest : Seq(Chars), at : PrintSteps,
                                                      x : Nat, y : Nat]
                  /\ PrintNext.at = "next" /\ PrintNext.x = 0 /\ PrintNext.y = 0
  <2>1. print.rest \in Seq(Chars)
    BY <1>2 DEF PrintOk
  <2>2. print.rest # <<>> => Head(print.rest) \in Chars /\ Tail(print.rest) \in Seq(Chars)
    BY <2>1
  <2> QED BY <2>2 DEF Printing, Current, PrintNext, PrintSteps
<1>4. OnRow(0) /\ OnColumn(0)
  BY FirstCell
<1>5. ASSUME Printing, print' = PrintNext PROVE PrintOk'
  <2>1. print'.x = 0 /\ print'.y = 0 /\ print'.at = "next"
    BY <1>3, <1>5
  <2>2. OnRow(print.x)' /\ OnColumn(print.y)'
    BY <1>4, <2>1 DEF OnRow, OnColumn
  <2> QED BY <1>3, <1>5, <2>1, <2>2 DEF PrintOk
<1>6. CASE ReadRow
  <2>1. ScreenOk'
    BY <1>2, <1>6 DEF ReadRow, ScreenOk, LitOk, OnRow, OnColumn
  <2>2. cursor_y \in Nat
    BY <1>2 DEF ScreenOk, OnColumn
  <2>3. /\ print' \in [rest : Seq(Chars), at : PrintSteps, x : Nat, y : Nat]
        /\ print'.x = print.x /\ print'.y = cursor_y /\ print'.at = "column"
    BY <1>2, <1>6, <2>2 DEF ReadRow, PrintOk, PrintSteps
  <2>4. OnRow(print.x)' /\ OnColumn(print.y)'
    BY <1>2, <2>3 DEF ScreenOk, PrintOk, OnRow, OnColumn
  <2> QED BY <2>1, <2>3, <2>4 DEF PrintOk
<1>7. CASE ReadColumn
  <2>1. ScreenOk'
    BY <1>2, <1>7 DEF ReadColumn, ScreenOk, LitOk, OnRow, OnColumn
  <2>2. cursor_x \in Nat
    BY <1>2 DEF ScreenOk, OnRow
  <2>3. /\ print' \in [rest : Seq(Chars), at : PrintSteps, x : Nat, y : Nat]
        /\ print'.x = cursor_x /\ print'.y = print.y /\ print'.at = "draw"
    BY <1>2, <1>7, <2>2 DEF ReadColumn, PrintOk, PrintSteps
  <2>4. OnRow(print.x)' /\ OnColumn(print.y)'
    BY <1>2, <2>3 DEF ScreenOk, PrintOk, OnRow, OnColumn
  <2> QED BY <2>1, <2>3, <2>4 DEF PrintOk
<1>8. CASE Draw
  <2>1. LitOk(Drawn(lit, Current, print.x, print.y))
    BY <1>2, <1>3, <1>8, DrawnIsOnScreen DEF Draw, ScreenOk, PrintOk
  <2>2. ScreenOk'
    BY <1>2, <1>8, <2>1 DEF Draw, ScreenOk, LitOk, OnRow, OnColumn
  <2>3. /\ print' \in [rest : Seq(Chars), at : PrintSteps, x : Nat, y : Nat]
        /\ print'.x = print.x /\ print'.y = print.y /\ print'.at = "write"
    BY <1>2, <1>8 DEF Draw, PrintOk, PrintSteps
  <2>4. OnRow(print.x)' /\ OnColumn(print.y)'
    BY <1>2, <2>3 DEF PrintOk, OnRow, OnColumn
  <2> QED BY <2>2, <2>3, <2>4 DEF PrintOk
<1>9. CASE WriteColumn
  <2>1. OnRow(NextX(Current, print.x))
    BY <1>2, NextXIsOnRow DEF PrintOk
  <2>2. ScreenOk'
    BY <1>2, <1>9, <2>1 DEF WriteColumn, ScreenOk, LitOk, OnRow, OnColumn
  <2>3. CASE print' = PrintNext
    BY <1>5, <1>9, <2>2, <2>3 DEF WriteColumn
  <2>4. CASE IsLastRow(print.y) /\ print' = [print EXCEPT !.at = "scroll"]
    <3>1. /\ print' \in [rest : Seq(Chars), at : PrintSteps, x : Nat, y : Nat]
          /\ print'.x = print.x /\ print'.y = print.y /\ print'.at = "scroll"
      BY <1>2, <2>4 DEF PrintOk, PrintSteps
    <3>2. OnRow(print.x)' /\ OnColumn(print.y)'
      BY <1>2, <3>1 DEF PrintOk, OnRow, OnColumn
    <3> QED BY <2>2, <3>1, <3>2 DEF PrintOk
  <2>5. CASE ~IsLastRow(print.y) /\ print' = [print EXCEPT !.at = "row"]
    <3>1. /\ print' \in [rest : Seq(Chars), at : PrintSteps, x : Nat, y : Nat]
          /\ print'.x = print.x /\ print'.y = print.y /\ print'.at = "row"
      BY <1>2, <2>5 DEF PrintOk, PrintSteps
    <3>2. OnRow(print.x)' /\ OnColumn(print.y)' /\ ~IsLastRow(print.y)'
      BY <1>2, <2>5, <3>1 DEF PrintOk, OnRow, OnColumn, IsLastRow
    <3> QED BY <2>2, <3>1, <3>2 DEF PrintOk
  <2> QED BY <1>9, <2>3, <2>4, <2>5 DEF WriteColumn
<1>10. CASE WriteRow
  <2>1. OnColumn(print.y + CellHeight)
    BY <1>2, <1>10, NextRowIsOnColumn DEF WriteRow, PrintOk
  <2>2. ScreenOk'
    BY <1>2, <1>10, <2>1 DEF WriteRow, RowBelow, ScreenOk, LitOk, OnRow, OnColumn
  <2> QED BY <1>5, <1>10, <2>2 DEF WriteRow
<1>11. CASE Scroll
  <2>1. LitOk(ScrollMoves(lit))
    BY <1>2, ScrollIsOnScreen DEF ScreenOk
  <2>2. ScreenOk'
    BY <1>2, <1>11, <2>1 DEF Scroll, ScreenOk, LitOk, OnRow, OnColumn
  <2>3. /\ print' \in [rest : Seq(Chars), at : PrintSteps, x : Nat, y : Nat]
        /\ print'.x = print.x /\ print'.y = print.y /\ print'.at = "clear"
    BY <1>2, <1>11 DEF Scroll, PrintOk, PrintSteps
  <2>4. OnRow(print.x)' /\ OnColumn(print.y)'
    BY <1>2, <2>3 DEF PrintOk, OnRow, OnColumn
  <2> QED BY <2>2, <2>3, <2>4 DEF PrintOk
<1>12. CASE Clear
  <2>1. LitOk(ScrollClears(lit))
    BY <1>2, ScrollIsOnScreen DEF ScreenOk
  <2>2. ScreenOk'
    BY <1>2, <1>12, <2>1 DEF Clear, ScreenOk, LitOk, OnRow, OnColumn
  <2> QED BY <1>5, <1>12, <2>2 DEF Clear
<1> QED BY <1>6, <1>7, <1>8, <1>9, <1>10, <1>11, <1>12 DEF PrintStep

LEMMA ScreenInit0 == ScreenInit => ScreenInv
<1> SUFFICES ASSUME ScreenInit, IsWholeCells PROVE ScreenOk /\ PrintOk
  BY DEF ScreenInv
<1>1. ScreenOk
  BY FirstCell DEF ScreenInit, ScreenOk, LitOk
<1>2. <<>> \in Seq(Chars)
  OBVIOUS
<1>3. PrintOk
  BY <1>2, FirstCell DEF ScreenInit, PrintOk, PrintSteps
<1> QED BY <1>1, <1>3

\* What kmain and the interrupts print is one of the above.
LEMMA NextKeepsScreen == ScreenInv /\ [Next]_vars => ScreenInv'
<1> SUFFICES ASSUME ScreenInv, [Next]_vars PROVE ScreenInv'
  OBVIOUS
<1>1. Info \in Seq(Chars) /\ Fatal \in Seq(Chars)
  BY MessageAssumption DEF Chars
<1>2. CASE UNCHANGED screenVars
  BY <1>2, ScreenUnchanged
<1>3. CASE PrintAtOnce(Info) \/ PrintAtOnce(Fatal)
  BY <1>1, <1>3, PrintAtOnceStep
<1>4. CASE Echo(Letter)
  BY <1>4, EchoStep
<1>5. CASE StartPrint(Prompt)
  BY <1>5, StartPrintStep
<1>6. CASE PrintStep
  BY <1>6, PrintStepStep
<1>7. CASE KernelStep
  <2>1. ASSUME NEW s, Reports(s) PROVE PrintAtOnce(Info)
    BY <2>1 DEF Reports
  <2>2. Fails => PrintAtOnce(Fatal)
    BY DEF Fails
  <2>3. InitIdt \/ EnablesInterrupts \/ InitMemory \/ InitDisk => PrintAtOnce(Info)
    BY <2>1 DEF InitIdt, EnablesInterrupts, InitMemory, InitDisk
  <2>4. InitPic => PrintAtOnce(Info) \/ UNCHANGED screenVars
    BY <2>1 DEF InitPic
  <2>5. InitKeyboard \/ KeyboardIsInitialised \/ PromptIsPrinted \/ DiskPollsForever =>
          UNCHANGED screenVars
    BY DEF InitKeyboard, KeyboardIsInitialised, PromptIsPrinted, DiskPollsForever
  <2>6. KeyboardFails \/ InitFails \/ GptFails => PrintAtOnce(Fatal)
    BY <2>2 DEF KeyboardFails, InitFails, GptFails
  <2>7. GptIsInitialised => PrintAtOnce(Info)
    BY DEF GptIsInitialised
  <2>8. InitShell \/ PromptAgain => StartPrint(Prompt)
    BY DEF InitShell, PromptAgain
  <2>9. PrintPrompt => PrintStep
    BY DEF PrintPrompt
  <2> QED BY <1>2, <1>3, <1>5, <1>6, <1>7, <2>3, <2>4, <2>5, <2>6, <2>7, <2>8, <2>9
          DEF KernelStep
<1>8. CASE Interrupted
  <2>1. KeyIsIgnored \/ EnterIsTyped => UNCHANGED screenVars
    BY DEF KeyIsIgnored, EnterIsTyped
  <2>2. LetterIsTyped => Echo(Letter)
    BY DEF LetterIsTyped
  <2> QED BY <1>2, <1>3, <1>4, <1>8, <2>1, <2>2 DEF Interrupted
<1>9. CASE KeyboardWorks \/ Environment
  BY <1>2, <1>9 DEF KeyboardWorks, Environment
<1>10. CASE UNCHANGED vars
  BY <1>2, <1>10 DEF vars
<1> QED BY <1>7, <1>8, <1>9, <1>10 DEF Next

(***************************************************************************)
(* StaysOnScreen of every behaviour, for any size of the screen, any font  *)
(* and any messages: wherever between two steps of screen_putch an         *)
(* interrupt prints, the cursor stays at a cell of the screen and no pixel *)
(* is written behind the frame buffer (screen.c:170-201).                  *)
(***************************************************************************)
THEOREM CursorStays == Spec => []StaysOnScreen
<1>1. Init => ScreenInv
  BY ScreenInit0 DEF Init
<1>2. ScreenInv /\ [Next]_vars => ScreenInv'
  BY NextKeepsScreen
<1>3. ScreenInv => StaysOnScreen
  BY DEF ScreenInv, ScreenOk, StaysOnScreen, LitOk, OnRow, OnColumn
<1> QED BY <1>1, <1>2, <1>3, PTL DEF Spec

-----------------------------------------------------------------------------
(***************************************************************************)
(* The pixels of lines of text, one line to a row of cells                 *)
(***************************************************************************)

\* The screen is a grid of cells.
LEMMA GridFacts ==
  ASSUME IsWholeCells
  PROVE  /\ Columns \in Nat \ {0} /\ Rows \in Nat \ {0}
         /\ width = Columns * CellWidth /\ height = Rows * CellHeight
<1>1. ASSUME NEW w \in Nat \ {0}, NEW c \in Nat \ {0}, w % c = 0
      PROVE  w \div c \in Nat \ {0} /\ w = (w \div c) * c
  <2>1. PICK q \in Nat : w = q * c
    BY <1>1
  <2>2. w \div c = q
    BY <2>1
  <2>3. q # 0
    BY <2>1
  <2> QED BY <2>1, <2>2, <2>3
<1> QED BY <1>1, CellFacts DEF IsWholeCells, Columns, Rows

LEMMA GridCells ==
  ASSUME IsWholeCells, NEW i \in Nat
  PROVE  /\ i < Columns => OnRow(i * CellWidth)
         /\ i < Rows => OnColumn(i * CellHeight)
         /\ i < Columns => (i * CellWidth + CellWidth >= width <=> i + 1 = Columns)
         /\ i < Rows => (i * CellHeight + CellHeight >= height <=> i + 1 = Rows)
<1>1. ASSUME NEW n \in Nat \ {0}, NEW c \in Nat \ {0}, i < n
      PROVE  /\ i * c \in Nat /\ (i * c) % c = 0 /\ i * c + c <= n * c
             /\ i * c + c >= n * c <=> i + 1 = n
  <2>1. i * c \in Nat /\ (i + 1) * c = i * c + c
    OBVIOUS
  <2>2. (i + 1) * c <= n * c
    BY <1>1
  <2>3. (i * c) % c = 0
    <3>1. \A k \in Nat : (k * c + 0) % c = 0
      OBVIOUS
    <3>2. i * c = i * c + 0
      BY <2>1
    <3> QED BY <3>1, <3>2
  <2>4. i + 1 # n => i * c + c < n * c
    <3>1. SUFFICES ASSUME i + 1 # n PROVE i * c + c < n * c
      OBVIOUS
    <3>2. i + 2 <= n
      BY <1>1, <3>1
    <3>3. (i + 2) * c <= n * c
      BY <3>2
    <3>4. (i + 2) * c = (i + 1) * c + c
      OBVIOUS
    <3>5. n * c \in Nat
      OBVIOUS
    <3> QED BY <2>1, <3>3, <3>4, <3>5
  <2>5. i + 1 = n => i * c + c = n * c
    BY <2>1
  <2>6. n * c \in Nat
    OBVIOUS
  <2> QED BY <2>1, <2>2, <2>3, <2>4, <2>5, <2>6
<1> QED BY <1>1, GridFacts, CellFacts DEF OnRow, OnColumn

\* A pixel of a glyph, in the rows of its cell.
LEMMA GlyphRows ==
  ASSUME NEW ch \in DOMAIN font8x8_buff, NEW x, OnRow(x), NEW y \in Nat,
         NEW a \in Glyph(ch, x, y)
  PROVE  a \in Nat /\ pitch * y <= a /\ a < pitch * (y + CellHeight)
<1> PICK bit \in font8x8_buff[ch], dx \in 0 .. font_scale - 1, dy \in 0 .. font_scale - 1 :
      a = pitch * (y + bit[1] * font_scale + dy) + x + bit[2] * font_scale + dx
  BY DEF Glyph
<1> DEFINE r == bit[1] * font_scale + dy
           c == bit[2] * font_scale + dx
<1>1. bit[1] \in 0 .. FONT_HEIGHT - 1 /\ bit[2] \in 0 .. FONT_WIDTH - 1
  BY CellFacts DEF Bits
<1>2. ASSUME NEW n \in Nat \ {0}, NEW k \in 0 .. n - 1, NEW d \in 0 .. font_scale - 1
      PROVE  k * font_scale + d \in Nat /\ k * font_scale + d < n * font_scale
  <2>1. font_scale \in Nat \ {0}
    BY CellFacts
  <2>2. k * font_scale \in Nat /\ (k + 1) * font_scale = k * font_scale + font_scale
    BY <2>1
  <2>3. (k + 1) * font_scale <= n * font_scale
    BY <2>1
  <2> QED BY <2>1, <2>2, <2>3
<1>3. r \in Nat /\ r < CellHeight /\ c \in Nat /\ c < CellWidth
  BY <1>1, <1>2, CellFacts DEF CellHeight, CellWidth
<1>4. a = pitch * (y + r) + (x + c)
  <2>1. /\ bit[1] * font_scale \in Nat /\ bit[2] * font_scale \in Nat
    BY <1>1, CellFacts
  <2>2. y + bit[1] * font_scale + dy = y + r
    BY <2>1
  <2>3. pitch * (y + r) \in Nat
    BY <1>3, CellFacts
  <2> DEFINE p == pitch * (y + r)
             b == bit[2] * font_scale
  <2>4. p \in Nat /\ b \in Nat /\ c = b + dx /\ x \in Nat
    BY <2>1, <2>3 DEF OnRow
  <2> HIDE DEF p, b, c
  <2>5. p + x + b + dx = p + (x + c)
    BY <2>4
  <2> QED BY <2>2, <2>5 DEF p, b
<1> HIDE DEF r, c
<1> DEFINE row == y + r
           col == x + c
<1>5. row \in Nat /\ y <= row /\ row + 1 <= y + CellHeight /\ col \in Nat /\ col < pitch
  BY <1>3, CellFacts DEF OnRow
<1> HIDE DEF row, col
<1>6. a = pitch * row + col
  BY <1>4 DEF row, col
<1>7. /\ pitch * row \in Nat /\ pitch * (row + 1) = pitch * row + pitch
      /\ pitch * y <= pitch * row /\ pitch * (row + 1) <= pitch * (y + CellHeight)
      /\ pitch * y \in Nat /\ pitch * (y + CellHeight) \in Nat
  BY <1>5, CellFacts
<1> QED BY <1>5, <1>6, <1>7, CellFacts

\* The same glyph, one row of cells further down.
LEMMA GlyphBelow ==
  ASSUME NEW ch \in DOMAIN font8x8_buff, NEW x \in Nat, NEW y \in Nat
  PROVE  \A a : a \in Glyph(ch, x, y + CellHeight) <=>
                \E b \in Glyph(ch, x, y) : a = b + CellHeight * pitch
<1> DEFINE At(z, bit, dx, dy) ==
             pitch * (z + bit[1] * font_scale + dy) + x + bit[2] * font_scale + dx
<1>1. ASSUME NEW bit \in font8x8_buff[ch],
             NEW dx \in 0 .. font_scale - 1, NEW dy \in 0 .. font_scale - 1
      PROVE  At(y + CellHeight, bit, dx, dy) = At(y, bit, dx, dy) + CellHeight * pitch
  <2>1. bit[1] * font_scale \in Nat /\ bit[2] * font_scale \in Nat
    <3>1. bit[1] \in Nat /\ bit[2] \in Nat
      BY CellFacts DEF Bits
    <3> QED BY <3>1, CellFacts
  <2> DEFINE m == bit[1] * font_scale
             n == bit[2] * font_scale
  <2> HIDE DEF m, n
  <2>2. m \in Nat /\ n \in Nat
    BY <2>1 DEF m, n
  <2>3. pitch * (y + CellHeight + m + dy) = pitch * (y + m + dy) + CellHeight * pitch
    BY <2>2, CellFacts
  <2>4. pitch * (y + m + dy) \in Nat /\ CellHeight * pitch \in Nat
    BY <2>2, CellFacts
  <2>5. pitch * (y + CellHeight + m + dy) + x + n + dx
          = pitch * (y + m + dy) + x + n + dx + CellHeight * pitch
    BY <2>2, <2>3, <2>4
  <2> QED BY <2>5 DEF m, n
<1>2. \A z : Glyph(ch, x, z) =
               {At(z, bit, dx, dy) : bit \in font8x8_buff[ch], dx, dy \in 0 .. font_scale - 1}
  BY DEF Glyph
<1> HIDE DEF At
<1> QED BY <1>1, <1>2

Glyphs == DOMAIN font8x8_buff

\* Lines that the screen has room for.
Fits(t) ==
  /\ t \in Seq(Seq(Glyphs)) /\ Len(t) <= Rows
  /\ \A r \in 1 .. Len(t) : Len(t[r]) <= Columns

\* Lines with a cursor behind them.
LinesOk(t) == Fits(t) /\ Len(t) >= 1 /\ Len(t[Len(t)]) < Columns

CellOf(t, r, c) == Glyph(t[r][c], (c - 1) * CellWidth, (r - 1) * CellHeight)

LEMMA ShownPixels ==
  ASSUME IsWholeCells, NEW t, Fits(t)
  PROVE  \A a : a \in Shown(t) <=>
           \E r \in 1 .. Len(t) : \E c \in 1 .. Len(t[r]) : a \in CellOf(t, r, c)
<1> DEFINE P == {q \in (1 .. Rows) \X (1 .. Columns) :
                   q[1] <= Len(t) /\ q[2] <= Len(t[q[1]])}
<1>1. Len(t) \in Nat /\ \A r \in 1 .. Len(t) : t[r] \in Seq(Glyphs) /\ Len(t[r]) \in Nat
  BY DEF Fits
<1>2. \A r \in 1 .. Len(t) : \A c \in 1 .. Len(t[r]) : <<r, c>> \in P
  BY <1>1, GridFacts DEF Fits
<1>3. \A q \in P : q[1] \in 1 .. Len(t) /\ q[2] \in 1 .. Len(t[q[1]])
  BY <1>1, GridFacts
<1>4. Shown(t) = UNION {CellOf(t, p[1], p[2]) : p \in P}
  BY DEF Shown, CellOf
<1> HIDE DEF P
<1>5. ASSUME NEW a, NEW r \in 1 .. Len(t), NEW c \in 1 .. Len(t[r]), a \in CellOf(t, r, c)
      PROVE  a \in Shown(t)
  <2>1. <<r, c>> \in P /\ <<r, c>>[1] = r /\ <<r, c>>[2] = c
    BY <1>2
  <2> QED BY <1>4, <1>5, <2>1
<1>6. ASSUME NEW a \in Shown(t)
      PROVE  \E r \in 1 .. Len(t) : \E c \in 1 .. Len(t[r]) : a \in CellOf(t, r, c)
  <2>1. PICK p \in P : a \in CellOf(t, p[1], p[2])
    BY <1>4
  <2> QED BY <1>3, <2>1
<1> QED BY <1>5, <1>6

\* The pixels of a cell.
LEMMA CellPixels ==
  ASSUME IsWholeCells, NEW t, Fits(t), NEW r \in 1 .. Len(t), NEW c \in 1 .. Len(t[r]),
         NEW a \in CellOf(t, r, c)
  PROVE  /\ a \in Nat /\ a < height * pitch
         /\ r = 1 => a < CellHeight * pitch
<1>1. /\ t[r] \in Seq(Glyphs) /\ t[r][c] \in Glyphs
      /\ r - 1 \in Nat /\ c - 1 \in Nat /\ r - 1 < Rows /\ c - 1 < Columns
  <2>1. Len(t) \in Nat /\ t[r] \in Seq(Glyphs)
    BY DEF Fits
  <2>2. Len(t[r]) \in Nat /\ Len(t[r]) <= Columns /\ Len(t) <= Rows
    BY <2>1 DEF Fits
  <2> QED BY <2>1, <2>2, GridFacts
<1> DEFINE x == (c - 1) * CellWidth
           y == (r - 1) * CellHeight
<1>2. OnRow(x) /\ OnColumn(y)
  BY <1>1, GridCells
<1>3. r = 1 => y = 0
  BY CellFacts
<1>4. a \in Glyph(t[r][c], x, y)
  BY DEF CellOf
<1> HIDE DEF x, y
<1>5. y \in Nat /\ y + CellHeight <= height
  BY <1>2 DEF OnColumn
<1>6. a \in Nat /\ a < pitch * (y + CellHeight)
  BY <1>1, <1>2, <1>4, <1>5, GlyphRows DEF Glyphs
<1>7. /\ pitch * (y + CellHeight) <= pitch * height /\ pitch * height = height * pitch
      /\ pitch * (y + CellHeight) \in Nat /\ pitch * height \in Nat
      /\ pitch * CellHeight = CellHeight * pitch
  <2>1. \A m, n \in Nat : m <= n => pitch * m <= pitch * n /\ pitch * m \in Nat
                                     /\ pitch * n \in Nat /\ pitch * n = n * pitch
    BY CellFacts
  <2> QED BY <1>5, <2>1, CellFacts
<1> QED BY <1>3, <1>6, <1>7, CellFacts

\* Lines with the same first lines show the pixels of these, and those of the others.
LEMMA ShownAppended ==
  ASSUME IsWholeCells, NEW t, Fits(t), Len(t) < Rows
  PROVE  Fits(Append(t, <<>>)) /\ Shown(Append(t, <<>>)) = Shown(t)
<1> DEFINE u == Append(t, <<>>)
<1>1. /\ Len(t) \in Nat /\ Len(u) = Len(t) + 1 /\ u \in Seq(Seq(Glyphs))
      /\ \A r \in 1 .. Len(t) : u[r] = t[r]
      /\ u[Len(t) + 1] = <<>>
  BY DEF Fits
<1> HIDE DEF u
<1>2. \A r \in 1 .. Len(u) : r \in 1 .. Len(t) \/ r = Len(t) + 1
  BY <1>1
<1>3. Fits(u)
  <2>1. Len(u) <= Rows
    BY <1>1, GridFacts
  <2>2. \A r \in 1 .. Len(t) : Len(u[r]) <= Columns
    BY <1>1 DEF Fits
  <2>3. Len(u[Len(t) + 1]) <= Columns
    BY <1>1, GridFacts
  <2> QED BY <1>1, <1>2, <2>1, <2>2, <2>3 DEF Fits
<1>4. \A a : \A r \in 1 .. Len(u) : 
        (\E c \in 1 .. Len(u[r]) : a \in CellOf(u, r, c)) <=>
        (r \in 1 .. Len(t) /\ \E c \in 1 .. Len(t[r]) : a \in CellOf(t, r, c))
  <2>1. \A c : \A r \in 1 .. Len(t) : CellOf(u, r, c) = CellOf(t, r, c)
    BY <1>1 DEF CellOf
  <2>2. Len(u[Len(t) + 1]) = 0
    BY <1>1
  <2> QED BY <1>1, <1>2, <2>1, <2>2
<1>5. \A a : a \in Shown(u) <=> a \in Shown(t)
  <2>1. \A a : a \in Shown(u) <=>
                \E r \in 1 .. Len(u) : \E c \in 1 .. Len(u[r]) : a \in CellOf(u, r, c)
    BY <1>3, ShownPixels
  <2>2. \A a : a \in Shown(t) <=>
                \E r \in 1 .. Len(t) : \E c \in 1 .. Len(t[r]) : a \in CellOf(t, r, c)
    BY ShownPixels
  <2>3. \A r \in 1 .. Len(t) : r \in 1 .. Len(u)
    BY <1>1
  <2> QED BY <1>4, <2>1, <2>2, <2>3
<1> QED BY <1>3, <1>5 DEF u

\* A region moved to a lower address is moved as it was.
LEMMA MovedDown ==
  ASSUME NEW l, NEW src \in Nat \ {0}, NEW n \in Int
  PROVE  Memmove(l, 0, src, n) =
           {a \in l : a - 0 \notin 0 .. n - 1} \cup
           {0 + i : i \in {k \in 0 .. n - 1 : src + k \in l}}
<1> DEFINE D == 0 .. n - 1
           Is(f) == f = [i \in D |-> LET j == src + i - 0
                                     IN  IF j \in D /\ CopiedBefore(j, i, 0, src)
                                         THEN f[j] ELSE src + i \in l]
           moved == CHOOSE f : Is(f)
           direct == [i \in D |-> src + i \in l]
<1>1. \A i \in D : ~CopiedBefore(src + i - 0, i, 0, src)
  BY DEF CopiedBefore
<1>2. Is(direct)
  BY <1>1
<1>3. \A f : Is(f) => f = direct
  BY <1>1
<1>4. moved = direct
  <2> HIDE DEF Is, direct
  <2> QED BY <1>2, <1>3
<1>5. Memmove(l, 0, src, n) =
        {a \in l : a - 0 \notin 0 .. n - 1} \cup {0 + i : i \in {k \in 0 .. n - 1 : moved[k]}}
  BY DEF Memmove
<1> HIDE DEF moved
<1>6. \A k \in 0 .. n - 1 : moved[k] = (src + k \in l)
  BY <1>4
<1> QED BY <1>5, <1>6

\* A scroll of lines shows all of them but the first.
LEMMA ShownScrolled ==
  ASSUME IsWholeCells, NEW t, Fits(t), Len(t) = Rows, NEW u, Fits(u),
         Len(u) = Rows - 1, \A r \in 1 .. Len(u) : u[r] = t[r + 1]
  PROVE  ScrollClears(ScrollMoves(Shown(t))) = Shown(u)
<1> DEFINE shift == CellHeight * pitch
           n == BytesToMove
           l == Shown(t)
<1>1. /\ shift \in Nat \ {0} /\ n \in Int /\ n + shift = height * pitch
      /\ height * pitch \in Nat /\ n >= 0
  <2>1. pitch # 0 /\ CellHeight <= height
    BY CellFacts, FirstCell DEF OnColumn
  <2>2. (height - CellHeight) * pitch = height * pitch - CellHeight * pitch
    BY CellFacts
  <2>3. height * pitch \in Nat /\ CellHeight * pitch \in Nat \ {0}
    BY <2>1, CellFacts
  <2>4. \A k \in Nat : k * pitch >= 0
    BY CellFacts
  <2>5. height - CellHeight \in Nat
    BY <2>1, CellFacts
  <2> QED BY <2>2, <2>3, <2>4, <2>5 DEF BytesToMove
<1>2. ScrollMoves(l) = {a \in l : a - 0 \notin 0 .. n - 1} \cup
                       {0 + i : i \in {k \in 0 .. n - 1 : shift + k \in l}}
  <2> HIDE DEF shift, l
  <2>1. ScrollMoves(l) = Memmove(l, 0, shift, n)
    BY DEF ScrollMoves, shift
  <2> QED BY <1>1, <2>1, MovedDown
<1> HIDE DEF shift, n, l
<1>3. \A a \in l : a \in Nat /\ a < height * pitch
  BY CellPixels, ShownPixels DEF l
<1>4. \A a : a \in ScrollClears(ScrollMoves(l)) <=> a \in 0 .. n - 1 /\ shift + a \in l
  <2>1. \A a : a \in ScrollClears(ScrollMoves(l)) <=>
               a \in ScrollMoves(l) /\ (a < n \/ a >= height * pitch)
    BY DEF ScrollClears, n
  <2>2. \A a : a \in ScrollMoves(l) <=>
               \/ a \in l /\ a - 0 \notin 0 .. n - 1
               \/ a \in 0 .. n - 1 /\ shift + a \in l
    BY <1>1, <1>2
  <2>3. \A a \in l : a - 0 \notin 0 .. n - 1 => ~(a < n \/ a >= height * pitch)
    BY <1>1, <1>3
  <2>4. \A a \in 0 .. n - 1 : a < n
    BY <1>1
  <2> QED BY <2>1, <2>2, <2>3, <2>4
<1>5. Len(t) \in Nat /\ Len(u) \in Nat /\ Rows \in Nat \ {0}
  BY GridFacts DEF Fits
<1>6. ASSUME NEW r \in 1 .. Len(u), NEW c \in 1 .. Len(u[r])
      PROVE  \A a : a \in CellOf(t, r + 1, c) <=> \E b \in CellOf(u, r, c) : a = b + shift
  <2>1. u[r] = t[r + 1] /\ r + 1 \in 1 .. Len(t) /\ u[r] \in Seq(Glyphs)
    BY <1>5 DEF Fits
  <2>2. u[r][c] \in Glyphs /\ c - 1 \in Nat /\ r - 1 \in Nat /\ (r + 1) - 1 = (r - 1) + 1
    BY <1>5, <2>1
  <2> DEFINE x == (c - 1) * CellWidth
             y == (r - 1) * CellHeight
  <2>3. x \in Nat /\ y \in Nat /\ ((r + 1) - 1) * CellHeight = y + CellHeight
    BY <2>2, CellFacts
  <2> HIDE DEF x, y
  <2>4. \A a : a \in Glyph(u[r][c], x, y + CellHeight) <=>
               \E b \in Glyph(u[r][c], x, y) : a = b + shift
    BY <2>2, <2>3, GlyphBelow DEF Glyphs, shift
  <2>5. CellOf(t, r + 1, c) = Glyph(u[r][c], x, y + CellHeight)
    BY <2>1, <2>3 DEF CellOf, x
  <2>6. CellOf(u, r, c) = Glyph(u[r][c], x, y)
    BY DEF CellOf, x, y
  <2> QED BY <2>4, <2>5, <2>6
<1>7. ASSUME NEW a \in Shown(u) PROVE a \in 0 .. n - 1 /\ shift + a \in l
  <2> PICK r \in 1 .. Len(u) : \E c \in 1 .. Len(u[r]) : a \in CellOf(u, r, c)
    BY ShownPixels
  <2>1. PICK c \in 1 .. Len(u[r]) : a \in CellOf(u, r, c)
    OBVIOUS
  <2>2. a \in Nat
    BY <2>1, CellPixels
  <2>3. a + shift \in CellOf(t, r + 1, c)
    BY <1>6, <2>1
  <2>4. r + 1 \in 1 .. Len(t) /\ c \in 1 .. Len(t[r + 1])
    BY <1>5
  <2>5. a + shift \in l
    BY <2>3, <2>4, ShownPixels DEF l
  <2>6. a + shift < height * pitch
    BY <1>3, <2>5
  <2> QED BY <1>1, <2>2, <2>5, <2>6
<1>8. ASSUME NEW a \in 0 .. n - 1, shift + a \in l PROVE a \in Shown(u)
  <2> PICK q \in 1 .. Len(t) : \E c \in 1 .. Len(t[q]) : shift + a \in CellOf(t, q, c)
    BY <1>8, ShownPixels DEF l
  <2>1. PICK c \in 1 .. Len(t[q]) : shift + a \in CellOf(t, q, c)
    OBVIOUS
  <2>2. a \in Nat /\ shift + a >= shift
    BY <1>1
  <2>3. q # 1
    <3>1. q = 1 => shift + a < shift
      BY <2>1, CellPixels DEF shift
    <3> QED BY <1>1, <2>2, <3>1
  <2>4. PICK r \in 1 .. Len(u) : q = r + 1
    <3>1. q - 1 \in 1 .. Len(u) /\ q = (q - 1) + 1
      BY <1>5, <2>3
    <3> QED BY <3>1
  <2>5. c \in 1 .. Len(u[r])
    BY <2>4
  <2>6. PICK b \in CellOf(u, r, c) : shift + a = b + shift
    BY <1>6, <2>1, <2>4, <2>5
  <2>7. b \in Nat
    BY <2>5, CellPixels
  <2>8. b = a
    BY <1>1, <2>2, <2>6, <2>7
  <2> QED BY <2>5, <2>6, <2>8, ShownPixels
<1>9. \A a : a \in ScrollClears(ScrollMoves(l)) <=> a \in Shown(u)
  BY <1>4, <1>7, <1>8
<1> QED BY <1>9 DEF l

\* One more glyph at the end of the last line.
LEMMA ShownDrawn ==
  ASSUME IsWholeCells, NEW t, LinesOk(t), NEW ch \in Glyphs,
         NEW u, u = Append(Front(t), Append(Last(t), ch))
  PROVE  /\ Fits(u) /\ Len(u) = Len(t) /\ Last(u) = Append(Last(t), ch)
         /\ Shown(u) = Shown(t) \cup Glyph(ch, CellWidth * Len(Last(t)),
                                           CellHeight * (Len(t) - 1))
<1> DEFINE m == Len(t)
           k == Len(t[m])
<1>1. /\ m \in Nat \ {0} /\ t \in Seq(Seq(Glyphs)) /\ t[m] \in Seq(Glyphs) /\ k \in Nat
      /\ k < Columns /\ Columns \in Nat /\ m <= Rows /\ Last(t) = t[m]
  BY GridFacts DEF LinesOk, Fits, Last
<1>2. /\ Append(t[m], ch) \in Seq(Glyphs) /\ Len(Append(t[m], ch)) = k + 1
      /\ \A c \in 1 .. k : Append(t[m], ch)[c] = t[m][c]
      /\ Append(t[m], ch)[k + 1] = ch
  BY <1>1
<1>3. /\ u \in Seq(Seq(Glyphs)) /\ Len(u) = m /\ u[m] = Append(t[m], ch)
      /\ \A r \in 1 .. m - 1 : u[r] = t[r]
  <2>1. /\ Front(t) \in Seq(Seq(Glyphs)) /\ Len(Front(t)) = m - 1
        /\ \A r \in 1 .. m - 1 : Front(t)[r] = t[r]
    <3>1. Front(t) = SubSeq(t, 1, m - 1)
      BY DEF Front
    <3>2. m - 1 \in 0 .. Len(t) /\ (m - 1 - 1) + 1 = m - 1
      BY <1>1
    <3> HIDE DEF m, k
    <3>3. Len(SubSeq(t, 1, m - 1)) = m - 1 /\ SubSeq(t, 1, m - 1) \in Seq(Seq(Glyphs))
      BY <1>1, <3>2
    <3>4. \A r \in 1 .. m - 1 : SubSeq(t, 1, m - 1)[r] = t[r]
      BY <1>1, <3>2
    <3> QED BY <3>1, <3>3, <3>4
  <2> QED BY <1>1, <1>2, <2>1
<1>4. Last(u) = Append(Last(t), ch)
  BY <1>1, <1>3 DEF Last
<1>5. Fits(u)
  <2>1. \A r \in 1 .. m - 1 : Len(u[r]) <= Columns
    BY <1>1, <1>3 DEF LinesOk, Fits
  <2>2. Len(u[m]) <= Columns
    BY <1>1, <1>2, <1>3
  <2>3. \A r \in 1 .. m : r \in 1 .. m - 1 \/ r = m
    BY <1>1
  <2> QED BY <1>1, <1>3, <2>1, <2>2, <2>3 DEF Fits
<1>6. CellOf(u, m, k + 1) = Glyph(ch, CellWidth * Len(Last(t)), CellHeight * (Len(t) - 1))
  <2>1. (k + 1) - 1 = k
    BY <1>1
  <2>2. k * CellWidth = CellWidth * k /\ (m - 1) * CellHeight = CellHeight * (m - 1)
    BY <1>1, CellFacts
  <2>3. CellOf(u, m, k + 1) = Glyph(ch, k * CellWidth, (m - 1) * CellHeight)
    BY <1>2, <1>3, <2>1 DEF CellOf
  <2> QED BY <1>1, <2>2, <2>3
<1>7. \A c : \A r \in 1 .. m : c \in 1 .. Len(t[r]) =>
        c \in 1 .. Len(u[r]) /\ CellOf(u, r, c) = CellOf(t, r, c)
  <2>1. \A r \in 1 .. m : r \in 1 .. m - 1 \/ r = m
    BY <1>1
  <2>2. \A c \in 1 .. k : c \in 1 .. Len(u[m]) /\ u[m][c] = t[m][c]
    BY <1>1, <1>2, <1>3
  <2> HIDE DEF m
  <2> QED BY <1>3, <2>1, <2>2 DEF CellOf
<1>8. \A c : \A r \in 1 .. m : c \in 1 .. Len(u[r]) =>
        (c \in 1 .. Len(t[r]) \/ (r = m /\ c = k + 1))
  <2>1. \A r \in 1 .. m : r \in 1 .. m - 1 \/ r = m
    BY <1>1
  <2>2. \A c \in 1 .. k + 1 : c \in 1 .. k \/ c = k + 1
    BY <1>1
  <2> QED BY <1>1, <1>2, <1>3, <2>1, <2>2
<1>9. m \in 1 .. m /\ k + 1 \in 1 .. Len(u[m])
  BY <1>1, <1>2, <1>3
<1>10. Fits(t)
  BY DEF LinesOk
<1>11. \A a : a \in Shown(t) <=>
              \E r \in 1 .. m : \E c \in 1 .. Len(t[r]) : a \in CellOf(t, r, c)
  BY <1>10, ShownPixels
<1>12. \A a : a \in Shown(u) <=>
              \E r \in 1 .. m : \E c \in 1 .. Len(u[r]) : a \in CellOf(u, r, c)
  BY <1>3, <1>5, ShownPixels
<1> HIDE DEF m, k
<1>13. \A a : a \in Shown(u) <=> a \in Shown(t) \/ a \in CellOf(u, m, k + 1)
  <2>1. ASSUME NEW a \in Shown(t) PROVE a \in Shown(u)
    <3>1. PICK r \in 1 .. m : \E c \in 1 .. Len(t[r]) : a \in CellOf(t, r, c)
      BY <1>11
    <3>2. PICK c \in 1 .. Len(t[r]) : a \in CellOf(t, r, c)
      BY <3>1
    <3> QED BY <1>7, <1>12, <3>2
  <2>2. ASSUME NEW a \in Shown(u), a \notin CellOf(u, m, k + 1) PROVE a \in Shown(t)
    <3>1. PICK r \in 1 .. m : \E c \in 1 .. Len(u[r]) : a \in CellOf(u, r, c)
      BY <1>12
    <3>2. PICK c \in 1 .. Len(u[r]) : a \in CellOf(u, r, c)
      BY <3>1
    <3>3. c \in 1 .. Len(t[r])
      BY <1>8, <2>2, <3>2
    <3> QED BY <1>7, <1>11, <3>2, <3>3
  <2>3. ASSUME NEW a \in CellOf(u, m, k + 1) PROVE a \in Shown(u)
    BY <1>9, <1>12
  <2> QED BY <2>1, <2>2, <2>3
<1> QED BY <1>3, <1>4, <1>5, <1>6, <1>13 DEF m

-----------------------------------------------------------------------------
(***************************************************************************)
(* What screen_putch makes of a screen that shows lines                    *)
(***************************************************************************)

\* A screen that shows lines, with the cursor behind them.
ScreenOf(t) ==
  [lit |-> Shown(t), x |-> CellWidth * Len(Last(t)), y |-> CellHeight * (Len(t) - 1)]

\* A new line below lines, or at their end after a scroll.
Broken(t) ==
  IF Len(t) < Rows THEN Append(t, <<>>) ELSE SubSeq(Append(t, <<>>), 2, Rows + 1)

LEMMA LineBreak ==
  ASSUME IsWholeCells, NEW t, Fits(t), Len(t) >= 1,
         NEW y, y = CellHeight * (Len(t) - 1)
  PROVE  /\ LinesOk(Broken(t))
         /\ ScreenOf(Broken(t)) = [lit |-> IF IsLastRow(y) THEN ScrollClears(ScrollMoves(Shown(t)))
                                   ELSE Shown(t),
                           x |-> 0,
                           y |-> IF IsLastRow(y) THEN y ELSE y + CellHeight]
<1> DEFINE m == Len(t)
           v == Append(t, <<>>)
           u == Broken(t)
<1>1. /\ m \in Nat \ {0} /\ m <= Rows /\ Rows \in Nat \ {0} /\ Columns \in Nat \ {0}
      /\ t \in Seq(Seq(Glyphs))
  BY GridFacts DEF Fits
<1>2. IsLastRow(y) <=> m = Rows
  <2>1. m - 1 \in Nat /\ m - 1 < Rows /\ CellHeight * (m - 1) = (m - 1) * CellHeight
    BY <1>1, CellFacts
  <2>2. (m - 1) * CellHeight + CellHeight >= height <=> (m - 1) + 1 = Rows
    BY <2>1, GridCells
  <2> QED BY <1>1, <2>1, <2>2 DEF IsLastRow
<1>3. /\ Len(v) = m + 1 /\ v \in Seq(Seq(Glyphs)) /\ v[m + 1] = <<>>
      /\ \A r \in 1 .. m : v[r] = t[r]
  BY <1>1
<1> HIDE DEF u
<1>4. CASE m < Rows
  <2>1. u = v /\ ~IsLastRow(y)
    BY <1>1, <1>2, <1>4 DEF Broken, u
  <2>2. Fits(u) /\ Shown(u) = Shown(t)
    BY <1>4, <2>1, ShownAppended
  <2>3. Len(u) = m + 1 /\ u[m + 1] = <<>> /\ Last(u) = <<>>
    BY <1>3, <2>1 DEF Last
  <2>4. LinesOk(u)
    BY <1>1, <2>2, <2>3 DEF LinesOk
  <2>5. ScreenOf(u) = [lit |-> Shown(t), x |-> 0, y |-> y + CellHeight]
    <3>1. CellWidth * Len(Last(u)) = 0
      BY <2>3, CellFacts
    <3>2. CellHeight * ((m + 1) - 1) = CellHeight * (m - 1) + CellHeight
      BY <1>1, CellFacts
    <3> QED BY <2>2, <2>3, <3>1, <3>2 DEF ScreenOf
  <2> QED BY <1>2, <2>1, <2>4, <2>5 DEF u
<1>5. CASE m = Rows
  <2>1. u = SubSeq(v, 2, m + 1) /\ IsLastRow(y)
    BY <1>2, <1>5 DEF Broken, u
  <2>2. Len(u) = m /\ u \in Seq(Seq(Glyphs)) /\ \A r \in 1 .. m : u[r] = v[r + 1]
    <3> HIDE DEF v, m
    <3>1. \A i \in 2 .. m + 1 : v[i] \in Seq(Glyphs)
      BY <1>1, <1>3
    <3>2. /\ SubSeq(v, 2, m + 1) \in Seq(Seq(Glyphs))
          /\ Len(SubSeq(v, 2, m + 1)) = m
          /\ \A i \in 1 .. m : SubSeq(v, 2, m + 1)[i] = v[2 + i - 1]
      <4>1. (m + 1) - 2 + 1 = m /\ 2 <= m + 1 /\ 2 \in Int /\ m + 1 \in Int
        BY <1>1
      <4> HIDE DEF m
      <4> QED BY <3>1, <4>1, SubSeqProperties
    <3>3. \A i \in 1 .. m : 2 + i - 1 = i + 1
      BY <1>1
    <3> QED BY <2>1, <3>2, <3>3
  <2>3. u[m] = <<>> /\ Last(u) = <<>> /\ \A r \in 1 .. m - 1 : u[r] = t[r + 1]
    <3>1. m \in 1 .. m /\ \A r \in 1 .. m - 1 : r \in 1 .. m /\ r + 1 \in 1 .. m
      BY <1>1
    <3>2. Last(u) = u[Len(u)]
      BY DEF Last
    <3> HIDE DEF m, v
    <3> QED BY <1>3, <2>2, <3>1, <3>2
  <2> DEFINE w == SubSeq(u, 1, m - 1)
  <2>4. /\ Len(w) = m - 1 /\ w \in Seq(Seq(Glyphs))
        /\ \A r \in 1 .. m - 1 : w[r] = u[r]
    <3> HIDE DEF m
    <3>1. m - 1 \in 0 .. Len(u)
      BY <1>1, <2>2
    <3> QED BY <1>1, <2>2, <3>1
  <2> HIDE DEF w
  <2>5. u = Append(w, <<>>)
    <3>1. Len(Append(w, <<>>)) = m /\ Append(w, <<>>) \in Seq(Seq(Glyphs))
      BY <1>1, <2>4
    <3>2. \A r \in 1 .. m : r \in 1 .. m - 1 \/ r = (m - 1) + 1
      BY <1>1
    <3>3. /\ \A r \in 1 .. m - 1 : Append(w, <<>>)[r] = w[r]
          /\ Append(w, <<>>)[(m - 1) + 1] = <<>>
      BY <1>1, <2>4
    <3>4. \A r \in 1 .. m : Append(w, <<>>)[r] = u[r]
      BY <1>1, <2>3, <2>4, <3>2, <3>3
    <3> HIDE DEF m
    <3> QED BY <2>2, <3>1, <3>4, SeqEqual
  <2>6. Fits(w)
    <3>1. \A r \in 1 .. m - 1 : r + 1 \in 1 .. m /\ Len(t[r + 1]) <= Columns
      BY <1>1 DEF Fits
    <3>2. \A r \in 1 .. m - 1 : Len(w[r]) <= Columns
      BY <2>3, <2>4, <3>1
    <3>3. m - 1 <= Rows
      BY <1>1
    <3> HIDE DEF m
    <3> QED BY <2>4, <3>2, <3>3 DEF Fits
  <2>7. Fits(u) /\ Shown(u) = Shown(w)
    <3>1. Len(w) < Rows
      BY <1>1, <1>5, <2>4
    <3> QED BY <2>5, <2>6, <3>1, ShownAppended
  <2>8. ScrollClears(ScrollMoves(Shown(t))) = Shown(w)
    <3>1. Len(w) = Rows - 1 /\ \A r \in 1 .. Len(w) : w[r] = t[r + 1]
      BY <1>5, <2>3, <2>4
    <3> QED BY <1>5, <2>6, <3>1, ShownScrolled
  <2>9. LinesOk(u)
    BY <1>1, <2>2, <2>3, <2>7 DEF LinesOk
  <2>10. ScreenOf(u) = [lit |-> ScrollClears(ScrollMoves(Shown(t))), x |-> 0, y |-> y]
    <3>1. CellWidth * Len(Last(u)) = 0
      BY <2>3, CellFacts
    <3> QED BY <2>2, <2>7, <2>8, <3>1 DEF ScreenOf
  <2> QED BY <1>2, <2>1, <2>9, <2>10, <1>5 DEF u
<1> QED BY <1>1, <1>4, <1>5 DEF u

\* What screen_putch makes of a screen that shows lines.
LEMMA PutchShows ==
  ASSUME IsWholeCells, NEW t, LinesOk(t), NEW ch \in Chars
  PROVE  LinesOk(AddChar(t, ch)) /\ Putch(ScreenOf(t), ch) = ScreenOf(AddChar(t, ch))
<1> DEFINE m == Len(t)
           k == Len(Last(t))
           x == CellWidth * k
           y == CellHeight * (m - 1)
           line == Append(Last(t), ch)
           u == Append(Front(t), line)
           l == Drawn(Shown(t), ch, x, y)
<1>1. /\ m \in Nat \ {0} /\ t \in Seq(Seq(Glyphs)) /\ Last(t) = t[m]
      /\ Last(t) \in Seq(Glyphs) /\ k \in Nat
      /\ k < Columns /\ Columns \in Nat \ {0} /\ m <= Rows /\ Rows \in Nat \ {0}
  BY GridFacts DEF LinesOk, Fits, Last
<1>2. Fits(t)
  BY DEF LinesOk
<1>3. x + CellWidth >= width <=> k + 1 = Columns
  <2>1. k * CellWidth + CellWidth >= width <=> k + 1 = Columns
    BY <1>1, GridCells
  <2>2. k * CellWidth = CellWidth * k
    BY <1>1, CellFacts
  <2> QED BY <2>1, <2>2
<1>4. Putch(ScreenOf(t), ch) =
        [lit |-> IF BreaksLine(ch, x) /\ IsLastRow(y)
                 THEN ScrollClears(ScrollMoves(l)) ELSE l,
         x |-> IF BreaksLine(ch, x) THEN 0 ELSE x + CellWidth,
         y |-> IF BreaksLine(ch, x) /\ ~IsLastRow(y) THEN y + CellHeight ELSE y]
  BY DEF Putch, ScreenOf, NextX
<1> DEFINE all == CASE ch = NL -> Append(t, <<>>)
                    [] ch # NL /\ Len(line) < Columns -> u
                    [] OTHER -> Front(t) \o <<line, <<>> >>
<1>5. AddChar(t, ch) = IF Len(all) <= Rows THEN all
                       ELSE SubSeq(all, Len(all) - Rows + 1, Len(all))
  BY DEF AddChar
\* A break after lines.
<1>6. ASSUME NEW v, Fits(v), Len(v) = m, all = Append(v, <<>>), l = Shown(v),
             BreaksLine(ch, x)
      PROVE  LinesOk(AddChar(t, ch)) /\ Putch(ScreenOf(t), ch) = ScreenOf(AddChar(t, ch))
  <2> HIDE DEF all, l
  <2>1. Len(all) = m + 1
    BY <1>1, <1>6 DEF Fits
  <2>2. AddChar(t, ch) = Broken(v)
    BY <1>1, <1>5, <1>6, <2>1 DEF Broken
  <2> HIDE DEF m, y
  <2>3. y = CellHeight * (Len(v) - 1) /\ Len(v) >= 1
    BY <1>1, <1>6 DEF y
  <2>4. /\ LinesOk(Broken(v))
        /\ ScreenOf(Broken(v)) =
             [lit |-> IF IsLastRow(y) THEN ScrollClears(ScrollMoves(Shown(v)))
                      ELSE Shown(v),
              x |-> 0,
              y |-> IF IsLastRow(y) THEN y ELSE y + CellHeight]
    BY <1>6, <2>3, LineBreak
  <2> QED BY <1>4, <1>6, <2>2, <2>4
<1>7. CASE ch = NL
  <2>1. all = Append(t, <<>>) /\ l = Shown(t) /\ BreaksLine(ch, x)
    BY <1>7 DEF Drawn, BreaksLine
  <2> QED BY <1>2, <1>6, <2>1
<1>8. CASE ch # NL
  <2>1. ch \in Glyphs /\ l = Shown(t) \cup Glyph(ch, x, y)
    BY <1>8 DEF Chars, Glyphs, Drawn
  <2>2. Len(line) = k + 1 /\ (BreaksLine(ch, x) <=> k + 1 = Columns)
    BY <1>1, <1>3, <1>8, <2>1 DEF BreaksLine
  <2>3. Fits(u) /\ Len(u) = m /\ Last(u) = line /\ Shown(u) = l
    <3> HIDE DEF u, m, k
    <3>1. u = Append(Front(t), Append(Last(t), ch))
      BY DEF u
    <3> QED BY <2>1, <3>1, ShownDrawn DEF m, k
  <2>4. CASE k + 1 = Columns
    <3>1. all = Front(t) \o <<line, <<>> >>
      BY <1>8, <2>2, <2>4
    <3>2. Front(t) \o <<line, <<>> >> = Append(u, <<>>)
      <4>1. Front(t) \in Seq(Seq(Glyphs)) /\ line \in Seq(Glyphs)
        <5>1. Front(t) = SubSeq(t, 1, m - 1) /\ m - 1 \in 0 .. Len(t)
          BY <1>1 DEF Front
        <5> HIDE DEF m
        <5> QED BY <1>1, <2>1, <5>1
      <4> DEFINE f == Front(t)
                 a == f \o <<line, <<>> >>
                 b == Append(Append(f, line), <<>>)
      <4> HIDE DEF f, line
      <4>2. f \in Seq(Seq(Glyphs)) /\ line \in Seq(Glyphs) /\ Len(f) \in Nat
        BY <4>1 DEF f
      <4>3. Len(a) = Len(f) + 2 /\ a \in Seq(Seq(Glyphs)) /\ Len(b) = Len(f) + 2
            /\ b \in Seq(Seq(Glyphs))
        BY <4>2
      <4>4. \A i \in 1 .. Len(f) + 2 : a[i] = b[i]
        BY <4>2
      <4> HIDE DEF a, b
      <4>5. a = b
        BY <4>2, <4>3, <4>4
      <4> QED BY <4>5 DEF a, b, f
    <3> QED BY <1>6, <2>2, <2>3, <2>4, <3>1, <3>2
  <2>5. CASE k + 1 # Columns
    <3>1. all = u /\ ~BreaksLine(ch, x) /\ Len(line) < Columns
      BY <1>1, <1>8, <2>2, <2>5
    <3>2. AddChar(t, ch) = u
      BY <1>1, <1>5, <2>3, <3>1
    <3>3. u[Len(u)] = line /\ Len(u) >= 1
      BY <1>1, <2>3 DEF Last
    <3>4. LinesOk(u)
      BY <2>3, <3>1, <3>3 DEF LinesOk
    <3>5. ScreenOf(u) = [lit |-> l, x |-> x + CellWidth, y |-> y]
      <4>1. CellWidth * (k + 1) = CellWidth * k + CellWidth
        BY <1>1, CellFacts
      <4> QED BY <2>2, <2>3, <4>1 DEF ScreenOf
    <3> QED BY <1>4, <3>1, <3>2, <3>4, <3>5
  <2> QED BY <2>4, <2>5
<1> QED BY <1>7, <1>8

\* The function that AddChars computes has a value at every character.
IsTextAfter(f, t, chars) ==
  f = [i \in 0 .. Len(chars) |-> IF i = 0 THEN t ELSE AddChar(f[i - 1], chars[i])]

LEMMA AddCharsIsDefined ==
  ASSUME NEW t, NEW chars \in Seq(Chars)
  PROVE  \E f : IsTextAfter(f, t, chars)
<1> DEFINE Is(f, n) == f = [i \in 0 .. n |-> IF i = 0 THEN t
                                             ELSE AddChar(f[i - 1], chars[i])]
           T == {n \in Nat : \E f : Is(f, n)}
<1>1. 0 \in T
  <2>1. Is([i \in 0 .. 0 |-> t], 0)
    OBVIOUS
  <2> QED BY <2>1
<1>2. ASSUME NEW n \in T PROVE n + 1 \in T
  <2>1. n \in Nat /\ n + 1 \in Nat
    OBVIOUS
  <2>2. PICK f : Is(f, n)
    BY <1>2
  <2> DEFINE g == [i \in 0 .. n + 1 |-> IF i = n + 1 THEN AddChar(f[n], chars[n + 1])
                                        ELSE f[i]]
  <2>3. ASSUME NEW i \in 0 .. n + 1
        PROVE  g[i] = IF i = 0 THEN t ELSE AddChar(g[i - 1], chars[i])
    <3>1. CASE i = n + 1
      <4>1. i - 1 = n /\ i # 0 /\ n \in 0 .. n + 1 /\ n # n + 1
        BY <2>1, <3>1
      <4>2. g[i] = AddChar(f[n], chars[n + 1]) /\ g[n] = f[n]
        BY <3>1, <4>1
      <4> QED BY <3>1, <4>1, <4>2
    <3>2. CASE i = 0
      <4>1. g[i] = f[i] /\ 0 \in 0 .. n
        BY <2>1, <3>2
      <4>2. f[0] = t
        BY <2>2, <4>1
      <4> QED BY <3>2, <4>1, <4>2
    <3>3. CASE i \in 1 .. n
      <4>1. i # 0 /\ i # n + 1 /\ i - 1 # n + 1 /\ i \in 0 .. n /\ i - 1 \in 0 .. n + 1
        BY <2>1, <3>3
      <4>2. g[i] = f[i] /\ g[i - 1] = f[i - 1]
        BY <4>1
      <4>3. f[i] = AddChar(f[i - 1], chars[i])
        BY <2>2, <4>1
      <4> QED BY <4>1, <4>2, <4>3
    <3>4. i = n + 1 \/ i = 0 \/ i \in 1 .. n
      BY <2>1
    <3> QED BY <3>1, <3>2, <3>3, <3>4
  <2>4. Is(g, n + 1)
    <3>1. g = [i \in 0 .. n + 1 |-> g[i]]
      OBVIOUS
    <3> HIDE DEF g
    <3> QED BY <2>3, <3>1
  <2> HIDE DEF g
  <2> QED BY <2>1, <2>4
<1>3. T = Nat
  <2> HIDE DEF Is
  <2>1. T \subseteq Nat
    OBVIOUS
  <2> HIDE DEF T
  <2> QED BY <1>1, <1>2, <2>1, NatSet
<1>4. Len(chars) \in Nat
  OBVIOUS
<1>5. PICK f : Is(f, Len(chars))
  BY <1>3, <1>4
<1> QED BY <1>5 DEF IsTextAfter

LEMMA AddCharsSteps ==
  ASSUME NEW t, NEW chars \in Seq(Chars)
  PROVE  \E f : /\ f[0] = t /\ AddChars(t, chars) = f[Len(chars)]
                /\ \A i \in 1 .. Len(chars) : f[i] = AddChar(f[i - 1], chars[i])
<1> DEFINE after == CHOOSE f : IsTextAfter(f, t, chars)
<1>1. AddChars(t, chars) = after[Len(chars)]
  BY DEF AddChars, IsTextAfter
<1>2. Len(chars) \in Nat
  OBVIOUS
<1>3. IsTextAfter(after, t, chars)
  BY AddCharsIsDefined
<1> HIDE DEF after
<1>4. after[0] = t /\ \A i \in 1 .. Len(chars) : after[i] = AddChar(after[i - 1], chars[i])
  BY <1>2, <1>3 DEF IsTextAfter
<1> QED BY <1>1, <1>4

LEMMA PrintedShows ==
  ASSUME IsWholeCells, NEW t, LinesOk(t), NEW chars \in Seq(Chars)
  PROVE  /\ LinesOk(AddChars(t, chars))
         /\ Printed(ScreenOf(t), chars) = ScreenOf(AddChars(t, chars))
<1>1. PICK f : /\ f[0] = ScreenOf(t) /\ Printed(ScreenOf(t), chars) = f[Len(chars)]
               /\ \A i \in 1 .. Len(chars) : f[i] = Putch(f[i - 1], chars[i])
  BY PrintedSteps
<1>2. PICK g : /\ g[0] = t /\ AddChars(t, chars) = g[Len(chars)]
               /\ \A i \in 1 .. Len(chars) : g[i] = AddChar(g[i - 1], chars[i])
  BY AddCharsSteps
<1>3. Len(chars) \in Nat
  OBVIOUS
<1> DEFINE T == {n \in Nat : n <= Len(chars) => LinesOk(g[n]) /\ f[n] = ScreenOf(g[n])}
<1>4. 0 \in T
  BY <1>1, <1>2
<1>5. ASSUME NEW n \in T PROVE n + 1 \in T
  <2>1. n \in Nat /\ n + 1 \in Nat
    OBVIOUS
  <2>2. SUFFICES ASSUME n + 1 <= Len(chars)
                 PROVE  LinesOk(g[n + 1]) /\ f[n + 1] = ScreenOf(g[n + 1])
    BY <2>1
  <2>3. n + 1 \in 1 .. Len(chars) /\ (n + 1) - 1 = n /\ n <= Len(chars)
    BY <1>3, <2>1, <2>2
  <2>4. LinesOk(g[n]) /\ f[n] = ScreenOf(g[n]) /\ chars[n + 1] \in Chars
    BY <2>3
  <2>5. f[n + 1] = Putch(f[n], chars[n + 1]) /\ g[n + 1] = AddChar(g[n], chars[n + 1])
    BY <1>1, <1>2, <2>3
  <2> QED BY <2>4, <2>5, PutchShows
<1>6. T = Nat
  <2>1. T \subseteq Nat
    OBVIOUS
  <2> HIDE DEF T
  <2> QED BY <1>4, <1>5, <2>1, NatSet
<1>7. Len(chars) \in T
  BY <1>3, <1>6
<1> QED BY <1>1, <1>2, <1>3, <1>7

\* A single character.
LEMMA AddCharsOfOne ==
  ASSUME NEW t, NEW ch \in Chars
  PROVE  AddChars(t, <<ch>>) = AddChar(t, ch)
<1>1. <<ch>> \in Seq(Chars) /\ Len(<<ch>>) = 1 /\ <<ch>>[1] = ch
  OBVIOUS
<1> DEFINE chars == <<ch>>
<1> HIDE DEF chars
<1>2. PICK f : /\ f[0] = t /\ AddChars(t, chars) = f[Len(chars)]
               /\ \A i \in 1 .. Len(chars) : f[i] = AddChar(f[i - 1], chars[i])
  <2>1. chars \in Seq(Chars)
    BY <1>1 DEF chars
  <2> QED BY <2>1, AddCharsSteps
<1>3. chars[1] = ch /\ Len(chars) = 1
  BY <1>1 DEF chars
<1>4. 1 \in 1 .. Len(chars) /\ 1 - 1 = 0
  BY <1>3
<1>5. f[1] = AddChar(f[0], ch)
  BY <1>2, <1>3, <1>4
<1> QED BY <1>2, <1>3, <1>5 DEF chars

-----------------------------------------------------------------------------
(***************************************************************************)
(* Where kmain prints, and what is on the screen in the middle of a        *)
(* character                                                               *)
(***************************************************************************)

\* Where kmain prints character by character, and where an exception can have come.
PlaceInv ==
  /\ print = [rest |-> print.rest, at |-> print.at, x |-> print.x, y |-> print.y]
  /\ stage # "prompt" => print.rest = <<>>
  /\ print.rest = <<>> => print.at = "next"
  /\ cpu.at = "idt_exception_handler" => stage = "hlt"

Shows(t) == [lit |-> lit, x |-> cursor_x, y |-> cursor_y] = ScreenOf(t)

\* In the middle of a character, on a screen that showed old before it.
Between(old) ==
  LET s == ScreenOf(old)
      l == Drawn(s.lit, Current, s.x, s.y)
  IN  /\ print.y = s.y /\ cursor_y = s.y
      /\ print.at # "column" => print.x = s.x
      /\ print.at \in {"column", "draw", "write"} => cursor_x = s.x
      /\ print.at \in {"row", "scroll", "clear"} => cursor_x = NextX(Current, s.x)
      /\ print.at \in {"column", "draw"} => lit = s.lit
      /\ print.at \in {"write", "row", "scroll"} => lit = l
      /\ print.at = "clear" => lit = ScrollMoves(l)
      /\ print.at = "row" => BreaksLine(Current, s.x) /\ ~IsLastRow(s.y)
      /\ print.at \in {"scroll", "clear"} => BreaksLine(Current, s.x) /\ IsLastRow(s.y)

TextOk ==
  /\ LinesOk(text)
  /\ print.at = "next" => Shows(text)
  /\ print.at # "next" =>
       \E old : LinesOk(old) /\ text = AddChar(old, Current) /\ Between(old)

TextInv == IsWholeCells /\ ~raced => TextOk

LEMMA PlaceInit == Init => PlaceInv
<1> SUFFICES ASSUME Init PROVE PlaceInv
  OBVIOUS
<1>1. /\ print = [rest |-> <<>>, at |-> "next", x |-> 0, y |-> 0] /\ cpu.at = "kernel"
      /\ stage = "idt"
  BY DEF Init, ScreenInit, InterruptsInit
<1> QED BY <1>1 DEF PlaceInv

\* An interrupt is no exception, and neither is the end of one.
LEMMA NoException ==
  ASSUME IntrInv, InterruptStep \/ KeyboardIrq
  PROVE  cpu'.at # "idt_exception_handler"
<1>1. cpu \in [at : Places, num : 0 .. 31] /\ master \in Controller /\ slave \in Controller
  BY DEF IntrInv, IntrTypesOk
<1>2. CASE Accept
  BY <1>2 DEF Accept
<1>3. CASE AckMaster
  <2>1. /\ master.offset = 32 /\ master.cascade = 4 /\ idt_entries = isr_stub_table
    BY <1>3, InterruptsNeedBoot, ControllersReady DEF AckMaster
  <2>2. CASE Pending(master) = {}
    <3>1. cpu' = [at |-> "idt_irq_handler", num |-> 7]
      BY <1>3, <2>1, <2>2, Gates DEF AckMaster, IrqNums
    <3> QED BY <3>1
  <2>3. CASE Pending(master) # {}
    <3> DEFINE r == Min(Pending(master))
    <3>1. r \in 0 .. 7
      <4>1. Pending(master) \in SUBSET (0 .. 7)
        BY <1>1 DEF Pending, Controller
      <4> QED BY <2>3, <4>1, LeastLine
    <3>2. cpu' = IF r \in BitsOf(master.cascade) THEN [at |-> "cascade", num |-> r]
                 ELSE Dispatched(master.offset + r)
      BY <1>3, <2>3 DEF AckMaster
    <3> HIDE DEF r
    <3>3. \/ cpu' = [at |-> "cascade", num |-> r]
          \/ cpu' = [at |-> "idt_irq_handler", num |-> r]
      BY <2>1, <3>1, <3>2, Gates DEF IrqNums
    <3> QED BY <3>3
  <2> QED BY <2>2, <2>3
<1>4. CASE AckSlave
  <2>1. slave.offset = 40 /\ idt_entries = isr_stub_table
    BY <1>4, InterruptsNeedBoot, ControllersReady DEF AckSlave
  <2>2. \E n \in 8 .. 15 : cpu' = Dispatched(32 + n)
    <3>1. CASE Pending(slave) = {}
      BY <1>4, <2>1, <3>1 DEF AckSlave
    <3>2. CASE Pending(slave) # {}
      <4> DEFINE r == Min(Pending(slave))
      <4>1. r \in 0 .. 7
        <5>1. Pending(slave) \in SUBSET (0 .. 7)
          BY <1>1 DEF Pending, Controller
        <5> QED BY <3>2, <5>1, LeastLine
      <4>2. cpu' = Dispatched(slave.offset + r)
        BY <1>4, <3>2 DEF AckSlave
      <4> HIDE DEF r
      <4>3. slave.offset + r = 32 + (r + 8) /\ r + 8 \in 8 .. 15
        BY <2>1, <4>1
      <4> QED BY <4>2, <4>3
    <3> QED BY <3>1, <3>2
  <2>3. \E n \in IrqNums : cpu' = [at |-> "idt_irq_handler", num |-> n]
    BY <2>1, <2>2, Gates DEF IrqNums
  <2> QED BY <2>3
<1>5. CASE OtherDriver \/ KeyboardIrq
  BY <1>1, <1>5 DEF OtherDriver, KeyboardIrq, DriverReturned
<1>6. CASE SlaveEoi
  BY <1>1, <1>6 DEF SlaveEoi
<1>7. CASE MasterEoi
  BY <1>7 DEF MasterEoi
<1> QED BY <1>2, <1>3, <1>4, <1>5, <1>6, <1>7 DEF InterruptStep

LEMMA InitKeyboardCpu ==
  ASSUME KeyboardInitStep
  PROVE  cpu' = cpu
BY DEF KeyboardInitStep, SendCommand, RetriesExhausted, ReadAnswer, FlushByte, Flushed,
       AnnounceConfiguration, WriteConfiguration, InstallKeyboardDriver, InstallIrqDriver,
       RaiseLine, intrVars

\* A character ends before the next one begins.
LEMMA PrintStepPlace ==
  ASSUME PlaceInv, PrintStep
  PROVE  /\ print' = [rest |-> print'.rest, at |-> print'.at, x |-> print'.x, y |-> print'.y]
         /\ print'.rest = <<>> => print'.at = "next"
<1> DEFINE IsRecord(p) == p = [rest |-> p.rest, at |-> p.at, x |-> p.x, y |-> p.y]
<1>1. IsRecord(print) /\ print.rest # <<>>
  BY DEF PlaceInv, PrintStep, ReadRow, ReadColumn, Draw, WriteColumn, WriteRow, Scroll,
         Clear, PrintAt, Printing
<1>2. CASE print' = PrintNext
  <2>1. /\ print'.rest = Tail(print.rest) /\ print'.at = "next" /\ print'.x = 0
        /\ print'.y = 0
    BY <1>2 DEF PrintNext
  <2> QED BY <1>2, <2>1 DEF PrintNext
<1>3. ASSUME NEW at, NEW x, NEW y,
             print' = [rest |-> print.rest, at |-> at, x |-> x, y |-> y]
      PROVE  IsRecord(print') /\ print'.rest # <<>>
  BY <1>1, <1>3
<1>4. CASE ReadRow \/ ReadColumn
  <2>1. \/ print' = [print EXCEPT !.at = "column", !.y = cursor_y]
        \/ print' = [print EXCEPT !.at = "draw", !.x = cursor_x]
    BY <1>4 DEF ReadRow, ReadColumn
  <2>2. \/ print' = [rest |-> print.rest, at |-> "column", x |-> print.x, y |-> cursor_y]
        \/ print' = [rest |-> print.rest, at |-> "draw", x |-> cursor_x, y |-> print.y]
    BY <1>1, <2>1
  <2> QED BY <1>3, <2>2
<1>5. ASSUME NEW at, print' = [print EXCEPT !.at = at]
      PROVE  IsRecord(print') /\ print'.rest # <<>>
  <2>1. print' = [rest |-> print.rest, at |-> at, x |-> print.x, y |-> print.y]
    BY <1>1, <1>5
  <2> QED BY <1>3, <2>1
<1>6. \/ ReadRow \/ ReadColumn \/ print' = PrintNext
      \/ \E at : print' = [print EXCEPT !.at = at]
  BY DEF PrintStep, Draw, WriteColumn, WriteRow, Scroll, Clear
<1> QED BY <1>2, <1>4, <1>5, <1>6

\* Only the prompt is printed in steps, and the others print between two characters.
LEMMA NextKeepsPlace == IntrInv /\ PlaceInv /\ [Next]_vars => PlaceInv'
<1> SUFFICES ASSUME IntrInv, PlaceInv, [Next]_vars PROVE PlaceInv'
  OBVIOUS
<1>1. ASSUME stage' \in {stage} \cup (Stages \ {"prompt", "hlt"}), print' = print,
             stage' # stage => stage # "prompt",
             cpu'.at = "idt_exception_handler" => stage' = "hlt"
      PROVE  PlaceInv'
  BY <1>1 DEF PlaceInv
<1>2. ASSUME NEW s \in Stages \ {"prompt", "hlt"}, Reports(s), InKernel, stage # "prompt",
             cpu' = cpu
      PROVE  PlaceInv'
  <2>1. print' = print /\ stage' = s
    BY <1>2 DEF Reports, PrintAtOnce
  <2>2. cpu'.at = "kernel"
    BY <1>2 DEF InKernel
  <2> QED BY <1>1, <1>2, <2>1, <2>2
<1>3. ASSUME Fails, stage # "prompt" PROVE PlaceInv'
  <2>1. print' = print /\ stage' = "stopped" /\ cpu'.at = "stopped"
    BY <1>3 DEF Fails, PrintAtOnce, Stop
  <2> QED BY <1>1, <1>3, <2>1 DEF Stages
<1>4. ASSUME cpu' = cpu, UNCHANGED <<print, stage>> PROVE PlaceInv'
  BY <1>4 DEF PlaceInv
<1>5. CASE KernelStep
  <2>1. CASE InitIdt
    BY <1>2, <2>1 DEF InitIdt, KernelAt, IdtInit, Stages
  <2>2. CASE InitPic
    <3>1. cpu' = cpu /\ InKernel /\ stage = "pic"
      BY <2>2 DEF InitPic, KernelAt, PicWrite
    <3>2. Reports("sti") \/ UNCHANGED <<print, stage>>
      BY <2>2 DEF InitPic, screenVars
    <3> QED BY <1>2, <1>4, <3>1, <3>2 DEF Stages
  <2>3. CASE EnablesInterrupts
    BY <1>2, <2>3 DEF EnablesInterrupts, KernelAt, EnableInterrupts, Stages
  <2>4. CASE InitKeyboard
    <3>1. UNCHANGED <<print, stage>> /\ InKernel
      BY <2>4 DEF InitKeyboard, screenVars, kernelVars, KernelAt
    <3>2. cpu' = cpu
      BY <2>4, InitKeyboardCpu DEF InitKeyboard
    <3> QED BY <1>4, <3>1, <3>2
  <2>5. CASE KeyboardIsInitialised
    <3>1. cpu' = cpu /\ InKernel /\ stage = "keyboard" /\ stage' = "paging" /\ print' = print
      BY <2>5 DEF KeyboardIsInitialised, KernelAt, screenVars
    <3>2. cpu'.at = "kernel"
      BY <3>1 DEF InKernel
    <3> QED BY <1>1, <3>1, <3>2 DEF Stages
  <2>6. CASE KeyboardFails \/ InitFails \/ GptFails
    <3>1. Fails /\ stage # "prompt"
      BY <2>6 DEF KeyboardFails, InitFails, GptFails, KernelAt
    <3> QED BY <1>3, <3>1
  <2>15. CASE DiskPollsForever
    <3>1. /\ cpu' = cpu /\ InKernel /\ stage \in {"disk", "gpt"} /\ stage' = "polling"
          /\ print' = print
      BY <2>15 DEF DiskPollsForever, KernelAt, intrVars, screenVars
    <3>2. cpu'.at = "kernel"
      BY <3>1 DEF InKernel
    <3> QED BY <1>1, <3>1, <3>2 DEF Stages
  <2>7. CASE InitMemory
    <3>1. InKernel /\ cpu' = cpu /\ stage # "prompt"
      BY <2>7 DEF InitMemory, KernelAt, intrVars
    <3>2. Reports("kalloc") \/ Reports("disk")
      BY <2>7 DEF InitMemory
    <3> QED BY <1>2, <3>1, <3>2 DEF Stages
  <2>8. CASE InitDisk
    BY <1>2, <2>8 DEF InitDisk, KernelAt, InstallIrqDriver, Stages
  <2>9. CASE GptIsInitialised
    <3>1. /\ cpu' = cpu /\ InKernel /\ stage = "gpt" /\ stage' = "shell" /\ print' = print
      BY <2>9 DEF GptIsInitialised, KernelAt, intrVars, PrintAtOnce
    <3>2. cpu'.at = "kernel"
      BY <3>1 DEF InKernel
    <3> QED BY <1>1, <3>1, <3>2 DEF Stages
  <2>10. CASE InitShell \/ PromptAgain
    <3>1. /\ cpu'.at = "kernel" /\ stage' = "prompt" /\ stage # "prompt"
          /\ print' = [print EXCEPT !.rest = Prompt]
      BY <2>10 DEF InitShell, PromptAgain, KernelAt, InKernel, intrVars, StartPrint
    <3>2. print' = [rest |-> Prompt, at |-> "next", x |-> print.x, y |-> print.y]
      BY <2>10, <3>1 DEF PlaceInv, InitShell, PromptAgain, StartPrint, Printing
    <3>3. /\ print'.rest = Prompt /\ print'.at = "next" /\ print'.x = print.x
          /\ print'.y = print.y
      BY <3>2
    <3>4. print' = [rest |-> print'.rest, at |-> print'.at, x |-> print'.x, y |-> print'.y]
      BY <3>2, <3>3
    <3> QED BY <3>1, <3>3, <3>4 DEF PlaceInv
  <2>11. CASE PrintPrompt
    <3>1. stage = "prompt" /\ stage' = "prompt" /\ cpu'.at = "kernel" /\ PrintStep
      BY <2>11 DEF PrintPrompt, KernelAt, InKernel, intrVars, kernelVars
    <3>2. /\ print' = [rest |-> print'.rest, at |-> print'.at, x |-> print'.x, y |-> print'.y]
          /\ print'.rest = <<>> => print'.at = "next"
      BY <3>1, PrintStepPlace
    <3> QED BY <3>1, <3>2 DEF PlaceInv
  <2>12. CASE PromptIsPrinted
    <3>1. /\ cpu'.at = "kernel" /\ stage' = "hlt" /\ print' = print /\ print.rest = <<>>
      BY <2>12 DEF PromptIsPrinted, KernelAt, InKernel, intrVars, screenVars, Printing
    <3> QED BY <3>1 DEF PlaceInv
  <2> QED BY <1>5, <2>1, <2>2, <2>3, <2>4, <2>5, <2>6, <2>7, <2>8, <2>9, <2>10, <2>11,
             <2>12, <2>15 DEF KernelStep
<1>6. ASSUME UNCHANGED <<print, stage>>, cpu'.at # "idt_exception_handler"
      PROVE  PlaceInv'
  BY <1>6 DEF PlaceInv
<1>7. CASE Interrupted
  <2>1. CASE KeyIsIgnored \/ LetterIsTyped \/ EnterIsTyped
    <3>1. UNCHANGED <<print, stage>> /\ KeyboardIrq
      BY <2>1 DEF KeyIsIgnored, LetterIsTyped, EnterIsTyped, screenVars, kernelVars, Echo
    <3>2. cpu'.at # "idt_exception_handler"
      BY <3>1, NoException
    <3> QED BY <1>6, <3>1, <3>2
  <2>2. CASE InterruptStep /\ UNCHANGED <<screenVars, kernelVars>>
    <3>1. UNCHANGED <<print, stage>>
      BY <2>2 DEF screenVars, kernelVars
    <3>2. cpu'.at # "idt_exception_handler"
      BY <2>2, NoException
    <3> QED BY <1>6, <3>1, <3>2
  <2>3. CASE ExceptionStops /\ PrintAtOnce(Fatal) /\ UNCHANGED kernelVars
    <3>1. UNCHANGED <<print, stage>> /\ cpu'.at = "stopped"
      BY <2>3 DEF ExceptionStops, Stop, PrintAtOnce, kernelVars
    <3> QED BY <1>6, <3>1
  <2> QED BY <1>7, <2>1, <2>2, <2>3 DEF Interrupted
<1>8. CASE KeyboardWorks
  <2>1. UNCHANGED <<print, stage>> /\ cpu' = cpu
    BY <1>8 DEF KeyboardWorks, screenVars, kernelVars, KeyboardObeys, KeyboardAsksAgain,
                KeyboardSends, RaiseLine, intrVars
  <2> QED BY <1>4, <2>1
<1>9. CASE Environment
  <2>1. UNCHANGED <<print, stage>>
    BY <1>9 DEF Environment, screenVars, kernelVars
  <2>2. CASE KernelAt(NmiStage)
    BY <2>1, <2>2 DEF PlaceInv, KernelAt, NmiStage
  <2>3. CASE PressKey \/ DeviceStep
    <3>1. cpu' = cpu
      BY <2>3 DEF PressKey, DeviceStep, Raise, Drop, RaiseLine, intrVars
    <3> QED BY <1>4, <2>1, <3>1
  <2> QED BY <1>9, <2>2, <2>3 DEF Environment
<1>10. CASE UNCHANGED vars
  BY <1>4, <1>10 DEF vars, screenVars, intrVars, kernelVars
<1> QED BY <1>5, <1>7, <1>8, <1>9, <1>10 DEF Next

\* What is printed while no character is being drawn.
LEMMA AtOnceShows ==
  ASSUME IsWholeCells, TextOk, print.at = "next", NEW chars \in Seq(Chars), Prints(chars),
         text' = AddChars(text, chars), print' = print
  PROVE  TextOk'
<1>1. /\ LinesOk(text)
      /\ [lit |-> lit, x |-> cursor_x, y |-> cursor_y] = ScreenOf(text)
  BY DEF TextOk, Shows
<1>2. /\ LinesOk(text')
      /\ Printed([lit |-> lit, x |-> cursor_x, y |-> cursor_y], chars) = ScreenOf(text')
  BY <1>1, PrintedShows
<1>3. lit' = ScreenOf(text').lit /\ cursor_x' = ScreenOf(text').x /\ cursor_y' = ScreenOf(text').y
  BY <1>2 DEF Prints
<1>4. [lit |-> lit', x |-> cursor_x', y |-> cursor_y'] = ScreenOf(text')
  BY <1>3 DEF ScreenOf
<1> QED BY <1>2, <1>4 DEF TextOk, Shows, LinesOk, ScreenOf, Fits, Shown

\* What is on the screen once the whole of a character has been drawn.
LEMMA CharIsDone ==
  ASSUME IsWholeCells, NEW old, LinesOk(old), NEW ch \in Chars
  PROVE  LET s == ScreenOf(old)
             l == Drawn(s.lit, ch, s.x, s.y)
             breaks == BreaksLine(ch, s.x)
         IN  /\ LinesOk(AddChar(old, ch))
             /\ ScreenOf(AddChar(old, ch)) =
                  [lit |-> IF breaks /\ IsLastRow(s.y) THEN ScrollClears(ScrollMoves(l)) ELSE l,
                   x |-> NextX(ch, s.x),
                   y |-> IF breaks /\ ~IsLastRow(s.y) THEN s.y + CellHeight ELSE s.y]
BY PutchShows DEF Putch

\* The character that is being drawn is in the text from the first of its steps on.
LEMMA PrintStepShows ==
  ASSUME IsWholeCells, PrintOk, TextOk, ~raced, PrintStep
  PROVE  TextOk'
<1>1. print \in [rest : Seq(Chars), at : PrintSteps, x : Nat, y : Nat]
  BY DEF PrintOk
<1>2. print.rest # <<>> /\ Current \in Chars
  <2>1. print.rest # <<>>
    BY DEF PrintStep, ReadRow, ReadColumn, Draw, WriteColumn, WriteRow, Scroll,
           Clear, PrintAt, Printing
  <2> QED BY <1>1, <2>1 DEF Current
<1> DEFINE c == Current
\* The steps in the middle of the character.
<1>3. ASSUME NEW old, LinesOk(old), text' = AddChar(old, c), print'.rest = print.rest,
             print'.at # "next", Between(old)'
      PROVE  TextOk'
  <2>1. Current' = c
    BY <1>3 DEF Current
  <2>2. LinesOk(text')
    BY <1>2, <1>3, CharIsDone
  <2>3. LinesOk(text)'
    BY <2>2 DEF LinesOk, Fits
  <2>4. LinesOk(old)'
    BY <1>3 DEF LinesOk, Fits
  <2>5. AddChar(old, Current)' = AddChar(old, c)
    BY <2>1 DEF AddChar
  <2> HIDE DEF c
  <2> QED BY <1>3, <2>3, <2>4, <2>5 DEF TextOk
\* The last step.
<1>4. ASSUME LinesOk(text), print'.at = "next", text' = text,
             [lit |-> lit', x |-> cursor_x', y |-> cursor_y'] = ScreenOf(text)
      PROVE  TextOk'
  BY <1>4 DEF TextOk, Shows, LinesOk, ScreenOf, Fits, Shown
<1>5. CASE ReadRow
  <2>1. /\ print.at = "next" /\ text' = AddChar(text, c)
        /\ UNCHANGED <<lit, cursor_x, cursor_y>>
        /\ print' = [print EXCEPT !.at = "column", !.y = cursor_y]
    BY <1>5 DEF ReadRow, PrintAt
  <2>2. print'.rest = print.rest /\ print'.at = "column" /\ print'.y = cursor_y
    BY <1>1, <2>1
  <2>3. LinesOk(text) /\ [lit |-> lit, x |-> cursor_x, y |-> cursor_y] = ScreenOf(text)
    BY <2>1 DEF TextOk, Shows
  <2>4. lit = ScreenOf(text).lit /\ cursor_x = ScreenOf(text).x /\ cursor_y = ScreenOf(text).y
    BY <2>3 DEF ScreenOf
  <2>5. PICK old : old = text
    OBVIOUS
  <2>6. Between(old)'
    BY <2>1, <2>2, <2>4, <2>5 DEF Between
  <2> QED BY <1>3, <2>1, <2>2, <2>3, <2>5, <2>6
<1>6. ASSUME print.at # "next"
      PROVE  \E old : LinesOk(old) /\ text = AddChar(old, c) /\ Between(old)
  BY <1>6 DEF TextOk
<1>7. CASE ReadColumn
  <2>1. /\ print.at = "column" /\ UNCHANGED <<lit, cursor_x, cursor_y, text>>
        /\ print' = [print EXCEPT !.at = "draw", !.x = cursor_x]
    BY <1>7 DEF ReadColumn, PrintAt
  <2>2. PICK old : LinesOk(old) /\ text = AddChar(old, c) /\ Between(old)
    BY <1>6, <2>1
  <2>3. print'.rest = print.rest /\ print'.at = "draw" /\ print'.x = cursor_x
        /\ print'.y = print.y
    BY <1>1, <2>1
  <2>4. Current' = c
    BY <2>3 DEF Current
  <2>5. Between(old)'
    BY <2>1, <2>2, <2>3, <2>4 DEF Between
  <2> QED BY <1>3, <2>1, <2>2, <2>3, <2>5
<1>8. CASE Draw
  <2>1. /\ print.at = "draw" /\ UNCHANGED <<cursor_x, cursor_y, text>>
        /\ lit' = Drawn(lit, c, print.x, print.y)
        /\ print' = [print EXCEPT !.at = "write"]
    BY <1>8 DEF Draw, PrintAt
  <2>2. PICK old : LinesOk(old) /\ text = AddChar(old, c) /\ Between(old)
    BY <1>6, <2>1
  <2>3. print'.rest = print.rest /\ print'.at = "write" /\ print'.x = print.x
        /\ print'.y = print.y
    BY <1>1, <2>1
  <2>4. Current' = c
    BY <2>3 DEF Current
  <2>5. lit' = Drawn(ScreenOf(old).lit, c, ScreenOf(old).x, ScreenOf(old).y)
    BY <2>1, <2>2 DEF Between
  <2>6. Between(old)'
    BY <2>1, <2>2, <2>3, <2>4, <2>5 DEF Between
  <2> QED BY <1>3, <2>1, <2>2, <2>3, <2>6
<1>9. ASSUME NEW old, LinesOk(old), text = AddChar(old, c)
      PROVE  LET s == ScreenOf(old)
                 l == Drawn(s.lit, c, s.x, s.y)
             IN  /\ LinesOk(text)
                 /\ ScreenOf(text) =
                      [lit |-> IF BreaksLine(c, s.x) /\ IsLastRow(s.y)
                               THEN ScrollClears(ScrollMoves(l)) ELSE l,
                       x |-> NextX(c, s.x),
                       y |-> IF BreaksLine(c, s.x) /\ ~IsLastRow(s.y)
                             THEN s.y + CellHeight ELSE s.y]
  BY <1>2, <1>9, CharIsDone
<1>10. print' = PrintNext => print'.at = "next"
  BY DEF PrintNext
<1>11. CASE WriteColumn
  <2>1. /\ print.at = "write" /\ UNCHANGED <<lit, cursor_y, text>>
        /\ cursor_x' = NextX(c, print.x)
    BY <1>11 DEF WriteColumn, PrintAt
  <2>2. PICK old : LinesOk(old) /\ text = AddChar(old, c) /\ Between(old)
    BY <1>6, <2>1
  <2> DEFINE s == ScreenOf(old)
             l == Drawn(s.lit, c, s.x, s.y)
  <2>3. print.x = s.x /\ print.y = s.y /\ cursor_y = s.y /\ lit = l
    BY <2>1, <2>2 DEF Between
  <2> HIDE DEF s, l
  <2>4. CASE ~BreaksLine(c, print.x)
    <3>1. print' = PrintNext
      BY <1>11, <2>4 DEF WriteColumn
    <3>2. LinesOk(text) /\ ScreenOf(text) = [lit |-> l, x |-> NextX(c, s.x), y |-> s.y]
      BY <1>9, <2>2, <2>3, <2>4 DEF s, l
    <3> QED BY <1>4, <1>10, <2>1, <2>3, <3>1, <3>2
  <2>5. CASE BreaksLine(c, print.x)
    <3> DEFINE at == IF IsLastRow(print.y) THEN "scroll" ELSE "row"
    <3>1. print' = [print EXCEPT !.at = at]
      BY <1>11, <2>5 DEF WriteColumn
    <3>2. /\ print'.rest = print.rest /\ print'.at = at /\ print'.x = print.x
          /\ print'.y = print.y
      BY <1>1, <3>1
    <3>3. Current' = c
      BY <3>2 DEF Current
    <3>4. /\ print'.at \in {"scroll", "row"}
          /\ print'.at = "row" => ~IsLastRow(s.y)
          /\ print'.at = "scroll" => IsLastRow(s.y)
      BY <2>3, <3>2
    <3>5. BreaksLine(c, s.x)
      BY <2>3, <2>5
    <3>6. Between(old)'
      <4> HIDE DEF at, c
      <4> QED BY <2>1, <2>3, <3>2, <3>3, <3>4, <3>5
              DEF Between, s, l, BreaksLine, IsLastRow, NextX
    <3> QED BY <1>3, <2>1, <2>2, <3>2, <3>4, <3>6
  <2> QED BY <2>4, <2>5
<1>12. CASE WriteRow
  <2>1. /\ print.at = "row" /\ UNCHANGED <<lit, cursor_x, text>> /\ print' = PrintNext
        /\ cursor_y' = print.y + CellHeight
    BY <1>12 DEF WriteRow, PrintAt, RowBelow
  <2>2. PICK old : LinesOk(old) /\ text = AddChar(old, c) /\ Between(old)
    BY <1>6, <2>1
  <2> DEFINE s == ScreenOf(old)
             l == Drawn(s.lit, c, s.x, s.y)
  <2>3. /\ print.y = s.y /\ cursor_x = NextX(c, s.x) /\ lit = l
        /\ BreaksLine(c, s.x) /\ ~IsLastRow(s.y)
    BY <2>1, <2>2 DEF Between
  <2> HIDE DEF s, l
  <2>4. /\ LinesOk(text)
        /\ ScreenOf(text) = [lit |-> l, x |-> NextX(c, s.x), y |-> s.y + CellHeight]
    BY <1>9, <2>2, <2>3 DEF s, l
  <2> QED BY <1>4, <1>10, <2>1, <2>3, <2>4
<1>13. CASE Scroll
  <2>1. /\ print.at = "scroll" /\ UNCHANGED <<cursor_x, cursor_y, text>>
        /\ lit' = ScrollMoves(lit) /\ print' = [print EXCEPT !.at = "clear"]
    BY <1>13 DEF Scroll, PrintAt
  <2>2. PICK old : LinesOk(old) /\ text = AddChar(old, c) /\ Between(old)
    BY <1>6, <2>1
  <2>3. print'.rest = print.rest /\ print'.at = "clear" /\ print'.x = print.x
        /\ print'.y = print.y
    BY <1>1, <2>1
  <2>4. Current' = c
    BY <2>3 DEF Current
  <2>5. lit' = ScrollMoves(Drawn(ScreenOf(old).lit, c, ScreenOf(old).x, ScreenOf(old).y))
    BY <2>1, <2>2 DEF Between
  <2>6. Between(old)'
    BY <2>1, <2>2, <2>3, <2>4, <2>5 DEF Between
  <2> QED BY <1>3, <2>1, <2>2, <2>3, <2>6
<1>14. CASE Clear
  <2>1. /\ print.at = "clear" /\ UNCHANGED <<cursor_x, cursor_y, text>>
        /\ lit' = ScrollClears(lit) /\ print' = PrintNext
    BY <1>14 DEF Clear, PrintAt
  <2>2. PICK old : LinesOk(old) /\ text = AddChar(old, c) /\ Between(old)
    BY <1>6, <2>1
  <2> DEFINE s == ScreenOf(old)
             l == Drawn(s.lit, c, s.x, s.y)
  <2>3. /\ cursor_x = NextX(c, s.x) /\ cursor_y = s.y /\ lit = ScrollMoves(l)
        /\ BreaksLine(c, s.x) /\ IsLastRow(s.y)
    BY <2>1, <2>2 DEF Between
  <2> HIDE DEF s, l
  <2>4. /\ LinesOk(text)
        /\ ScreenOf(text) = [lit |-> ScrollClears(ScrollMoves(l)), x |-> NextX(c, s.x),
                             y |-> s.y]
    BY <1>9, <2>2, <2>3 DEF s, l
  <2> QED BY <1>4, <1>10, <2>1, <2>3, <2>4
<1> QED BY <1>5, <1>7, <1>8, <1>11, <1>12, <1>13, <1>14 DEF PrintStep

LEMMA TextInit == Init => TextInv
<1> SUFFICES ASSUME Init, IsWholeCells PROVE TextOk
  BY DEF TextInv
<1>1. /\ lit = {} /\ cursor_x = 0 /\ cursor_y = 0 /\ print.at = "next" /\ text = << <<>> >>
  BY DEF Init, ScreenInit
<1>2. LinesOk(<< <<>> >>) /\ ScreenOf(<< <<>> >>) = [lit |-> {}, x |-> 0, y |-> 0]
  <2> DEFINE t == << <<>> >>
  <2>1. /\ t \in Seq(Seq(Glyphs)) /\ Len(t) = 1 /\ t[1] = <<>> /\ Last(t) = <<>>
        /\ Len(<<>>) = 0
    BY DEF Last
  <2> HIDE DEF t
  <2>2. LinesOk(t)
    BY <2>1, GridFacts DEF LinesOk, Fits
  <2>3. Shown(t) = {}
    <3>1. ~ \E q \in (1 .. Rows) \X (1 .. Columns) : q[1] <= Len(t) /\ q[2] <= Len(t[q[1]])
      BY <2>1, GridFacts
    <3> QED BY <3>1 DEF Shown
  <2>4. CellWidth * 0 = 0 /\ CellHeight * (1 - 1) = 0
    BY CellFacts
  <2> QED BY <2>1, <2>2, <2>3, <2>4 DEF t, ScreenOf
<1> QED BY <1>1, <1>2 DEF TextOk, Shows

\* An interrupt that prints in the middle of a character makes raced true, so that at
\* every other step the screen is the one the kernel left.
LEMMA NextKeepsText == IntrInv /\ PlaceInv /\ ScreenInv /\ TextInv /\ [Next]_vars => TextInv'
<1> SUFFICES ASSUME PlaceInv, ScreenInv, TextInv, [Next]_vars, IsWholeCells, ~raced'
             PROVE  TextOk'
  BY DEF TextInv, IsWholeCells
<1>1. Info \in Seq(Chars) /\ Fatal \in Seq(Chars) /\ Prompt \in Seq(Chars) /\ Letter \in Chars
  BY MessageAssumption DEF Chars
<1>2. CASE UNCHANGED screenVars
  <2>1. UNCHANGED <<lit, cursor_x, cursor_y, print, text, raced>>
    BY <1>2 DEF screenVars
  <2>2. TextOk
    BY <2>1 DEF TextInv
  <2>3. ASSUME NEW old, Between(old) PROVE Between(old)'
    BY <2>1, <2>3 DEF Between, Current, ScreenOf, Drawn, BreaksLine, IsLastRow, NextX, Shown
  <2>4. ASSUME NEW old PROVE /\ LinesOk(old) => LinesOk(old)'
                             /\ AddChar(old, Current)' = AddChar(old, Current)
    BY <2>1 DEF LinesOk, Fits, AddChar, Current
  <2>5. LinesOk(text) => LinesOk(text)'
    BY <2>1 DEF LinesOk, Fits
  <2>6. Shows(text) => Shows(text)'
    BY <2>1 DEF Shows, ScreenOf, Shown
  <2> QED BY <2>1, <2>2, <2>3, <2>4, <2>5, <2>6 DEF TextOk
<1>3. ASSUME NEW chars \in Seq(Chars), PrintAtOnce(chars), print.at = "next"
      PROVE  TextOk'
  BY <1>3, AtOnceShows DEF PrintAtOnce, TextInv
<1>4. CASE Echo(Letter)
  <2>1. ~raced /\ print.at = "next" /\ text' = AddChar(text, Letter) /\ print' = print
        /\ Prints(<<Letter>>)
    BY <1>4 DEF Echo
  <2>2. text' = AddChars(text, <<Letter>>) /\ <<Letter>> \in Seq(Chars)
    BY <1>1, <2>1, AddCharsOfOne
  <2> QED BY <2>1, <2>2, AtOnceShows DEF TextInv
<1>5. CASE StartPrint(Prompt)
  <2>1. /\ print.rest = <<>> /\ print.at = "next" /\ ~raced
        /\ UNCHANGED <<lit, cursor_x, cursor_y, text>>
    BY <1>5 DEF StartPrint, Printing, PlaceInv
  <2>2. print'.at = "next"
    BY <1>5, <2>1 DEF StartPrint, ScreenInv, PrintOk
  <2> QED BY <2>1, <2>2 DEF TextInv, TextOk, Shows, LinesOk, Fits, ScreenOf, Shown
<1>6. CASE PrintStep
  <2>1. ~raced
    BY <1>6 DEF PrintStep, ReadRow, ReadColumn, Draw, WriteColumn, WriteRow, Scroll, Clear
  <2> QED BY <1>6, <2>1, PrintStepShows DEF TextInv, ScreenInv
<1>7. stage # "prompt" => print.at = "next"
  BY DEF PlaceInv
<1>8. CASE KernelStep
  <2>1. ASSUME NEW s, Reports(s) PROVE PrintAtOnce(Info)
    BY <2>1 DEF Reports
  <2>2. Fails => PrintAtOnce(Fatal)
    BY DEF Fails
  <2>3. InitIdt \/ EnablesInterrupts \/ InitMemory \/ InitDisk =>
          PrintAtOnce(Info) /\ stage # "prompt"
    BY <2>1 DEF InitIdt, EnablesInterrupts, InitMemory, InitDisk, KernelAt
  <2>4. InitPic => (PrintAtOnce(Info) \/ UNCHANGED screenVars) /\ stage # "prompt"
    BY <2>1 DEF InitPic, KernelAt
  <2>5. InitKeyboard \/ KeyboardIsInitialised \/ PromptIsPrinted \/ DiskPollsForever =>
          UNCHANGED screenVars
    BY DEF InitKeyboard, KeyboardIsInitialised, PromptIsPrinted, DiskPollsForever
  <2>6. KeyboardFails \/ InitFails \/ GptFails => PrintAtOnce(Fatal) /\ stage # "prompt"
    BY <2>2 DEF KeyboardFails, InitFails, GptFails, KernelAt
  <2>7. GptIsInitialised => PrintAtOnce(Info) /\ stage # "prompt"
    BY DEF GptIsInitialised, KernelAt
  <2>8. InitShell \/ PromptAgain => StartPrint(Prompt)
    BY DEF InitShell, PromptAgain
  <2>9. PrintPrompt => PrintStep
    BY DEF PrintPrompt
  <2> QED BY <1>1, <1>2, <1>3, <1>5, <1>6, <1>7, <1>8, <2>3, <2>4, <2>5, <2>6, <2>7, <2>8,
             <2>9 DEF KernelStep
<1>9. CASE Interrupted
  <2>1. KeyIsIgnored \/ EnterIsTyped => UNCHANGED screenVars
    BY DEF KeyIsIgnored, EnterIsTyped
  <2>2. LetterIsTyped => Echo(Letter)
    BY DEF LetterIsTyped
  <2>3. ExceptionStops => stage # "prompt"
    BY DEF ExceptionStops, PlaceInv
  <2> QED BY <1>1, <1>2, <1>3, <1>4, <1>7, <1>9, <2>1, <2>2, <2>3 DEF Interrupted
<1>10. CASE KeyboardWorks \/ Environment
  BY <1>2, <1>10 DEF KeyboardWorks, Environment
<1>11. CASE UNCHANGED vars
  BY <1>2, <1>11 DEF vars
<1> QED BY <1>8, <1>9, <1>10, <1>11 DEF Next

(***************************************************************************)
(* ShowsTheText of every behaviour, for any screen of whole cells, any     *)
(* font and any messages: between characters the pixels that are lit are   *)
(* those of the last lines of the text, in their cells, with the cursor    *)
(* behind them, through any number of scrolls by a memmove over a region   *)
(* that overlaps itself (screen.c:170-231).                                *)
(***************************************************************************)
THEOREM TextIsShown == Spec => []ShowsTheText
<1>1. Init => IntrInv /\ ScreenInv /\ PlaceInv /\ TextInv
  <2>1. Init => ScreenInv
    BY ScreenInit0 DEF Init
  <2> QED BY <2>1, IntrInit, PlaceInit, TextInit
<1>2. IntrInv /\ ScreenInv /\ PlaceInv /\ TextInv /\ [Next]_vars =>
        (IntrInv /\ ScreenInv /\ PlaceInv /\ TextInv)'
  BY NextKeepsIntr, NextKeepsScreen, NextKeepsPlace, NextKeepsText
<1>3. TextInv => ShowsTheText
  <2> SUFFICES ASSUME TextInv, IsWholeCells, ~raced, print.at = "next"
               PROVE  /\ lit = Shown(text)
                      /\ cursor_x = CellWidth * Len(Last(text))
                      /\ cursor_y = CellHeight * (Len(text) - 1)
    BY DEF ShowsTheText
  <2>1. [lit |-> lit, x |-> cursor_x, y |-> cursor_y] = ScreenOf(text)
    BY DEF TextInv, TextOk, Shows
  <2> QED BY <2>1 DEF ScreenOf
<1> QED BY <1>1, <1>2, <1>3, PTL DEF Spec

-----------------------------------------------------------------------------
(***************************************************************************)
(* The checksum                                                            *)
(***************************************************************************)

\* The remainder r of the division, its terms counted from exponent d down, is what the
\* code holds in crc, from bit k on, and what it has not read yet, rest.
Agrees(r, d, k, crc, rest) ==
  /\ r \subseteq Int /\ crc \subseteq Word32
  /\ \A p \in Int : (d - p \in r) <=> ~(p - k \in crc <=> p \in rest)

LEMMA PolynomialOfGenerator ==
  \A q \in Int : q \in POLYNOMIAL <=> (31 - q \in Generator /\ q # -1)
<1>1. \A q \in Int : q \in POLYNOMIAL => 31 - q \in Generator /\ q # -1
  BY DEF POLYNOMIAL, Generator
<1>2. \A e \in Generator : e # 32 => 31 - e \in POLYNOMIAL
  BY DEF POLYNOMIAL, Generator
<1>3. \A q \in Int : q # -1 => 31 - q # 32 /\ 31 - (31 - q) = q
  OBVIOUS
<1> QED BY <1>1, <1>2, <1>3

\* A round of the code for a term of the division.
LEMMA BitAgrees ==
  ASSUME NEW r, NEW d \in Int, NEW k \in Int, NEW crc, NEW rest,
         Agrees(r, d, k, crc, rest), \A p \in rest : p \in Int /\ p > k
  PROVE  Agrees(Cancelled(r, d - k), d, k + 1, CrcBit(crc), rest)
<1>1. /\ r \subseteq Int /\ crc \subseteq 0 .. 31
      /\ \A p \in Int : (d - p \in r) <=> ~(p - k \in crc <=> p \in rest)
  BY DEF Agrees, Word32
<1>2. d - k \in r <=> 0 \in crc
  <2>1. k - k = 0 /\ k \notin rest
    OBVIOUS
  <2> QED BY <1>1, <2>1
<1> DEFINE s == ShiftedRight(crc)
<1>3. /\ s \subseteq 0 .. 31
      /\ \A p \in Int : p - (k + 1) \in s <=> p - k \in crc /\ p # k
  <2>1. \A b \in Int : b \in s <=> b + 1 \in crc /\ b + 1 # 0
    <3>1. ASSUME NEW b \in Int, b + 1 \in crc, b + 1 # 0 PROVE b \in s
      <4>1. b = (b + 1) - 1
        OBVIOUS
      <4> QED BY <3>1, <4>1 DEF ShiftedRight
    <3>2. ASSUME NEW b \in s PROVE b + 1 \in crc /\ b + 1 # 0
      BY <1>1, <3>2 DEF ShiftedRight
    <3> QED BY <3>1, <3>2
  <2>2. s \subseteq 0 .. 31
    BY <1>1 DEF ShiftedRight
  <2> HIDE DEF s
  <2>3. \A p \in Int : p - (k + 1) \in Int /\ (p - (k + 1)) + 1 = p - k
    OBVIOUS
  <2>4. \A p \in Int : p - k # 0 <=> p # k
    OBVIOUS
  <2> QED BY <2>1, <2>2, <2>3, <2>4
<1> HIDE DEF s
<1>4. CASE 0 \notin crc
  <2>1. CrcBit(crc) = s /\ Cancelled(r, d - k) = r
    BY <1>2, <1>4 DEF CrcBit, Cancelled, s
  <2>2. \A p \in Int : p - (k + 1) \in s <=> p - k \in crc
    <3>1. \A p \in Int : p = k => p - k = 0
      OBVIOUS
    <3> QED BY <1>3, <1>4, <3>1
  <2> QED BY <1>1, <1>3, <2>1, <2>2 DEF Agrees, Word32
<1>5. CASE 0 \in crc
  <2> DEFINE g == {e + (d - k) - 32 : e \in Generator}
             new == Xor(s, POLYNOMIAL)
  <2>1. CrcBit(crc) = new /\ Cancelled(r, d - k) = Xor(r, g)
    BY <1>2, <1>5 DEF CrcBit, Cancelled, s
  <2>2. Generator \subseteq Int /\ POLYNOMIAL \subseteq 0 .. 31 /\ 32 \in Generator
    BY DEF Generator, POLYNOMIAL
  <2>3. g \subseteq Int
    BY <2>2
  <2>4. ASSUME NEW p \in Int
        PROVE  d - p \in g <=> p = k \/ p - (k + 1) \in POLYNOMIAL
    <3>1. d - p \in g <=> 31 - (p - (k + 1)) \in Generator
      <4>1. ASSUME d - p \in g PROVE 31 - (p - (k + 1)) \in Generator
        <5>1. PICK e \in Generator : d - p = e + (d - k) - 32
          BY <4>1
        <5>2. e = 31 - (p - (k + 1))
          BY <2>2, <5>1
        <5> QED BY <5>2
      <4>2. d - p = (31 - (p - (k + 1))) + (d - k) - 32
        OBVIOUS
      <4> QED BY <4>1, <4>2
    <3>2. p - (k + 1) \in Int /\ (p - (k + 1) = -1 <=> p = k)
      OBVIOUS
    <3>3. p = k => 31 - (p - (k + 1)) = 32
      OBVIOUS
    <3> HIDE DEF g
    <3> QED BY <2>2, <3>1, <3>2, <3>3, PolynomialOfGenerator
  <2> HIDE DEF g
  <2>5. Xor(r, g) \subseteq Int /\ new \subseteq 0 .. 31
    BY <1>1, <1>3, <2>2, <2>3 DEF Xor
  <2>6. ASSUME NEW p \in Int
        PROVE  d - p \in Xor(r, g) <=> ~(p - (k + 1) \in new <=> p \in rest)
    <3>1. d - p \in Xor(r, g) <=> ~(d - p \in r <=> d - p \in g)
      BY DEF Xor
    <3>2. p - (k + 1) \in new <=> ~(p - (k + 1) \in s <=> p - (k + 1) \in POLYNOMIAL)
      BY DEF Xor
    <3>3. p = k => p - k \in crc /\ p - (k + 1) \notin POLYNOMIAL
      <4>1. p = k => p - k = 0 /\ p - (k + 1) = -1
        OBVIOUS
      <4> QED BY <1>5, <2>2, <4>1
    <3> HIDE DEF new
    <3> QED BY <1>1, <1>3, <2>4, <3>1, <3>2, <3>3
  <2> HIDE DEF new
  <2> QED BY <2>1, <2>5, <2>6 DEF Agrees, Word32
<1> QED BY <1>4, <1>5

\* Eight of them, on a byte that has been added to crc.
LEMMA ByteAgrees ==
  ASSUME NEW r, NEW d \in Int, NEW k \in Int, NEW crc, NEW byte, NEW rest,
         Agrees(r, d, k, Xor(crc, byte), rest), \A p \in rest : p \in Int /\ p >= k + 8
  PROVE  Agrees(CancelledByte(r, d - k), d, k + 8, CrcByte(crc, byte), rest)
<1> DEFINE cstep == [i \in 0 .. 7 |-> [c \in SUBSET Word32 |-> CrcBit(c)]]
           rstep == [j \in 0 .. 7 |-> [q \in SUBSET Int |-> Cancelled(q, (d - k) - j)]]
<1>1. CrcByte(crc, byte) = Loop(cstep, Xor(crc, byte), 8)
  BY DEF CrcByte
<1>2. CancelledByte(r, d - k) = Loop(rstep, r, 8)
  BY DEF CancelledByte
<1>3. \A i \in 0 .. 7 : \A c \in SUBSET Word32 : cstep[i][c] = CrcBit(c)
  OBVIOUS
<1>4. \A i \in 0 .. 7 : \A q \in SUBSET Int : rstep[i][q] = Cancelled(q, (d - k) - i)
  OBVIOUS
<1> HIDE DEF cstep, rstep
<1>5. PICK f : /\ f[0] = Xor(crc, byte) /\ CrcByte(crc, byte) = f[8]
               /\ \A i \in 0 .. 8 - 1 : f[i + 1] = cstep[i][f[i]]
  BY <1>1, LoopSteps
<1>6. PICK g : /\ g[0] = r /\ CancelledByte(r, d - k) = g[8]
               /\ \A i \in 0 .. 8 - 1 : g[i + 1] = rstep[i][g[i]]
  BY <1>2, LoopSteps
<1> DEFINE A(i) == Agrees(g[i], d, k + i, f[i], rest)
<1>7. A(0)
  <2>1. k + 0 = k
    OBVIOUS
  <2> QED BY <1>5, <1>6, <2>1
<1>8. ASSUME NEW i \in 0 .. 7, A(i) PROVE A(i + 1)
  <2>1. /\ i \in 0 .. 8 - 1 /\ k + i \in Int /\ (k + i) + 1 = k + (i + 1)
        /\ d - (k + i) = (d - k) - i /\ \A p \in rest : p \in Int /\ p > k + i
    OBVIOUS
  <2>2. f[i] \in SUBSET Word32 /\ g[i] \in SUBSET Int
    BY <1>8 DEF Agrees
  <2>3. f[i + 1] = CrcBit(f[i]) /\ g[i + 1] = Cancelled(g[i], d - (k + i))
    BY <1>3, <1>4, <1>5, <1>6, <2>1, <2>2
  <2>4. Agrees(Cancelled(g[i], d - (k + i)), d, (k + i) + 1, CrcBit(f[i]), rest)
    BY <1>8, <2>1, BitAgrees
  <2> QED BY <2>1, <2>3, <2>4
<1> HIDE DEF A
<1>9. A(1) /\ A(2) /\ A(3) /\ A(4)
  BY <1>7, <1>8
<1>10. A(5) /\ A(6) /\ A(7) /\ A(8)
  BY <1>8, <1>9
<1> QED BY <1>5, <1>6, <1>10 DEF A

(***************************************************************************)
(* calculate_ccitt32_ansi_crc32 is the checksum of the standard, for every *)
(* buffer of every length: the loop over the bits of a word that is        *)
(* shifted to the right computes the remainder of a division of            *)
(* polynomials (bit_math.c:21-35).                                         *)
(***************************************************************************)
THEOREM ChecksumIsTheRemainder ==
  ASSUME NEW buffer, buffer \subseteq Nat, NEW length \in Nat
  PROVE  calculate_ccitt32_ansi_crc32(buffer, length) = ReferenceCrc(buffer, length)
<1> DEFINE n == 8 * length
           d == n + 31
           message == Xor({b \in buffer : b < n}, Word32)
           poly == {d - b : b \in message}
           cstep == [i \in 0 .. length - 1 |->
                       [crc \in SUBSET Word32 |-> CrcByte(crc, Byte(buffer, i))]]
           rstep == [i \in 0 .. length - 1 |->
                       [r \in SUBSET Int |-> CancelledByte(r, 8 * (length - i) + 31)]]
           Rest(i) == {b \in buffer : 8 * i <= b /\ b < n}
<1>1. calculate_ccitt32_ansi_crc32(buffer, length) = Xor(Word32, Loop(cstep, Word32, length))
  BY DEF calculate_ccitt32_ansi_crc32
<1>2. ReferenceCrc(buffer, length) = Xor(Word32, {31 - e : e \in Loop(rstep, poly, length)})
  BY DEF ReferenceCrc, Remainder
<1>3. \A i \in 0 .. length - 1 : \A c \in SUBSET Word32 :
        cstep[i][c] = CrcByte(c, Byte(buffer, i))
  OBVIOUS
<1>4. \A i \in 0 .. length - 1 : \A r \in SUBSET Int :
        rstep[i][r] = CancelledByte(r, 8 * (length - i) + 31)
  OBVIOUS
<1>5. n \in Nat /\ d \in Nat /\ d = n + 31
  OBVIOUS
<1>6. Agrees(poly, d, 0, Word32, Rest(0))
  <2>1. message \subseteq Nat
    <3>1. \A b \in message : b \in buffer \/ b \in 0 .. 31
      BY DEF Xor, Word32
    <3>2. buffer \subseteq Nat /\ 0 .. 31 \subseteq Nat
      OBVIOUS
    <3> HIDE DEF message
    <3> QED BY <3>1, <3>2
  <2>2. ASSUME NEW p \in Int PROVE d - p \in poly <=> p \in message
    <3> HIDE DEF message, d
    <3>1. ASSUME d - p \in poly PROVE p \in message
      <4>1. PICK b \in message : d - p = d - b
        BY <3>1
      <4>2. b = p
        BY <1>5, <2>1, <4>1
      <4> QED BY <4>2
    <3> QED BY <3>1
  <2>3. poly \subseteq Int
    <3> HIDE DEF message, d
    <3> QED BY <1>5, <2>1
  <2>4. \A p \in Int : p \in message <=> ~(p \in Word32 <=> p \in Rest(0))
    <3>1. Rest(0) = {b \in buffer : b < n}
      <4>1. \A b \in buffer : 8 * 0 <= b
        OBVIOUS
      <4> HIDE DEF n
      <4> QED BY <4>1
    <3> HIDE DEF Rest
    <3> QED BY <3>1 DEF Xor
  <2>5. \A p \in Int : p - 0 = p
    OBVIOUS
  <2> HIDE DEF message, poly, Rest
  <2> QED BY <2>2, <2>3, <2>4, <2>5 DEF Agrees
<1> HIDE DEF cstep, rstep, poly
<1>7. PICK f : /\ f[0] = Word32 /\ Loop(cstep, Word32, length) = f[length]
               /\ \A i \in 0 .. length - 1 : f[i + 1] = cstep[i][f[i]]
  BY LoopSteps
<1>8. PICK g : /\ g[0] = poly /\ Loop(rstep, poly, length) = g[length]
               /\ \A i \in 0 .. length - 1 : g[i + 1] = rstep[i][g[i]]
  BY LoopSteps
<1> DEFINE A(i) == Agrees(g[i], d, 8 * i, f[i], Rest(i))
           T == {i \in Nat : i <= length => A(i)}
<1>9. 0 \in T
  <2>1. 8 * 0 = 0
    OBVIOUS
  <2> HIDE DEF d, Rest
  <2> QED BY <1>6, <1>7, <1>8, <2>1
<1>10. ASSUME NEW i \in T PROVE i + 1 \in T
  <2>1. i \in Nat /\ i + 1 \in Nat
    OBVIOUS
  <2> SUFFICES ASSUME i + 1 <= length PROVE A(i + 1)
    BY <2>1
  <2>2. i \in 0 .. length - 1 /\ i <= length
    BY <2>1
  <2>3. A(i)
    BY <2>2
  <2>4. /\ 8 * i \in Int /\ 8 * (i + 1) = 8 * i + 8 /\ 8 * (length - i) + 31 = d - 8 * i
        /\ 8 * (i + 1) <= n
    BY <2>1, <2>2
  <2> DEFINE k == 8 * i
             byte == Byte(buffer, i)
  <2>5. f[i] \in SUBSET Word32 /\ g[i] \in SUBSET Int
    BY <2>3 DEF Agrees
  <2>6. f[i + 1] = CrcByte(f[i], byte) /\ g[i + 1] = CancelledByte(g[i], d - k)
    <3> HIDE DEF d
    <3> QED BY <1>3, <1>4, <1>7, <1>8, <2>2, <2>4, <2>5
  <2>7. byte \subseteq Word32 /\ \A p \in Int : p - k \in byte <=> p \in buffer /\ k <= p /\ p < k + 8
    <3>1. byte \subseteq Word32
      BY DEF Byte, Word32
    <3>2. \A p \in Int : p - k \in byte <=> p - k \in 0 .. 7 /\ k + (p - k) \in buffer
      BY DEF Byte
    <3>3. \A p \in Int : k + (p - k) = p /\ (p - k \in 0 .. 7 <=> k <= p /\ p < k + 8)
      BY <2>4
    <3> HIDE DEF k, byte
    <3> QED BY <3>1, <3>2, <3>3
  <2>8. \A p \in Int : p \in Rest(i) <=> p \in buffer /\ k <= p /\ p < n
    OBVIOUS
  <2>9. \A p \in Int : p \in Rest(i + 1) <=> p \in buffer /\ k + 8 <= p /\ p < n
    BY <2>4
  <2>10. \A p \in Rest(i + 1) : p \in Int /\ p >= k + 8
    BY <2>4
  <2>11. Agrees(g[i], d, k, Xor(f[i], byte), Rest(i + 1))
    <3>1. Xor(f[i], byte) \subseteq Word32
      BY <2>5, <2>7 DEF Xor
    <3>2. ASSUME NEW p \in Int
          PROVE  d - p \in g[i] <=> ~(p - k \in Xor(f[i], byte) <=> p \in Rest(i + 1))
      <4>1. d - p \in g[i] <=> ~(p - k \in f[i] <=> p \in Rest(i))
        BY <2>3 DEF Agrees
      <4>2. p - k \in Xor(f[i], byte) <=> ~(p - k \in f[i] <=> p - k \in byte)
        BY DEF Xor
      <4>3. /\ p \in Rest(i) <=> p - k \in byte \/ p \in Rest(i + 1)
            /\ ~(p - k \in byte /\ p \in Rest(i + 1))
        <5>1. k + 8 <= n /\ k \in Int /\ n \in Int
          BY <2>4
        <5> HIDE DEF byte, Rest, k, n, d
        <5> QED BY <2>7, <2>8, <2>9, <5>1
      <4> HIDE DEF byte, Rest, k, n, d
      <4> QED BY <4>1, <4>2, <4>3
    <3> HIDE DEF byte, Rest, k, n, d
    <3> QED BY <2>5, <3>1, <3>2 DEF Agrees
  <2>12. Agrees(CancelledByte(g[i], d - k), d, k + 8, CrcByte(f[i], byte), Rest(i + 1))
    <3>1. d \in Int /\ k \in Int
      BY <1>5, <2>4
    <3> HIDE DEF byte, Rest, k, n, d
    <3> QED BY <2>10, <2>11, <3>1, ByteAgrees
  <2> QED BY <2>4, <2>6, <2>12
<1>11. T = Nat
  <2>1. T \subseteq Nat
    OBVIOUS
  <2> HIDE DEF T
  <2> QED BY <1>9, <1>10, <2>1, NatSet
<1>12. A(length)
  BY <1>11
<1>13. {31 - e : e \in g[length]} = f[length]
  <2>1. /\ g[length] \subseteq Int /\ f[length] \subseteq 0 .. 31
        /\ \A p \in Int : d - p \in g[length] <=> ~(p - n \in f[length] <=> p \in Rest(length))
    BY <1>12 DEF Agrees, Word32
  <2>2. Rest(length) = {}
    <3>1. \A b \in buffer : ~(8 * length <= b /\ b < n)
      OBVIOUS
    <3> HIDE DEF n
    <3> QED BY <3>1
  <2>3. ASSUME NEW b \in Int PROVE 31 - b \in g[length] <=> b \in f[length]
    <3>1. n + b \in Int /\ d - (n + b) = 31 - b /\ (n + b) - n = b
      BY <1>5
    <3> HIDE DEF n, d, Rest
    <3> QED BY <2>1, <2>2, <3>1
  <2>4. ASSUME NEW b \in {31 - e : e \in g[length]} PROVE b \in f[length]
    <3>1. PICK e \in g[length] : b = 31 - e
      OBVIOUS
    <3>2. e \in Int /\ b \in Int /\ 31 - b = e
      BY <2>1, <3>1
    <3> QED BY <2>3, <3>1, <3>2
  <2>5. ASSUME NEW b \in f[length] PROVE b \in {31 - e : e \in g[length]}
    <3>1. b \in Int /\ 31 - (31 - b) = b
      BY <2>1
    <3>2. 31 - b \in g[length]
      BY <2>3, <3>1
    <3> QED BY <3>1, <3>2
  <2> QED BY <2>4, <2>5
<1> QED BY <1>1, <1>2, <1>7, <1>8, <1>13

-----------------------------------------------------------------------------
(***************************************************************************)
(* gpt_init                                                                *)
(***************************************************************************)

\* The words x and y differ in bits from lo up to hi only, hi excluded.
DifferIn(x, y, lo, hi) == \A p \in Xor(x, y) : lo <= p /\ p < hi

\* A round of the checksum keeps the bit that it looks at, as bit 31 of its result.
LEMMA RoundBack ==
  ASSUME NEW x \in SUBSET Word32, NEW y \in SUBSET Word32, NEW lo \in Nat, NEW hi \in Nat,
         hi <= 31, DifferIn(CrcBit(x), CrcBit(y), lo, hi)
  PROVE  DifferIn(x, y, lo + 1, hi + 1)
<1>1. ASSUME NEW z \in SUBSET Word32
      PROVE  /\ 31 \in CrcBit(z) <=> 0 \in z
             /\ 31 \notin ShiftedRight(z)
             /\ \A p \in Int : p \in z /\ p # 0 <=> p - 1 \in ShiftedRight(z) /\ p # 0
  <2>1. \A p \in z : p \in 0 .. 31
    BY DEF Word32
  <2>2. 31 \notin ShiftedRight(z)
    BY <2>1 DEF ShiftedRight
  <2>3. ASSUME NEW p \in Int, p - 1 \in ShiftedRight(z) PROVE p \in z
    <3>1. PICK b \in z \ {0} : p - 1 = b - 1
      BY <2>3 DEF ShiftedRight
    <3>2. b = p
      BY <2>1, <3>1
    <3> QED BY <3>2
  <2>4. ASSUME NEW p \in z, p # 0 PROVE p - 1 \in ShiftedRight(z)
    BY <2>4 DEF ShiftedRight
  <2>5. 31 \in POLYNOMIAL
    BY DEF POLYNOMIAL
  <2>6. 31 \in CrcBit(z) <=> 0 \in z
    BY <2>2, <2>5 DEF CrcBit, Xor
  <2> QED BY <2>2, <2>3, <2>4, <2>6
<1>2. 31 \notin Xor(CrcBit(x), CrcBit(y))
  BY DEF DifferIn
<1>3. 0 \in x <=> 0 \in y
  BY <1>1, <1>2 DEF Xor
<1>4. Xor(CrcBit(x), CrcBit(y)) = Xor(ShiftedRight(x), ShiftedRight(y))
  BY <1>3 DEF CrcBit, Xor
<1>5. ASSUME NEW p \in Xor(x, y) PROVE lo + 1 <= p /\ p < hi + 1
  <2>1. p \in Int /\ p # 0
    <3>1. p \in 0 .. 31
      BY DEF Xor, Word32
    <3> QED BY <1>3, <3>1 DEF Xor
  <2>2. p - 1 \in Xor(ShiftedRight(x), ShiftedRight(y))
    BY <1>1, <2>1 DEF Xor
  <2>3. lo <= p - 1 /\ p - 1 < hi
    BY <1>4, <2>2 DEF DifferIn
  <2> QED BY <2>1, <2>3
<1> QED BY <1>5 DEF DifferIn

LEMMA CrcBitIsWord == \A x \in SUBSET Word32 : CrcBit(x) \in SUBSET Word32
<1> SUFFICES ASSUME NEW x \in SUBSET Word32 PROVE CrcBit(x) \in SUBSET Word32
  OBVIOUS
<1>1. ShiftedRight(x) \subseteq 0 .. 31
  BY DEF ShiftedRight, Word32
<1>2. POLYNOMIAL \subseteq 0 .. 31
  BY DEF POLYNOMIAL
<1> QED BY <1>1, <1>2 DEF CrcBit, Xor, Word32

\* The eight rounds of a byte.
LEMMA CrcByteSteps ==
  ASSUME NEW c \in SUBSET Word32, NEW byte \in SUBSET Word32
  PROVE  \E f : /\ f[0] = Xor(c, byte) /\ CrcByte(c, byte) = f[8]
                /\ \A i \in 0 .. 7 : f[i + 1] = CrcBit(f[i])
                /\ \A i \in 0 .. 8 : f[i] \in SUBSET Word32
<1> DEFINE step == [i \in 0 .. 7 |-> [w \in SUBSET Word32 |-> CrcBit(w)]]
<1>1. CrcByte(c, byte) = Loop(step, Xor(c, byte), 8)
  BY DEF CrcByte
<1>2. \A i \in 0 .. 7 : \A w \in SUBSET Word32 : step[i][w] = CrcBit(w)
  OBVIOUS
<1> HIDE DEF step
<1>3. PICK f : /\ f[0] = Xor(c, byte) /\ CrcByte(c, byte) = f[8]
               /\ \A i \in 0 .. 8 - 1 : f[i + 1] = step[i][f[i]]
  BY <1>1, LoopSteps
<1>4. f[0] \in SUBSET Word32
  BY <1>3 DEF Xor
<1>5. ASSUME NEW i \in 0 .. 7, f[i] \in SUBSET Word32
      PROVE  f[i + 1] = CrcBit(f[i]) /\ f[i + 1] \in SUBSET Word32
  <2>1. i \in 0 .. 8 - 1
    OBVIOUS
  <2>2. f[i + 1] = CrcBit(f[i])
    BY <1>2, <1>3, <1>5, <2>1
  <2> QED BY <1>5, <2>2, CrcBitIsWord
<1> DEFINE W(i) == f[i] \in SUBSET Word32
<1>6. W(0) /\ \A i \in 0 .. 7 : W(i) => W(i + 1)
  BY <1>4, <1>5
<1> HIDE DEF W
<1>7. W(1) /\ W(2) /\ W(3) /\ W(4)
  BY <1>6
<1>8. W(5) /\ W(6) /\ W(7) /\ W(8)
  BY <1>6, <1>7
<1>9. \A i \in 0 .. 8 : W(i)
  BY <1>6, <1>7, <1>8
<1>10. \A i \in 0 .. 7 : f[i + 1] = CrcBit(f[i])
  <2>1. \A i \in 0 .. 7 : W(i)
    BY <1>9
  <2> QED BY <1>5, <2>1 DEF W
<1> QED BY <1>3, <1>9, <1>10 DEF W

LEMMA ByteBack ==
  ASSUME NEW c \in SUBSET Word32, NEW byte \in SUBSET Word32,
         NEW d \in SUBSET Word32, NEW other \in SUBSET Word32,
         NEW lo \in Nat, NEW hi \in Nat, hi <= 24,
         DifferIn(CrcByte(c, byte), CrcByte(d, other), lo, hi)
  PROVE  DifferIn(Xor(c, byte), Xor(d, other), lo + 8, hi + 8)
<1>1. PICK f : /\ f[0] = Xor(c, byte) /\ CrcByte(c, byte) = f[8]
               /\ \A i \in 0 .. 7 : f[i + 1] = CrcBit(f[i])
               /\ \A i \in 0 .. 8 : f[i] \in SUBSET Word32
  BY CrcByteSteps
<1>2. PICK g : /\ g[0] = Xor(d, other) /\ CrcByte(d, other) = g[8]
               /\ \A i \in 0 .. 7 : g[i + 1] = CrcBit(g[i])
               /\ \A i \in 0 .. 8 : g[i] \in SUBSET Word32
  BY CrcByteSteps
<1> DEFINE A(i) == DifferIn(f[8 - i], g[8 - i], lo + i, hi + i)
<1>3. A(0)
  <2>1. lo + 0 = lo /\ hi + 0 = hi /\ 8 - 0 = 8
    OBVIOUS
  <2> QED BY <1>1, <1>2, <2>1
<1>4. ASSUME NEW i \in 0 .. 7, A(i) PROVE A(i + 1)
  <2> DEFINE k == 8 - (i + 1)
  <2>1. /\ k \in 0 .. 7 /\ k \in 0 .. 8 /\ k + 1 = 8 - i /\ lo + i \in Nat /\ hi + i \in Nat
        /\ hi + i <= 31 /\ (lo + i) + 1 = lo + (i + 1) /\ (hi + i) + 1 = hi + (i + 1)
    OBVIOUS
  <2> HIDE DEF k
  <2>2. f[k] \in SUBSET Word32 /\ g[k] \in SUBSET Word32
    BY <1>1, <1>2, <2>1
  <2>3. CrcBit(f[k]) = f[8 - i] /\ CrcBit(g[k]) = g[8 - i]
    BY <1>1, <1>2, <2>1
  <2>4. DifferIn(f[k], g[k], (lo + i) + 1, (hi + i) + 1)
    BY <1>4, <2>1, <2>2, <2>3, RoundBack
  <2> QED BY <2>1, <2>4 DEF k
<1> HIDE DEF A
<1>5. A(1) /\ A(2) /\ A(3) /\ A(4)
  BY <1>3, <1>4
<1>6. A(5) /\ A(6) /\ A(7) /\ A(8)
  BY <1>4, <1>5
<1>7. DifferIn(f[8 - 8], g[8 - 8], lo + 8, hi + 8)
  BY <1>6 DEF A
<1>8. 8 - 8 = 0
  OBVIOUS
<1> QED BY <1>1, <1>2, <1>7, <1>8

LEMMA EqualWords ==
  ASSUME NEW x, NEW y, NEW lo \in Int, NEW hi \in Int, hi <= lo, DifferIn(x, y, lo, hi),
         x \subseteq Int, y \subseteq Int
  PROVE  x = y
<1>1. \A p \in Xor(x, y) : p \in Int
  BY DEF Xor
<1>2. Xor(x, y) = {}
  BY <1>1 DEF DifferIn
<1> QED BY <1>2 DEF Xor

\* A byte goes into the lowest eight bits of the word.
LEMMA AddedByte ==
  ASSUME NEW c, NEW d, NEW b \in SUBSET (0 .. 7), NEW e \in SUBSET (0 .. 7),
         c \subseteq Int, d \subseteq Int,
         NEW lo \in Nat, NEW hi \in Nat, DifferIn(Xor(c, b), Xor(d, e), lo, hi)
  PROVE  /\ hi >= 8 => DifferIn(c, d, 0, hi)
         /\ c = d /\ lo >= 8 => b = e
<1>1. ASSUME hi >= 8 PROVE DifferIn(c, d, 0, hi)
  <2> SUFFICES ASSUME NEW p \in Xor(c, d) PROVE 0 <= p /\ p < hi
    BY DEF DifferIn
  <2>1. CASE p \in b \/ p \in e
    <3>1. p \in 0 .. 7
      BY <2>1
    <3> QED BY <1>1, <3>1
  <2>2. CASE p \notin b /\ p \notin e
    <3>1. p \in Xor(Xor(c, b), Xor(d, e)) /\ p \in Int
      BY <2>2 DEF Xor
    <3> QED BY <3>1 DEF DifferIn
  <2> QED BY <2>1, <2>2
<1>2. ASSUME c = d, lo >= 8, b # e PROVE FALSE
  <2>1. PICK p : p \in Xor(b, e)
    BY <1>2 DEF Xor
  <2>2. p \in 0 .. 7
    BY <2>1 DEF Xor
  <2>3. p \in Xor(Xor(c, b), Xor(d, e))
    BY <1>2, <2>1 DEF Xor
  <2>4. lo <= p
    BY <2>3 DEF DifferIn
  <2> QED BY <1>2, <2>2, <2>4
<1> QED BY <1>1, <1>2

LEMMA ByteIsByte == \A buffer, i : Byte(buffer, i) \in SUBSET (0 .. 7) /\ Byte(buffer, i) \in SUBSET Word32
BY DEF Byte, Word32

\* The words between the bytes of a buffer.
LEMMA CrcSteps ==
  ASSUME NEW buffer, NEW n \in Nat
  PROVE  \E f : /\ calculate_ccitt32_ansi_crc32(buffer, n) = Xor(Word32, f[n])
                /\ f[0] = Word32
                /\ \A i \in 0 .. n - 1 : f[i + 1] = CrcByte(f[i], Byte(buffer, i))
                /\ \A i \in 0 .. n : f[i] \in SUBSET Word32
<1> DEFINE step == [i \in 0 .. n - 1 |->
                      [crc \in SUBSET Word32 |-> CrcByte(crc, Byte(buffer, i))]]
<1>1. calculate_ccitt32_ansi_crc32(buffer, n) = Xor(Word32, Loop(step, Word32, n))
  BY DEF calculate_ccitt32_ansi_crc32
<1>2. \A i \in 0 .. n - 1 : \A c \in SUBSET Word32 : step[i][c] = CrcByte(c, Byte(buffer, i))
  OBVIOUS
<1> HIDE DEF step
<1>3. PICK f : /\ f[0] = Word32 /\ Loop(step, Word32, n) = f[n]
               /\ \A i \in 0 .. n - 1 : f[i + 1] = step[i][f[i]]
  BY LoopSteps
<1>4. ASSUME NEW i \in 0 .. n - 1, f[i] \in SUBSET Word32
      PROVE  f[i + 1] = CrcByte(f[i], Byte(buffer, i)) /\ f[i + 1] \in SUBSET Word32
  <2>1. f[i + 1] = CrcByte(f[i], Byte(buffer, i))
    BY <1>2, <1>3, <1>4
  <2>2. PICK g : /\ CrcByte(f[i], Byte(buffer, i)) = g[8]
                 /\ \A k \in 0 .. 8 : g[k] \in SUBSET Word32
    BY <1>4, ByteIsByte, CrcByteSteps
  <2>3. 8 \in 0 .. 8
    OBVIOUS
  <2> QED BY <2>1, <2>2, <2>3
<1> DEFINE T == {i \in Nat : i <= n => f[i] \in SUBSET Word32}
<1>5. T = Nat
  <2>1. T \subseteq Nat /\ 0 \in T
    BY <1>3
  <2>2. ASSUME NEW i \in T PROVE i + 1 \in T
    <3>1. i \in Nat /\ i + 1 \in Nat
      OBVIOUS
    <3>2. ASSUME i + 1 <= n PROVE f[i + 1] \in SUBSET Word32
      <4>1. i \in 0 .. n - 1 /\ i <= n
        BY <3>1, <3>2
      <4>2. f[i] \in SUBSET Word32
        BY <4>1
      <4> QED BY <1>4, <4>1, <4>2
    <3> QED BY <3>1, <3>2
  <2> HIDE DEF T
  <2> QED BY <2>1, <2>2, NatSet
<1>6. \A i \in 0 .. n : i \in Nat /\ i <= n
  OBVIOUS
<1>7. \A i \in 0 .. n : f[i] \in SUBSET Word32
  BY <1>5, <1>6
<1>8. \A i \in 0 .. n - 1 : i \in 0 .. n
  OBVIOUS
<1>9. \A i \in 0 .. n - 1 : f[i + 1] = CrcByte(f[i], Byte(buffer, i))
  BY <1>4, <1>7, <1>8
<1> QED BY <1>1, <1>3, <1>7, <1>9

\* Two buffers with the same checksum that differ in four neighbouring bytes at most do
\* not differ: before and behind these the words agree, and what the last of them adds
\* to the word is seen in the bits that the earlier ones cannot reach.
LEMMA BurstIsNoticed ==
  ASSUME NEW x, NEW y, NEW n \in Nat, NEW i \in Nat, i + 4 <= n,
         \A j \in 0 .. n - 1 : j \notin i .. i + 3 => Byte(x, j) = Byte(y, j),
         calculate_ccitt32_ansi_crc32(x, n) = calculate_ccitt32_ansi_crc32(y, n)
  PROVE  \A j \in 0 .. n - 1 : Byte(x, j) = Byte(y, j)
<1>1. PICK f : /\ calculate_ccitt32_ansi_crc32(x, n) = Xor(Word32, f[n])
               /\ f[0] = Word32
               /\ \A k \in 0 .. n - 1 : f[k + 1] = CrcByte(f[k], Byte(x, k))
               /\ \A k \in 0 .. n : f[k] \in SUBSET Word32
  BY CrcSteps
<1>2. PICK g : /\ calculate_ccitt32_ansi_crc32(y, n) = Xor(Word32, g[n])
               /\ g[0] = Word32
               /\ \A k \in 0 .. n - 1 : g[k + 1] = CrcByte(g[k], Byte(y, k))
               /\ \A k \in 0 .. n : g[k] \in SUBSET Word32
  BY CrcSteps
<1>3. \A c \in SUBSET Word32 : c \subseteq Int
  BY DEF Word32
<1>4. \A k \in 0 .. n - 1 : k \in 0 .. n /\ k + 1 \in 0 .. n
  OBVIOUS
<1>5. ASSUME NEW k \in 0 .. n - 1, NEW lo \in Nat, NEW hi \in Nat, hi <= 24,
             DifferIn(f[k + 1], g[k + 1], lo, hi)
      PROVE  DifferIn(Xor(f[k], Byte(x, k)), Xor(g[k], Byte(y, k)), lo + 8, hi + 8)
  <2>1. f[k] \in SUBSET Word32 /\ g[k] \in SUBSET Word32
    BY <1>1, <1>2, <1>4
  <2>2. DifferIn(CrcByte(f[k], Byte(x, k)), CrcByte(g[k], Byte(y, k)), lo, hi)
    BY <1>1, <1>2, <1>5
  <2> QED BY <1>5, <2>1, <2>2, ByteIsByte, ByteBack
<1>6. ASSUME NEW k \in 0 .. n, f[k] = g[k] PROVE DifferIn(f[k], g[k], 0, 0)
  BY <1>6 DEF DifferIn, Xor
<1>7. ASSUME NEW k \in 0 .. n - 1, Byte(x, k) = Byte(y, k)
      PROVE  f[k] = g[k] <=> f[k + 1] = g[k + 1]
  <2>1. ASSUME f[k] = g[k] PROVE f[k + 1] = g[k + 1]
    BY <1>1, <1>2, <1>7, <2>1
  <2>2. ASSUME f[k + 1] = g[k + 1] PROVE f[k] = g[k]
    <3>1. DifferIn(Xor(f[k], Byte(x, k)), Xor(g[k], Byte(y, k)), 0 + 8, 0 + 8)
      BY <1>4, <1>5, <1>6, <2>2
    <3>2. f[k] \subseteq Int /\ g[k] \subseteq Int /\ Byte(x, k) \subseteq Int
      BY <1>1, <1>2, <1>3, <1>4, ByteIsByte
    <3>3. Xor(f[k], Byte(x, k)) \subseteq Int /\ Xor(g[k], Byte(y, k)) \subseteq Int
      BY <1>7, <3>2 DEF Xor
    <3>4. Xor(f[k], Byte(x, k)) = Xor(g[k], Byte(x, k))
      BY <1>7, <3>1, <3>3, EqualWords
    <3> QED BY <3>4 DEF Xor
  <2> QED BY <2>1, <2>2
<1>8. f[i] = g[i]
  <2> DEFINE T == {k \in Nat : k <= i => f[k] = g[k]}
  <2>1. T \subseteq Nat /\ 0 \in T
    BY <1>1, <1>2
  <2>2. ASSUME NEW k \in T PROVE k + 1 \in T
    <3>1. k \in Nat /\ k + 1 \in Nat
      OBVIOUS
    <3>2. ASSUME k + 1 <= i PROVE f[k + 1] = g[k + 1]
      <4>1. k \in 0 .. n - 1 /\ k \notin i .. i + 3 /\ k <= i
        BY <3>1, <3>2
      <4>2. f[k] = g[k]
        BY <4>1
      <4> QED BY <1>7, <4>1, <4>2
    <3> QED BY <3>1, <3>2
  <2>3. T = Nat
    <3> HIDE DEF T
    <3> QED BY <2>1, <2>2, NatSet
  <2> QED BY <2>3
<1>9. f[i + 4] = g[i + 4]
  <2> DEFINE T == {k \in Nat : k <= n - (i + 4) => f[n - k] = g[n - k]}
  <2>1. T \subseteq Nat
    OBVIOUS
  <2>2. 0 \in T
    <3>1. n \in 0 .. n /\ n - 0 = n
      OBVIOUS
    <3>2. Xor(Word32, f[n]) = Xor(Word32, g[n])
      BY <1>1, <1>2
    <3>3. f[n] = g[n]
      BY <3>2 DEF Xor
    <3> QED BY <3>1, <3>3
  <2>3. ASSUME NEW k \in T PROVE k + 1 \in T
    <3>1. k \in Nat /\ k + 1 \in Nat
      OBVIOUS
    <3>2. ASSUME k + 1 <= n - (i + 4) PROVE f[n - (k + 1)] = g[n - (k + 1)]
      <4> DEFINE m == n - (k + 1)
      <4>1. /\ m \in 0 .. n - 1 /\ m \notin i .. i + 3 /\ m + 1 = n - k
            /\ k <= n - (i + 4)
        BY <3>1, <3>2
      <4>2. f[n - k] = g[n - k]
        BY <4>1
      <4> HIDE DEF m
      <4>3. f[m] = g[m]
        BY <1>7, <4>1, <4>2
      <4> QED BY <4>3 DEF m
    <3> QED BY <3>1, <3>2
  <2>4. T = Nat
    <3> HIDE DEF T
    <3> QED BY <2>1, <2>2, <2>3, NatSet
  <2>5. n - (i + 4) \in Nat /\ n - (n - (i + 4)) = i + 4
    OBVIOUS
  <2>6. n - (i + 4) \in T
    BY <2>4, <2>5
  <2> QED BY <2>5, <2>6
<1>10. /\ i \in 0 .. n - 1 /\ i + 1 \in 0 .. n - 1 /\ i + 2 \in 0 .. n - 1
       /\ i + 3 \in 0 .. n - 1 /\ i + 4 \in 0 .. n
       /\ (i + 1) + 1 = i + 2 /\ (i + 2) + 1 = i + 3 /\ (i + 3) + 1 = i + 4
  OBVIOUS
<1> DEFINE Added(k, lo, hi) == DifferIn(Xor(f[k], Byte(x, k)), Xor(g[k], Byte(y, k)), lo, hi)
<1>11. ASSUME NEW k \in 0 .. n - 1, NEW lo \in Nat, NEW hi \in Nat, Added(k, lo, hi)
       PROVE  /\ hi >= 8 => DifferIn(f[k], g[k], 0, hi)
              /\ f[k] = g[k] /\ lo >= 8 => Byte(x, k) = Byte(y, k)
  <2>1. f[k] \subseteq Int /\ g[k] \subseteq Int
    BY <1>1, <1>2, <1>3, <1>4
  <2> QED BY <1>11, <2>1, ByteIsByte, AddedByte
<1>12. Added(i + 3, 8, 8) /\ DifferIn(f[i + 3], g[i + 3], 0, 8)
  <2>1. Added(i + 3, 0 + 8, 0 + 8)
    BY <1>5, <1>6, <1>9, <1>10
  <2>2. Added(i + 3, 8, 8)
    BY <2>1
  <2> HIDE DEF Added
  <2> QED BY <1>10, <1>11, <2>2
<1>13. Added(i + 2, 8, 16) /\ DifferIn(f[i + 2], g[i + 2], 0, 16)
  <2>1. Added(i + 2, 0 + 8, 8 + 8)
    BY <1>5, <1>10, <1>12
  <2>2. Added(i + 2, 8, 16)
    BY <2>1
  <2> HIDE DEF Added
  <2> QED BY <1>10, <1>11, <2>2
<1>14. Added(i + 1, 8, 24) /\ DifferIn(f[i + 1], g[i + 1], 0, 24)
  <2>1. Added(i + 1, 0 + 8, 16 + 8)
    BY <1>5, <1>10, <1>13
  <2>2. Added(i + 1, 8, 24)
    BY <2>1
  <2> HIDE DEF Added
  <2> QED BY <1>10, <1>11, <2>2
<1>15. Added(i, 8, 32)
  <2>1. Added(i, 0 + 8, 24 + 8)
    BY <1>5, <1>10, <1>14
  <2> QED BY <2>1
<1> HIDE DEF Added
<1>16. Byte(x, i) = Byte(y, i) /\ f[i + 1] = g[i + 1]
  <2>1. Byte(x, i) = Byte(y, i)
    BY <1>8, <1>10, <1>11, <1>15
  <2> QED BY <1>7, <1>8, <1>10, <2>1
<1>17. Byte(x, i + 1) = Byte(y, i + 1) /\ f[i + 2] = g[i + 2]
  <2>1. Byte(x, i + 1) = Byte(y, i + 1)
    BY <1>10, <1>11, <1>14, <1>16
  <2> QED BY <1>7, <1>10, <1>16, <2>1
<1>18. Byte(x, i + 2) = Byte(y, i + 2) /\ f[i + 3] = g[i + 3]
  <2>1. Byte(x, i + 2) = Byte(y, i + 2)
    BY <1>10, <1>11, <1>13, <1>17
  <2> QED BY <1>7, <1>10, <1>17, <2>1
<1>19. Byte(x, i + 3) = Byte(y, i + 3)
  BY <1>10, <1>11, <1>12, <1>18
<1>20. \A j \in i .. i + 3 : j = i \/ j = i + 1 \/ j = i + 2 \/ j = i + 3
  OBVIOUS
<1> QED BY <1>16, <1>17, <1>18, <1>19, <1>20

-----------------------------------------------------------------------------
LEMMA VerdictIsZero ==
  ASSUME NEW header
  PROVE  Verdict(header) = 0 <=>
           /\ Field(header, 0, 8) = Signature
           /\ Field(header, 8, 4) = Revision
           /\ Field(header, 12, 4) = HeaderSize
           /\ calculate_ccitt32_ansi_crc32(Checksummed(header), 92) = Field(header, 16, 4)
           /\ Field(header, 24, 8) = HeaderLba
<1> DEFINE failed == {i \in 1 .. 5 : ~Checks(header)[i]}
<1>1. failed = {} <=> /\ Checks(header)[1] /\ Checks(header)[2] /\ Checks(header)[3]
                      /\ Checks(header)[4] /\ Checks(header)[5]
  <2>1. \A i \in 1 .. 5 : i = 1 \/ i = 2 \/ i = 3 \/ i = 4 \/ i = 5
    OBVIOUS
  <2> QED BY <2>1
<1>2. Verdict(header) = IF failed = {} THEN 0 ELSE -2 - Min(failed)
  BY DEF Verdict
<1>3. failed # {} => -2 - Min(failed) # 0
  <2>1. failed \in SUBSET (0 .. 7) /\ failed \subseteq 1 .. 5
    OBVIOUS
  <2> HIDE DEF failed
  <2>2. failed # {} => Min(failed) \in 1 .. 5
    BY <2>1, LeastLine
  <2> QED BY <2>2
<1> HIDE DEF failed
<1>4. Verdict(header) = 0 <=> failed = {}
  BY <1>2, <1>3
<1> QED BY <1>1, <1>4 DEF Checks

LEMMA WrittenHeader ==
  ASSUME NEW header \in Headers
  PROVE  /\ header \subseteq Nat /\ Verdict(header) = 0
         /\ calculate_ccitt32_ansi_crc32(Checksummed(header), 92) = Field(header, 16, 4)
<1>1. header \subseteq Nat
  <2>1. header \subseteq SectorBits
    BY HeadersAssumption
  <2>2. SectorBits \subseteq Nat
    BY DEF SectorBits
  <2> QED BY <2>1, <2>2
<1>2. Checksummed(header) \subseteq Nat /\ 92 \in Nat
  BY <1>1 DEF Checksummed
<1>3. calculate_ccitt32_ansi_crc32(Checksummed(header), 92) = Field(header, 16, 4)
  BY <1>2, ChecksumIsTheRemainder, HeadersAssumption
<1> QED BY <1>1, <1>3, VerdictIsZero, HeadersAssumption

LEMMA ChecksumField ==
  ASSUME NEW header, header \subseteq Int
  PROVE  /\ \A b \in ChecksumBits : b - 128 \in Field(header, 16, 4) <=> b \in header
         /\ \A p \in Field(header, 16, 4) : p + 128 \in ChecksumBits /\ (p + 128) - 128 = p
<1>1. Field(header, 16, 4) = {b - 128 : b \in header \cap (128 .. 159)}
  BY DEF Field
<1>2. ChecksumBits = 128 .. 159
  BY DEF ChecksumBits
<1>3. ASSUME NEW b \in ChecksumBits, b - 128 \in Field(header, 16, 4) PROVE b \in header
  <2>1. PICK c \in header \cap (128 .. 159) : b - 128 = c - 128
    BY <1>1, <1>3
  <2>2. b = c
    BY <1>2, <2>1
  <2> QED BY <2>2
<1>4. \A b \in ChecksumBits : b \in header => b - 128 \in Field(header, 16, 4)
  BY <1>1, <1>2
<1>5. \A p \in Field(header, 16, 4) : p + 128 \in ChecksumBits /\ (p + 128) - 128 = p
  BY <1>1, <1>2
<1> QED BY <1>3, <1>4, <1>5

\* What has turned in a header, its checksum shows.
LEMMA DamageIsRejected ==
  ASSUME NEW header \in Headers, NEW bits \in Damage
  PROVE  Verdict(Xor(header, bits)) # 0
<1> DEFINE now == Xor(header, bits)
<1>1. /\ header \subseteq Nat
      /\ calculate_ccitt32_ansi_crc32(Checksummed(header), 92) = Field(header, 16, 4)
  BY WrittenHeader
<1>2. SUFFICES ASSUME calculate_ccitt32_ansi_crc32(Checksummed(now), 92) = Field(now, 16, 4)
               PROVE  FALSE
  BY VerdictIsZero
<1>3. Checksummed(header) = header \ ChecksumBits /\ Checksummed(now) = now \ ChecksumBits
  BY DEF Checksummed, ChecksumBits
<1>4. bits # {} /\ bits \subseteq Int
  BY DamageAssumption DEF ChecksumBits, FourBytes
<1>5. now \subseteq Int /\ header \subseteq Int
  BY <1>1, <1>4 DEF Xor
<1>6. CASE bits \subseteq ChecksumBits
  <2>1. PICK b : b \in bits
    BY <1>4
  <2>2. Checksummed(now) = Checksummed(header)
    BY <1>3, <1>6 DEF Xor
  <2>3. Field(now, 16, 4) = Field(header, 16, 4)
    BY <1>1, <1>2, <2>2
  <2>4. b \in now <=> b \in header
    BY <1>5, <1>6, <2>1, <2>3, ChecksumField
  <2> QED BY <2>1, <2>4 DEF Xor
<1>7. CASE /\ bits \cap ChecksumBits = {}
           /\ \E i \in 0 .. 92 - 4 : bits \subseteq FourBytes(i)
  <2>1. PICK i \in 0 .. 92 - 4 : bits \subseteq FourBytes(i)
    BY <1>7
  <2>2. Field(now, 16, 4) = Field(header, 16, 4)
    <3>1. \A b \in ChecksumBits : b \in now <=> b \in header
      BY <1>7 DEF Xor
    <3> HIDE DEF now
    <3>2. ASSUME NEW p \in Field(now, 16, 4) PROVE p \in Field(header, 16, 4)
      <4>1. p + 128 \in ChecksumBits /\ (p + 128) - 128 = p
        BY <1>5, ChecksumField
      <4>2. p + 128 \in now
        <5>1. (p + 128) - 128 \in Field(now, 16, 4)
          BY <4>1
        <5> QED BY <1>5, <4>1, <5>1, ChecksumField
      <4>3. p + 128 \in header
        BY <3>1, <4>1, <4>2
      <4>4. (p + 128) - 128 \in Field(header, 16, 4)
        BY <1>5, <4>1, <4>3, ChecksumField
      <4> QED BY <4>1, <4>4
    <3>3. ASSUME NEW p \in Field(header, 16, 4) PROVE p \in Field(now, 16, 4)
      <4>1. p + 128 \in ChecksumBits /\ (p + 128) - 128 = p
        BY <1>5, ChecksumField
      <4>2. p + 128 \in header
        <5>1. (p + 128) - 128 \in Field(header, 16, 4)
          BY <4>1
        <5> QED BY <1>5, <4>1, <5>1, ChecksumField
      <4>3. p + 128 \in now
        BY <3>1, <4>1, <4>2
      <4>4. (p + 128) - 128 \in Field(now, 16, 4)
        BY <1>5, <4>1, <4>3, ChecksumField
      <4> QED BY <4>1, <4>4
    <3> QED BY <3>2, <3>3
  <2>3. i \in Nat /\ i + 4 <= 92 /\ 92 \in Nat
    OBVIOUS
  <2>4. ASSUME NEW j \in 0 .. 92 - 1, j \notin i .. i + 3
        PROVE  Byte(Checksummed(now), j) = Byte(Checksummed(header), j)
    <3>1. \A b \in 0 .. 7 : 8 * j + b \notin bits
      <4>1. \A b \in 0 .. 7 : 8 * j + b \notin FourBytes(i)
        BY <2>4 DEF FourBytes
      <4> QED BY <2>1, <4>1
    <3>2. \A b \in 0 .. 7 : 8 * j + b \in Checksummed(now) <=> 8 * j + b \in Checksummed(header)
      BY <1>3, <3>1 DEF Xor
    <3> QED BY <3>2 DEF Byte
  <2>5. calculate_ccitt32_ansi_crc32(Checksummed(now), 92)
          = calculate_ccitt32_ansi_crc32(Checksummed(header), 92)
    BY <1>1, <1>2, <2>2
  <2>6. \A j \in 0 .. 92 - 1 : Byte(Checksummed(now), j) = Byte(Checksummed(header), j)
    <3> DEFINE m == Checksummed(now)
               w == Checksummed(header)
    <3>1. /\ \A j \in 0 .. 92 - 1 : j \notin i .. i + 3 => Byte(m, j) = Byte(w, j)
          /\ calculate_ccitt32_ansi_crc32(m, 92) = calculate_ccitt32_ansi_crc32(w, 92)
      BY <2>4, <2>5
    <3> HIDE DEF m, w
    <3> DEFINE n == 92
    <3>2. n \in Nat /\ i \in Nat /\ i + 4 <= n
      BY <2>3
    <3>3. /\ \A j \in 0 .. n - 1 : j \notin i .. i + 3 => Byte(m, j) = Byte(w, j)
          /\ calculate_ccitt32_ansi_crc32(m, n) = calculate_ccitt32_ansi_crc32(w, n)
      BY <3>1
    <3> HIDE DEF n
    <3>4. \A j \in 0 .. n - 1 : Byte(m, j) = Byte(w, j)
      BY <3>2, <3>3, BurstIsNoticed
    <3> QED BY <3>4 DEF m, w, n
  <2>7. PICK b : b \in bits
    BY <1>4
  <2>8. b \in 8 * i .. 8 * i + 31 /\ b \notin ChecksumBits
    BY <1>7, <2>1, <2>7 DEF FourBytes
  <2>9. \E j \in i .. i + 3 : b - 8 * j \in 0 .. 7
    <3>1. b - 8 * i \in 0 .. 7 \/ b - 8 * (i + 1) \in 0 .. 7 \/ b - 8 * (i + 2) \in 0 .. 7
            \/ b - 8 * (i + 3) \in 0 .. 7
      BY <2>3, <2>8
    <3>2. i \in i .. i + 3 /\ i + 1 \in i .. i + 3 /\ i + 2 \in i .. i + 3 /\ i + 3 \in i .. i + 3
      BY <2>3
    <3> QED BY <3>1, <3>2
  <2>10. PICK j \in i .. i + 3 : b - 8 * j \in 0 .. 7
    BY <2>9
  <2>11. j \in 0 .. 92 - 1 /\ 8 * j + (b - 8 * j) = b
    BY <2>3, <2>8, <2>10
  <2>12. \A buffer : b - 8 * j \in Byte(buffer, j) <=> b \in buffer
    BY <2>10, <2>11 DEF Byte
  <2>13. b \in Checksummed(now) <=> b \in Checksummed(header)
    BY <2>6, <2>11, <2>12
  <2> QED BY <1>3, <2>7, <2>8, <2>13 DEF Xor
<1> QED BY <1>6, <1>7, DamageAssumption

(***************************************************************************)
(* DamageIsNoticed of every behaviour, for any headers that are on a disk  *)
(* as they were written and any such damage to them: gpt_init returns 0    *)
(* for every one of the first and for none of the damaged (gpt.c:40-77,    *)
(* bit_math.c:21-35).                                                      *)
(***************************************************************************)
THEOREM DamageIsAlwaysNoticed == Spec => []DamageIsNoticed
<1>1. Init => DamageIsNoticed
  BY DEF Init, GptStart, DamageIsNoticed
<1>2. ASSUME DamageIsNoticed, [Next]_vars PROVE DamageIsNoticed'
  <2>1. CASE UNCHANGED gpt
    BY <1>2, <2>1 DEF DamageIsNoticed
  <2>2. CASE GptInit
    <3>1. CASE \E header \in Headers : gpt' = [ret |-> Verdict(header), sector |-> "intact"]
      <4>1. PICK header \in Headers : gpt' = [ret |-> Verdict(header), sector |-> "intact"]
        BY <3>1
      <4>2. Verdict(header) = 0
        BY WrittenHeader
      <4> QED BY <4>1, <4>2 DEF DamageIsNoticed
    <3>2. CASE \E header \in Headers, bits \in Damage :
                 gpt' = [ret |-> Verdict(Xor(header, bits)), sector |-> "damaged"]
      <4>1. PICK header \in Headers, bits \in Damage :
              gpt' = [ret |-> Verdict(Xor(header, bits)), sector |-> "damaged"]
        BY <3>2
      <4>2. Verdict(Xor(header, bits)) # 0
        BY DamageIsRejected
      <4>3. gpt'.ret = Verdict(Xor(header, bits)) /\ gpt'.sector = "damaged"
        BY <4>1
      <4> QED BY <4>2, <4>3 DEF DamageIsNoticed
    <3>3. CASE \E error \in {-1, -2} : gpt' = [ret |-> error, sector |-> "none"]
      <4>1. gpt'.ret # 0 /\ gpt'.sector = "none"
        BY <3>3
      <4> QED BY <4>1 DEF DamageIsNoticed
    <3> QED BY <2>2, <3>1, <3>2, <3>3 DEF GptInit, Judged
  <2>3. CASE KernelStep
    <3>1. ASSUME NEW s, Reports(s) PROVE UNCHANGED gpt
      BY <3>1 DEF Reports
    <3>2. InitIdt \/ EnablesInterrupts \/ InitMemory \/ InitDisk => UNCHANGED gpt
      BY <3>1 DEF InitIdt, EnablesInterrupts, InitMemory, InitDisk
    <3>3. InitPic => UNCHANGED gpt
      BY <3>1 DEF InitPic
    <3>4. InitKeyboard \/ KeyboardIsInitialised \/ PromptIsPrinted \/ PromptAgain => UNCHANGED gpt
      BY DEF InitKeyboard, KeyboardIsInitialised, PromptIsPrinted, PromptAgain
    <3>5. /\ KeyboardFails \/ InitFails \/ InitShell \/ PrintPrompt => UNCHANGED gpt
          /\ DiskPollsForever => UNCHANGED gpt
      BY DEF KeyboardFails, InitFails, InitShell, PrintPrompt, DiskPollsForever
    <3>6. GptIsInitialised \/ GptFails => GptInit
      BY DEF GptIsInitialised, GptFails
    <3> QED BY <2>1, <2>2, <2>3, <3>2, <3>3, <3>4, <3>5, <3>6 DEF KernelStep
  <2>4. CASE Interrupted \/ KeyboardWorks \/ Environment \/ UNCHANGED vars
    <3>1. UNCHANGED gpt
      BY <2>4 DEF Interrupted, KeyIsIgnored, LetterIsTyped, EnterIsTyped, KeyboardWorks,
                  Environment, vars
    <3> QED BY <2>1, <3>1
  <2> QED BY <1>2, <2>3, <2>4 DEF Next
<1> QED BY <1>1, <1>2, PTL DEF Spec
=============================================================================
