--------------------------- MODULE Console_proofs ---------------------------
(***************************************************************************)
(* Proofs about modules Shell and Keyboard.                                *)
(*                                                                         *)
(* Shell, for a screen, a line buffer, texts and commands of any size: the *)
(* line that is typed stands on the screen, is the line that runs, and the *)
(* cursor stays on the screen while no two prints overlap.                 *)
(*                                                                         *)
(* Keyboard, for any strokes, bounds and size of the queue: the ring       *)
(* buffer is a bounded queue while handlers nest and the shell reads it in *)
(* two steps, the LEDs show the locks whenever no LED command is under     *)
(* way, and the keys are the strokes that were made.                       *)
(***************************************************************************)
EXTENDS Keyboard, Shell, KernelLemmas, SequenceTheorems,
        FiniteSetTheorems, FunctionTheorems, TLAPS

(* What may stand on the screen, and what may be typed into the line.      *)
Chars == Letters \union {Sp} \union ToSet(Prompt)
           \union UNION {ToSet(t) : t \in Outputs \union OtherTexts}
Typeable == Letters \union {Sp}
StackBytes == Typeable \union Junk \union {Nul}

LEMMA ScreenFacts ==
  /\ Width * Height \in Nat /\ LastRow \in Nat /\ LastRow + Width = Width * Height
  /\ Width \in Nat \ {0} /\ TabStop \in Nat \ {0} /\ BufSize \in Nat
  /\ Prompt \in Seq(ToSet(Prompt)) /\ Len(Prompt) \in Nat /\ Len(Prompt) + BufSize <= LastRow
<1>1. /\ Width \in Nat \ {0} /\ Height \in Nat \ {0} /\ TabStop \in Nat \ {0} /\ BufSize \in Nat
      /\ Prompt \in Seq(ToSet(Prompt)) /\ Len(Prompt) + BufSize <= LastRow
  BY ShellAssumption
<1>2. Width * Height \in Nat /\ (Height - 1) * Width \in Nat
  BY <1>1
<1>3. (Height - 1) * Width + Width = Width * Height
  BY <1>1
<1>. QED  BY <1>1, <1>2, <1>3 DEF LastRow

LEMMA TextFacts ==
  ASSUME NEW t \in {Prompt} \union Outputs \union OtherTexts
  PROVE  t \in Seq(Chars)
<1>1. t \in Seq(ToSet(t)) /\ ToSet(t) \subseteq Chars
  BY ShellAssumption DEF Chars
<1>. QED  BY <1>1

(* The pictures a print goes through: the first has nothing drawn yet.     *)
Frames(f, n, text) ==
  f = [i \in 0 .. n |-> IF i = 0 THEN [at |-> ofs, cells |-> screen] ELSE PutChar(f[i - 1], text[i])]

LEMMA FramesExist ==
  ASSUME NEW text, NEW n \in Nat
  PROVE  \E f : Frames(f, n, text)
<1>. DEFINE T == {k \in Nat : ~\E f : Frames(f, k, text)}
<1>1. SUFFICES ASSUME ~\E f : Frames(f, n, text) PROVE FALSE
  OBVIOUS
<1>2. T # {} /\ T \subseteq Nat
  BY <1>1
<1>3. PICK k \in T : \A l \in T : k <= l
  <2>. HIDE DEF T
  <2>. QED  BY <1>2, LeastMember
<1>. DEFINE start == [at |-> ofs, cells |-> screen]
<1>4. k # 0
  <2>. PICK f : f = [i \in 0 .. 0 |-> start]
    OBVIOUS
  <2>1. Frames(f, 0, text)
    BY DEF Frames
  <2>. QED  BY <1>3, <2>1
<1>5. k \in Nat /\ k - 1 \in Nat /\ k - 1 \notin T
  BY <1>3, <1>4
<1>6. PICK g : Frames(g, k - 1, text)
  BY <1>5
<1>. PICK f : f = [i \in 0 .. k |-> IF i = k THEN PutChar(g[k - 1], text[k]) ELSE g[i]]
  OBVIOUS
<1>7. ASSUME NEW i \in 0 .. k PROVE f[i] = IF i = 0 THEN start ELSE PutChar(f[i - 1], text[i])
  <2>1. CASE i = k
    <3>1. k - 1 \in 0 .. k /\ k - 1 # k /\ f[k - 1] = g[k - 1]
      BY <1>5
    <3>. QED  BY <1>4, <2>1, <3>1
  <2>2. CASE i # k
    <3>1. i \in 0 .. k - 1 /\ f[i] = g[i] /\ g[i] = IF i = 0 THEN start ELSE PutChar(g[i - 1], text[i])
      BY <1>5, <1>6, <2>2 DEF Frames
    <3>2. i # 0 => i - 1 \in 0 .. k /\ i - 1 # k /\ f[i - 1] = g[i - 1]
      BY <1>5, <3>1
    <3>. QED  BY <3>1, <3>2
  <2>. QED  BY <2>1, <2>2
<1>8. Frames(f, k, text)
  BY <1>7 DEF Frames
<1>. QED  BY <1>3, <1>8

LEMMA DrawnIs ==
  ASSUME NEW text, Len(text) \in Nat
  PROVE  \E f : /\ Drawn(text) = f[Len(text)] /\ f[0] = [at |-> ofs, cells |-> screen]
                /\ \A i \in 1 .. Len(text) : f[i] = PutChar(f[i - 1], text[i])
<1>1. PICK f : f = (CHOOSE g : Frames(g, Len(text), text)) /\ Drawn(text) = f[Len(text)]
  BY DEF Drawn, Frames
<1>2. \E g : Frames(g, Len(text), text)
  BY FramesExist
<1>3. Frames(f, Len(text), text)
  BY <1>1, <1>2, Zenon
<1>4. \A i \in 0 .. Len(text) :
         f[i] = IF i = 0 THEN [at |-> ofs, cells |-> screen] ELSE PutChar(f[i - 1], text[i])
  BY <1>3 DEF Frames
<1>5. 0 \in 0 .. Len(text) /\ \A i \in 1 .. Len(text) : i \in 0 .. Len(text) /\ i # 0
  OBVIOUS
<1>. QED  BY <1>1, <1>4, <1>5

(* The C remainder of a cursor on the screen is below what it is divided   *)
(* by, so a newline or a tab moves on.                                     *)
LEMMA MovesOn ==
  ASSUME NEW n \in Int, NEW d \in Nat \ {0}
  PROVE  CRem(n, d) \in Int /\ (0 <= n => CRem(n, d) < d)
<1>1. CASE 0 <= n
  BY <1>1 DEF CRem
<1>2. CASE ~(0 <= n)
  <2>1. -n \in Nat /\ (-n) % d \in 0 .. d - 1
    BY <1>2
  <2>. QED  BY <1>2, <2>1 DEF CRem
<1>. QED  BY <1>1, <1>2

Picture(d, C) == d.at \in Int /\ d.cells \in [Cells -> C]

LEMMA PutCharFacts ==
  ASSUME NEW C, NEW d, Picture(d, C), NEW c \in C \union {Nl, Tab}
  PROVE  LET r == PutChar(d, c) IN
         /\ Picture(r, C) /\ (0 <= d.at => d.at <= r.at)
         /\ c \notin {Nl, Tab} =>
              /\ r.at = d.at + 1
              /\ \A p \in Cells : r.cells[p] = IF p = d.at THEN c ELSE d.cells[p]
<1>0. Nl # Tab /\ Width \in Nat \ {0} /\ TabStop \in Nat \ {0}
  BY ScreenFacts DEF Nl, Tab
<1>. PICK at, cells : at = d.at /\ cells = d.cells
  OBVIOUS
<1>1. at \in Int /\ cells \in [Cells -> C]
  BY DEF Picture
<1>2. CASE c = Nl
  <2>1. PutChar(d, c) = [at |-> at + Width - CRem(at, Width), cells |-> cells]
    BY <1>0, <1>2 DEF PutChar
  <2>2. PICK m : m = CRem(at, Width)
    OBVIOUS
  <2>3. m \in Int /\ (0 <= at => m < Width)
    BY <1>0, <1>1, <2>2, MovesOn
  <2>. QED  BY <1>0, <1>1, <1>2, <2>1, <2>2, <2>3 DEF Picture
<1>3. CASE c = Tab
  <2>1. PutChar(d, c) = [at |-> at + TabStop - CRem(at, TabStop), cells |-> cells]
    BY <1>0, <1>3 DEF PutChar
  <2>2. PICK m : m = CRem(at, TabStop)
    OBVIOUS
  <2>3. m \in Int /\ (0 <= at => m < TabStop)
    BY <1>0, <1>1, <2>2, MovesOn
  <2>. QED  BY <1>0, <1>1, <1>3, <2>1, <2>2, <2>3 DEF Picture
<1>4. CASE c \notin {Nl, Tab}
  <2>1. PutChar(d, c) = [at |-> at + 1, cells |-> [p \in Cells |-> IF p = at THEN c ELSE cells[p]]]
    BY <1>4 DEF PutChar
  <2>. QED  BY <1>1, <1>4, <2>1 DEF Picture
<1>. QED  BY <1>2, <1>3, <1>4

(* Whatever a print draws, the picture stays one of characters, and on the *)
(* screen the cursor only moves forward.                                   *)
LEMMA DrawnFacts ==
  ASSUME NEW C, NEW text \in Seq(C \union {Nl, Tab}), ofs \in Int, screen \in [Cells -> C]
  PROVE  Picture(Drawn(text), C) /\ (0 <= ofs => ofs <= Drawn(text).at)
<1>. PICK n \in Nat : n = Len(text)
  OBVIOUS
<1>1. PICK f : /\ Drawn(text) = f[n] /\ f[0] = [at |-> ofs, cells |-> screen]
               /\ \A i \in 1 .. n : f[i] = PutChar(f[i - 1], text[i])
  BY DrawnIs
<1>. DEFINE Good(d) == Picture(d, C) /\ (0 <= ofs => ofs <= d.at)
<1>2. Good(f[0])
  BY <1>1 DEF Picture
<1>3. ASSUME NEW i \in 1 .. n, Good(f[i - 1]) PROVE Good(f[i])
  <2>1. text[i] \in C \union {Nl, Tab}
    OBVIOUS
  <2>. PICK d : d = f[i - 1]
    OBVIOUS
  <2>2. Picture(d, C) /\ (0 <= ofs => ofs <= d.at)
    BY <1>3
  <2>3. Picture(PutChar(d, text[i]), C) /\ (0 <= d.at => d.at <= PutChar(d, text[i]).at)
    BY <2>1, <2>2, PutCharFacts
  <2>4. f[i] = PutChar(d, text[i])
    BY <1>1
  <2>. QED  BY <2>2, <2>3, <2>4 DEF Picture
<1>4. Good(f[n])
  <2>. HIDE DEF Good
  <2>. DEFINE W == {k \in 0 .. n : ~Good(f[k])}
  <2>1. SUFFICES ASSUME ~Good(f[n]) PROVE FALSE
    OBVIOUS
  <2>2. W # {} /\ W \subseteq Nat
    BY <2>1
  <2>3. PICK k \in W : \A l \in W : k <= l
    <3>. HIDE DEF W
    <3>. QED  BY <2>2, LeastMember
  <2>4. k \in 1 .. n /\ k - 1 \in 0 .. n /\ k - 1 \notin W
    BY <1>2, <2>3
  <2>. QED  BY <1>3, <2>3, <2>4
<1>. QED  BY <1>1, <1>4

(* Text without newline and tab is drawn one cell after the other.         *)
PlainText(text) == \A i \in 1 .. Len(text) : text[i] \notin {Nl, Tab}
InARow(text, d) ==
  /\ d.at = ofs + Len(text)
  /\ \A p \in Cells : d.cells[p] =
       IF p \in ofs .. ofs + Len(text) - 1 THEN text[p - ofs + 1] ELSE screen[p]

LEMMA PlainDrawn ==
  ASSUME NEW D, NEW text \in Seq(D), PlainText(text), ofs \in Nat, screen \in [Cells -> D]
  PROVE  InARow(text, Drawn(text))
<1>. PICK n \in Nat : n = Len(text)
  OBVIOUS
<1>1. PICK f : /\ Drawn(text) = f[n] /\ f[0] = [at |-> ofs, cells |-> screen]
               /\ \A i \in 1 .. n : f[i] = PutChar(f[i - 1], text[i])
  BY DrawnIs
<1>. DEFINE Good(d, i) == /\ Picture(d, D) /\ d.at = ofs + i
                          /\ \A p \in Cells : d.cells[p] =
                               IF p \in ofs .. ofs + i - 1 THEN text[p - ofs + 1] ELSE screen[p]
<1>0. Cells \subseteq Nat
  BY DEF Cells
<1>2. Good(f[0], 0)
  BY <1>0, <1>1 DEF Picture
<1>3. ASSUME NEW i \in 1 .. n, Good(f[i - 1], i - 1) PROVE Good(f[i], i)
  <2>1. text[i] \in D \union {Nl, Tab} /\ text[i] \notin {Nl, Tab}
    BY DEF PlainText
  <2>. PICK d, j, r : d = f[i - 1] /\ j = i - 1 /\ r = PutChar(d, text[i])
    OBVIOUS
  <2>2. /\ Picture(d, D) /\ d.at = ofs + j /\ j \in Nat /\ i = j + 1
        /\ \A p \in Cells : d.cells[p] =
              IF p \in ofs .. ofs + j - 1 THEN text[p - ofs + 1] ELSE screen[p]
    BY <1>3
  <2>3. /\ Picture(r, D) /\ r.at = d.at + 1
        /\ \A p \in Cells : r.cells[p] = IF p = d.at THEN text[i] ELSE d.cells[p]
    BY <2>1, <2>2, PutCharFacts, SMTT(30)
  <2>4. f[i] = r
    BY <1>1
  <2>5. \A p \in Cells : r.cells[p] =
              IF p \in ofs .. ofs + i - 1 THEN text[p - ofs + 1] ELSE screen[p]
    <3>. TAKE p \in Cells
    <3>1. p \in Nat /\ r.cells[p] = IF p = ofs + j THEN text[i] ELSE d.cells[p]
      BY <1>0, <2>2, <2>3
    <3>2. d.cells[p] = IF p \in ofs .. ofs + j - 1 THEN text[p - ofs + 1] ELSE screen[p]
      BY <2>2
    <3>3. CASE p = ofs + j
      <4>1. p - ofs + 1 = i /\ p \in ofs .. ofs + i - 1
        BY <2>2, <3>1, <3>3
      <4>. QED  BY <3>1, <3>3, <4>1
    <3>4. CASE p # ofs + j
      <4>1. p \in ofs .. ofs + i - 1 <=> p \in ofs .. ofs + j - 1
        BY <2>2, <3>1, <3>4
      <4>. QED  BY <3>1, <3>2, <3>4, <4>1
    <3>. QED  BY <3>3, <3>4
  <2>. QED  BY <2>2, <2>3, <2>4, <2>5
<1>4. Good(f[n], n)
  <2>. HIDE DEF Good
  <2>. DEFINE W == {k \in 0 .. n : ~Good(f[k], k)}
  <2>1. SUFFICES ASSUME ~Good(f[n], n) PROVE FALSE
    OBVIOUS
  <2>2. W # {} /\ W \subseteq Nat
    BY <2>1
  <2>3. PICK k \in W : \A l \in W : k <= l
    <3>. HIDE DEF W
    <3>. QED  BY <2>2, LeastMember
  <2>4. k \in 1 .. n /\ k - 1 \in 0 .. n /\ k - 1 \notin W
    BY <1>2, <2>3
  <2>. QED  BY <1>3, <2>3, <2>4
<1>. QED  BY <1>1, <1>4 DEF InARow

(* The cursor after a print, and after the screen scrolled: never behind   *)
(* the last row, and never further up than it was, but for that row.       *)
LEMMA PrintFacts ==
  ASSUME NEW C, NEW text \in Seq(C \union {Nl, Tab}), ofs \in Int, screen \in [Cells -> C], Sp \in C
  PROVE  LET d == ConsolePrintString(text) IN
         /\ Picture(d, C)
         /\ ofs \in Cells => d.at \in Cells /\ (ofs <= d.at \/ d.at = LastRow)
<1>. PICK w, N : w = Drawn(text) /\ N = Width * Height
  OBVIOUS
<1>1. Picture(w, C) /\ (0 <= ofs => ofs <= w.at)
  BY DrawnFacts
<1>2. N \in Nat /\ LastRow \in Nat /\ Width \in Nat \ {0} /\ LastRow + Width = N /\ Cells = 0 .. N - 1
  BY ScreenFacts DEF Cells
<1>3. CASE w.at < N
  <2>1. ConsolePrintString(text) = w
    BY <1>3 DEF ConsolePrintString, Scrolled
  <2>. QED  BY <1>1, <1>2, <1>3, <2>1 DEF Picture
<1>4. CASE ~(w.at < N)
  <2>1. ConsolePrintString(text) =
          [at |-> LastRow, cells |-> [p \in Cells |-> IF p < LastRow THEN w.cells[p + Width] ELSE Sp]]
    BY <1>4 DEF ConsolePrintString, Scrolled
  <2>2. \A p \in Cells : p < LastRow => p + Width \in Cells
    BY <1>2
  <2>3. LastRow \in Cells
    BY <1>2
  <2>. PICK r : r = ConsolePrintString(text)
    OBVIOUS
  <2>4. r.at = LastRow
    BY <2>1
  <2>5. r.cells \in [Cells -> C]
    <3>1. r.cells = [p \in Cells |-> IF p < LastRow THEN w.cells[p + Width] ELSE Sp]
      BY <2>1
    <3>2. ASSUME NEW p \in Cells PROVE (IF p < LastRow THEN w.cells[p + Width] ELSE Sp) \in C
      BY <1>1, <2>2 DEF Picture
    <3>. QED  BY ONLY <3>1, <3>2
  <2>6. LastRow \in Int
    BY <1>2
  <2>. QED  BY <2>3, <2>4, <2>5, <2>6 DEF Picture
<1>. QED  BY <1>3, <1>4

(* s stands right before the cell at.                                      *)
Shows(s, cells, at) ==
  /\ Len(s) <= at
  /\ \A i \in 1 .. Len(s) : cells[at - Len(s) + i - 1] = s[i]

(* One character moves the cursor on by one, or scrolls.                   *)
LEMMA OneCharMoves ==
  ASSUME NEW C, NEW c, <<c>> \in Seq(C), PlainText(<<c>>), ofs \in Cells, screen \in [Cells -> C]
  PROVE  LET d == ConsolePrintString(<<c>>) IN d.at = ofs + 1 \/ d.at = LastRow
<1>1. ofs \in Nat
  BY DEF Cells
<1>2. InARow(<<c>>, Drawn(<<c>>))
  BY <1>1, PlainDrawn
<1>3. Drawn(<<c>>).at = ofs + 1
  BY <1>2 DEF InARow
<1>. QED  BY <1>3 DEF ConsolePrintString, Scrolled

(* What stood before the cursor stands there with what was printed, also   *)
(* when it made the screen scroll.                                         *)
LEMMA PrintShows ==
  ASSUME NEW D, Sp \in D, NEW text \in Seq(D), PlainText(text), NEW s \in Seq(D),
         ofs \in Cells, screen \in [Cells -> D], Shows(s, screen, ofs),
         ofs + Len(text) <= Width * Height, Len(s) + Len(text) <= LastRow
  PROVE  LET d == ConsolePrintString(text) IN Shows(s \o text, d.cells, d.at)
<1>. PICK w, N, n, m : w = Drawn(text) /\ N = Width * Height /\ n = Len(text) /\ m = Len(s)
  OBVIOUS
<1>1. N \in Nat /\ LastRow \in Nat /\ Width \in Nat \ {0} /\ LastRow + Width = N /\ Cells = 0 .. N - 1
  BY ScreenFacts DEF Cells
<1>2. n \in Nat /\ m \in Nat /\ ofs \in Nat /\ ofs < N /\ ofs + n <= N /\ m + n <= LastRow
  BY <1>1
<1>3. /\ w.at = ofs + n
      /\ \A p \in Cells : w.cells[p] =
              IF p \in ofs .. ofs + n - 1 THEN text[p - ofs + 1] ELSE screen[p]
  <2>1. InARow(text, Drawn(text))
    BY <1>2, PlainDrawn
  <2>. QED  BY <2>1 DEF InARow
<1>4. m <= ofs /\ \A i \in 1 .. m : screen[ofs - m + i - 1] = s[i]
  BY DEF Shows
<1>. PICK st : st = s \o text
  OBVIOUS
<1>5. /\ Len(st) = m + n
      /\ \A i \in 1 .. m + n : st[i] = IF i <= m THEN s[i] ELSE text[i - m]
  OBVIOUS
<1>6. ASSUME NEW i \in 1 .. m + n PROVE w.cells[ofs - m + i - 1] = st[i]
  <2>. PICK p : p = ofs - m + i - 1
    OBVIOUS
  <2>1. p \in Cells
    BY <1>1, <1>2, <1>4
  <2>2. CASE i <= m
    <3>1. p < ofs /\ screen[p] = s[i]
      BY <1>2, <1>4, <2>2
    <3>2. w.cells[p] = screen[p]
      BY <1>2, <1>3, <2>1, <3>1
    <3>. QED  BY <1>5, <2>2, <3>1, <3>2
  <2>3. CASE ~(i <= m)
    <3>1. p \in ofs .. ofs + n - 1 /\ p - ofs + 1 = i - m
      BY <1>2, <1>4, <2>3
    <3>2. w.cells[p] = text[p - ofs + 1]
      BY <1>3, <2>1, <3>1
    <3>. QED  BY <1>5, <2>3, <3>1, <3>2
  <2>. QED  BY <2>2, <2>3
<1>7. CASE ofs + n < N
  <2>1. ConsolePrintString(text) = w
    BY <1>3, <1>7 DEF ConsolePrintString, Scrolled
  <2>2. \A i \in 1 .. m + n : ofs + n - (m + n) + i - 1 = ofs - m + i - 1
    BY <1>2
  <2>3. m + n <= ofs + n
    BY <1>2, <1>4
  <2>4. w.at = ofs + n
    BY <1>3
  <2>5. ASSUME NEW i \in 1 .. m + n PROVE w.cells[ofs + n - (m + n) + i - 1] = st[i]
    BY ONLY <1>6, <2>2
  <2>6. Shows(st, w.cells, w.at)
    BY ONLY <1>2, <1>5, <2>3, <2>4, <2>5 DEF Shows
  <2>. QED  BY <2>1, <2>6
<1>8. CASE ~(ofs + n < N)
  <2>0. ofs + n = N
    BY ONLY <1>1, <1>2, <1>8
  <2>. PICK r : r = ConsolePrintString(text)
    OBVIOUS
  <2>1. r = [at |-> LastRow, cells |-> [p \in Cells |-> IF p < LastRow THEN w.cells[p + Width] ELSE Sp]]
    BY <1>3, <1>8 DEF ConsolePrintString, Scrolled
  <2>2. r.at = LastRow /\ \A p \in Cells : r.cells[p] = IF p < LastRow THEN w.cells[p + Width] ELSE Sp
    BY <2>1
  <2>3. ASSUME NEW i \in 1 .. m + n PROVE r.cells[LastRow - (m + n) + i - 1] = st[i]
    <3>. PICK p : p = LastRow - (m + n) + i - 1
      OBVIOUS
    <3>1. p \in Cells /\ p < LastRow /\ p + Width = ofs - m + i - 1
      <4>1. i \in 1 .. m + n /\ p = LastRow - (m + n) + i - 1
        OBVIOUS
      <4>. QED  BY ONLY <1>1, <1>2, <2>0, <4>1
    <3>. QED  BY <1>6, <2>2, <3>1, SMTT(30)
  <2>. QED  BY <1>2, <1>5, <2>2, <2>3 DEF Shows
<1>. QED  BY <1>2, <1>7, <1>8

-----------------------------------------------------------------------------
(* The string at a byte of the buffer is what stands there up to the first *)
(* zero.                                                                   *)
StandsAt(t, b, i) ==
  /\ i + Len(t) <= BufSize + 1
  /\ \A k \in 1 .. Len(t) : b[i + k - 1] = t[k]
  /\ i + Len(t) = BufSize + 1 \/ b[i + Len(t)] = Nul

LEMMA StrAtIs ==
  ASSUME NEW b, NEW i \in Nat, NEW S, Nul \notin S, NEW t \in Seq(S), StandsAt(t, b, i)
  PROVE  StrAt(b, i) = t
<1>. DEFINE Ends(j) == /\ j = BufSize + 1 \/ b[j] = Nul
                       /\ \A k \in i .. j - 1 : b[k] # Nul
<1>. PICK n, e : n = Len(t) /\ e = i + n
  OBVIOUS
<1>0. n \in Nat /\ e \in i .. BufSize + 1 /\ BufSize \in Nat
  BY ScreenFacts DEF StandsAt
<1>1. \A k \in i .. e - 1 : b[k] # Nul
  <2>. TAKE k \in i .. e - 1
  <2>1. k - i + 1 \in 1 .. n /\ i + (k - i + 1) - 1 = k
    BY <1>0
  <2>2. b[k] = t[k - i + 1] /\ t[k - i + 1] \in S
    BY <2>1 DEF StandsAt
  <2>. QED  BY <2>2
<1>2. Ends(e)
  BY <1>1 DEF StandsAt
<1>3. \A j \in i .. BufSize + 1 : Ends(j) => j = e
  <2>. TAKE j \in i .. BufSize + 1
  <2>1. CASE j < e
    <3>1. j \in i .. e - 1 /\ j # BufSize + 1
      BY <1>0, <2>1
    <3>. QED  BY <1>1, <3>1
  <2>2. CASE e < j
    <3>1. e \in i .. j - 1 /\ e # BufSize + 1
      BY <1>0, <2>2
    <3>. QED  BY <1>2, <3>1
  <2>. QED  BY <1>0, <2>1, <2>2
<1>. PICK x : x = CHOOSE j \in i .. BufSize + 1 : Ends(j)
  OBVIOUS
<1>4. StrAt(b, i) = [k \in 1 .. x - i |-> b[i + k - 1]]
  BY DEF StrAt
<1>5. x = e
  <2>. HIDE DEF Ends
  <2>. QED  BY <1>0, <1>2, <1>3
<1>6. e - i = n
  BY <1>0
<1>7. \A k \in 1 .. n : b[i + k - 1] = t[k]
  BY DEF StandsAt
<1>8. t = [k \in 1 .. n |-> t[k]]
  OBVIOUS
<1>. QED  BY ONLY <1>4, <1>5, <1>6, <1>7, <1>8

(* SpaceFrom is the first space from i on, or the end.                     *)
LEMMA SpaceFacts ==
  ASSUME NEW s, Len(s) \in Nat, NEW i \in 0 .. Len(s)
  PROVE  LET j == SpaceFrom(s, i) IN
         /\ j \in i .. Len(s) /\ j \in Nat /\ (j = Len(s) \/ s[j + 1] = Sp)
         /\ \A k \in i .. j - 1 : s[k + 1] # Sp
<1>. DEFINE T == {j \in i .. Len(s) : j = Len(s) \/ s[j + 1] = Sp}
<1>. DEFINE Good(j) == /\ j = Len(s) \/ s[j + 1] = Sp
                       /\ \A k \in i .. j - 1 : s[k + 1] # Sp
<1>1. Len(s) \in T /\ T \subseteq Nat
  OBVIOUS
<1>2. PICK x \in T : \A y \in T : x <= y
  <2>. HIDE DEF T
  <2>. QED  BY <1>1, LeastMember
<1>3. ASSUME NEW k \in i .. x - 1 PROVE s[k + 1] # Sp
  <2>1. k \in i .. Len(s) /\ ~(x <= k)
    BY <1>2
  <2>. QED  BY <1>2, <2>1
<1>4. x \in i .. Len(s) /\ Good(x)
  BY <1>2, <1>3
<1>. PICK j : j = SpaceFrom(s, i)
  OBVIOUS
<1>5. j = CHOOSE l \in i .. Len(s) : Good(l)
  BY DEF SpaceFrom
<1>6. j \in i .. Len(s) /\ Good(j)
  <2>. HIDE DEF Good
  <2>. QED  BY <1>4, <1>5
<1>. QED  BY <1>6

(* The piece from a place in the string on, with the space put behind the  *)
(* string: it ends one byte before the place after it.                     *)
OneWord(arg, word, from, to) ==
  /\ Sp \notin ToSet(word)
  /\ to = from + Len(word) + 1 /\ to <= Len(arg)
  /\ SubSeq(arg, from + 1, to) = Append(word, Sp)

LEMMA PieceFacts ==
  ASSUME NEW S, Sp \in S, NEW s \in Seq(S), NEW pos \in 0 .. Len(s)
  PROVE  LET e == SpaceFrom(s, pos)
             word == SubSeq(s, pos + 1, e)
         IN /\ e \in pos .. Len(s) /\ e \in Nat /\ word \in Seq(S)
            /\ OneWord(Append(s, Sp), word, pos, e + 1)
<1>. PICK e, w, L : e = SpaceFrom(s, pos) /\ w = SubSeq(s, pos + 1, e) /\ L = Len(s)
  OBVIOUS
<1>1. /\ L \in Nat /\ pos \in Nat /\ pos \in 0 .. L /\ e \in pos .. L /\ e \in Nat
      /\ e = L \/ s[e + 1] = Sp
      /\ \A k \in pos .. e - 1 : s[k + 1] # Sp
  <2>1. Len(s) \in Nat
    OBVIOUS
  <2>2. /\ SpaceFrom(s, pos) \in pos .. Len(s) /\ SpaceFrom(s, pos) \in Nat
        /\ SpaceFrom(s, pos) = Len(s) \/ s[SpaceFrom(s, pos) + 1] = Sp
        /\ \A k \in pos .. SpaceFrom(s, pos) - 1 : s[k + 1] # Sp
    BY <2>1, SpaceFacts
  <2>. QED  BY <2>1, <2>2
<1>. PICK n, arg, t, u : /\ n = e - pos /\ arg = Append(s, Sp) /\ t = Append(w, Sp)
                         /\ u = SubSeq(arg, pos + 1, e + 1)
  OBVIOUS
<1>2. n \in Nat /\ e = pos + n /\ pos + n <= L
  <2>1. pos \in Nat /\ e \in Nat /\ L \in Nat /\ pos <= e /\ e <= L /\ n = e - pos
    BY <1>1
  <2>. QED  BY ONLY <2>1
<1>3. w \in Seq(S) /\ Len(w) = n /\ \A k \in 1 .. n : w[k] = s[pos + k]
  <2>1. /\ s \in Seq(S) /\ Len(s) = L /\ L \in Nat /\ w = SubSeq(s, pos + 1, pos + n)
        /\ pos \in Nat /\ n \in Nat /\ pos + n <= L
    BY <1>1, <1>2
  <2>. QED  BY ONLY <2>1
<1>4. /\ arg \in Seq(S) /\ Len(arg) = L + 1 /\ arg[L + 1] = Sp
      /\ \A i \in 1 .. L : arg[i] = s[i]
  BY <1>1
<1>5. /\ t \in Seq(S) /\ Len(t) = n + 1 /\ t[n + 1] = Sp
      /\ \A i \in 1 .. n : t[i] = w[i]
  BY ONLY <1>2, <1>3, t = Append(w, Sp), Sp \in S
<1>6. u \in Seq(S) /\ Len(u) = n + 1 /\ \A k \in 1 .. n + 1 : u[k] = arg[pos + k]
  BY ONLY <1>1, <1>2, <1>4, u = SubSeq(arg, pos + 1, e + 1)
<1>7. Sp \notin ToSet(w)
  <2>1. SUFFICES ASSUME NEW k \in 1 .. n PROVE w[k] # Sp
    <3>1. DOMAIN w = 1 .. n
      BY <1>3
    <3>. QED  BY <3>1 DEF ToSet
  <2>2. pos + k - 1 \in pos .. e - 1 /\ (pos + k - 1) + 1 = pos + k
    BY <1>1, <1>2
  <2>. QED  BY <1>1, <1>3, <2>2
<1>8. ASSUME NEW k \in 1 .. n + 1 PROVE u[k] = t[k]
  <2>1. CASE k = n + 1
    <3>1. u[k] = arg[e + 1]
      <4>1. pos + (n + 1) = e + 1 /\ n + 1 \in 1 .. n + 1
        BY ONLY <1>1, <1>2
      <4>. QED  BY ONLY <1>6, <2>1, <4>1
    <3>2. arg[e + 1] = Sp
      <4>1. CASE e = L
        BY ONLY <1>4, <4>1
      <4>2. CASE e # L
        <5>1. e + 1 \in 1 .. L
          BY <1>1, <4>2
        <5>. QED  BY <1>1, <1>4, <4>2, <5>1
      <4>. QED  BY <4>1, <4>2
    <3>. QED  BY ONLY <1>5, <2>1, <3>1, <3>2
  <2>2. CASE k # n + 1
    <3>1. k \in 1 .. n /\ pos + k \in 1 .. L
      <4>1. pos \in Nat /\ n \in Nat /\ L \in Nat /\ pos + n <= L /\ k \in 1 .. n + 1
        BY <1>1, <1>2
      <4>. QED  BY ONLY <2>2, <4>1
    <3>2. u[k] = s[pos + k] /\ t[k] = s[pos + k]
      BY <1>3, <1>4, <1>5, <1>6, <3>1
    <3>. QED  BY <3>2
  <2>. QED  BY <2>1, <2>2
<1>9. u = t
  <2>1. u = [k \in 1 .. n + 1 |-> u[k]] /\ t = [k \in 1 .. n + 1 |-> t[k]]
    BY ONLY <1>5, <1>6
  <2>. QED  BY ONLY <1>8, <2>1
<1>10. e + 1 = pos + Len(w) + 1 /\ e + 1 <= Len(arg)
  BY ONLY <1>1, <1>2, <1>3, <1>4
<1>. QED  BY <1>1, <1>3, <1>7, <1>9, <1>10 DEF OneWord

(* The pieces w stand in arg one behind the other, up to pos: b says where *)
(* each ends.                                                              *)
WordsAt(arg, w, b) == \A i \in 1 .. Len(w) : OneWord(arg, w[i], b[i - 1], b[i])

WordsTo(arg, w, pos) ==
  \E b \in [0 .. Len(w) -> Nat] : b[0] = 0 /\ b[Len(w)] = pos /\ WordsAt(arg, w, b)

LEMMA NoWordYet == ASSUME NEW arg PROVE WordsTo(arg, <<>>, 0)
<1>. PICK b : b = [i \in 0 .. 0 |-> 0]
  OBVIOUS
<1>1. Len(<<>>) = 0 /\ 1 .. 0 = {} /\ b \in [0 .. 0 -> Nat] /\ b[0] = 0
  OBVIOUS
<1>. QED  BY <1>1 DEF WordsTo, WordsAt

LEMMA OneMoreWord ==
  ASSUME NEW S, NEW arg, NEW pos \in Nat, NEW next \in Nat, NEW word \in Seq(S),
         OneWord(arg, word, pos, next), NEW w \in Seq(Seq(S)), WordsTo(arg, w, pos)
  PROVE  WordsTo(arg, Append(w, word), next)
<1>. PICK v, n : v = Append(w, word) /\ n = Len(w)
  OBVIOUS
<1>1. n \in Nat /\ Len(v) = n + 1 /\ v[n + 1] = word /\ \A i \in 1 .. n : v[i] = w[i]
  OBVIOUS
<1>2. PICK c \in [0 .. n -> Nat] : c[0] = 0 /\ c[n] = pos /\ WordsAt(arg, w, c)
  BY DEF WordsTo
<1>. PICK b : b = [i \in 0 .. n + 1 |-> IF i = n + 1 THEN next ELSE c[i]]
  OBVIOUS
<1>3. b \in [0 .. n + 1 -> Nat] /\ b[n + 1] = next /\ \A i \in 0 .. n : b[i] = c[i]
  BY <1>1, <1>2
<1>4. b[0] = 0 /\ b[n] = pos
  BY <1>1, <1>2, <1>3
<1>5. ASSUME NEW i \in 1 .. n + 1 PROVE OneWord(arg, v[i], b[i - 1], b[i])
  <2>1. CASE i = n + 1
    <3>1. v[i] = word /\ b[i - 1] = pos /\ b[i] = next
      BY <1>1, <1>3, <1>4, <2>1
    <3>. QED  BY <3>1
  <2>2. CASE i # n + 1
    <3>1. i \in 1 .. n /\ i \in 0 .. n /\ i - 1 \in 0 .. n
      BY <1>1, <2>2
    <3>2. v[i] = w[i] /\ b[i - 1] = c[i - 1] /\ b[i] = c[i]
      BY <1>1, <1>3, <3>1
    <3>3. OneWord(arg, w[i], c[i - 1], c[i])
      BY <1>2, <3>1 DEF WordsAt
    <3>. QED  BY <3>2, <3>3
  <2>. QED  BY <2>1, <2>2
<1>6. WordsAt(arg, v, b)
  BY <1>1, <1>5 DEF WordsAt
<1>. QED  BY <1>1, <1>3, <1>4, <1>6 DEF WordsTo

(* behind, in AreWords, is such a b.                                       *)
Placed(f, w) == f = [i \in 0 .. Len(w) |-> IF i = 0 THEN 0 ELSE f[i - 1] + Len(w[i]) + 1]

LEMMA AreWordsIf ==
  ASSUME NEW S, NEW s, NEW w \in Seq(S), NEW pos, WordsTo(Append(s, Sp), w, pos)
  PROVE  AreWords(w, s)
<1>. PICK arg, n : arg = Append(s, Sp) /\ n = Len(w)
  OBVIOUS
<1>1. n \in Nat
  OBVIOUS
<1>2. PICK b \in [0 .. n -> Nat] : b[0] = 0 /\ WordsAt(arg, w, b)
  BY DEF WordsTo
<1>3. \A i \in 1 .. n : OneWord(arg, w[i], b[i - 1], b[i])
  BY <1>2 DEF WordsAt
<1>4. Placed(b, w)
  <2>1. b = [i \in 0 .. n |-> b[i]]
    BY <1>2
  <2>2. ASSUME NEW i \in 0 .. n PROVE b[i] = IF i = 0 THEN 0 ELSE b[i - 1] + Len(w[i]) + 1
    <3>1. i # 0 => i \in 1 .. n
      OBVIOUS
    <3>. QED  BY <1>2, <1>3, <3>1 DEF OneWord
  <2>. QED  BY <2>1, <2>2 DEF Placed
<1>. PICK f : f = CHOOSE g : Placed(g, w)
  OBVIOUS
<1>5. Placed(f, w)
  BY <1>4, Zenon
<1>6. f = b
  <2>1. \A i \in 0 .. n : f[i] = IF i = 0 THEN 0 ELSE f[i - 1] + Len(w[i]) + 1
    BY <1>5 DEF Placed
  <2>2. \A i \in 0 .. n : b[i] = IF i = 0 THEN 0 ELSE b[i - 1] + Len(w[i]) + 1
    BY <1>4 DEF Placed
  <2>3. ASSUME NEW k \in 0 .. n, f[k] # b[k] PROVE FALSE
    <3>. DEFINE W == {i \in 0 .. n : f[i] # b[i]}
    <3>1. W # {} /\ W \subseteq Nat
      <4>1. k \in W
        BY <2>3
      <4>2. 0 .. n \subseteq Nat
        BY <1>1
      <4>3. W \subseteq 0 .. n
        OBVIOUS
      <4>. HIDE DEF W
      <4>. QED  BY <4>1, <4>2, <4>3
    <3>2. PICK i \in W : \A j \in W : i <= j
      <4>. HIDE DEF W
      <4>. QED  BY <3>1, LeastMember
    <3>3. i # 0
      BY <2>1, <2>2, <3>2
    <3>4. i - 1 \in 0 .. n /\ i - 1 \notin W
      BY <3>2, <3>3
    <3>. QED  BY <2>1, <2>2, <3>2, <3>3, <3>4
  <2>4. f = [i \in 0 .. n |-> f[i]] /\ b = [i \in 0 .. n |-> b[i]]
    BY <1>4, <1>5 DEF Placed
  <2>. QED  BY <2>3, <2>4
<1>7. \A i \in 1 .. n : /\ Sp \notin ToSet(w[i])
                        /\ f[i] <= Len(arg)
                        /\ SubSeq(arg, f[i - 1] + 1, f[i]) = Append(w[i], Sp)
  BY <1>3, <1>6 DEF OneWord
<1>. QED  BY <1>7 DEF AreWords, Placed

LEMMA NoWords == ASSUME NEW s PROVE AreWords(<<>>, s)
<1>1. <<>> \in Seq({}) /\ WordsTo(Append(s, Sp), <<>>, 0)
  BY NoWordYet
<1>. QED  BY <1>1, AreWordsIf

-----------------------------------------------------------------------------
(* The invariant.                                                          *)
ShellTypes ==
  /\ screen \in [Cells -> Chars] /\ ofs \in Int
  /\ pend \in [Actors -> {NoPrint} \union {<<n>> : n \in Int}]
  /\ pc \in {"start", "read", "execute", "handler", "astray", "prompt"}
  /\ line \in Seq(Typeable) /\ idx \in 0 .. BufSize /\ idx = Len(line)
  /\ pc = "start" => idx = 0

(* The buffer holds the line, and zeros from the furthest place on that    *)
(* the line ever reached.                                                  *)
BufferHolds ==
  /\ buf \in [0 .. BufSize - 1 -> StackBytes] /\ beyond \in StackBytes
  /\ \A i \in 1 .. idx : buf[i - 1] = line[i]
  /\ peak \in Nat /\ idx <= peak
  /\ \A j \in peak .. BufSize - 1 : buf[j] = Nul

(* The parameters read so far are the pieces of the string up to where the *)
(* list goes on, and one that does not fit was not shorter than the buffer.*)
IsRun(r) == r = [line |-> r.line, peak |-> r.peak, cmd |-> r.cmd, arg |-> r.arg,
                 params |-> r.params, pos |-> r.pos, overran |-> r.overran]

ParamsStand(r) ==
  /\ IsRun(r)
  /\ r.arg \in Seq(StackBytes) /\ r.params \in Seq(Seq(StackBytes))
  /\ r.pos \in 0 .. Len(r.arg) + 1
  /\ WordsTo(Append(r.arg, Sp), r.params, r.pos)
  /\ r.overran => ParamSize <= Len(r.arg)

LineRuns == ran # NoRun => RunsLine(ran)
OneStray == strays \subseteq {<<BufSize, Nul>>}

(* While nothing has overlapped, one print is under way at most, and the   *)
(* cursor it will set, or the one that stands, has the line before it.     *)
CursorBehindLine ==
  /\ Idle("shell") \/ Idle("other")
  /\ Idle("shell") => ofs \in Cells /\ idx <= ofs
  /\ \A a \in Actors : ~Idle(a) => pend[a][1] \in Cells /\ idx <= pend[a][1]

CalmCursor == pc = "read" /\ calm => CursorBehindLine

LineStands ==
  pc = "read" /\ alone =>
    /\ calm /\ Idle("other")
    /\ Shows(Prompt \o line, screen, IF Idle("shell") THEN ofs ELSE pend["shell"][1])

ShellInv == /\ ShellTypes /\ BufferHolds /\ CalmCursor /\ LineStands
            /\ ParamsStand(ran) /\ LineRuns /\ OneStray

LEMMA CharFacts ==
  /\ Sp \in Chars /\ Typeable \subseteq Chars /\ Nul \notin Typeable
  /\ \A c \in Typeable : c \notin {Nl, Tab}
  /\ Typeable \subseteq StackBytes /\ Sp \in StackBytes /\ Nul \in StackBytes
BY ShellAssumption DEF Chars, Typeable, StackBytes, Sp, Nl, Tab, Nul

(* A draw leaves the cursor to be set.                                     *)
LEMMA DrawsFacts ==
  ASSUME ShellTypes, NEW a \in Actors, NEW at \in Int, NEW cells, Draws(a, cells, at)
  PROVE  /\ screen' = cells /\ ofs' = ofs
         /\ pend' \in [Actors -> {NoPrint} \union {<<n>> : n \in Int}]
         /\ pend'[a] = <<at>> /\ pend'[a][1] = at /\ ~Idle(a)'
         /\ \A b \in Actors \ {a} : pend'[b] = pend[b]
<1>1. /\ screen' = cells /\ ofs' = ofs /\ pend' = [pend EXCEPT ![a] = <<at>>]
      /\ pend \in [Actors -> {NoPrint} \union {<<n>> : n \in Int}]
  BY DEF Draws, ShellTypes
<1>2. <<at>> # <<>> /\ <<at>>[1] = at /\ <<at>> \in {<<n>> : n \in Int}
  OBVIOUS
<1>3. pend'[a] = <<at>> /\ \A b \in Actors \ {a} : pend'[b] = pend[b]
  BY <1>1
<1>4. pend' \in [Actors -> {NoPrint} \union {<<n>> : n \in Int}]
  BY <1>1, <1>2, Zenon
<1>. QED  BY <1>1, <1>2, <1>3, <1>4 DEF Idle, NoPrint

LEMMA PrintfFacts ==
  ASSUME ShellTypes, NEW a \in Actors, NEW text \in Seq(Chars \union {Nl, Tab}), Printf(a, text)
  PROVE  LET d == ConsolePrintString(text) IN
         /\ Draws(a, d.cells, d.at) /\ d.at \in Int /\ d.cells \in [Cells -> Chars]
         /\ ofs \in Cells => d.at \in Cells /\ (ofs <= d.at \/ d.at = LastRow)
<1>1. ofs \in Int /\ screen \in [Cells -> Chars] /\ Sp \in Chars
  BY CharFacts DEF ShellTypes
<1>2. LET d == ConsolePrintString(text) IN
         /\ Picture(d, Chars)
         /\ ofs \in Cells => d.at \in Cells /\ (ofs <= d.at \/ d.at = LastRow)
  BY <1>1, PrintFacts
<1>. QED  BY <1>2 DEF Printf, Picture

(* What a draw by an idle actor must keep.                                 *)
LEMMA CalmKept ==
  ASSUME ShellTypes, CalmCursor, NEW a \in Actors, Idle(a), NEW at \in Int, NEW cells,
         Draws(a, cells, at), pc' = pc, calm' = (calm /\ ~Overlaps(a)),
         ofs \in Cells /\ idx <= ofs => at \in Cells /\ idx' <= at,
         a = "other" => idx' = idx
  PROVE  CalmCursor'
<1>. SUFFICES ASSUME pc' = "read", calm' PROVE CursorBehindLine'
  BY DEF CalmCursor
<1>1. /\ ofs' = ofs /\ pend'[a][1] = at /\ ~Idle(a)'
      /\ \A b \in Actors \ {a} : pend'[b] = pend[b]
  BY DrawsFacts
<1>2. \A b \in Actors : Idle(b)
  BY DEF Overlaps
<1>3. \A b \in Actors \ {a} : Idle(b)'
  BY <1>1, <1>2 DEF Idle
<1>4. ofs \in Cells /\ idx <= ofs
  BY <1>2 DEF CalmCursor, CursorBehindLine, Actors
<1>5. at \in Cells /\ idx' <= at
  BY <1>4
<1>6. Idle("shell")' \/ Idle("other")'
  BY <1>3 DEF Actors
<1>7. Idle("shell")' => ofs' \in Cells /\ idx' <= ofs'
  <2>1. CASE a = "other"
    BY <1>1, <1>4, <2>1 DEF Cells
  <2>2. CASE a # "other"
    BY <1>1, <2>2 DEF Actors
  <2>. QED  BY <2>1, <2>2
<1>8. \A b \in Actors : ~Idle(b)' => pend'[b][1] \in Cells /\ idx' <= pend'[b][1]
  BY <1>1, <1>3, <1>5
<1>. QED  BY <1>6, <1>7, <1>8 DEF CursorBehindLine, Cells

-----------------------------------------------------------------------------
(* The actions, one by one.                                                *)
LEMMA NoRunStands == ParamsStand(NoRun)
<1>1. WordsTo(Append(<<>>, Sp), <<>>, 0)
  BY NoWordYet
<1>2. /\ NoRun.arg = <<>> /\ NoRun.params = <<>> /\ NoRun.pos = 0 /\ NoRun.overran = FALSE
      /\ IsRun(NoRun)
  BY DEF NoRun, IsRun
<1>3. <<>> \in Seq(StackBytes) /\ <<>> \in Seq(Seq(StackBytes)) /\ 0 \in 0 .. Len(<<>>) + 1
  OBVIOUS
<1>. QED  BY <1>1, <1>2, <1>3 DEF ParamsStand

LEMMA InitShellInv == ShellInit => ShellInv
<1>. SUFFICES ASSUME ShellInit PROVE ShellInv
  OBVIOUS
<1>1. ShellTypes
  <2>1. ofs \in Int
    <3>1. PICK row \in StartRows : ofs = row * Width
      BY DEF ShellInit
    <3>2. row \in Int /\ Width \in Int
      BY ShellAssumption
    <3>. QED  BY <3>1, <3>2
  <2>2. screen \in [Cells -> Chars]
    BY CharFacts DEF ShellInit, CleanScreen
  <2>. QED  BY <2>1, <2>2, ScreenFacts DEF ShellInit, ShellTypes
<1>2. BufferHolds
  BY ScreenFacts DEF ShellInit, BufferHolds, StackBytes
<1>3. CalmCursor /\ LineStands
  BY DEF ShellInit, CalmCursor, LineStands
<1>4. ParamsStand(ran) /\ LineRuns /\ OneStray
  BY NoRunStands DEF ShellInit, LineRuns, OneStray
<1>. QED  BY <1>1, <1>2, <1>3, <1>4 DEF ShellInv

(* The run is forgotten at the prompt.                                     *)
LEMMA RunKept ==
  ASSUME ParamsStand(ran), LineRuns, ran' = ran \/ ran' = NoRun
  PROVE  ParamsStand(ran)' /\ LineRuns'
<1>1. CASE ran' = ran
  BY <1>1 DEF ParamsStand, IsRun, LineRuns, RunsLine
<1>2. CASE ran' = NoRun
  <2>1. ParamsStand(ran')
    BY <1>2, NoRunStands
  <2>2. ParamsStand(ran)'
    BY <2>1 DEF ParamsStand, IsRun
  <2>. QED  BY <1>2, <2>2 DEF LineRuns, NoRun
<1>. QED  BY <1>1, <1>2

(* A store inside the buffer.                                              *)
LEMMA StoreFacts ==
  ASSUME BufferHolds, OneStray, NEW i \in 0 .. BufSize, NEW c \in StackBytes, Store(i, c),
         i = BufSize => c = Nul
  PROVE  /\ buf' \in [0 .. BufSize - 1 -> StackBytes] /\ beyond' \in StackBytes
         /\ i < BufSize => buf'[i] = c /\ beyond' = beyond
         /\ i = BufSize => beyond' = c
         /\ \A j \in 0 .. BufSize - 1 : j # i => buf'[j] = buf[j]
         /\ OneStray'
<1>1. BufSize \in Nat /\ buf \in [0 .. BufSize - 1 -> StackBytes] /\ beyond \in StackBytes
  BY ScreenFacts DEF BufferHolds
<1>2. i < BufSize \/ i = BufSize
  BY <1>1
<1>3. CASE i < BufSize
  <2>1. i \in 0 .. BufSize - 1 /\ i # BufSize
    BY <1>1, <1>3
  <2>2. buf' = [buf EXCEPT ![i] = c] /\ beyond' = beyond /\ strays' = strays
    BY <1>3, <2>1 DEF Store
  <2>. QED  BY <1>1, <2>1, <2>2 DEF OneStray
<1>4. CASE i = BufSize
  <2>1. ~(i < BufSize)
    BY <1>1, <1>4
  <2>2. buf' = buf /\ beyond' = c /\ strays' = strays \union {<<i, c>>}
    BY <1>4, <2>1 DEF Store
  <2>. QED  BY <1>1, <1>4, <2>1, <2>2 DEF OneStray
<1>. QED  BY <1>2, <1>3, <1>4

LEMMA PromptStep ==
  ASSUME ShellInv, FirstPrompt \/ NextPrompt
  PROVE  ShellInv'
<1>1. ShellTypes /\ BufferHolds /\ ParamsStand(ran) /\ LineRuns /\ OneStray /\ ShowPrompt /\ Idle("shell") /\ "shell" \in Actors
  BY DEF ShellInv, FirstPrompt, NextPrompt, ShowPrompt, Actors
<1>2. /\ pc' = "read" /\ ran' = NoRun
      /\ calm' = (~Overlaps("shell") /\ ofs \in Cells)
      /\ alone' = (calm' /\ ofs + Len(Prompt) <= Width * Height)
  BY <1>1 DEF ShowPrompt
<1>3. /\ idx' = 0 /\ line' = <<>>
      /\ BufferHolds'
  <2>1. CASE FirstPrompt
    <3>1. idx = 0 /\ UNCHANGED <<buf, beyond, strays, idx, line, peak>>
      BY <1>1, <2>1 DEF FirstPrompt, editor, stack, ShellTypes
    <3>2. line = <<>>
      <4>1. line \in Seq(Typeable) /\ Len(line) = 0
        BY <1>1, <3>1 DEF ShellTypes
      <4>. QED  BY ONLY <4>1
    <3>. QED  BY <1>1, <3>1, <3>2 DEF BufferHolds
  <2>2. CASE NextPrompt
    <3>1. /\ buf' = [i \in 0 .. BufSize - 1 |-> Nul] /\ beyond' = beyond
          /\ idx' = 0 /\ line' = <<>> /\ peak' = 0 /\ beyond \in StackBytes
      BY <1>1, <2>2 DEF NextPrompt, BufferHolds
    <3>2. buf' \in [0 .. BufSize - 1 -> StackBytes] /\ \A j \in 0 .. BufSize - 1 : buf'[j] = Nul
      BY <3>1, ScreenFacts, CharFacts
    <3>. QED  BY <3>1, <3>2 DEF BufferHolds
  <2>. QED  BY <1>1, <2>1, <2>2
<1>. PICK d : d = ConsolePrintString(Prompt)
  OBVIOUS
<1>4. Prompt \in Seq(Chars)
  BY TextFacts
<1>5. Prompt \in Seq(Chars \union {Nl, Tab}) /\ Printf("shell", Prompt)
  BY <1>1, <1>4 DEF ShowPrompt
<1>6. /\ Draws("shell", d.cells, d.at) /\ d.at \in Int /\ d.cells \in [Cells -> Chars]
      /\ ofs \in Cells => d.at \in Cells /\ (ofs <= d.at \/ d.at = LastRow)
  BY <1>1, <1>5, PrintfFacts
<1>7. /\ screen' = d.cells /\ ofs' = ofs
      /\ pend' \in [Actors -> {NoPrint} \union {<<n>> : n \in Int}]
      /\ pend'["shell"][1] = d.at /\ ~Idle("shell")'
      /\ pend'["other"] = pend["other"]
  BY <1>1, <1>6, DrawsFacts DEF Actors
<1>8. ShellTypes'
  <2>1. ofs \in Int
    BY <1>1 DEF ShellTypes
  <2>. QED  BY <1>2, <1>3, <1>6, <1>7, <2>1, ScreenFacts DEF ShellTypes, Cells
<1>9. calm' => Idle("other")' /\ ofs \in Cells /\ d.at \in Cells
  BY <1>2, <1>6, <1>7 DEF Overlaps, Actors, Idle
<1>10. CalmCursor'
  BY <1>3, <1>7, <1>9 DEF CalmCursor, CursorBehindLine, Actors, Cells
<1>11. LineStands'
  <2>. SUFFICES ASSUME alone' PROVE calm' /\ Idle("other")' /\ Shows(Prompt \o <<>>, d.cells, d.at)
    BY <1>3, <1>7 DEF LineStands
  <2>1. calm' /\ Idle("other")' /\ ofs \in Cells /\ ofs + Len(Prompt) <= Width * Height
    BY <1>2, <1>9
  <2>2. Shows(<<>>, screen, ofs)
    BY <2>1 DEF Shows, Cells
  <2>3. PlainText(Prompt) /\ 0 + Len(Prompt) <= LastRow
    <3>1. \A i \in 1 .. Len(Prompt) : Prompt[i] \in ToSet(Prompt)
      BY ScreenFacts DEF ToSet
    <3>2. PlainText(Prompt)
      BY <3>1, ShellAssumption DEF PlainText
    <3>. QED  BY <3>2, ScreenFacts
  <2>4. <<>> \in Seq(Chars) /\ Len(<<>>) = 0 /\ <<>> \o Prompt = Prompt /\ Prompt \o <<>> = Prompt
    BY <1>4
  <2>5. screen \in [Cells -> Chars] /\ Sp \in Chars
    BY <1>1, CharFacts DEF ShellTypes
  <2>6. Shows(<<>> \o Prompt, d.cells, d.at)
    BY <1>4, <2>1, <2>2, <2>3, <2>4, <2>5, PrintShows
  <2>. QED  BY <2>1, <2>4, <2>6
<1>12. ParamsStand(ran)' /\ LineRuns' /\ OneStray'
  <2>1. strays' = strays
    BY DEF FirstPrompt, NextPrompt, editor, stack
  <2>. QED  BY <1>1, <1>2, <2>1, RunKept DEF OneStray
<1>. QED  BY <1>3, <1>8, <1>10, <1>11, <1>12 DEF ShellInv

LEMMA CharStep ==
  ASSUME ShellInv, CharKey
  PROVE  ShellInv'
<1>1. /\ ShellTypes /\ BufferHolds /\ CalmCursor /\ LineStands /\ ParamsStand(ran) /\ LineRuns /\ OneStray
      /\ pc = "read" /\ Idle("shell") /\ "shell" \in Actors /\ idx < BufSize
  BY DEF ShellInv, CharKey, Reads, Actors, HasRoom
<1>2. PICK key \in Letters \union {Sp, Tab} :
         /\ Store(idx, CharOf(key))
         /\ line' = Append(line, CharOf(key))
         /\ Printf("shell", <<CharOf(key)>>)
  BY DEF CharKey
<1>. PICK c : c = CharOf(key)
  OBVIOUS
<1>3. /\ idx' = idx + 1 /\ peak' = IF peak <= idx THEN idx + 1 ELSE peak
      /\ calm' = (calm /\ ~Overlaps("shell")) /\ alone' = (alone /\ ~Overlaps("shell"))
      /\ pc' = pc /\ ran' = ran
  BY DEF CharKey, Watched
<1>4. c \in Typeable /\ c \in Chars /\ c \notin {Nl, Tab}
  <2>1. c \in Typeable
    BY <1>2 DEF CharOf, Typeable
  <2>. QED  BY <2>1, CharFacts
<1>5. <<c>> \in Seq(Chars) /\ <<c>> \in Seq(Chars \union {Nl, Tab}) /\ Len(<<c>>) = 1 /\ PlainText(<<c>>)
  BY <1>4 DEF PlainText
<1>. PICK d : d = ConsolePrintString(<<c>>)
  OBVIOUS
<1>6. /\ Draws("shell", d.cells, d.at) /\ d.at \in Int /\ d.cells \in [Cells -> Chars]
      /\ ofs \in Cells => d.at \in Cells /\ (ofs <= d.at \/ d.at = LastRow)
  BY <1>1, <1>2, <1>5, PrintfFacts
<1>7. /\ screen' = d.cells /\ ofs' = ofs
      /\ pend' \in [Actors -> {NoPrint} \union {<<n>> : n \in Int}]
      /\ pend'["shell"][1] = d.at /\ ~Idle("shell")'
      /\ pend'["other"] = pend["other"]
  BY <1>1, <1>6, DrawsFacts DEF Actors
<1>8. /\ line \in Seq(Typeable) /\ idx \in Nat /\ idx = Len(line) /\ BufSize \in Nat
      /\ line' \in Seq(Typeable) /\ Len(line') = idx + 1 /\ line'[idx + 1] = c
      /\ \A i \in 1 .. idx : line'[i] = line[i]
  <2>1. line \in Seq(Typeable) /\ idx \in Nat /\ idx = Len(line) /\ BufSize \in Nat
    BY <1>1, ScreenFacts DEF ShellTypes
  <2>. QED  BY <1>2, <1>4, <2>1
<1>9. ShellTypes'
  <2>1. ofs \in Int
    BY <1>1 DEF ShellTypes
  <2>. QED  BY <1>1, <1>3, <1>6, <1>7, <1>8, <2>1 DEF ShellTypes, Cells
<1>10. BufferHolds' /\ OneStray'
  <2>1. /\ \A i \in 1 .. idx : buf[i - 1] = line[i]
        /\ peak \in Nat /\ idx <= peak /\ \A j \in peak .. BufSize - 1 : buf[j] = Nul
    BY <1>1 DEF BufferHolds
  <2>2. idx \in 0 .. BufSize /\ idx # BufSize /\ idx < BufSize /\ c \in StackBytes /\ Store(idx, c)
    BY <1>1, <1>2, <1>4, <1>8, CharFacts
  <2>3. /\ buf' \in [0 .. BufSize - 1 -> StackBytes] /\ beyond' \in StackBytes /\ buf'[idx] = c
        /\ \A i \in 0 .. BufSize - 1 : i # idx => buf'[i] = buf[i]
        /\ OneStray'
    BY <1>1, <2>2, StoreFacts
  <2>4. \A i \in 1 .. idx + 1 : buf'[i - 1] = line'[i]
    <3>. TAKE i \in 1 .. idx + 1
    <3>1. CASE i = idx + 1
      BY <1>8, <2>3, <3>1
    <3>2. CASE i # idx + 1
      <4>1. i \in 1 .. idx /\ i - 1 \in 0 .. BufSize - 1 /\ i - 1 # idx
        BY <1>8, <2>2, <3>2
      <4>. QED  BY <1>8, <2>1, <2>3, <4>1
    <3>. QED  BY <3>1, <3>2
  <2>5. peak' \in Nat /\ idx + 1 <= peak' /\ peak <= peak' /\ idx < peak'
    BY <1>3, <1>8, <2>1
  <2>6. \A j \in peak' .. BufSize - 1 : buf'[j] = Nul
    <3>. TAKE j \in peak' .. BufSize - 1
    <3>1. j \in peak .. BufSize - 1 /\ j \in 0 .. BufSize - 1 /\ j # idx
      BY <1>8, <2>1, <2>5
    <3>. QED  BY <2>1, <2>3, <3>1
  <2>. QED  BY <1>3, <2>3, <2>4, <2>5, <2>6 DEF BufferHolds
<1>11. CalmCursor'
  <2>1. ofs \in Cells /\ idx <= ofs => d.at \in Cells /\ idx' <= d.at
    <3>. SUFFICES ASSUME ofs \in Cells, idx <= ofs PROVE d.at \in Cells /\ idx + 1 <= d.at
      BY <1>3
    <3>1. d.at \in Cells /\ (d.at = ofs + 1 \/ d.at = LastRow)
      BY <1>1, <1>5, <1>6, OneCharMoves DEF ShellTypes
    <3>2. idx + 1 <= LastRow
      BY <1>1, <1>8, ScreenFacts
    <3>. QED  BY <1>8, <3>1, <3>2 DEF Cells
  <2>. QED  BY <1>1, <1>3, <1>6, <2>1, CalmKept
<1>12. LineStands'
  <2>. SUFFICES ASSUME alone' PROVE calm' /\ Idle("other")' /\ Shows(Prompt \o line', d.cells, d.at)
    BY <1>7 DEF LineStands
  <2>1. alone /\ ~Overlaps("shell") /\ calm /\ Idle("other") /\ Shows(Prompt \o line, screen, ofs)
    BY <1>1, <1>3 DEF LineStands
  <2>2. calm' /\ Idle("other")'
    BY <1>3, <1>7, <2>1 DEF Idle
  <2>3. ofs \in Cells
    BY <1>1, <2>1 DEF CalmCursor, CursorBehindLine
  <2>. PICK s : s = Prompt \o line
    OBVIOUS
  <2>4. s \in Seq(Chars) /\ Len(s) = Len(Prompt) + idx /\ Prompt \o line' = s \o <<c>>
    <3>1. Prompt \in Seq(Chars) /\ line \in Seq(Chars)
      BY <1>8, TextFacts, CharFacts
    <3>. QED  BY <1>2, <1>4, <1>8, <3>1
  <2>5. ofs + 1 <= Width * Height /\ Len(s) + 1 <= LastRow
    BY <1>1, <1>8, <2>3, <2>4, ScreenFacts DEF Cells
  <2>6. screen \in [Cells -> Chars] /\ Sp \in Chars
    BY <1>1, CharFacts DEF ShellTypes
  <2>7. Shows(s \o <<c>>, d.cells, d.at)
    BY <1>5, <2>1, <2>3, <2>4, <2>5, <2>6, PrintShows
  <2>. QED  BY <2>2, <2>4, <2>7
<1>13. ParamsStand(ran)' /\ LineRuns'
  BY <1>1, <1>3, RunKept
<1>. QED  BY <1>9, <1>10, <1>11, <1>12, <1>13 DEF ShellInv

LEMMA BackspaceStep ==
  ASSUME ShellInv, BackspaceKey
  PROVE  ShellInv'
<1>1. /\ ShellTypes /\ BufferHolds /\ CalmCursor /\ LineStands /\ ParamsStand(ran) /\ LineRuns /\ OneStray
      /\ pc = "read" /\ Idle("shell") /\ "shell" \in Actors /\ 0 < idx
  BY DEF ShellInv, BackspaceKey, Reads, Actors
<1>2. /\ idx' = idx - 1 /\ line' = Front(line) /\ UNCHANGED <<buf, beyond, strays>> /\ peak' = peak
      /\ calm' = (calm /\ ~Overlaps("shell")) /\ alone' = (alone /\ ~Overlaps("shell"))
      /\ pc' = pc /\ ran' = ran
      /\ Draws("shell", BlankAt(ofs - 1), ofs - 1)
  BY DEF BackspaceKey, Watched, Erased, stack
<1>3. /\ line \in Seq(Typeable) /\ idx \in 0 .. BufSize /\ idx \in Nat /\ idx = Len(line) /\ BufSize \in Nat
      /\ ofs \in Int /\ ofs - 1 \in Int /\ screen \in [Cells -> Chars]
  BY <1>1, ScreenFacts DEF ShellTypes
<1>4. /\ line' \in Seq(Typeable) /\ Len(line') = idx - 1 /\ idx - 1 \in 0 .. BufSize
      /\ \A i \in 1 .. idx - 1 : line'[i] = line[i]
  <2>1. line' = SubSeq(line, 1, Len(line) - 1)
    BY <1>2 DEF Front
  <2>. QED  BY <1>1, <1>3, <2>1
<1>5. /\ screen' = BlankAt(ofs - 1) /\ ofs' = ofs
      /\ pend' \in [Actors -> {NoPrint} \union {<<n>> : n \in Int}]
      /\ pend'["shell"][1] = ofs - 1 /\ ~Idle("shell")'
      /\ pend'["other"] = pend["other"]
  BY <1>1, <1>2, <1>3, DrawsFacts DEF Actors
<1>6. ShellTypes'
  <2>1. BlankAt(ofs - 1) \in [Cells -> Chars]
    BY <1>3, CharFacts DEF BlankAt
  <2>. QED  BY <1>1, <1>2, <1>3, <1>4, <1>5, <2>1 DEF ShellTypes, Cells
<1>7. BufferHolds'
  <2>1. /\ buf \in [0 .. BufSize - 1 -> StackBytes] /\ beyond \in StackBytes /\ \A i \in 1 .. idx : buf[i - 1] = line[i]
        /\ peak \in Nat /\ idx <= peak /\ \A j \in peak .. BufSize - 1 : buf[j] = Nul
    BY <1>1 DEF BufferHolds
  <2>2. \A i \in 1 .. idx - 1 : buf[i - 1] = line'[i]
    <3>1. \A i \in 1 .. idx - 1 : i \in 1 .. idx /\ line'[i] = line[i]
      BY <1>3, <1>4
    <3>. QED  BY ONLY <2>1, <3>1
  <2>3. idx - 1 <= peak
    BY <1>3, <2>1
  <2>. QED  BY <1>2, <2>1, <2>2, <2>3 DEF BufferHolds
<1>8. CalmCursor'
  <2>1. ofs \in Cells /\ idx <= ofs => ofs - 1 \in Cells /\ idx' <= ofs - 1
    BY <1>1, <1>2, <1>3, ScreenFacts DEF Cells
  <2>. QED  BY <1>1, <1>2, <1>3, <2>1, CalmKept
<1>9. LineStands'
  <2>. SUFFICES ASSUME alone'
                PROVE  calm' /\ Idle("other")' /\ Shows(Prompt \o line', BlankAt(ofs - 1), ofs - 1)
    BY <1>5 DEF LineStands
  <2>1. alone /\ ~Overlaps("shell") /\ calm /\ Idle("other") /\ Shows(Prompt \o line, screen, ofs)
    BY <1>1, <1>2 DEF LineStands
  <2>2. calm' /\ Idle("other")'
    BY <1>2, <1>5, <2>1 DEF Idle
  <2>. PICK s, t, m : s = Prompt \o line /\ t = Prompt \o line' /\ m = Len(Prompt)
    OBVIOUS
  <2>3. /\ m \in Nat /\ Len(s) = m + idx /\ Len(t) = m + idx - 1
        /\ \A i \in 1 .. m + idx - 1 : t[i] = s[i]
    <3>1. Prompt \in Seq(Chars) /\ line \in Seq(Chars) /\ line' \in Seq(Chars)
      BY <1>3, <1>4, TextFacts, CharFacts
    <3>2. m \in Nat /\ Len(s) = m + idx /\ Len(t) = m + (idx - 1)
      <4>1. m \in Nat /\ Len(s) = m + Len(line) /\ Len(t) = m + Len(line')
        BY <3>1
      <4>2. Len(line) = idx /\ Len(line') = idx - 1
        BY <1>3, <1>4
      <4>. QED  BY ONLY <4>1, <4>2
    <3>3. \A i \in 1 .. m + idx : s[i] = IF i <= m THEN Prompt[i] ELSE line[i - m]
      BY <1>3, <3>1
    <3>4. \A i \in 1 .. m + (idx - 1) : t[i] = IF i <= m THEN Prompt[i] ELSE line'[i - m]
      BY <1>4, <3>1
    <3>5. ASSUME NEW i \in 1 .. m + (idx - 1) PROVE t[i] = s[i]
      <4>1. i \in 1 .. m + idx /\ (~(i <= m) => i - m \in 1 .. idx - 1)
        BY <1>1, <1>3, <3>2
      <4>. QED  BY <1>4, <3>3, <3>4, <4>1
    <3>. QED  BY <3>2, <3>5
  <2>4. ofs \in Cells
    BY <1>1, <2>1 DEF CalmCursor, CursorBehindLine
  <2>5. m + idx <= ofs /\ \A i \in 1 .. m + idx : screen[ofs - (m + idx) + i - 1] = s[i]
    BY <2>1, <2>3 DEF Shows
  <2>6. m + idx - 1 <= ofs - 1
    BY <1>3, <2>3, <2>5
  <2>7. ASSUME NEW i \in 1 .. m + idx - 1
        PROVE  BlankAt(ofs - 1)[ofs - 1 - (m + idx - 1) + i - 1] = t[i]
    <3>. PICK p : p = ofs - 1 - (m + idx - 1) + i - 1
      OBVIOUS
    <3>1. p \in Cells /\ p # ofs - 1 /\ p = ofs - (m + idx) + i - 1 /\ i \in 1 .. m + idx
      BY <1>3, <2>3, <2>4, <2>5, ScreenFacts, SMTT(30) DEF Cells
    <3>2. BlankAt(ofs - 1)[p] = screen[p]
      BY <3>1 DEF BlankAt
    <3>. QED  BY <2>3, <2>5, <3>1, <3>2
  <2>8. Shows(t, BlankAt(ofs - 1), ofs - 1)
    BY <2>3, <2>6, <2>7 DEF Shows
  <2>. QED  BY <2>2, <2>8
<1>10. ParamsStand(ran)' /\ LineRuns' /\ OneStray'
  BY <1>1, <1>2, RunKept DEF OneStray
<1>. QED  BY <1>6, <1>7, <1>8, <1>9, <1>10 DEF ShellInv

LEMMA EnterStep ==
  ASSUME ShellInv, EnterKey
  PROVE  ShellInv'
<1>1. /\ ShellTypes /\ BufferHolds /\ ParamsStand(ran) /\ LineRuns /\ OneStray /\ Idle("shell") /\ "shell" \in Actors
      /\ Printf("shell", <<Nl>>) /\ pc' \in {"execute", "prompt"}
      /\ UNCHANGED <<buf, beyond, strays, idx, line, peak, ran>>
  BY DEF ShellInv, EnterKey, Reads, Actors, editor, stack
<1>. PICK d : d = ConsolePrintString(<<Nl>>)
  OBVIOUS
<1>2. <<Nl>> \in Seq(Chars \union {Nl, Tab})
  OBVIOUS
<1>3. Draws("shell", d.cells, d.at) /\ d.at \in Int /\ d.cells \in [Cells -> Chars]
  BY <1>1, <1>2, PrintfFacts
<1>4. /\ screen' = d.cells /\ ofs' = ofs
      /\ pend' \in [Actors -> {NoPrint} \union {<<n>> : n \in Int}]
  BY <1>1, <1>3, DrawsFacts
<1>5. ShellTypes'
  BY <1>1, <1>3, <1>4 DEF ShellTypes, Cells
<1>6. BufferHolds' /\ CalmCursor' /\ LineStands'
  BY <1>1 DEF BufferHolds, CalmCursor, LineStands
<1>. QED  BY <1>1, <1>5, <1>6, RunKept DEF ShellInv, OneStray

LEMMA OtherStep ==
  ASSUME ShellInv, OtherPrints
  PROVE  ShellInv'
<1>1. /\ ShellTypes /\ BufferHolds /\ CalmCursor /\ ParamsStand(ran) /\ LineRuns /\ OneStray /\ Idle("other") /\ "other" \in Actors
      /\ calm' = (calm /\ ~Overlaps("other")) /\ alone' = FALSE
      /\ UNCHANGED <<pc, buf, beyond, strays, idx, line, peak, ran>>
  BY DEF ShellInv, OtherPrints, Actors, editor, stack, Watched
<1>2. PICK text \in OtherTexts : Printf("other", text)
  BY DEF OtherPrints
<1>. PICK d : d = ConsolePrintString(text)
  OBVIOUS
<1>3. text \in Seq(Chars \union {Nl, Tab})
  <2>1. text \in Seq(Chars)
    BY TextFacts
  <2>. QED  BY <2>1
<1>4. /\ Draws("other", d.cells, d.at) /\ d.at \in Int /\ d.cells \in [Cells -> Chars]
      /\ ofs \in Cells => d.at \in Cells /\ (ofs <= d.at \/ d.at = LastRow)
  BY <1>1, <1>2, <1>3, PrintfFacts
<1>5. /\ screen' = d.cells /\ ofs' = ofs
      /\ pend' \in [Actors -> {NoPrint} \union {<<n>> : n \in Int}]
  BY <1>1, <1>4, DrawsFacts
<1>6. ShellTypes'
  BY <1>1, <1>4, <1>5 DEF ShellTypes, Cells
<1>7. BufferHolds' /\ LineStands'
  BY <1>1 DEF BufferHolds, LineStands
<1>8. CalmCursor'
  <2>1. ofs \in Cells /\ idx <= ofs => d.at \in Cells /\ idx' <= d.at
    <3>. SUFFICES ASSUME ofs \in Cells, idx <= ofs PROVE d.at \in Cells /\ idx <= d.at
      BY <1>1
    <3>1. d.at \in Cells /\ (ofs <= d.at \/ d.at = LastRow)
      BY <1>4
    <3>2. idx \in Nat /\ idx <= LastRow /\ LastRow \in Nat
      BY <1>1, ScreenFacts DEF ShellTypes
    <3>. QED  BY <3>1, <3>2 DEF Cells
  <2>. QED  BY <1>1, <1>4, <2>1, CalmKept
<1>. QED  BY <1>1, <1>6, <1>7, <1>8, RunKept DEF ShellInv, OneStray

LEMMA SetCursorStep ==
  ASSUME ShellInv, NEW a \in Actors, SetCursor(a)
  PROVE  ShellInv'
<1>1. /\ ShellTypes /\ BufferHolds /\ CalmCursor /\ LineStands /\ ParamsStand(ran) /\ LineRuns /\ OneStray
      /\ ~Idle(a) /\ ofs' = pend[a][1] /\ pend' = [pend EXCEPT ![a] = NoPrint]
      /\ UNCHANGED <<screen, pc, buf, beyond, strays, idx, line, peak, alone, calm, ran>>
  BY DEF ShellInv, SetCursor, editor, stack
<1>2. pend \in [Actors -> {NoPrint} \union {<<n>> : n \in Int}]
  BY <1>1 DEF ShellTypes
<1>3. /\ pend' \in [Actors -> {NoPrint} \union {<<n>> : n \in Int}]
      /\ Idle(a)' /\ pend[a][1] \in Int
      /\ \A b \in Actors \ {a} : pend'[b] = pend[b]
  <2>1. Idle(a)' /\ \A b \in Actors \ {a} : pend'[b] = pend[b]
    BY <1>1, <1>2 DEF Idle
  <2>2. PICK n \in Int : pend[a] = <<n>>
    BY <1>1, <1>2 DEF Idle
  <2>3. pend[a][1] = n
    BY <2>2
  <2>4. pend' \in [Actors -> {NoPrint} \union {<<k>> : k \in Int}]
    BY <1>1, <1>2, Zenon
  <2>. QED  BY <2>1, <2>3, <2>4
<1>4. ShellTypes'
  BY <1>1, <1>3 DEF ShellTypes, Cells
<1>5. BufferHolds'
  BY <1>1 DEF BufferHolds
<1>6. CalmCursor'
  <2>. SUFFICES ASSUME pc = "read", calm PROVE CursorBehindLine'
    BY <1>1 DEF CalmCursor
  <2>1. CursorBehindLine
    BY <1>1 DEF CalmCursor
  <2>2. \A b \in Actors \ {a} : Idle(b)
    BY <1>1, <2>1 DEF CursorBehindLine, Actors
  <2>3. \A b \in Actors : Idle(b)'
    BY <1>3, <2>2 DEF Idle
  <2>4. ofs' \in Cells /\ idx' <= ofs'
    BY <1>1, <2>1 DEF CursorBehindLine
  <2>. QED  BY <2>3, <2>4 DEF CursorBehindLine, Actors, Cells
<1>7. LineStands'
  <2>. SUFFICES ASSUME pc = "read", alone
                PROVE  Idle("other")' /\ Shows(Prompt \o line, screen, IF Idle("shell")' THEN ofs' ELSE pend'["shell"][1])
    BY <1>1 DEF LineStands
  <2>1. Idle("other") /\ Shows(Prompt \o line, screen, IF Idle("shell") THEN ofs ELSE pend["shell"][1])
    BY <1>1 DEF LineStands
  <2>2. a = "shell"
    BY <1>1, <2>1 DEF Actors
  <2>3. Idle("other")' /\ Idle("shell")'
    BY <1>3, <2>1, <2>2 DEF Idle, Actors
  <2>. QED  BY <1>1, <2>1, <2>2, <2>3
<1>. QED  BY <1>1, <1>4, <1>5, <1>6, <1>7, RunKept DEF ShellInv, OneStray

(* The string at a byte consists of the bytes of the buffer.               *)
LEMMA StrAtSeq ==
  ASSUME NEW b, NEW i \in 0 .. BufSize + 1, NEW S, \A j \in 0 .. BufSize : b[j] \in S
  PROVE  StrAt(b, i) \in Seq(S)
<1>. DEFINE Ends(j) == /\ j = BufSize + 1 \/ b[j] = Nul
                       /\ \A k \in i .. j - 1 : b[k] # Nul
            T == {j \in i .. BufSize + 1 : j = BufSize + 1 \/ b[j] = Nul}
<1>0. BufSize \in Nat /\ i \in Nat
  BY ScreenFacts
<1>1. BufSize + 1 \in T /\ T \subseteq Nat
  BY <1>0
<1>2. PICK e \in T : \A j \in T : e <= j
  <2>. HIDE DEF T
  <2>. QED  BY <1>1, LeastMember
<1>3. ASSUME NEW k \in i .. e - 1 PROVE b[k] # Nul
  <2>1. k \in i .. BufSize + 1 /\ ~(e <= k)
    BY <1>0, <1>2
  <2>. QED  BY <1>2, <2>1
<1>4. e \in i .. BufSize + 1 /\ Ends(e)
  BY <1>2, <1>3
<1>. PICK x : x = CHOOSE j \in i .. BufSize + 1 : Ends(j)
  OBVIOUS
<1>5. x \in i .. BufSize + 1
  <2>. HIDE DEF Ends
  <2>. QED  BY <1>4
<1>6. StrAt(b, i) = [k \in 1 .. x - i |-> b[i + k - 1]]
  BY DEF StrAt
<1>7. x - i \in Nat /\ \A k \in 1 .. x - i : b[i + k - 1] \in S
  <2>1. x - i \in Nat /\ \A k \in 1 .. x - i : i + k - 1 \in 0 .. BufSize
    BY ONLY <1>0, <1>5
  <2>. QED  BY <2>1
<1>. QED  BY ONLY <1>6, <1>7

(* What the handler is given, against the line the buffer holds.           *)
LEMMA ExecuteFacts ==
  ASSUME ShellInv, NEW b, b[idx] = Nul, \A j \in 0 .. BufSize : b[j] \in StackBytes,
         \A j \in 0 .. BufSize - 1 : j # idx => b[j] = buf[j]
  PROVE  /\ StrAt(b, 0) = line
         /\ RunsLine(ExecuteCmd(b))
         /\ ParamsStand(ExecuteCmd(b))
<1>. PICK n : n = Len(line)
  OBVIOUS
<1>1. /\ line \in Seq(Typeable) /\ idx = n /\ n \in 0 .. BufSize /\ n \in Nat /\ BufSize \in Nat
      /\ \A i \in 1 .. n : buf[i - 1] = line[i]
      /\ peak \in Nat /\ \A j \in peak .. BufSize - 1 : buf[j] = Nul
  <2>1. line \in Seq(Typeable) /\ idx = n /\ n \in 0 .. BufSize /\ BufSize \in Nat
    BY ScreenFacts DEF ShellInv, ShellTypes
  <2>2. /\ \A i \in 1 .. n : buf[i - 1] = line[i]
        /\ peak \in Nat /\ \A j \in peak .. BufSize - 1 : buf[j] = Nul
    BY <2>1 DEF ShellInv, BufferHolds
  <2>3. n \in Nat
    BY <2>1
  <2>. QED  BY ONLY <2>1, <2>2, <2>3
<1>2. /\ b[n] = Nul /\ \A j \in 0 .. BufSize - 1 : j # n => b[j] = buf[j]
  BY <1>1
<1>3. \A i \in 1 .. n : b[i - 1] = line[i]
  <2>. TAKE i \in 1 .. n
  <2>1. i - 1 \in 0 .. BufSize - 1 /\ i - 1 # n
    BY <1>1
  <2>. QED  BY <1>1, <1>2, <2>1
<1>4. StrAt(b, 0) = line
  <2>1. Nul \notin Typeable /\ 0 + n <= BufSize + 1 /\ 0 + n = n
    BY <1>1, CharFacts
  <2>2. \A k \in 1 .. n : b[0 + k - 1] = line[k]
    BY <1>3
  <2>3. StandsAt(line, b, 0)
    BY <1>1, <1>2, <2>1, <2>2 DEF StandsAt
  <2>. QED  BY <1>1, <2>1, <2>3, StrAtIs
<1>. PICK end, word : end = SpaceFrom(line, 0) /\ word = SubSeq(line, 1, end)
  OBVIOUS
<1>5. /\ end \in 0 .. n /\ end \in Nat /\ (end = n \/ line[end + 1] = Sp)
      /\ \A k \in 0 .. end - 1 : line[k + 1] # Sp
  <2>1. Len(line) \in Nat /\ 0 \in 0 .. Len(line)
    BY <1>1
  <2>. QED  BY <1>1, <2>1, SpaceFacts
<1>6. \A i \in 1 .. end : line[i] # Sp
  <2>. TAKE i \in 1 .. end
  <2>1. i - 1 \in 0 .. end - 1 /\ (i - 1) + 1 = i
    BY <1>5
  <2>. QED  BY <1>5, <2>1
<1>7. word \in Seq(Typeable) /\ Len(word) = end /\ (end = n => word = line)
  BY <1>1, <1>5
<1>. PICK arg : arg = StrAt(b, end + 1)
  OBVIOUS
<1>. DEFINE known == word \in Commands \union {Cls}
<1>. PICK r, runs, given : /\ r = ExecuteCmd(b) /\ runs = IF known THEN word ELSE NotCommand
                           /\ given = IF known THEN arg ELSE <<>>
  OBVIOUS
<1>8. r = [line |-> line, peak |-> peak, cmd |-> runs, arg |-> given,
           params |-> <<>>, pos |-> 0, overran |-> FALSE]
  BY <1>4, Zenon DEF ExecuteCmd
<1>9. NotCommand \notin Commands \union {Cls}
      /\ \A c \in Commands \union {Cls} : Len(c) <= BufSize - 2
  <2>1. \A c \in Commands \union {Cls} : Len(c) \in 1 .. BufSize - 2
    BY ShellAssumption
  <2>. QED  BY <1>1, <2>1 DEF NotCommand
<1>. DEFINE spaces == {i \in 1 .. Len(line) : line[i] = Sp}
            first == CHOOSE i \in spaces : \A j \in spaces : i <= j
            rest == SubSeq(line, Len(word) + 2, Len(line))
<1>10. spaces = {} <=> end = n
  <2>1. CASE end = n
    BY <1>1, <1>6, <2>1
  <2>2. CASE end # n
    <3>1. end + 1 \in spaces
      BY <1>1, <1>5, <2>2
    <3>. QED  BY <2>2, <3>1
  <2>. QED  BY <2>1, <2>2
<1>11. end # n => first = end + 1
  <2>. SUFFICES ASSUME end # n PROVE first = end + 1
    OBVIOUS
  <2>1. end + 1 \in spaces
    BY <1>1, <1>5
  <2>2. \A j \in spaces : j \in Nat /\ end + 1 <= j
    BY <1>1, <1>5, <1>6
  <2>3. \A i \in spaces : (\A j \in spaces : i <= j) => i = end + 1
    BY <1>5, <2>1, <2>2
  <2>. HIDE DEF spaces
  <2>. QED  BY <2>1, <2>2, <2>3
<1>12. word = IF spaces = {} THEN line ELSE SubSeq(line, 1, first - 1)
  <2>1. CASE end = n
    BY <1>7, <1>10, <2>1
  <2>2. CASE end # n
    <3>. HIDE DEF first, spaces
    <3>1. first - 1 = end
      BY <1>5, <1>11, <2>2
    <3>. QED  BY <1>10, <2>2, <3>1
  <2>. QED  BY <2>1, <2>2
<1>13. ASSUME word \in Commands \union {Cls}, spaces # {} \/ peak <= Len(line) + 1
       PROVE  arg = rest
  <2>1. CASE end # n
    <3>1. end + 1 <= n /\ end + 1 \in Nat
      BY <1>1, <1>5, <2>1
    <3>2. arg = StrAt(b, end + 1)
      OBVIOUS
    <3>3. rest \in Seq(Typeable) /\ Len(rest) = n - (end + 1)
      BY <1>1, <1>5, <1>7, <3>1
    <3>4. \A k \in 1 .. n - (end + 1) : rest[k] = line[end + 1 + k]
      BY <1>1, <1>5, <1>7, <3>1, SMTT(30)
    <3>5. \A k \in 1 .. n - (end + 1) : b[(end + 1) + k - 1] = rest[k]
      <4>. TAKE k \in 1 .. n - (end + 1)
      <4>1. end + 1 + k \in 1 .. n /\ (end + 1 + k) - 1 = (end + 1) + k - 1
        BY <1>1, <3>1
      <4>2. b[(end + 1 + k) - 1] = line[end + 1 + k]
        BY <1>3, <4>1
      <4>. QED  BY <3>4, <4>1, <4>2
    <3>6. (end + 1) + (n - (end + 1)) = n /\ n <= BufSize + 1
      BY <1>1, <3>1
    <3>. HIDE DEF rest
    <3>7. StandsAt(rest, b, end + 1)
      BY <1>2, <3>3, <3>5, <3>6 DEF StandsAt
    <3>8. StrAt(b, end + 1) = rest
      BY <3>1, <3>3, <3>7, CharFacts, StrAtIs
    <3>. QED  BY <3>2, <3>8
  <2>2. CASE end = n
    <3>1. word = line /\ n <= BufSize - 2 /\ peak <= n + 1
      BY <1>7, <1>9, <1>10, <1>13, <2>2
    <3>2. n + 1 \in peak .. BufSize - 1 /\ n + 1 \in 0 .. BufSize - 1 /\ n + 1 # n
      BY <1>1, <3>1
    <3>3. b[n + 1] = Nul
      BY <1>1, <1>2, <3>2
    <3>4. StrAt(b, n + 1) = <<>>
      <4>1. <<>> \in Seq({}) /\ Len(<<>>) = 0 /\ Nul \notin {} /\ (n + 1) + 0 = n + 1 /\ 1 .. 0 = {}
        BY <1>1
      <4>2. n + 1 \in Nat /\ n + 1 <= BufSize + 1
        BY <1>1
      <4>3. StandsAt(<<>>, b, n + 1)
        BY <3>3, <4>1, <4>2 DEF StandsAt
      <4>. QED  BY <4>1, <4>2, <4>3, StrAtIs
    <3>5. arg = <<>>
      BY <1>1, <2>2, <3>2, <3>4
    <3>6. rest = <<>>
      BY <1>1, <1>7, <2>2
    <3>. QED  BY <3>5, <3>6
  <2>. QED  BY <2>1, <2>2
<1>14. RunsLine(r)
  <2>1. r.line = line /\ r.peak = peak /\ r.cmd = IF word \in Commands \union {Cls} THEN word ELSE NotCommand
    BY <1>8
  <2>2. word \in Commands \union {Cls} => r.arg = arg
    BY <1>8
  <2>. QED  BY <1>9, <1>12, <1>13, <2>1, <2>2, SMT, ZenonT(30) DEF RunsLine
<1>15. ParamsStand(r)
  <2>1. IsRun(r) /\ r.params = <<>> /\ r.pos = 0 /\ r.overran = FALSE
    BY <1>8 DEF IsRun
  <2>2. r.arg \in Seq(StackBytes)
    <3>1. CASE known
      <4>1. Len(word) <= BufSize - 2
        BY <1>9, <3>1
      <4>2. end + 1 \in 0 .. BufSize + 1
        BY <1>1, <1>5, <1>7, <4>1
      <4>3. StrAt(b, end + 1) \in Seq(StackBytes)
        BY <4>2, StrAtSeq
      <4>. QED  BY <1>8, <3>1, <4>3
    <3>2. CASE ~known
      BY <1>8, <3>2
    <3>. QED  BY <3>1, <3>2
  <2>3. <<>> \in Seq(Seq(StackBytes)) /\ 0 \in 0 .. Len(r.arg) + 1
    BY <2>2
  <2>4. WordsTo(Append(r.arg, Sp), <<>>, 0)
    BY NoWordYet
  <2>. QED  BY <2>1, <2>2, <2>3, <2>4 DEF ParamsStand
<1>. QED  BY <1>4, <1>14, <1>15

(* A text printed by the shell.                                            *)
LEMMA ShellDraws ==
  ASSUME ShellTypes, NEW text \in Seq(Chars \union {Nl, Tab}), Printf("shell", text)
  PROVE  \E at \in Int, cells \in [Cells -> Chars] : Draws("shell", cells, at)
BY PrintfFacts DEF Actors

LEMMA ShellOutputs ==
  ASSUME ShellTypes, NEW text \in Outputs, Printf("shell", text)
  PROVE  \E at \in Int, cells \in [Cells -> Chars] : Draws("shell", cells, at)
<1>1. text \in Seq(Chars)
  BY TextFacts
<1>2. text \in Seq(Chars \union {Nl, Tab})
  BY <1>1
<1>. QED  BY <1>2, ShellDraws

LEMMA ExecuteStep ==
  ASSUME ShellInv, Execute
  PROVE  ShellInv'
<1>. PICK f : f = Frame(buf', beyond')
  OBVIOUS
<1>1. /\ ShellTypes /\ BufferHolds /\ OneStray /\ Idle("shell") /\ "shell" \in Actors
      /\ Store(idx, Nul) /\ ran' = ExecuteCmd(f) /\ pc' \in {"prompt", "handler"}
      /\ UNCHANGED <<idx, line, peak>>
  BY DEF ShellInv, Execute, Actors, Terminate
<1>2. /\ BufSize \in Nat /\ idx \in 0 .. BufSize /\ Nul \in StackBytes
      /\ \A i \in 1 .. idx : buf[i - 1] = line[i]
      /\ peak \in Nat /\ idx <= peak /\ \A j \in peak .. BufSize - 1 : buf[j] = Nul
  BY <1>1, ScreenFacts, CharFacts DEF BufferHolds, ShellTypes
<1>3. /\ buf' \in [0 .. BufSize - 1 -> StackBytes] /\ beyond' \in StackBytes
      /\ idx < BufSize => buf'[idx] = Nul /\ beyond' = beyond
      /\ idx = BufSize => beyond' = Nul
      /\ \A j \in 0 .. BufSize - 1 : j # idx => buf'[j] = buf[j]
      /\ OneStray'
  BY <1>1, <1>2, StoreFacts
<1>4. /\ f[idx] = Nul /\ \A j \in 0 .. BufSize : f[j] \in StackBytes
      /\ \A j \in 0 .. BufSize - 1 : j # idx => f[j] = buf[j]
  <2>1. \A j \in 0 .. BufSize : f[j] = IF j < BufSize THEN buf'[j] ELSE beyond'
    BY DEF Frame
  <2>2. f[idx] = Nul
    BY <1>2, <1>3, <2>1
  <2>3. ASSUME NEW j \in 0 .. BufSize PROVE f[j] \in StackBytes
    BY <1>2, <1>3, <2>1
  <2>4. ASSUME NEW j \in 0 .. BufSize - 1, j # idx PROVE f[j] = buf[j]
    <3>1. j \in 0 .. BufSize /\ j < BufSize
      BY <1>2
    <3>. QED  BY <1>3, <2>1, <2>4, <3>1
  <2>. QED  BY <2>2, <2>3, <2>4
<1>5. StrAt(f, 0) = line /\ RunsLine(ran') /\ ParamsStand(ran')
  BY <1>1, <1>4, ExecuteFacts
<1>6. \/ RunCls
      \/ Printf("shell", Append(line, Nl))
      \/ UNCHANGED <<screen, ofs, pend>>
  BY <1>5 DEF Execute, console
<1>7. /\ screen' \in [Cells -> Chars] /\ ofs' \in Int
      /\ pend' \in [Actors -> {NoPrint} \union {<<k>> : k \in Int}]
  <2>1. CASE RunCls
    <3>1. CleanScreen \in [Cells -> Chars] /\ Width \in Int
      BY CharFacts, ScreenFacts DEF CleanScreen
    <3>2. Draws("shell", CleanScreen, Width)
      BY <2>1 DEF RunCls
    <3>. QED  BY <1>1, <3>1, <3>2, DrawsFacts DEF ShellTypes
  <2>2. CASE Printf("shell", Append(line, Nl))
    <3>1. line \in Seq(Chars \union {Nl, Tab})
      BY <1>1, CharFacts DEF ShellTypes
    <3>2. Append(line, Nl) \in Seq(Chars \union {Nl, Tab})
      BY <3>1
    <3>3. PICK at \in Int, cells \in [Cells -> Chars] : Draws("shell", cells, at)
      BY <1>1, <2>2, <3>2, ShellDraws
    <3>. QED  BY <1>1, <3>3, DrawsFacts DEF ShellTypes
  <2>3. CASE UNCHANGED <<screen, ofs, pend>>
    BY <1>1, <2>3 DEF ShellTypes
  <2>. QED  BY <1>6, <2>1, <2>2, <2>3
<1>8. ShellTypes'
  BY <1>1, <1>7 DEF ShellTypes, Cells
<1>9. BufferHolds'
  <2>1. \A i \in 1 .. idx : buf'[i - 1] = line[i]
    <3>. TAKE i \in 1 .. idx
    <3>1. i - 1 \in 0 .. BufSize - 1 /\ i - 1 # idx
      BY <1>2
    <3>. QED  BY <1>2, <1>3, <3>1
  <2>2. \A j \in peak .. BufSize - 1 : buf'[j] = Nul
    <3>. TAKE j \in peak .. BufSize - 1
    <3>1. j \in 0 .. BufSize - 1 /\ (j = idx => idx < BufSize)
      BY <1>2
    <3>. QED  BY <1>2, <1>3, <3>1
  <2>. QED  BY <1>1, <1>2, <1>3, <2>1, <2>2 DEF BufferHolds
<1>10. CalmCursor' /\ LineStands'
  BY <1>1 DEF CalmCursor, LineStands
<1>11. ParamsStand(ran)' /\ LineRuns'
  <2>1. ParamsStand(ran)'
    BY <1>5 DEF ParamsStand, IsRun
  <2>2. RunsLine(ran)'
    BY <1>5 DEF RunsLine
  <2>. QED  BY <2>1, <2>2 DEF LineRuns
<1>. QED  BY <1>3, <1>8, <1>9, <1>10, <1>11 DEF ShellInv

(* One more piece is read, or it does not fit.                             *)
LEMMA NextParamFacts ==
  ASSUME NEW r, ParamsStand(r), r.pos < Len(r.arg), NEW g, g = GetNextParam(r)
  PROVE  /\ ParamsStand(g)
         /\ g.line = r.line /\ g.peak = r.peak /\ g.cmd = r.cmd /\ g.arg = r.arg
<1>. PICK s, p, e, word : /\ s = r.arg /\ p = r.pos /\ e = SpaceFrom(s, p)
                          /\ word = SubSeq(s, p + 1, e)
  OBVIOUS
<1>1. /\ s \in Seq(StackBytes) /\ Len(s) \in Nat /\ p \in 0 .. Len(s) /\ p \in Nat
      /\ r.params \in Seq(Seq(StackBytes)) /\ WordsTo(Append(s, Sp), r.params, p)
      /\ r.overran => ParamSize <= Len(s)
      /\ IsRun(r) /\ ParamSize \in Nat
  <2>1. s \in Seq(StackBytes) /\ p \in 0 .. Len(s) + 1 /\ p < Len(s)
    BY DEF ParamsStand
  <2>2. Len(s) \in Nat
    BY <2>1
  <2>3. p \in 0 .. Len(s) /\ p \in Nat
    BY <2>1, <2>2
  <2>. QED  BY <2>1, <2>2, <2>3, ShellAssumption DEF ParamsStand
<1>2. /\ e \in p .. Len(s) /\ e \in Nat /\ word \in Seq(StackBytes)
      /\ OneWord(Append(s, Sp), word, p, e + 1)
  BY <1>1, PieceFacts, CharFacts
<1>3. CASE Wrote(r, e) <= ParamSize
  <2>1. g = [r EXCEPT !.params = Append(@, word), !.pos = e + 1]
    BY <1>3 DEF GetNextParam
  <2>2. g = [line |-> r.line, peak |-> r.peak, cmd |-> r.cmd, arg |-> s,
             params |-> Append(r.params, word), pos |-> e + 1, overran |-> r.overran]
    BY <1>1, <2>1, Zenon DEF IsRun
  <2>3. WordsTo(Append(s, Sp), Append(r.params, word), e + 1)
    <3>1. e + 1 \in Nat
      BY <1>2
    <3>. QED  BY <1>1, <1>2, <3>1, OneMoreWord
  <2>4. Append(r.params, word) \in Seq(Seq(StackBytes)) /\ e + 1 \in 0 .. Len(s) + 1
    BY <1>1, <1>2
  <2>. QED  BY <1>1, <2>2, <2>3, <2>4 DEF ParamsStand, IsRun
<1>4. CASE ~(Wrote(r, e) <= ParamSize)
  <2>1. g = [r EXCEPT !.overran = TRUE]
    BY <1>4 DEF GetNextParam
  <2>2. g = [line |-> r.line, peak |-> r.peak, cmd |-> r.cmd, arg |-> s,
             params |-> r.params, pos |-> p, overran |-> TRUE]
    BY <1>1, <2>1, Zenon DEF IsRun
  <2>3. ParamSize <= Len(s)
    BY <1>1, <1>2, <1>4 DEF Wrote
  <2>. QED  BY <1>1, <2>2, <2>3 DEF ParamsStand, IsRun
<1>. QED  BY <1>3, <1>4

LEMMA ReadParamStep ==
  ASSUME ShellInv, ReadParam
  PROVE  ShellInv'
<1>1. /\ ShellTypes /\ BufferHolds /\ CalmCursor /\ LineStands /\ OneStray
      /\ ParamsStand(ran) /\ LineRuns /\ ran.pos < Len(ran.arg)
      /\ ran' = GetNextParam(ran) /\ pc = "handler"
      /\ UNCHANGED <<screen, ofs, pend, pc, buf, beyond, strays, idx, line, peak, alone, calm>>
  BY DEF ShellInv, ReadParam, console, editor, stack
<1>2. /\ ParamsStand(ran')
      /\ ran'.line = ran.line /\ ran'.peak = ran.peak /\ ran'.cmd = ran.cmd /\ ran'.arg = ran.arg
  BY <1>1, NextParamFacts
<1>3. ParamsStand(ran)'
  BY <1>2 DEF ParamsStand, IsRun
<1>4. LineRuns'
  <2>1. ran # NoRun
    <3>1. NoRun.arg = <<>> /\ NoRun.pos = 0 /\ ~(0 < Len(<<>>))
      BY DEF NoRun
    <3>. QED  BY <1>1, <3>1
  <2>2. RunsLine(ran)
    BY <1>1, <2>1 DEF LineRuns
  <2>. QED  BY <1>2, <2>2 DEF LineRuns, RunsLine
<1>5. ShellTypes' /\ BufferHolds' /\ CalmCursor' /\ LineStands' /\ OneStray'
  BY <1>1 DEF ShellTypes, BufferHolds, CalmCursor, LineStands, OneStray, Cells
<1>. QED  BY <1>3, <1>4, <1>5 DEF ShellInv

LEMMA HandlerEndsStep ==
  ASSUME ShellInv, HandlerEnds
  PROVE  ShellInv'
<1>1. /\ ShellTypes /\ BufferHolds /\ ParamsStand(ran) /\ LineRuns /\ OneStray
      /\ Idle("shell") /\ "shell" \in Actors /\ pc' = "prompt"
      /\ UNCHANGED <<buf, beyond, strays, idx, line, peak, ran>>
  BY DEF ShellInv, HandlerEnds, Actors, editor, stack
<1>2. PICK text \in Outputs : Printf("shell", text)
  BY DEF HandlerEnds
<1>3. PICK at \in Int, cells \in [Cells -> Chars] : Draws("shell", cells, at)
  BY <1>1, <1>2, ShellOutputs
<1>4. /\ screen' = cells /\ ofs' = ofs
      /\ pend' \in [Actors -> {NoPrint} \union {<<k>> : k \in Int}]
  BY <1>1, <1>3, DrawsFacts
<1>5. ShellTypes'
  BY <1>1, <1>4 DEF ShellTypes, Cells
<1>6. BufferHolds' /\ CalmCursor' /\ LineStands'
  BY <1>1 DEF BufferHolds, CalmCursor, LineStands
<1>. QED  BY <1>1, <1>5, <1>6, RunKept DEF ShellInv, OneStray

LEMMA GoesAstrayStep ==
  ASSUME ShellInv, GoesAstray
  PROVE  ShellInv'
<1>1. /\ ShellTypes /\ BufferHolds /\ ParamsStand(ran) /\ LineRuns /\ OneStray
      /\ pc' = "astray" /\ pc \in {"handler", "astray"}
      /\ UNCHANGED <<screen, ofs, pend, buf, beyond, strays, idx, line, peak, ran>>
  BY DEF ShellInv, GoesAstray, console, editor, stack
<1>2. ShellTypes' /\ BufferHolds' /\ CalmCursor' /\ LineStands'
  BY <1>1 DEF ShellTypes, BufferHolds, CalmCursor, LineStands, Cells
<1>. QED  BY <1>1, <1>2, RunKept DEF ShellInv, OneStray

LEMMA ShellStep == ShellInv /\ [ShellNext]_shellVars => ShellInv'
<1>. SUFFICES ASSUME ShellInv, [ShellNext]_shellVars PROVE ShellInv'
  OBVIOUS
<1>1. CASE UNCHANGED shellVars
  <2>1. /\ UNCHANGED <<screen, ofs, pend, pc, buf, beyond, strays, idx, line, peak, alone, calm, ran>>
    BY <1>1 DEF shellVars, console, editor, stack
  <2>2. ShellTypes' /\ BufferHolds' /\ CalmCursor' /\ LineStands'
    BY <2>1 DEF ShellInv, ShellTypes, BufferHolds, CalmCursor, CursorBehindLine, LineStands, Idle, Cells
  <2>. QED  BY <2>1, <2>2, RunKept DEF ShellInv, OneStray
<1>2. CASE ShellNext
  BY <1>2, PromptStep, CharStep, BackspaceStep, EnterStep, ExecuteStep, ReadParamStep,
     HandlerEndsStep, GoesAstrayStep, OtherStep, SetCursorStep DEF ShellNext
<1>. QED  BY <1>1, <1>2

THEOREM ShellInvariantHolds == ShellSpec => []ShellInv
BY InitShellInv, ShellStep, PTL DEF ShellSpec

(* The cursor stays on the screen, with the line before it, as long as no  *)
(* two prints overlap.                                                     *)
THEOREM CursorStaysOnScreen == ShellSpec => []CursorOnScreen
<1>1. ShellInv => CursorOnScreen
  <2>. SUFFICES ASSUME ShellInv PROVE CursorOnScreen
    OBVIOUS
  <2>1. Reads /\ calm => ofs \in Cells /\ idx <= ofs
    BY DEF ShellInv, CalmCursor, CursorBehindLine, Reads
  <2>. QED  BY <2>1 DEF ShellInv, ShellTypes, CursorOnScreen, Chars
<1>. QED  BY <1>1, ShellInvariantHolds, PTL

(* The prompt and the line in the buffer stand right before the cursor.    *)
THEOREM LineStaysShown == ShellSpec => []LineShown
<1>1. ShellInv => LineShown
  <2>. SUFFICES ASSUME ShellInv, Reads, alone PROVE LineShown
    BY DEF LineShown
  <2>1. Shows(Prompt \o line, screen, ofs)
    BY DEF ShellInv, LineStands, Reads
  <2>2. \A i \in 1 .. Len(line) : buf[i - 1] = line[i]
    BY DEF ShellInv, ShellTypes, BufferHolds
  <2>. QED  BY <2>1, <2>2 DEF LineShown, Shows
<1>. QED  BY <1>1, ShellInvariantHolds, PTL

(* The line that was typed runs, the parameters read are its pieces, and   *)
(* the shell writes one terminator outside its buffer at most.             *)
THEOREM TypedLinesRun == ShellSpec => []RunsWhatWasTyped
<1>1. ShellInv => RunsWhatWasTyped
  <2>. SUFFICES ASSUME ShellInv PROVE RunsWhatWasTyped
    OBVIOUS
  <2>1. AreWords(ran.params, ran.arg)
    BY AreWordsIf DEF ShellInv, ParamsStand
  <2>2. ran.overran => ParamSize <= Len(ran.arg)
    BY DEF ShellInv, ParamsStand
  <2>. QED  BY <2>1, <2>2 DEF ShellInv, LineRuns, OneStray, RunsWhatWasTyped
<1>. QED  BY <1>1, ShellInvariantHolds, PTL

-----------------------------------------------------------------------------
(* Module Keyboard.                                                         *)
USE KeyboardAssumption

-----------------------------------------------------------------------------
(* One lap of the ring at most lies between two places.                    *)
LEMMA Wrap ==
  ASSUME NEW n \in Nat \ {0}, NEW g \in 0 .. n - 1, NEW i \in 0 .. n
  PROVE  /\ (g + i) % n = IF g + i < n THEN g + i ELSE g + i - n
         /\ (g + i) % n \in 0 .. n - 1
<1>1. CASE g + i < n
  <2>1. g + i \in 0 .. n - 1
    BY <1>1
  <2>2. \A x \in 0 .. n - 1 : x % n = x
    OBVIOUS
  <2>. QED  BY <1>1, <2>1, <2>2
<1>2. CASE ~(g + i < n)
  <2>1. g + i - n \in 0 .. n - 1
    BY <1>2
  <2>2. \A x \in 0 .. n - 1 : (x + n) % n = x
    OBVIOUS
  <2>3. (g + i - n) + n = g + i
    OBVIOUS
  <2>. QED  BY <1>2, <2>1, <2>2, <2>3
<1>. QED  BY <1>1, <1>2

(* What is between the indices: Count keys, from getIdx on.                *)
LEMMA Places ==
  ASSUME Queue!TypeOK
  PROVE  /\ Queue!Count \in 0 .. MaxDataCnt
         /\ Queue!Count = 0 <=> Queue!Empty
         /\ Queue!Count = MaxDataCnt <=> Queue!Full
         /\ putIdx = (getIdx + Queue!Count) % MaxDataCnt
         /\ \A i \in 0 .. Queue!Count - 1 : (getIdx + i) % MaxDataCnt \in Queue!Index
         /\ \A i \in 0 .. Queue!Count - 1 : ~Queue!Full => (getIdx + i) % MaxDataCnt # putIdx
         /\ getIdx % MaxDataCnt = getIdx
<1>. DEFINE N == MaxDataCnt  c == Queue!Count
<1>1. N \in Nat \ {0} /\ getIdx \in 0 .. N - 1 /\ putIdx \in 0 .. N - 1 /\ lastOpPut \in BOOLEAN
  BY DEF Queue!TypeOK, Queue!Index
<1>2. \/ getIdx = putIdx /\ lastOpPut /\ c = N
      \/ getIdx = putIdx /\ ~lastOpPut /\ c = 0
      \/ putIdx > getIdx /\ c = putIdx - getIdx
      \/ putIdx < getIdx /\ c = putIdx + N - getIdx
  BY <1>1 DEF Queue!Count, Queue!Full
<1>3. c \in 0 .. N /\ (c = 0 <=> Queue!Empty) /\ (c = N <=> Queue!Full)
  BY <1>1, <1>2 DEF Queue!Empty, Queue!Full
<1>. HIDE DEF c
<1>4. \A i \in 0 .. N : /\ (getIdx + i) % N = IF getIdx + i < N THEN getIdx + i ELSE getIdx + i - N
                        /\ (getIdx + i) % N \in 0 .. N - 1
  BY <1>1, Wrap
<1>5. putIdx = (getIdx + c) % N
  BY <1>1, <1>2, <1>3, <1>4
<1>6. \A i \in 0 .. c - 1 : i \in 0 .. N
  BY <1>1, <1>3
<1>7. \A i \in 0 .. c - 1 : ~Queue!Full => (getIdx + i) % N # putIdx
  BY <1>1, <1>2, <1>4, <1>6 DEF Queue!Full
<1>8. getIdx % N = getIdx
  <2>1. 0 \in 0 .. N /\ getIdx + 0 = getIdx /\ getIdx < N
    BY <1>1
  <2>. QED  BY <1>4, <2>1
<1>. QED  BY <1>3, <1>4, <1>5, <1>6, <1>7, <1>8 DEF c, Queue!Index

LEMMA ContentsFacts ==
  ASSUME Queue!TypeOK
  PROVE  /\ Queue!Contents \in Seq(Key \union {NoKey})
         /\ Len(Queue!Contents) = Queue!Count
         /\ \A i \in 1 .. Queue!Count :
              Queue!Contents[i] = arr[(getIdx + i - 1) % MaxDataCnt]
<1>. DEFINE c == Queue!Count
<1>1. c \in Nat
  BY Places
<1>2. ASSUME NEW i \in 1 .. c PROVE arr[(getIdx + i - 1) % MaxDataCnt] \in Key \union {NoKey}
  <2>1. i - 1 \in 0 .. c - 1
    BY <1>1
  <2>2. (getIdx + (i - 1)) % MaxDataCnt \in Queue!Index
    BY <2>1, Places
  <2>3. getIdx + i - 1 = getIdx + (i - 1)
    BY DEF Queue!TypeOK, Queue!Index
  <2>. QED  BY <2>2, <2>3 DEF Queue!TypeOK
<1>. HIDE DEF c
<1>3. Queue!Contents = [i \in 1 .. c |-> arr[(getIdx + i - 1) % MaxDataCnt]]
  BY DEF Queue!Contents, c
<1>4. Queue!Contents \in Seq(Key \union {NoKey}) /\ Len(Queue!Contents) = c
  BY <1>1, <1>2, <1>3, IsASeq
<1>. QED  BY <1>3, <1>4 DEF c
(* The same for the next state.                                            *)
RingOK ==
  /\ Queue!Count \in 0 .. MaxDataCnt
  /\ putIdx = (getIdx + Queue!Count) % MaxDataCnt
  /\ Queue!Contents \in Seq(Key \union {NoKey})
  /\ Len(Queue!Contents) = Queue!Count
  /\ \A i \in 1 .. Queue!Count :
       Queue!Contents[i] = arr[(getIdx + i - 1) % MaxDataCnt]

LEMMA RingFacts == Queue!TypeOK => RingOK
BY Places, ContentsFacts DEF RingOK

LEMMA NextRingFacts == Queue!TypeOK' => RingOK'
BY RingFacts, PTL

-----------------------------------------------------------------------------
(* A key that goes in goes to the end.                                     *)
LEMMA PutAppends ==
  ASSUME Queue!TypeOK, NEW x \in Key, Queue!PutQueue(x)
  PROVE  /\ Queue!TypeOK'
         /\ Len(Queue!Contents) < MaxDataCnt
         /\ Queue!Contents' = Append(Queue!Contents, x)
         /\ got' = got
<1>. DEFINE N == MaxDataCnt  c == Queue!Count
<1>1. N \in Nat \ {0} /\ getIdx \in 0 .. N - 1 /\ putIdx \in 0 .. N - 1
  BY DEF Queue!TypeOK, Queue!Index
<1>2. ~Queue!Full /\ getIdx' = getIdx /\ got' = got /\ lastOpPut' /\ lastOpPut' = TRUE
      /\ arr' = [arr EXCEPT ![putIdx] = x] /\ putIdx' = (putIdx + 1) % N /\ reader' = reader
  BY DEF Queue!PutQueue
<1>3. putIdx' = (IF putIdx + 1 < N THEN putIdx + 1 ELSE putIdx + 1 - N) /\ putIdx' \in 0 .. N - 1
  <2>1. 1 \in 0 .. N
    BY <1>1
  <2>2. /\ (putIdx + 1) % N = IF putIdx + 1 < N THEN putIdx + 1 ELSE putIdx + 1 - N
        /\ (putIdx + 1) % N \in 0 .. N - 1
    BY <1>1, <2>1, Wrap
  <2>. QED  BY <1>2, <2>2
<1>4. Queue!TypeOK'
  <2>1. arr' \in [Queue!Index -> Key \union {NoKey}]
    BY <1>2 DEF Queue!TypeOK
  <2>2. putIdx' \in Queue!Index /\ getIdx' \in Queue!Index
    BY <1>1, <1>2, <1>3 DEF Queue!Index
  <2>3. reader' \in {"idle", "flag", "get"} /\ got' \in Key \union {NoKey} /\ lastOpPut' \in BOOLEAN
    BY <1>2 DEF Queue!TypeOK
  <2>. QED  BY <2>1, <2>2, <2>3 DEF Queue!TypeOK
<1>5. c \in 0 .. N - 1
  <2>1. c \in 0 .. N /\ c # N
    BY <1>2, Places
  <2>. HIDE DEF c
  <2>. QED  BY <1>1, <2>1
<1>6. Queue!Count' = c + 1
  <2>1. Queue!Full' <=> getIdx = putIdx'
    BY <1>2 DEF Queue!Full
  <2>2. c = IF putIdx >= getIdx THEN putIdx - getIdx ELSE putIdx + N - getIdx
    BY <1>2 DEF Queue!Count
  <2>3. Queue!Count' = IF getIdx = putIdx' THEN N
                       ELSE IF putIdx' >= getIdx THEN putIdx' - getIdx ELSE putIdx' + N - getIdx
    BY <1>2, <2>1 DEF Queue!Count
  <2>4. getIdx # putIdx \/ c = 0
    BY <2>2, <1>1
  <2>. HIDE DEF c
  <2>. QED  BY <1>1, <1>3, <2>2, <2>3, <2>4
<1>. HIDE DEF c
<1>7. RingOK /\ RingOK'
  BY <1>4, RingFacts, NextRingFacts
<1>8. /\ Queue!Contents' \in Seq(Key \union {NoKey}) /\ Len(Queue!Contents') = c + 1
      /\ \A i \in 1 .. c + 1 : Queue!Contents'[i] = arr'[(getIdx + i - 1) % N]
  BY <1>2, <1>6, <1>7 DEF RingOK
<1>9. /\ Queue!Contents \in Seq(Key \union {NoKey}) /\ Len(Queue!Contents) = c
      /\ putIdx = (getIdx + c) % N
      /\ \A i \in 1 .. c : Queue!Contents[i] = arr[(getIdx + i - 1) % N]
  BY <1>7 DEF RingOK, c
<1>10. /\ Append(Queue!Contents, x) \in Seq(Key \union {NoKey})
       /\ Len(Append(Queue!Contents, x)) = c + 1
       /\ \A i \in 1 .. c : Append(Queue!Contents, x)[i] = Queue!Contents[i]
       /\ Append(Queue!Contents, x)[c + 1] = x
  BY <1>9, AppendProperties
<1>11. ASSUME NEW i \in 1 .. c
       PROVE  Queue!Contents'[i] = Append(Queue!Contents, x)[i]
  <2>1. i - 1 \in 0 .. c - 1 /\ getIdx + (i - 1) = getIdx + i - 1 /\ i \in 1 .. c + 1
    BY <1>1, <1>5
  <2>2. (getIdx + (i - 1)) % N \in Queue!Index /\ (getIdx + (i - 1)) % N # putIdx
    BY <2>1, <1>2, Places DEF c
  <2>3. arr'[(getIdx + (i - 1)) % N] = arr[(getIdx + (i - 1)) % N]
    BY <1>2, <2>2 DEF Queue!TypeOK
  <2>. QED  BY <1>8, <1>9, <1>10, <2>1, <2>3
<1>12. Queue!Contents'[c + 1] = x
  <2>1. getIdx + (c + 1) - 1 = getIdx + c /\ c + 1 \in 1 .. c + 1
    BY <1>1, <1>5
  <2>2. arr'[putIdx] = x
    BY <1>1, <1>2 DEF Queue!TypeOK, Queue!Index
  <2>. QED  BY <1>8, <1>9, <2>1, <2>2
<1>13. \A i \in 1 .. c + 1 : Queue!Contents'[i] = Append(Queue!Contents, x)[i]
  <2>1. \A i \in 1 .. c + 1 : i \in 1 .. c \/ i = c + 1
    BY <1>5
  <2>. QED  BY <2>1, <1>10, <1>11, <1>12
<1>14. Queue!Contents' = Append(Queue!Contents, x)
  BY <1>8, <1>10, <1>13, SeqEqual
<1>15. Len(Queue!Contents) < N
  BY <1>1, <1>5, <1>9
<1>. QED  BY <1>2, <1>4, <1>14, <1>15
(* A call of kGetQueue that finds a key takes the oldest.                  *)
LEMMA GetTakesFirst ==
  ASSUME Queue!TypeOK, Queue!GetQueue, ~Queue!Empty
  PROVE  /\ Queue!TypeOK'
         /\ Queue!Contents # <<>>
         /\ Queue!Contents' = Tail(Queue!Contents)
         /\ got' = Head(Queue!Contents)
<1>. DEFINE N == MaxDataCnt  c == Queue!Count
<1>1. N \in Nat \ {0} /\ getIdx \in 0 .. N - 1 /\ putIdx \in 0 .. N - 1
  BY DEF Queue!TypeOK, Queue!Index
<1>2. /\ getIdx' = (getIdx + 1) % N /\ got' = arr[getIdx] /\ lastOpPut' = FALSE
      /\ arr' = arr /\ putIdx' = putIdx /\ reader' = "idle"
  BY DEF Queue!GetQueue
<1>3. getIdx' = (IF getIdx + 1 < N THEN getIdx + 1 ELSE getIdx + 1 - N) /\ getIdx' \in 0 .. N - 1
  <2>1. 1 \in 0 .. N
    BY <1>1
  <2>2. /\ (getIdx + 1) % N = IF getIdx + 1 < N THEN getIdx + 1 ELSE getIdx + 1 - N
        /\ (getIdx + 1) % N \in 0 .. N - 1
    BY <1>1, <2>1, Wrap
  <2>. QED  BY <1>2, <2>2
<1>4. Queue!TypeOK'
  <2>1. arr[getIdx] \in Key \union {NoKey}
    BY DEF Queue!TypeOK
  <2>. QED  BY <1>2, <1>3, <2>1 DEF Queue!TypeOK, Queue!Index
<1>5. c \in 1 .. N
  <2>1. c \in 0 .. N /\ c # 0
    BY Places
  <2>. HIDE DEF c
  <2>. QED  BY <2>1, <1>1
<1>6. Queue!Count' = c - 1
  <2>1. Queue!Count' = IF putIdx >= getIdx' THEN putIdx - getIdx' ELSE putIdx + N - getIdx'
    BY <1>2 DEF Queue!Count, Queue!Full
  <2>2. c = IF getIdx = putIdx THEN N
            ELSE IF putIdx >= getIdx THEN putIdx - getIdx ELSE putIdx + N - getIdx
    BY DEF Queue!Count, Queue!Full, Queue!Empty, Queue!TypeOK
  <2>. HIDE DEF c
  <2>. QED  BY <1>1, <1>3, <2>1, <2>2
<1>. HIDE DEF c
<1>7. RingOK /\ RingOK'
  BY <1>4, RingFacts, NextRingFacts
<1>8. /\ Queue!Contents' \in Seq(Key \union {NoKey}) /\ Len(Queue!Contents') = c - 1
      /\ \A i \in 1 .. c - 1 : Queue!Contents'[i] = arr[(getIdx' + i - 1) % N]
  BY <1>2, <1>6, <1>7 DEF RingOK
<1>9. /\ Queue!Contents \in Seq(Key \union {NoKey}) /\ Len(Queue!Contents) = c
      /\ \A i \in 1 .. c : Queue!Contents[i] = arr[(getIdx + i - 1) % N]
  BY <1>7 DEF RingOK, c
<1>10. Queue!Contents # <<>>
  BY <1>1, <1>5, <1>9, EmptySeq
<1>11. /\ Tail(Queue!Contents) \in Seq(Key \union {NoKey})
       /\ Len(Tail(Queue!Contents)) = c - 1
       /\ \A i \in 1 .. c - 1 : Tail(Queue!Contents)[i] = Queue!Contents[i + 1]
  BY <1>9, <1>10, HeadTailProperties
<1>12. ASSUME NEW i \in 1 .. c - 1
       PROVE  Queue!Contents'[i] = Tail(Queue!Contents)[i]
  <2>1. i \in 0 .. N /\ i - 1 \in 0 .. N /\ i + 1 \in 1 .. c
    BY <1>1, <1>5
  <2>2. /\ (getIdx + i) % N = IF getIdx + i < N THEN getIdx + i ELSE getIdx + i - N
        /\ (getIdx' + (i - 1)) % N =
             IF getIdx' + (i - 1) < N THEN getIdx' + (i - 1) ELSE getIdx' + (i - 1) - N
    BY <1>1, <1>3, <2>1, Wrap
  <2>3. (getIdx + i) % N = (getIdx' + (i - 1)) % N
    BY <1>1, <1>3, <1>5, <2>1, <2>2
  <2>4. getIdx' + (i - 1) = getIdx' + i - 1 /\ getIdx + i = getIdx + (i + 1) - 1
    BY <1>1, <1>3, <2>1
  <2>. QED  BY <1>8, <1>9, <1>11, <2>1, <2>3, <2>4
<1>13. Queue!Contents' = Tail(Queue!Contents)
  BY <1>8, <1>11, <1>12, SeqEqual
<1>14. got' = Head(Queue!Contents)
  <2>1. Head(Queue!Contents) = Queue!Contents[1]
    BY <1>9, <1>10
  <2>2. 1 \in 1 .. c /\ getIdx + 1 - 1 = getIdx
    BY <1>1, <1>5
  <2>3. getIdx % N = getIdx
    BY Places
  <2>. QED  BY <1>2, <1>9, <2>1, <2>2, <2>3
<1>. QED  BY <1>4, <1>10, <1>13, <1>14

(* A queue that is empty holds no key.                                     *)
LEMMA EmptyContents ==
  ASSUME Queue!TypeOK, Queue!Empty
  PROVE  Queue!Contents = <<>>
<1>1. Queue!Count = 0
  BY Places
<1>2. Queue!Contents \in Seq(Key \union {NoKey}) /\ Len(Queue!Contents) = 0
  BY <1>1, ContentsFacts
<1>. QED  BY <1>2, EmptySeq

LEMMA SameContents ==
  ASSUME UNCHANGED <<arr, putIdx, getIdx, lastOpPut>>
  PROVE  Queue!Contents' = Queue!Contents
<1>1. Queue!Count' = Queue!Count
  BY DEF Queue!Count, Queue!Full
<1>. QED  BY <1>1 DEF Queue!Contents
-----------------------------------------------------------------------------
(* The inductive invariant.  A shell that found equal indices finds the    *)
(* flag clear only if no key came since; and an LED byte that the keyboard *)
(* still expects is that of the innermost command, and right.              *)
ReaderKnows == reader = "flag" /\ ~lastOpPut => getIdx = putIdx

LedsKnown ==
  /\ await => waiting # <<>> /\ ~Top.sent /\ Top.leds = Lit(caps, num)
  /\ ~await => leds = Lit(caps, num)

KeyboardInv == TypeOK /\ LedsKnown /\ ReaderKnows

-----------------------------------------------------------------------------
(* Steps of the queue.                                                     *)
LEMMA ReadStep ==
  ASSUME Queue!TypeOK, ReaderKnows, Queue!Read
  PROVE  Queue!TypeOK' /\ ReaderKnows' /\ [Queue!Fifo!Next]_<<Queue!Contents, got>>
<1>1. CASE Queue!Looks
  <2>1. UNCHANGED <<arr, putIdx, getIdx, lastOpPut, got>>
    BY <1>1 DEF Queue!Looks
  <2>2. Queue!TypeOK'
    BY <1>1 DEF Queue!Looks, Queue!TypeOK, Queue!Index
  <2>3. ReaderKnows'
    BY <1>1 DEF Queue!Looks, ReaderKnows
  <2>. QED  BY <2>1, <2>2, <2>3, SameContents
<1>2. CASE Queue!SeesEmpty
  <2>1. UNCHANGED <<arr, putIdx, getIdx, lastOpPut>> /\ got' = NoKey
    BY <1>2 DEF Queue!SeesEmpty
  <2>2. Queue!TypeOK' /\ ReaderKnows'
    BY <1>2 DEF Queue!SeesEmpty, Queue!TypeOK, Queue!Index, ReaderKnows
  <2>3. Queue!Empty
    BY <1>2 DEF Queue!SeesEmpty, Queue!Empty, ReaderKnows
  <2>4. Queue!Fifo!Miss
    BY <2>1, <2>3, EmptyContents, SameContents DEF Queue!Fifo!Miss
  <2>. QED  BY <2>2, <2>4 DEF Queue!Fifo!Next
<1>3. CASE Queue!SeesFull
  <2>1. UNCHANGED <<arr, putIdx, getIdx, lastOpPut, got>>
    BY <1>3 DEF Queue!SeesFull
  <2>2. Queue!TypeOK' /\ ReaderKnows'
    BY <1>3 DEF Queue!SeesFull, Queue!TypeOK, Queue!Index, ReaderKnows
  <2>. QED  BY <2>1, <2>2, SameContents
<1>4. CASE Queue!GetQueue /\ Queue!Empty
  <2>1. UNCHANGED <<arr, putIdx, getIdx, lastOpPut>> /\ got' = NoKey
    BY <1>4 DEF Queue!GetQueue
  <2>2. Queue!TypeOK' /\ ReaderKnows'
    BY <1>4 DEF Queue!GetQueue, Queue!TypeOK, Queue!Index, ReaderKnows
  <2>3. Queue!Fifo!Miss
    BY <1>4, <2>1, EmptyContents, SameContents DEF Queue!Fifo!Miss
  <2>. QED  BY <2>2, <2>3 DEF Queue!Fifo!Next
<1>5. CASE Queue!GetQueue /\ ~Queue!Empty
  <2>1. ReaderKnows'
    BY <1>5 DEF Queue!GetQueue, ReaderKnows
  <2>2. Queue!TypeOK' /\ Queue!Fifo!Get
    BY <1>5, GetTakesFirst DEF Queue!Fifo!Get
  <2>. QED  BY <2>1, <2>2 DEF Queue!Fifo!Next
<1>. QED  BY <1>1, <1>2, <1>3, <1>4, <1>5 DEF Queue!Read

LEMMA PutStep ==
  ASSUME Queue!TypeOK, NEW x \in Key, Queue!PutQueue(x)
  PROVE  Queue!TypeOK' /\ ReaderKnows' /\ [Queue!Fifo!Next]_<<Queue!Contents, got>>
<1>1. Queue!TypeOK' /\ Queue!Fifo!Put
  BY PutAppends DEF Queue!Fifo!Put
<1>2. ReaderKnows'
  BY DEF Queue!PutQueue, ReaderKnows
<1>. QED  BY <1>1, <1>2 DEF Queue!Fifo!Next

LEMMA QueueIdle ==
  ASSUME Queue!TypeOK, ReaderKnows, UNCHANGED queue
  PROVE  Queue!TypeOK' /\ ReaderKnows' /\ [Queue!Fifo!Next]_<<Queue!Contents, got>>
<1>1. Queue!TypeOK' /\ ReaderKnows'
  BY DEF queue, Queue!TypeOK, Queue!Index, ReaderKnows
<1>2. Queue!Contents' = Queue!Contents /\ got' = got
  BY SameContents DEF queue
<1>. QED  BY <1>1, <1>2
-----------------------------------------------------------------------------
(* Steps of the driver.  What one code may change, and what it leaves of   *)
(* an LED command under way.                                               *)
Wait == [sent : BOOLEAN, tries : 0 .. MaxTries, leds : SUBSET LockKey, key : Key]

DriverOK ==
  /\ shift \in BOOLEAN /\ caps \in BOOLEAN /\ num \in BOOLEAN /\ ext \in BOOLEAN
  /\ skip \in 0 .. 2

QueueStep ==
  /\ keys' \in Seq(Key) /\ dropped' \subseteq Key
  /\ Queue!TypeOK' /\ ReaderKnows' /\ [Queue!Fifo!Next]_<<Queue!Contents, got>>

LEMMA TypeFacts ==
  ASSUME TypeOK
  PROVE  DriverOK /\ waiting \in Seq(Wait)
BY DEF TypeOK, DriverOK, Wait

LEMMA CodeFacts ==
  /\ "ack" \in Code /\ "resend" \in Code
  /\ Ack \in Byte /\ Resend \in Byte
  /\ \A s \in KeyStroke : \A i \in DOMAIN Bytes[s] : Bytes[s][i] \in Code
<1>1. "ack" \in Code /\ "resend" \in Code
  BY DEF Code
<1>2. 0 \in 0 .. MaxTyped
  OBVIOUS
<1>3. Ack \in Byte /\ Resend \in Byte
  BY <1>1, <1>2 DEF Ack, Resend, Byte
<1>4. \A s \in KeyStroke : \A i \in DOMAIN Bytes[s] : Bytes[s][i] \in Code
  BY DEF Code, ToSet
<1>. QED  BY <1>1, <1>3, <1>4

(* The bytes of a stroke are a sequence.                                   *)
LEMMA StrokeFacts ==
  ASSUME NEW s \in KeyStroke
  PROVE  \E n \in Nat : DOMAIN Bytes[s] = 1 .. n
<1>1. CASE s \in {"letter", "digit", "pad", "shift", "unshift", "caps", "num"}
  <2>1. Bytes[s] = <<s>>
    BY <1>1 DEF Bytes
  <2>2. DOMAIN <<s>> = 1 .. 1
    OBVIOUS
  <2>. QED  BY <2>1, <2>2
<1>2. CASE s = "arrow"
  <2>1. Bytes[s] = <<"E0", "pad">>
    BY <1>2 DEF Bytes
  <2>2. \A x, y : DOMAIN <<x, y>> = 1 .. 2
    OBVIOUS
  <2>. QED  BY <2>1, <2>2
<1>3. CASE s = "pause"
  <2>1. Bytes[s] = <<"E1", "ctrl", "num", "E1", "unctrl", "unnum">>
    BY <1>3 DEF Bytes
  <2>2. \A u, v, w, x, y, z : DOMAIN <<u, v, w, x, y, z>> = 1 .. 6
    OBVIOUS
  <2>. QED  BY <2>1, <2>2
<1>. QED  BY <1>1, <1>2, <1>3 DEF KeyStroke, Bytes

(* A key that is put in the queue, or finds it full.                       *)
LEMMA PutKey ==
  ASSUME TypeOK, ReaderKnows, NEW k \in Key, Put(k)
  PROVE  QueueStep
<1>1. Queue!TypeOK /\ keys \in Seq(Key) /\ dropped \subseteq Key
  BY DEF TypeOK
<1>2. CASE Queue!PutQueue(k) /\ keys' = Append(keys, k) /\ dropped' = dropped
  <2>1. keys' \in Seq(Key)
    BY <1>1, <1>2, AppendProperties
  <2>. QED  BY <1>1, <1>2, <2>1, PutStep DEF QueueStep
<1>3. CASE dropped' = dropped \union {k} /\ UNCHANGED <<keys, queue>>
  BY <1>1, <1>3, QueueIdle DEF QueueStep
<1>. QED  BY <1>2, <1>3 DEF Put

LEMMA NoKeyPut ==
  ASSUME TypeOK, ReaderKnows, UNCHANGED entered
  PROVE  QueueStep
<1>1. Queue!TypeOK /\ keys \in Seq(Key) /\ dropped \subseteq Key
  BY DEF TypeOK
<1>2. UNCHANGED queue /\ keys' = keys /\ dropped' = dropped
  BY DEF entered
<1>. QED  BY <1>1, <1>2, QueueIdle DEF QueueStep

LEMMA EntryFacts ==
  ASSUME TypeOK, NEW b \in Byte
  PROVE  /\ Entry(b) \in Key
         /\ [code |-> b.code, n |-> b.n, comb |-> FALSE, ext |-> FALSE] \in Key
<1>1. DriverOK
  BY TypeFacts
<1>2. UseCombined(b.code) \in BOOLEAN
  BY <1>1 DEF UseCombined, DriverOK
<1>3. b.code \in Code /\ b.n \in 0 .. MaxTyped
  BY DEF Byte
<1>. QED  BY <1>1, <1>2, <1>3 DEF Entry, Key, DriverOK
(* What handling the byte b does to the driver.                            *)
Handled(w) ==
  /\ out' \in Seq(Byte) /\ await' \in BOOLEAN /\ waiting' \in Seq(Wait)
  /\ DriverOK' /\ QueueStep
  /\ \/ waiting' = w /\ UNCHANGED <<await, caps, num>>
     \/ /\ await' /\ waiting' # <<>>
        /\ ~Last(waiting').sent /\ Last(waiting').leds = Lit(caps', num')

LEMMA PlainStep ==
  ASSUME TypeOK, NEW rest \in Seq(Byte), NEW w \in Seq(Wait), Plain(rest, w),
         UNCHANGED <<caps, num>>, DriverOK', QueueStep
  PROVE  Handled(w)
BY DEF Plain, Handled, TypeOK

LEMMA SkipCounts ==
  ASSUME skip \in 0 .. 2, skip > 0, skip' = skip - 1
  PROVE  skip' \in 0 .. 2
OBVIOUS

LEMMA ToggleStep ==
  ASSUME TypeOK, ReaderKnows, NEW b \in Byte, NEW rest \in Seq(Byte), NEW w \in Seq(Wait),
         Toggle(b, rest, w)
  PROVE  Handled(w)
<1>. DEFINE cmd == [sent |-> FALSE, tries |-> 0, leds |-> Lit(caps', num'), key |-> Entry(b)]
<1>1. DriverOK
  BY TypeFacts
<1>2. DriverOK'
  BY <1>1 DEF DriverOK, Toggle
<1>3. QueueStep
  BY NoKeyPut DEF Toggle
<1>4. await' = TRUE /\ out' = Append(rest, Ack) /\ waiting' = Append(w, cmd)
  BY DEF Toggle
<1>5. cmd \in Wait
  <2>1. 0 \in 0 .. MaxTries
    OBVIOUS
  <2>2. Lit(caps', num') \in SUBSET LockKey
    BY DEF Lit, LockKey
  <2>3. Entry(b) \in Key
    BY EntryFacts
  <2>. QED  BY <2>1, <2>2, <2>3 DEF Wait
<1>6. ~cmd.sent /\ cmd.leds = Lit(caps', num')
  OBVIOUS
<1>. HIDE DEF cmd
<1>7. out' \in Seq(Byte)
  BY <1>4, CodeFacts, AppendProperties
<1>8. /\ waiting' \in Seq(Wait) /\ waiting' # <<>>
      /\ Len(waiting') = Len(w) + 1 /\ waiting'[Len(w) + 1] = cmd
  BY <1>4, <1>5, AppendProperties
<1>9. Last(waiting') = cmd
  BY <1>8 DEF Last
<1>. QED  BY <1>2, <1>3, <1>4, <1>6, <1>7, <1>8, <1>9 DEF Handled

LEMMA ConvertStep ==
  ASSUME TypeOK, ReaderKnows, NEW b \in Byte, NEW rest \in Seq(Byte), NEW w \in Seq(Wait),
         Convert(b, rest, w)
  PROVE  Handled(w)
<1>. DEFINE plain == [code |-> b.code, n |-> b.n, comb |-> FALSE, ext |-> FALSE]
<1>0. DriverOK /\ Entry(b) \in Key /\ plain \in Key
  BY TypeFacts, EntryFacts
<1>. HIDE DEF plain
<1>1. CASE Skip(b, rest, w)
  <2>1. skip' \in 0 .. 2
    BY <1>0, <1>1, SkipCounts DEF Skip, DriverOK
  <2>2. DriverOK'
    BY <1>0, <1>1, <2>1 DEF Skip, DriverOK
  <2>3. QueueStep
    BY <1>1, NoKeyPut DEF Skip
  <2>. QED  BY <1>1, <2>2, <2>3, PlainStep DEF Skip
<1>2. CASE PauseKey(b, rest, w)
  <2>1. DriverOK'
    BY <1>0, <1>2 DEF PauseKey, DriverOK
  <2>2. QueueStep
    BY <1>0, <1>2, PutKey DEF PauseKey, plain
  <2>. QED  BY <1>2, <2>1, <2>2, PlainStep DEF PauseKey
<1>3. CASE Prefix(b, rest, w)
  <2>1. DriverOK'
    BY <1>0, <1>3 DEF Prefix, DriverOK
  <2>2. QueueStep
    BY <1>3, NoKeyPut DEF Prefix
  <2>. QED  BY <1>3, <2>1, <2>2, PlainStep DEF Prefix
<1>4. CASE PlainKey(b, rest, w)
  <2>1. DriverOK'
    BY <1>0, <1>4 DEF PlainKey, DriverOK
  <2>2. QueueStep
    BY <1>0, <1>4, PutKey DEF PlainKey
  <2>. QED  BY <1>4, <2>1, <2>2, PlainStep DEF PlainKey
<1>5. CASE Toggle(b, rest, w)
  BY <1>5, ToggleStep
<1>. QED  BY <1>1, <1>2, <1>3, <1>4, <1>5 DEF Convert
-----------------------------------------------------------------------------
(* A step keeps the invariant, and is a step of a bounded queue or none.   *)
Kept == KeyboardInv' /\ [Queue!Fifo!Next]_<<Queue!Contents, got>>

LEMMA KeptIf ==
  ASSUME QueueStep, DriverOK', LedsKnown', typed' \in Seq(Typed), out' \in Seq(Byte),
         port' \in Byte, await' \in BOOLEAN, leds' \subseteq LockKey,
         waiting' \in Seq(Wait), astray' \in BOOLEAN
  PROVE  Kept
<1>1. TypeOK'
  BY DEF TypeOK, QueueStep, DriverOK, Wait
<1>. QED  BY <1>1 DEF Kept, KeyboardInv, QueueStep

LEMMA TypeStep ==
  ASSUME KeyboardInv, NEW s \in Typed, Type(s)
  PROVE  Kept
<1>1. TypeOK /\ ReaderKnows /\ LedsKnown /\ DriverOK /\ waiting \in Seq(Wait)
  BY TypeFacts DEF KeyboardInv
<1>2. QueueStep
  BY <1>1, NoKeyPut DEF Type
<1>3. DriverOK'
  BY <1>1 DEF DriverOK, Type, driver
<1>4. LedsKnown'
  BY <1>1 DEF LedsKnown, Top, Last, Type, driver
<1>5. s \in KeyStroke /\ typed \in Seq(Typed) /\ out \in Seq(Byte)
  BY <1>1 DEF TypeOK
<1>6. typed' \in Seq(Typed)
  BY <1>5, AppendProperties DEF Type
<1>7. Len(typed) + 1 \in 0 .. MaxTyped
  <2>1. Len(typed) \in Nat
    BY <1>5, LenProperties
  <2>2. Len(typed) < MaxTyped
    BY DEF Type
  <2>. QED  BY <2>1, <2>2
<1>8. out' \in Seq(Byte)
  <2>. DEFINE more == [i \in DOMAIN Bytes[s] |-> [code |-> Bytes[s][i], n |-> Len(typed) + 1]]
  <2>1. PICK n \in Nat : DOMAIN Bytes[s] = 1 .. n
    BY <1>5, StrokeFacts
  <2>2. \A i \in 1 .. n : [code |-> Bytes[s][i], n |-> Len(typed) + 1] \in Byte
    BY <1>5, <1>7, <2>1, CodeFacts DEF Byte
  <2>3. more \in Seq(Byte)
    BY <2>1, <2>2, IsASeq
  <2>4. out' = out \o more
    BY DEF Type
  <2>. HIDE DEF more
  <2>. QED  BY <1>5, <2>3, <2>4, ConcatProperties
<1>9. /\ port' = port /\ await' = await /\ leds' = leds /\ waiting' = waiting
      /\ astray' = astray
  BY DEF Type
<1>10. /\ port' \in Byte /\ await' \in BOOLEAN /\ leds' \subseteq LockKey
       /\ waiting' \in Seq(Wait) /\ astray' \in BOOLEAN
  BY <1>1, <1>9 DEF TypeOK
<1>. QED  BY <1>2, <1>3, <1>4, <1>6, <1>8, <1>10, KeptIf

(* The LEDs when a code was handled: the innermost command is the one      *)
(* before, or a new one that sends the new state.                          *)
LEMMA LedsAfter ==
  ASSUME NEW w, Handled(w), LedsKnown, leds' = leds, await \in BOOLEAN,
         await => w # <<>> /\ ~Last(w).sent /\ Last(w).leds = Top.leds
  PROVE  LedsKnown'
<1>1. CASE waiting' = w /\ UNCHANGED <<await, caps, num>>
  BY <1>1 DEF LedsKnown, Top, Lit
<1>2. CASE /\ await' /\ waiting' # <<>>
           /\ ~Last(waiting').sent /\ Last(waiting').leds = Lit(caps', num')
  BY <1>2 DEF LedsKnown, Top, Lit
<1>. QED  BY <1>1, <1>2 DEF Handled

LEMMA InterruptStep ==
  ASSUME KeyboardInv, Interrupt
  PROVE  Kept
<1>1. TypeOK /\ ReaderKnows /\ LedsKnown /\ waiting \in Seq(Wait)
  BY TypeFacts DEF KeyboardInv
<1>2. out \in Seq(Byte) /\ out # <<>> /\ typed' = typed /\ leds' = leds /\ astray' = astray
      /\ port' = Head(out) /\ waiting = <<>>
  BY <1>1 DEF Interrupt, TypeOK
<1>3. Head(out) \in Byte /\ Tail(out) \in Seq(Byte)
  BY <1>2, HeadTailProperties
<1>4. Handled(waiting)
  BY <1>1, <1>3, ConvertStep DEF Interrupt
<1>5. LedsKnown'
  BY <1>1, <1>2, <1>4, LedsAfter DEF LedsKnown, TypeOK
<1>6. /\ typed' \in Seq(Typed) /\ port' \in Byte /\ leds' \subseteq LockKey
      /\ astray' \in BOOLEAN
  BY <1>1, <1>2, <1>3 DEF TypeOK
<1>. QED  BY <1>4, <1>5, <1>6, KeptIf DEF Handled

(* The byte that a wait reads, and the innermost command.                  *)
LEMMA NextByteFacts ==
  ASSUME TypeOK
  PROVE  NextByte \in Byte /\ Rest \in Seq(Byte)
<1>1. out \in Seq(Byte) /\ port \in Byte
  BY DEF TypeOK
<1>2. <<>> \in Seq(Byte)
  BY EmptySeq
<1>3. out # <<>> => Head(out) \in Byte /\ Tail(out) \in Seq(Byte)
  BY <1>1, HeadTailProperties
<1>. QED  BY <1>1, <1>2, <1>3 DEF NextByte, Rest

LEMMA TopFacts ==
  ASSUME waiting \in Seq(Wait), InWait
  PROVE  Len(waiting) \in 1 .. Len(waiting) /\ Top = waiting[Len(waiting)] /\ Top \in Wait
<1>1. Len(waiting) \in Nat \ {0}
  BY EmptySeq DEF InWait
<1>2. Len(waiting) \in 1 .. Len(waiting)
  BY <1>1
<1>. QED  BY <1>2, ElementOfSeq DEF Top, Last

(* The innermost command, changed.                                         *)
LEMMA TopChanged ==
  ASSUME waiting \in Seq(Wait), InWait, NEW e \in Wait, NEW w,
         w = [waiting EXCEPT ![Len(waiting)] = e]
  PROVE  w \in Seq(Wait) /\ w # <<>> /\ Last(w) = e
<1>1. Len(waiting) \in 1 .. Len(waiting)
  BY TopFacts
<1>2. /\ w \in Seq(Wait) /\ Len(w) = Len(waiting)
      /\ w[Len(waiting)] = e
  BY <1>1, ExceptSeq
<1>3. w # <<>>
  BY <1>1, <1>2, EmptySeq
<1>. QED  BY <1>2, <1>3 DEF Last
LEMMA TriesCounted ==
  ASSUME NEW e \in Wait, e.tries < MaxTries
  PROVE  /\ [e EXCEPT !.tries = @ + 1] \in Wait
         /\ [e EXCEPT !.tries = @ + 1].sent = e.sent
         /\ [e EXCEPT !.tries = @ + 1].leds = e.leds
<1>1. e.tries + 1 \in 0 .. MaxTries
  BY DEF Wait
<1>. QED  BY <1>1 DEF Wait

LEMMA OtherCodeStep ==
  ASSUME KeyboardInv, OtherCode
  PROVE  Kept
<1>. DEFINE e == [Top EXCEPT !.tries = @ + 1]
            w == [waiting EXCEPT ![Len(waiting)].tries = @ + 1]
<1>1. TypeOK /\ ReaderKnows /\ LedsKnown /\ waiting \in Seq(Wait)
  BY TypeFacts DEF KeyboardInv
<1>2. InWait /\ Top.tries < MaxTries
  BY DEF OtherCode, MayRead
<1>3. Len(waiting) \in 1 .. Len(waiting) /\ Top = waiting[Len(waiting)] /\ Top \in Wait
  BY <1>1, <1>2, TopFacts
<1>4. e \in Wait /\ e.sent = Top.sent /\ e.leds = Top.leds
  BY <1>2, <1>3, TriesCounted
<1>5. w = [waiting EXCEPT ![Len(waiting)] = e]
  BY <1>3
<1>6. Convert(NextByte, Rest, w)
  BY DEF OtherCode
<1>7. typed' = typed /\ leds' = leds /\ port' = NextByte /\ astray' = (astray \/ out = <<>>)
  BY DEF OtherCode
<1>. HIDE DEF e, w
<1>8. w \in Seq(Wait) /\ w # <<>> /\ Last(w) = e
  BY <1>1, <1>2, <1>4, <1>5, TopChanged
<1>9. Handled(w)
  BY <1>1, <1>6, <1>8, NextByteFacts, ConvertStep
<1>10. LedsKnown'
  <2>1. await => w # <<>> /\ ~Last(w).sent /\ Last(w).leds = Top.leds
    BY <1>1, <1>4, <1>8 DEF LedsKnown
  <2>2. await \in BOOLEAN
    BY <1>1 DEF TypeOK
  <2>. QED  BY <1>1, <1>7, <1>9, <2>1, <2>2, LedsAfter
<1>11. /\ typed' \in Seq(Typed) /\ port' \in Byte /\ leds' \subseteq LockKey
       /\ astray' \in BOOLEAN
  BY <1>1, <1>7, NextByteFacts DEF TypeOK
<1>. QED  BY <1>9, <1>10, <1>11, KeptIf DEF Handled

(* The LED byte goes out: a keyboard that expects it shows the locks.      *)
LEMMA SendLedsStep ==
  ASSUME KeyboardInv, InWait, NEW rest \in Seq(Byte), SendLeds(rest), port' \in Byte,
         astray' \in BOOLEAN
  PROVE  Kept
<1>. DEFINE e == [[Top EXCEPT !.sent = TRUE] EXCEPT !.tries = 0]
<1>1. TypeOK /\ ReaderKnows /\ LedsKnown /\ waiting \in Seq(Wait) /\ DriverOK
  BY TypeFacts DEF KeyboardInv
<1>2. Len(waiting) \in 1 .. Len(waiting) /\ Top = waiting[Len(waiting)] /\ Top \in Wait
  BY <1>1, TopFacts
<1>3. e \in Wait
  <2>1. 0 \in 0 .. MaxTries
    OBVIOUS
  <2>. QED  BY <1>2, <2>1 DEF Wait
<1>4. waiting' = [waiting EXCEPT ![Len(waiting)] = e]
  BY <1>1, <1>2 DEF SendLeds
<1>. HIDE DEF e
<1>5. waiting' \in Seq(Wait)
  BY <1>1, <1>3, <1>4, TopChanged
<1>6. out' \in Seq(Byte)
  <2>1. PICK answer \in {Ack, Resend} : out' = Append(rest, answer)
    BY DEF SendLeds
  <2>. QED  BY <2>1, CodeFacts, AppendProperties
<1>7. leds' = (IF await THEN Top.leds ELSE leds) /\ await' = FALSE
  BY DEF SendLeds
<1>8. UNCHANGED <<shift, caps, num, ext, skip, typed>> /\ UNCHANGED entered
  BY DEF SendLeds, driver
<1>9. LedsKnown'
  BY <1>1, <1>7, <1>8 DEF LedsKnown, Lit
<1>10. leds' \subseteq LockKey
  BY <1>1, <1>2, <1>7 DEF TypeOK, Wait
<1>11. DriverOK' /\ QueueStep
  BY <1>1, <1>8, NoKeyPut DEF DriverOK
<1>12. typed' \in Seq(Typed) /\ await' \in BOOLEAN 
  BY <1>1, <1>7, <1>8 DEF TypeOK
<1>. QED  BY <1>5, <1>6, <1>9, <1>10, <1>11, <1>12, KeptIf

LEMMA CommandDoneStep ==
  ASSUME KeyboardInv, InWait, Top.sent, NEW rest \in Seq(Byte), CommandDone(rest), port' \in Byte,
         astray' \in BOOLEAN
  PROVE  Kept
<1>1. TypeOK /\ ReaderKnows /\ LedsKnown /\ waiting \in Seq(Wait) /\ DriverOK
  BY TypeFacts DEF KeyboardInv
<1>2. Top.key \in Key
  BY <1>1, TopFacts DEF Wait
<1>3. QueueStep
  BY <1>1, <1>2, PutKey DEF CommandDone
<1>4. UNCHANGED <<typed, await, leds, shift, caps, num, ext, skip>> /\ out' = rest
  BY DEF CommandDone, driver
<1>5. LedsKnown'
  BY <1>1, <1>4 DEF LedsKnown, Lit
<1>6. waiting' \in Seq(Wait)
  <2>1. waiting' = SubSeq(waiting, 1, Len(waiting) - 1)
    BY DEF CommandDone, Front
  <2>2. Len(waiting) \in Nat
    BY <1>1, LenProperties
  <2>3. 1 \in Int /\ Len(waiting) - 1 \in Int
    BY <2>2
  <2>4. \A i \in 1 .. Len(waiting) - 1 : i \in 1 .. Len(waiting)
    BY <2>2
  <2>5. \A i \in 1 .. Len(waiting) - 1 : waiting[i] \in Wait
    BY <1>1, <2>4, ElementOfSeq
  <2>. QED  BY <2>1, <2>3, <2>5, SubSeqProperties
<1>7. DriverOK'
  BY <1>1, <1>4 DEF DriverOK
<1>8. /\ typed' \in Seq(Typed) /\ await' \in BOOLEAN /\ leds' \subseteq LockKey
      /\ out' \in Seq(Byte)
  BY <1>1, <1>4 DEF TypeOK
<1>. QED  BY <1>3, <1>5, <1>6, <1>7, <1>8, KeptIf

LEMMA GetchStep ==
  ASSUME KeyboardInv, Getch
  PROVE  Kept
<1>1. TypeOK /\ ReaderKnows /\ LedsKnown /\ waiting \in Seq(Wait) /\ DriverOK
  BY TypeFacts DEF KeyboardInv
<1>2. UNCHANGED <<typed, out, port, await, leds, shift, caps, num, ext, skip, waiting,
                  keys, dropped, astray>> /\ Queue!Read
  BY DEF Getch, device, driver
<1>3. QueueStep
  BY <1>1, <1>2, ReadStep DEF QueueStep, TypeOK
<1>4. LedsKnown' /\ DriverOK'
  BY <1>1, <1>2 DEF LedsKnown, Lit, Top, Last, DriverOK
<1>5. /\ typed' \in Seq(Typed) /\ await' \in BOOLEAN /\ leds' \subseteq LockKey
      /\ astray' \in BOOLEAN /\ out' \in Seq(Byte) /\ port' \in Byte /\ waiting' \in Seq(Wait)
  BY <1>1, <1>2 DEF TypeOK
<1>. QED  BY <1>3, <1>4, <1>5, KeptIf

LEMMA IdleStep ==
  ASSUME KeyboardInv, UNCHANGED vars
  PROVE  Kept
<1>1. TypeOK /\ ReaderKnows /\ LedsKnown /\ waiting \in Seq(Wait) /\ DriverOK
  BY TypeFacts DEF KeyboardInv
<1>2. UNCHANGED <<typed, out, port, await, leds, shift, caps, num, ext, skip, waiting,
                  astray>> /\ UNCHANGED entered
  BY DEF vars, device, driver
<1>3. QueueStep
  BY <1>1, <1>2, NoKeyPut
<1>4. LedsKnown' /\ DriverOK'
  BY <1>1, <1>2 DEF LedsKnown, Lit, Top, Last, DriverOK
<1>5. /\ typed' \in Seq(Typed) /\ await' \in BOOLEAN /\ leds' \subseteq LockKey
      /\ astray' \in BOOLEAN /\ out' \in Seq(Byte) /\ port' \in Byte /\ waiting' \in Seq(Wait)
  BY <1>1, <1>2 DEF TypeOK
<1>. QED  BY <1>3, <1>4, <1>5, KeptIf

-----------------------------------------------------------------------------
LEMMA StepKept == KeyboardInv /\ [Next]_vars => Kept
<1>. SUFFICES ASSUME KeyboardInv, [Next]_vars PROVE Kept
  OBVIOUS
<1>1. CASE \E s \in Typed : Type(s)
  BY <1>1, TypeStep
<1>2. CASE Interrupt
  BY <1>2, InterruptStep
<1>3. CASE OtherCode
  BY <1>3, OtherCodeStep
<1>4. CASE FirstAck
  <2>1. NextByte \in Byte /\ Rest \in Seq(Byte) /\ astray' \in BOOLEAN
    BY <1>4, NextByteFacts DEF KeyboardInv, TypeOK, FirstAck
  <2>. QED  BY <1>4, <2>1, SendLedsStep DEF FirstAck, MayRead
<1>5. CASE SecondAck
  <2>1. NextByte \in Byte /\ Rest \in Seq(Byte) /\ astray' \in BOOLEAN
    BY <1>5, NextByteFacts DEF KeyboardInv, TypeOK, SecondAck
  <2>. QED  BY <1>5, <2>1, CommandDoneStep DEF SecondAck, MayRead
<1>6. CASE GiveUp
  <2>1. out \in Seq(Byte) /\ port' \in Byte /\ astray' \in BOOLEAN
    BY <1>6 DEF KeyboardInv, TypeOK, GiveUp
  <2>. QED  BY <1>6, <2>1, SendLedsStep, CommandDoneStep DEF GiveUp
<1>7. CASE Getch
  BY <1>7, GetchStep
<1>8. CASE UNCHANGED vars
  BY <1>8, IdleStep
<1>. QED  BY <1>1, <1>2, <1>3, <1>4, <1>5, <1>6, <1>7, <1>8 DEF Next

LEMMA InitKept == Init => KeyboardInv /\ Queue!Fifo!Init
<1>. SUFFICES ASSUME Init PROVE KeyboardInv /\ Queue!Fifo!Init
  OBVIOUS
<1>1. Queue!TypeOK /\ Queue!Empty /\ ReaderKnows /\ got = NoKey
  <2>1. 0 \in 0 .. MaxDataCnt - 1
    OBVIOUS
  <2>. QED  BY <2>1 DEF Init, Queue!Init, Queue!TypeOK, Queue!Index, Queue!Empty, ReaderKnows
<1>2. Queue!Fifo!Init
  BY <1>1, EmptyContents DEF Queue!Fifo!Init
<1>3. LedsKnown
  BY DEF Init, LedsKnown, Lit
<1>4. /\ typed = <<>> /\ out = <<>> /\ port = Ack /\ await = FALSE /\ leds = {}
      /\ shift = FALSE /\ caps = FALSE /\ num = FALSE /\ ext = FALSE /\ skip = 0
      /\ waiting = <<>> /\ keys = <<>> /\ dropped = {} /\ astray = FALSE
  BY DEF Init
<1>5. \A S : <<>> \in Seq(S)
  BY EmptySeq
<1>6. skip \in 0 .. 2
  BY <1>4
<1>7. TypeOK
  BY <1>1, <1>4, <1>5, <1>6, CodeFacts DEF TypeOK
<1>. QED  BY <1>1, <1>2, <1>3, <1>7 DEF KeyboardInv

(* The strengthened invariant holds however codes, acknowledgements and    *)
(* lock keys nest in the handler and the shell's reads fall between them.  *)
THEOREM KeyboardInvariantHolds == Spec => []KeyboardInv
<1>1. Init => KeyboardInv
  BY InitKept
<1>2. KeyboardInv /\ [Next]_vars => KeyboardInv'
  BY StepKept DEF Kept
<1>. QED  BY <1>1, <1>2, PTL DEF Spec

(* The LEDs show the locks whenever no LED command is under way, for any   *)
(* depth of commands inside commands, also when a wait gives up.           *)
THEOREM LedsStayTrue == Spec => []LedsTrue
<1>1. KeyboardInv => LedsTrue
  BY DEF KeyboardInv, LedsKnown, LedsTrue, TypeOK
<1>. QED  BY <1>1, KeyboardInvariantHolds, PTL

(* The ring buffer of any size is a bounded queue: handlers that put keys  *)
(* in between the shell's look and its get make no key come out twice, out *)
(* of order or from a place never written, and none is overwritten.        *)
THEOREM RingIsFifo == Spec => QueueKept
<1>1. Init => Queue!Fifo!Init
  BY InitKept
<1>2. KeyboardInv /\ [Next]_vars => [Queue!Fifo!Next]_<<Queue!Contents, got>>
  BY StepKept DEF Kept
<1>. QED  BY <1>1, <1>2, KeyboardInvariantHolds, PTL DEF Spec, QueueKept, Queue!FifoKept, Queue!Fifo!Spec
-----------------------------------------------------------------------------
(***************************************************************************)
(* The keys and the strokes they come from.                                *)
(***************************************************************************)
(* What is still to be read of the strokes: of the strokes t, the first m  *)
(* and j bytes of the next one are read, the bytes o are on their way, and *)
(* byte i of o is preceded by p[i] bytes of the code of its stroke.        *)
Aligned(o, t, m, p) ==
  \A i \in DOMAIN o :
    IF o[i].n = 0 THEN o[i] \in {Ack, Resend}
    ELSE /\ o[i].n \in m + 1 .. Len(t) /\ p[i] < Len(Bytes[t[o[i].n]])
         /\ o[i].code = Bytes[t[o[i].n]][p[i] + 1]
         /\ p[i] + 1 < Len(Bytes[t[o[i].n]]) =>
              i + 1 \in DOMAIN o /\ o[i + 1].n = o[i].n /\ p[i + 1] = p[i] + 1

Ordered(o, p) ==
  \A i, k \in DOMAIN o :
    i < k /\ o[i].n # 0 /\ o[k].n # 0 =>
      o[i].n < o[k].n \/ (o[i].n = o[k].n /\ p[i] < p[k])

Covered(o, t, m, j, p) ==
  \A n \in m + 1 .. Len(t) :
    \E i \in DOMAIN o : o[i].n = n /\ p[i] = IF n = m + 1 THEN j ELSE 0

Midway(o, t, m, j, p) ==
  j > 0 => m < Len(t) /\ 1 \in DOMAIN o /\ o[1].n = m + 1 /\ p[1] = j

Story(o, t, m, j, p) ==
  /\ m \in 0 .. Len(t) /\ j \in 0 .. 5 /\ p \in [DOMAIN o -> 0 .. 5]
  /\ Aligned(o, t, m, p) /\ Ordered(o, p) /\ Covered(o, t, m, j, p) /\ Midway(o, t, m, j, p)

(* Codes of Pause still to be skipped when j of its six are read.          *)
SkipAt(j) == IF j \in {1, 4} THEN 2 ELSE IF j \in {2, 5} THEN 1 ELSE 0

(* The driver's flags are those of the bytes that were read.               *)
FlagsRight(m, j) ==
  /\ shift = Shifted(m) /\ caps = CapsOn(m) /\ num = NumOn(m)
  /\ ext = (j > 0 /\ typed[m + 1] = "arrow")
  /\ skip = IF typed[m + 1] = "pause" THEN SkipAt(j) ELSE 0

(* How many of s are in T; every key there is; and how often stroke n is   *)
(* one that is or will be in the queue.                                    *)
Many(s, T) == Cardinality({i \in DOMAIN s : s[i] \in T})
WaitKeys == [i \in DOMAIN waiting |-> waiting[i].key]
AllKeys == ToSet(keys) \union dropped \union ToSet(WaitKeys)
OfStroke(n) == {k \in Key : k.n = n}
Times(n) == Many(keys, OfStroke(n)) + Many(WaitKeys, OfStroke(n))

(* Stroke n has given a key, and how many it gave.                         *)
Gave(m, j, n) == n <= m \/ (n = m + 1 /\ j > 0 /\ typed[n] = "pause")
Given(m, j, n) ==
  IF n <= m THEN IF typed[n] = "pause" THEN 2 ELSE 1
  ELSE IF Gave(m, j, n) THEN IF j < 4 THEN 1 ELSE 2
  ELSE 0

RightKey(k) == k.n \in DOMAIN typed /\ k.comb = Means(k.n) /\ k.ext = (typed[k.n] = "arrow")

KeysRight(m, j) ==
  /\ \A k \in AllKeys : IF k.code = "resend" THEN k.n = 0 ELSE RightKey(k)
  /\ \A n \in DOMAIN typed : Gave(m, j, n) => \E k \in AllKeys : k.n = n
  /\ \A n \in DOMAIN typed : Times(n) <= Given(m, j, n)

(* No more acknowledgements come than commands wait for one.               *)
AcksAwaited == Many(out, {Ack}) <= Len(waiting)

Known(m, j) ==
  (\E p : Story(out, typed, m, j, p)) /\ FlagsRight(m, j) /\ KeysRight(m, j)

KeysKnown == ~astray => AcksAwaited /\ \E m \in Nat, j \in 0 .. 5 : Known(m, j)

LEMMA CodesOf ==
  ASSUME NEW s \in KeyStroke
  PROVE  /\ Bytes[s] \in Seq(Code)
         /\ Len(Bytes[s]) = IF s = "arrow" THEN 2 ELSE IF s = "pause" THEN 6 ELSE 1
         /\ \A k \in 1 .. Len(Bytes[s]) :
              Bytes[s][k] = CASE s = "arrow" -> IF k = 1 THEN "E0" ELSE "pad"
                              [] s = "pause" -> CASE k \in {1, 4} -> "E1" [] k = 2 -> "ctrl"
                                                  [] k = 3 -> "num" [] k = 5 -> "unctrl"
                                                  [] OTHER -> "unnum"
                              [] OTHER -> s
<1>1. \A i \in DOMAIN Bytes[s] : Bytes[s][i] \in Code
  BY CodeFacts
<1>2. CASE s \in {"letter", "digit", "pad", "shift", "unshift", "caps", "num"}
  <2>1. Bytes[s] = <<s>>
    BY <1>2 DEF Bytes
  <2>2. DOMAIN <<s>> = 1 .. 1 /\ Len(<<s>>) = 1 /\ <<s>>[1] = s
    OBVIOUS
  <2>3. s # "arrow" /\ s # "pause"
    BY <1>2
  <2>4. s \in Code
    BY <1>1, <2>1, <2>2
  <2>. QED  BY <2>1, <2>2, <2>3, <2>4
<1>3. CASE s = "arrow"
  <2>1. Bytes[s] = <<"E0", "pad">>
    BY <1>3 DEF Bytes
  <2>2. \A x, y : DOMAIN <<x, y>> = 1 .. 2 /\ Len(<<x, y>>) = 2 /\ <<x, y>>[1] = x /\ <<x, y>>[2] = y
    OBVIOUS
  <2>3. "E0" \in Code /\ "pad" \in Code
    BY <1>1, <2>1, <2>2
  <2>4. \A k \in 1 .. 2 : k = 1 \/ k = 2
    OBVIOUS
  <2>. QED  BY <1>3, <2>1, <2>2, <2>3, <2>4
<1>4. CASE s = "pause"
  <2>1. Bytes[s] = <<"E1", "ctrl", "num", "E1", "unctrl", "unnum">>
    BY <1>4 DEF Bytes
  <2>2. \A u, v, w, x, y, z :
          LET q == <<u, v, w, x, y, z>>
          IN /\ DOMAIN q = 1 .. 6 /\ Len(q) = 6
             /\ q[1] = u /\ q[2] = v /\ q[3] = w /\ q[4] = x /\ q[5] = y /\ q[6] = z
    OBVIOUS
  <2>3. {"E1", "ctrl", "num", "unctrl", "unnum"} \subseteq Code
    <3>1. {Bytes[s][1], Bytes[s][2], Bytes[s][3], Bytes[s][5], Bytes[s][6]} \subseteq Code
      BY <1>1, <2>1, <2>2
    <3>. QED  BY <2>1, <2>2, <3>1
  <2>4. Bytes[s] \in Seq(Code)
    BY <2>1, <2>3
  <2>5. \A k \in 1 .. 6 : k = 1 \/ k = 2 \/ k = 3 \/ k = 4 \/ k = 5 \/ k = 6
    OBVIOUS
  <2>6. /\ Len(Bytes[s]) = 6 /\ Bytes[s][1] = "E1" /\ Bytes[s][2] = "ctrl" /\ Bytes[s][3] = "num"
        /\ Bytes[s][4] = "E1" /\ Bytes[s][5] = "unctrl" /\ Bytes[s][6] = "unnum"
    BY <2>1, <2>2
  <2>. QED  BY <1>4, <2>4, <2>5, <2>6
<1>. QED  BY <1>2, <1>3, <1>4 DEF KeyStroke, Bytes

LEMMA StoryAppend ==
  ASSUME NEW o \in Seq(Byte), NEW t, NEW m, NEW j, NEW p, Len(t) \in Nat,
         Story(o, t, m, j, p), NEW b \in {Ack, Resend}
  PROVE  \E q : Story(Append(o, b), t, m, j, q)
<1>. DEFINE a == Append(o, b)
            l == Len(o)
            q == [i \in DOMAIN a |-> IF i = l + 1 THEN 0 ELSE p[i]]
<1>1. b \in Byte /\ b.n = 0
  BY CodeFacts DEF Ack, Resend
<1>2. l \in Nat /\ DOMAIN o = 1 .. l
  BY LenProperties
<1>3. /\ a \in Seq(Byte) /\ DOMAIN a = 1 .. l + 1 /\ a[l + 1] = b
      /\ \A i \in DOMAIN o : a[i] = o[i]
  BY <1>1, <1>2, AppendProperties
<1>4. p \in [DOMAIN o -> 0 .. 5] /\ m \in 0 .. Len(t) /\ j \in 0 .. 5
  BY DEF Story
<1>5. /\ q \in [DOMAIN a -> 0 .. 5] /\ q[l + 1] = 0
      /\ \A i \in DOMAIN o : q[i] = p[i]
  BY <1>2, <1>3, <1>4
<1>. HIDE DEF a, q
<1>6. Aligned(a, t, m, q)
  <2>1. \A i \in DOMAIN o : i \in DOMAIN a
    BY <1>2, <1>3
  <2>2. \A i \in DOMAIN a : i \in DOMAIN o \/ i = l + 1
    BY <1>2, <1>3
  <2>. QED  BY <1>1, <1>3, <1>5, <2>1, <2>2, SMTT(30) DEF Story, Aligned
<1>7. Ordered(a, q)
  <2>1. \A i \in DOMAIN a : i \in DOMAIN o \/ i = l + 1
    BY <1>2, <1>3
  <2>. QED  BY <1>1, <1>3, <1>5, <2>1 DEF Story, Ordered
<1>8. Covered(a, t, m, j, q)
  <2>1. \A i \in DOMAIN o : i \in DOMAIN a
    BY <1>2, <1>3
  <2>. QED  BY <1>3, <1>5, <2>1 DEF Story, Covered
<1>9. Midway(a, t, m, j, q)
  BY <1>2, <1>3, <1>5 DEF Story, Midway
<1>10. Story(a, t, m, j, q)
  BY <1>4, <1>5, <1>6, <1>7, <1>8, <1>9 DEF Story
<1>. QED  BY <1>10 DEF a

(* An answer comes between two strokes.                                    *)
LEMMA StoryPass ==
  ASSUME NEW o \in Seq(Byte), NEW t, NEW m, NEW j, NEW p, Len(t) \in Nat,
         Story(o, t, m, j, p), o # <<>>, o[1].n = 0
  PROVE  j = 0 /\ \E q : Story(Tail(o), t, m, j, q)
<1>. DEFINE a == Tail(o)
            l == Len(o)
            q == [i \in DOMAIN a |-> p[i + 1]]
<1>1. l \in Nat /\ DOMAIN o = 1 .. l /\ l # 0
  BY LenProperties, EmptySeq
<1>2. /\ a \in Seq(Byte) /\ DOMAIN a = 1 .. l - 1
      /\ \A i \in DOMAIN a : i + 1 \in DOMAIN o /\ a[i] = o[i + 1]
  BY <1>1, HeadTailProperties
<1>3. p \in [DOMAIN o -> 0 .. 5] /\ m \in 0 .. Len(t) /\ j \in 0 .. 5
  BY DEF Story
<1>4. q \in [DOMAIN a -> 0 .. 5] /\ \A i \in DOMAIN a : q[i] = p[i + 1]
  BY <1>2, <1>3
<1>5. j = 0
  BY <1>3 DEF Story, Midway
<1>6. \A i \in DOMAIN o : i # 1 => i - 1 \in DOMAIN a /\ i - 1 + 1 = i
  BY <1>1, <1>2
<1>. HIDE DEF a, q
<1>7. Aligned(a, t, m, q)
  <2>. SUFFICES ASSUME NEW i \in DOMAIN a, a[i].n # 0
                PROVE  /\ a[i].n \in m + 1 .. Len(t) /\ q[i] < Len(Bytes[t[a[i].n]])
                       /\ a[i].code = Bytes[t[a[i].n]][q[i] + 1]
                       /\ q[i] + 1 < Len(Bytes[t[a[i].n]]) =>
                            i + 1 \in DOMAIN a /\ a[i + 1].n = a[i].n /\ q[i + 1] = q[i] + 1
    BY <1>2 DEF Aligned, Story
  <2>1. i + 1 \in DOMAIN o /\ a[i] = o[i + 1] /\ q[i] = p[i + 1]
    BY <1>2, <1>4
  <2>2. i + 1 + 1 \in DOMAIN o => i + 1 \in DOMAIN a
    BY <1>1, <1>2
  <2>3. i + 1 \in DOMAIN a => a[i + 1] = o[i + 1 + 1] /\ q[i + 1] = p[i + 1 + 1]
    BY <1>2, <1>4
  <2>4. o[i + 1].n # 0
    BY <2>1
  <2>. QED  BY <2>1, <2>2, <2>3, <2>4 DEF Story, Aligned
<1>8. Ordered(a, q)
  <2>1. \A i, k \in DOMAIN a : i < k => i + 1 < k + 1
    BY <1>1, <1>2
  <2>. QED  BY <1>2, <1>4, <2>1 DEF Story, Ordered
<1>9. Covered(a, t, m, j, q)
  <2>. SUFFICES ASSUME NEW n \in m + 1 .. Len(t)
                PROVE  \E i \in DOMAIN a : a[i].n = n /\ q[i] = IF n = m + 1 THEN j ELSE 0
    BY DEF Covered
  <2>1. PICK i \in DOMAIN o : o[i].n = n /\ p[i] = IF n = m + 1 THEN j ELSE 0
    BY DEF Story, Covered
  <2>2. i # 1
    BY <1>3, <2>1
  <2>. QED  BY <1>2, <1>4, <1>6, <2>1, <2>2
<1>10. Midway(a, t, m, j, q)
  BY <1>5 DEF Midway
<1>11. Story(a, t, m, j, q)
  BY <1>3, <1>4, <1>7, <1>8, <1>9, <1>10 DEF Story
<1>. QED  BY <1>5, <1>11 DEF a

(* The byte that comes next is the next one of the story.                  *)
LEMMA StoryNext ==
  ASSUME NEW o \in Seq(Byte), NEW t \in Seq(KeyStroke), NEW m, NEW j, NEW p,
         Story(o, t, m, j, p), o # <<>>, o[1].n # 0
  PROVE  LET b == Bytes[t[m + 1]]
             done == j + 1 = Len(b)
         IN /\ o[1].n = m + 1 /\ m < Len(t) /\ j < Len(b) /\ o[1].code = b[j + 1]
            /\ \E q : Story(Tail(o), t, IF done THEN m + 1 ELSE m, IF done THEN 0 ELSE j + 1, q)
<1>. DEFINE a == Tail(o)
            l == Len(o)
            q == [i \in DOMAIN a |-> p[i + 1]]
            b == Bytes[t[m + 1]]
            done == j + 1 = Len(b)
            mm == IF done THEN m + 1 ELSE m
            jj == IF done THEN 0 ELSE j + 1
<1>1. l \in Nat /\ DOMAIN o = 1 .. l /\ l # 0
  BY LenProperties, EmptySeq
<1>2. /\ a \in Seq(Byte) /\ DOMAIN a = 1 .. l - 1
      /\ \A i \in DOMAIN a : i + 1 \in DOMAIN o /\ a[i] = o[i + 1]
  BY <1>1, HeadTailProperties
<1>3. /\ p \in [DOMAIN o -> 0 .. 5] /\ m \in 0 .. Len(t) /\ j \in 0 .. 5 /\ Len(t) \in Nat
      /\ Aligned(o, t, m, p) /\ Ordered(o, p) /\ Covered(o, t, m, j, p) /\ Midway(o, t, m, j, p)
  BY LenProperties DEF Story
<1>4. q \in [DOMAIN a -> 0 .. 5] /\ \A i \in DOMAIN a : q[i] = p[i + 1]
  BY <1>2, <1>3
<1>5. \A i \in DOMAIN o : i # 1 => i - 1 \in DOMAIN a /\ i - 1 + 1 = i
  BY <1>1, <1>2
<1>6. 1 \in DOMAIN o
  BY <1>1
<1>7. o[1].n \in m + 1 .. Len(t)
  BY <1>3, <1>6 DEF Aligned
<1>8. m < Len(t) /\ m + 1 \in m + 1 .. Len(t)
  BY <1>3, <1>7
<1>9. o[1].n = m + 1 /\ p[1] = j
  <2>1. PICK i \in DOMAIN o : o[i].n = m + 1 /\ p[i] = j
    BY <1>3, <1>8 DEF Covered
  <2>2. CASE i = 1
    BY <2>1, <2>2
  <2>3. CASE i # 1
    <3>1. 1 < i /\ o[i].n # 0
      BY <1>1, <1>3, <2>1, <2>3
    <3>2. o[1].n < m + 1 \/ (o[1].n = m + 1 /\ p[1] < j)
      BY <1>3, <1>6, <2>1, <3>1 DEF Ordered
    <3>3. o[1].n = m + 1 /\ p[1] < j
      BY <1>3, <1>7, <3>2
    <3>4. j = 0 \/ p[1] = j
      BY <1>3 DEF Midway
    <3>. QED  BY <1>3, <1>6, <3>3, <3>4
  <2>. QED  BY <2>2, <2>3
<1>10. /\ j < Len(b) /\ o[1].code = b[j + 1]
       /\ ~done => 2 \in DOMAIN o /\ o[2].n = m + 1 /\ p[2] = j + 1
  <2>1. /\ p[1] < Len(b) /\ o[1].code = b[p[1] + 1]
        /\ p[1] + 1 < Len(b) => 1 + 1 \in DOMAIN o /\ o[1 + 1].n = o[1].n /\ p[1 + 1] = p[1] + 1
    BY <1>3, <1>6, <1>9 DEF Aligned
  <2>2. Len(b) \in Nat
    BY <1>3, <1>8, CodesOf, LenProperties
  <2>3. ~done => j + 1 < Len(b)
    BY <1>3, <1>9, <2>1, <2>2
  <2>. QED  BY <1>9, <2>1, <2>3
<1>. HIDE DEF a, q
<1>11. jj \in 0 .. 5 /\ mm \in 0 .. Len(t)
  <2>1. t[m + 1] \in KeyStroke
    BY <1>3, <1>8
  <2>2. Len(b) \in {1, 2, 6}
    BY <2>1, CodesOf
  <2>. QED  BY <1>3, <1>8, <1>10, <2>2, SMTT(30)
<1>12. \A i \in DOMAIN o : i # 1 /\ o[i].n # 0 => o[i].n \in mm + 1 .. Len(t)
  <2>. SUFFICES ASSUME NEW i \in DOMAIN o, i # 1, o[i].n # 0
                PROVE  o[i].n \in mm + 1 .. Len(t)
    OBVIOUS
  <2>1. o[i].n \in m + 1 .. Len(t) /\ p[i] < Len(Bytes[t[o[i].n]])
    BY <1>3 DEF Aligned
  <2>2. 1 < i
    BY <1>1
  <2>3. m + 1 < o[i].n \/ (m + 1 = o[i].n /\ j < p[i])
    BY <1>3, <1>6, <1>7, <1>9, <2>2 DEF Ordered
  <2>4. ~(done /\ o[i].n = m + 1)
    <3>1. SUFFICES ASSUME done, o[i].n = m + 1 PROVE FALSE
      OBVIOUS
    <3>2. p[i] \in 0 .. 5
      BY <1>3
    <3>3. p[i] < j + 1
      BY <2>1, <3>1
    <3>4. j < p[i]
      BY <1>3, <2>3, <3>1
    <3>. QED  BY <1>3, <3>2, <3>3, <3>4
  <2>. QED  BY <1>3, <2>1, <2>3, <2>4
<1>13. Aligned(a, t, mm, q)
  <2>. SUFFICES ASSUME NEW i \in DOMAIN a, a[i].n # 0
                PROVE  /\ a[i].n \in mm + 1 .. Len(t) /\ q[i] < Len(Bytes[t[a[i].n]])
                       /\ a[i].code = Bytes[t[a[i].n]][q[i] + 1]
                       /\ q[i] + 1 < Len(Bytes[t[a[i].n]]) =>
                            i + 1 \in DOMAIN a /\ a[i + 1].n = a[i].n /\ q[i + 1] = q[i] + 1
    BY <1>2, <1>3 DEF Aligned
  <2>1. i + 1 \in DOMAIN o /\ a[i] = o[i + 1] /\ q[i] = p[i + 1] /\ i + 1 # 1
    BY <1>1, <1>2, <1>4
  <2>2. i + 1 + 1 \in DOMAIN o => i + 1 \in DOMAIN a
    BY <1>1, <1>2
  <2>3. i + 1 \in DOMAIN a => a[i + 1] = o[i + 1 + 1] /\ q[i + 1] = p[i + 1 + 1]
    BY <1>2, <1>4
  <2>4. o[i + 1].n # 0
    BY <2>1
  <2>. QED  BY <1>3, <1>12, <2>1, <2>2, <2>3, <2>4 DEF Aligned
<1>14. Ordered(a, q)
  <2>1. \A i, k \in DOMAIN a : i < k => i + 1 < k + 1
    BY <1>1, <1>2
  <2>. QED  BY <1>2, <1>3, <1>4, <2>1 DEF Ordered
<1>15. Midway(a, t, mm, jj, q)
  <2>. SUFFICES ASSUME jj > 0
                PROVE  mm < Len(t) /\ 1 \in DOMAIN a /\ a[1].n = mm + 1 /\ q[1] = jj
    BY DEF Midway
  <2>1. ~done
    OBVIOUS
  <2>2. 2 \in DOMAIN o /\ o[2].n = m + 1 /\ p[2] = j + 1
    BY <1>10, <2>1
  <2>3. 1 \in DOMAIN a /\ 1 + 1 = 2
    BY <1>1, <1>2, <2>2
  <2>. QED  BY <1>2, <1>4, <1>8, <2>1, <2>2, <2>3
<1>16. Covered(a, t, mm, jj, q)
  <2>. SUFFICES ASSUME NEW n \in mm + 1 .. Len(t)
                PROVE  \E i \in DOMAIN a : a[i].n = n /\ q[i] = IF n = mm + 1 THEN jj ELSE 0
    BY DEF Covered
  <2>1. CASE n = m + 1
    <3>1. ~done
      BY <1>3, <2>1
    <3>2. jj > 0
      BY <1>3, <3>1
    <3>. QED  BY <1>15, <2>1, <3>1, <3>2 DEF Midway
  <2>2. CASE n # m + 1
    <3>1. n \in m + 1 .. Len(t)
      BY <1>3
    <3>2. PICK i \in DOMAIN o : o[i].n = n /\ p[i] = 0
      BY <1>3, <2>2, <3>1 DEF Covered
    <3>3. i # 1
      BY <1>9, <2>2, <3>2
    <3>4. (IF n = mm + 1 THEN jj ELSE 0) = 0
      BY <2>2
    <3>. QED  BY <1>2, <1>4, <1>5, <3>2, <3>3, <3>4
  <2>. QED  BY <2>1, <2>2
<1>17. Story(a, t, mm, jj, q)
  BY <1>4, <1>11, <1>13, <1>14, <1>15, <1>16 DEF Story
<1>. QED  BY <1>8, <1>9, <1>10, <1>17 DEF a

(* A stroke that is made comes last in the story.                          *)
LEMMA StoryType ==
  ASSUME NEW o \in Seq(Byte), NEW t \in Seq(KeyStroke), NEW s \in KeyStroke,
         Len(t) + 1 \in 0 .. MaxTyped,
         NEW m, NEW j, NEW p, Story(o, t, m, j, p)
  PROVE  LET more == [i \in DOMAIN Bytes[s] |-> [code |-> Bytes[s][i], n |-> Len(t) + 1]]
         IN  o \o more \in Seq(Byte) /\ \E q : Story(o \o more, Append(t, s), m, j, q)
<1>. DEFINE c == Bytes[s]
            l == Len(o)
            h == Len(c)
            z == Len(t) + 1
            more == [i \in DOMAIN c |-> [code |-> c[i], n |-> z]]
            a == o \o more
            u == Append(t, s)
            q == [i \in DOMAIN a |-> IF i <= l THEN p[i] ELSE i - l - 1]
<1>1. /\ c \in Seq(Code) /\ h \in 1 .. 6 /\ DOMAIN c = 1 .. h
  <2>1. c \in Seq(Code) /\ h \in {1, 2, 6}
    BY CodesOf
  <2>. QED  BY <2>1, LenProperties
<1>2. /\ more \in Seq(Byte) /\ Len(more) = h
      /\ \A i \in 1 .. h : more[i] = [code |-> c[i], n |-> z]
  <2>1. \A i \in 1 .. h : [code |-> c[i], n |-> z] \in Byte
    BY <1>1 DEF Byte
  <2>2. more \in [1 .. h -> Byte]
    BY <1>1, <2>1
  <2>3. h \in Nat
    BY <1>1
  <2>. QED  BY <1>1, <2>1, <2>2, <2>3, SeqDef, LenProperties
<1>3. l \in Nat /\ DOMAIN o = 1 .. l
  BY LenProperties
<1>. HIDE DEF c, more
<1>4. /\ a \in Seq(Byte) /\ DOMAIN a = 1 .. l + h
      /\ \A i \in 1 .. l : a[i] = o[i]
      /\ \A i \in l + 1 .. l + h : a[i].code = c[i - l] /\ a[i].n = z
  <2>1. /\ a \in Seq(Byte) /\ Len(a) = l + Len(more)
        /\ \A i \in 1 .. l + Len(more) : a[i] = IF i <= l THEN o[i] ELSE more[i - l]
    <3>1. more \in Seq(Byte)
      BY <1>2
    <3>. QED  BY <3>1, ConcatProperties
  <2>2. DOMAIN a = 1 .. l + h
    BY <1>2, <2>1, LenProperties
  <2>3. \A i \in 1 .. l : i \in 1 .. l + h /\ i <= l
    BY <1>1, <1>3
  <2>4. \A i \in l + 1 .. l + h : i \in 1 .. l + h /\ ~(i <= l) /\ i - l \in 1 .. h
    BY <1>1, <1>3
  <2>5. \A i \in 1 .. l : a[i] = o[i]
    BY <1>2, <2>1, <2>3
  <2>6. \A i \in l + 1 .. l + h : a[i] = more[i - l]
    BY <1>2, <2>1, <2>4
  <2>7. ASSUME NEW i \in 1 .. h PROVE more[i].code = c[i] /\ more[i].n = z
    <3>1. more[i] = [code |-> c[i], n |-> z]
      BY <1>2
    <3>. QED  BY <3>1
  <2>8. \A i \in l + 1 .. l + h : a[i].code = c[i - l] /\ a[i].n = z
    BY <2>4, <2>6, <2>7
  <2>. QED  BY <2>1, <2>2, <2>5, <2>8
<1>5. /\ Len(t) \in Nat /\ Len(u) = z /\ u[z] = s
      /\ \A n \in 1 .. Len(t) : u[n] = t[n]
  BY AppendProperties, LenProperties
<1>6. p \in [DOMAIN o -> 0 .. 5] /\ m \in 0 .. Len(t) /\ j \in 0 .. 5
      /\ Aligned(o, t, m, p) /\ Ordered(o, p) /\ Covered(o, t, m, j, p) /\ Midway(o, t, m, j, p)
  BY DEF Story
<1>7. /\ q \in [DOMAIN a -> 0 .. 5]
      /\ \A i \in 1 .. l : q[i] = p[i]
      /\ \A i \in l + 1 .. l + h : q[i] = i - l - 1
  <2>1. ASSUME NEW i \in l + 1 .. l + h PROVE i - l - 1 \in 0 .. 5 /\ ~(i <= l)
    <3>. HIDE DEF l, h
    <3>1. l \in Nat /\ h \in 1 .. 6
      BY <1>1, <1>3
    <3>2. i \in Int /\ l + 1 <= i /\ i <= l + h
      BY <3>1
    <3>. QED  BY <3>1, <3>2
  <2>2. \A i \in 1 .. l : i <= l /\ i \in 1 .. l + h
    BY <1>1, <1>3
  <2>3. \A i \in 1 .. l + h : i \in 1 .. l \/ i \in l + 1 .. l + h
    BY <1>1, <1>3
  <2>4. \A i \in l + 1 .. l + h : i \in 1 .. l + h
    BY <1>1, <1>3
  <2>. QED  BY <1>3, <1>4, <1>6, <2>1, <2>2, <2>3, <2>4
<1>8. z \in Nat \ {0} /\ \A i \in DOMAIN o : o[i].n # 0 => o[i].n \in 1 .. Len(t)
  BY <1>5, <1>6 DEF Aligned
<1>9. \A i \in DOMAIN a : i \in 1 .. l \/ i \in l + 1 .. l + h
  BY <1>1, <1>3, <1>4
<1>. HIDE DEF a, q, u, z, h, l
<1>10. Aligned(a, u, m, q)
  <2>1. ASSUME NEW i \in 1 .. l, a[i].n # 0
        PROVE  /\ a[i].n \in m + 1 .. Len(u) /\ q[i] < Len(Bytes[u[a[i].n]])
               /\ a[i].code = Bytes[u[a[i].n]][q[i] + 1]
               /\ q[i] + 1 < Len(Bytes[u[a[i].n]]) =>
                    i + 1 \in DOMAIN a /\ a[i + 1].n = a[i].n /\ q[i + 1] = q[i] + 1
    <3>1. a[i] = o[i] /\ q[i] = p[i] /\ i \in DOMAIN o
      BY <1>3, <1>4, <1>7
    <3>2. o[i].n \in 1 .. Len(t) /\ u[o[i].n] = t[o[i].n]
      BY <1>5, <1>8, <2>1, <3>1
    <3>3. /\ o[i].n \in m + 1 .. Len(t) /\ p[i] < Len(Bytes[t[o[i].n]])
          /\ o[i].code = Bytes[t[o[i].n]][p[i] + 1]
          /\ p[i] + 1 < Len(Bytes[t[o[i].n]]) =>
               i + 1 \in DOMAIN o /\ o[i + 1].n = o[i].n /\ p[i + 1] = p[i] + 1
      BY <1>6, <2>1, <3>1 DEF Aligned
    <3>4. o[i].n \in m + 1 .. Len(u)
      BY <1>5, <1>6, <3>3 DEF z
    <3>5. i + 1 \in DOMAIN o => i + 1 \in DOMAIN a /\ a[i + 1] = o[i + 1] /\ q[i + 1] = p[i + 1]
      BY <1>1, <1>3, <1>4, <1>7
    <3>. QED  BY <3>1, <3>2, <3>3, <3>4, <3>5
  <2>2. ASSUME NEW i \in l + 1 .. l + h
        PROVE  /\ a[i].n \in m + 1 .. Len(u) /\ q[i] < Len(Bytes[u[a[i].n]])
               /\ a[i].code = Bytes[u[a[i].n]][q[i] + 1]
               /\ q[i] + 1 < Len(Bytes[u[a[i].n]]) =>
                    i + 1 \in DOMAIN a /\ a[i + 1].n = a[i].n /\ q[i + 1] = q[i] + 1
    <3>1. a[i].n = z /\ a[i].code = c[i - l] /\ q[i] = i - l - 1
      BY <1>1, <1>3, <1>4, <1>7
    <3>2. Bytes[u[z]] = c
      BY <1>5 DEF c
    <3>3. z \in m + 1 .. Len(u)
      BY <1>5, <1>6 DEF z
    <3>4. i - l - 1 < h /\ i - l - 1 + 1 = i - l
      BY <1>1, <1>3
    <3>5. i - l - 1 + 1 < h => i + 1 \in l + 1 .. l + h /\ i + 1 - l - 1 = i - l - 1 + 1
      BY <1>1, <1>3
    <3>6. i + 1 \in l + 1 .. l + h => i + 1 \in DOMAIN a /\ a[i + 1].n = z /\ q[i + 1] = i + 1 - l - 1
      <4>1. i + 1 \in l + 1 .. l + h => i + 1 \in 1 .. l + h
        BY <1>1, <1>3
      <4>. QED  BY <1>1, <1>3, <1>4, <1>7, <4>1
    <3>7. Len(c) = h
      BY DEF h
    <3>. QED  BY <3>1, <3>2, <3>3, <3>4, <3>5, <3>6, <3>7
  <2>3. \A i \in 1 .. l : a[i].n = 0 => a[i] \in {Ack, Resend}
    BY <1>3, <1>4, <1>6 DEF Aligned
  <2>4. \A i \in l + 1 .. l + h : a[i].n # 0
    BY <1>1, <1>3, <1>4, <1>8
  <2>. QED  BY <1>9, <2>1, <2>2, <2>3, <2>4 DEF Aligned
<1>11. Ordered(a, q)
  <2>. SUFFICES ASSUME NEW i \in DOMAIN a, NEW k \in DOMAIN a, i < k, a[i].n # 0, a[k].n # 0
                PROVE  a[i].n < a[k].n \/ (a[i].n = a[k].n /\ q[i] < q[k])
    BY DEF Ordered
  <2>1. CASE k \in 1 .. l
    <3>1. i \in 1 .. l
      BY <1>1, <1>3, <1>9, <2>1
    <3>. QED  BY <1>3, <1>4, <1>6, <1>7, <2>1, <3>1 DEF Ordered
  <2>2. CASE k \in l + 1 .. l + h
    <3>1. CASE i \in 1 .. l
      <4>1. a[i].n \in 1 .. Len(t) /\ a[k].n = z
        BY <1>3, <1>4, <1>8, <2>2, <3>1
      <4>. QED  BY <1>5, <4>1 DEF z
    <3>2. CASE i \in l + 1 .. l + h
      <4>1. a[i].n = a[k].n /\ q[i] = i - l - 1 /\ q[k] = k - l - 1
        BY <1>1, <1>3, <1>4, <1>7, <2>2, <3>2
      <4>2. i - l - 1 < k - l - 1
        BY <1>1, <1>3, <2>2, <3>2
      <4>. QED  BY <4>1, <4>2
    <3>. QED  BY <1>9, <3>1, <3>2
  <2>. QED  BY <1>9, <2>1, <2>2
<1>12. Covered(a, u, m, j, q)
  <2>. SUFFICES ASSUME NEW n \in m + 1 .. Len(u)
                PROVE  \E i \in DOMAIN a : a[i].n = n /\ q[i] = IF n = m + 1 THEN j ELSE 0
    BY DEF Covered
  <2>1. CASE n \in m + 1 .. Len(t)
    <3>1. PICK i \in DOMAIN o : o[i].n = n /\ p[i] = IF n = m + 1 THEN j ELSE 0
      BY <1>6, <2>1 DEF Covered
    <3>2. i \in 1 .. l /\ i \in DOMAIN a
      BY <1>1, <1>3, <1>4
    <3>. QED  BY <1>4, <1>7, <3>1, <3>2
  <2>2. CASE n = z
    <3>1. n = m + 1 => j = 0
      <4>1. SUFFICES ASSUME n = m + 1, j # 0 PROVE FALSE
        OBVIOUS
      <4>2. m < Len(t)
        BY <1>6, <4>1 DEF Midway
      <4>. QED  BY <1>5, <1>6, <2>2, <4>1, <4>2 DEF z
    <3>2. l + 1 \in l + 1 .. l + h /\ l + 1 \in DOMAIN a /\ l + 1 - l - 1 = 0
      BY <1>1, <1>3, <1>4
    <3>3. a[l + 1].n = z /\ q[l + 1] = 0
      BY <1>1, <1>3, <1>4, <1>7, <3>2
    <3>. QED  BY <2>2, <3>1, <3>2, <3>3
  <2>3. n \in m + 1 .. Len(t) \/ n = z
    BY <1>5, <1>6 DEF z
  <2>. QED  BY <2>1, <2>2, <2>3
<1>13. Midway(a, u, m, j, q)
  <2>. SUFFICES ASSUME j > 0
                PROVE  m < Len(u) /\ 1 \in DOMAIN a /\ a[1].n = m + 1 /\ q[1] = j
    BY DEF Midway
  <2>1. m < Len(t) /\ 1 \in DOMAIN o /\ o[1].n = m + 1 /\ p[1] = j
    BY <1>6 DEF Midway
  <2>2. 1 \in 1 .. l /\ 1 \in DOMAIN a
    BY <1>1, <1>3, <1>4, <2>1
  <2>3. m < Len(u)
    BY <1>5, <1>6, <2>1 DEF z
  <2>. QED  BY <1>4, <1>7, <2>1, <2>2, <2>3
<1>14. m \in 0 .. Len(u)
  BY <1>5, <1>6 DEF z
<1>15. Story(a, u, m, j, q)
  BY <1>6, <1>7, <1>10, <1>11, <1>12, <1>13, <1>14 DEF Story
<1>. QED  BY <1>4, <1>15 DEF a, u, more, c, z

LEMMA UpTo ==
  ASSUME NEW l \in Nat \ {0}
  PROVE  /\ l - 1 \in Nat /\ l \in 1 .. l
         /\ \A i \in 1 .. l - 1 : i \in 1 .. l
         /\ \A i \in 1 .. l : i \in 1 .. l - 1 \/ i = l
OBVIOUS

(* Counting in a sequence that grows and shrinks.                          *)
LEMMA ManyType ==
  ASSUME NEW S, NEW s \in Seq(S), NEW T
  PROVE  IsFiniteSet({i \in DOMAIN s : s[i] \in T}) /\ Many(s, T) \in Nat
<1>1. DOMAIN s = 1 .. Len(s) /\ Len(s) \in Nat
  BY LenProperties
<1>2. IsFiniteSet(1 .. Len(s))
  BY <1>1, FS_Interval
<1>3. IsFiniteSet({i \in DOMAIN s : s[i] \in T})
  BY <1>1, <1>2, FS_Subset
<1>. QED  BY <1>3, FS_CardinalityType DEF Many

LEMMA ManyAppend ==
  ASSUME NEW S, NEW s \in Seq(S), NEW e \in S, NEW T
  PROVE  Many(Append(s, e), T) = Many(s, T) + IF e \in T THEN 1 ELSE 0
<1>. DEFINE a == Append(s, e)
            l == Len(s)
            W == {i \in DOMAIN s : s[i] \in T}
            V == {i \in DOMAIN a : a[i] \in T}
<1>1. /\ l \in Nat /\ DOMAIN s = 1 .. l /\ DOMAIN a = 1 .. l + 1
      /\ a[l + 1] = e /\ \A i \in 1 .. l : a[i] = s[i]
  BY AppendProperties, LenProperties
<1>2. IsFiniteSet(W) /\ Cardinality(W) \in Nat
  BY ManyType DEF Many
<1>3. l + 1 \notin W
  BY <1>1
<1>. HIDE DEF a
<1>4. V = IF e \in T THEN W \union {l + 1} ELSE W
  <2>1. \A i : i \in 1 .. l + 1 <=> i \in 1 .. l \/ i = l + 1
    BY <1>1
  <2>. QED  BY <1>1, <2>1
<1>. HIDE DEF V, W
<1>5. Cardinality(V) = Cardinality(W) + IF e \in T THEN 1 ELSE 0
  <2>1. Cardinality(W \union {l + 1}) = Cardinality(W) + 1
    BY <1>2, <1>3, FS_AddElement
  <2>. QED  BY <1>2, <1>4, <2>1
<1>. QED  BY <1>5 DEF Many, V, W, a

LEMMA ManyFront ==
  ASSUME NEW S, NEW s \in Seq(S), s # <<>>, NEW T
  PROVE  /\ Front(s) \in Seq(S) /\ Len(Front(s)) = Len(s) - 1
         /\ \A i \in 1 .. Len(s) - 1 : Front(s)[i] = s[i]
         /\ Many(s, T) = Many(Front(s), T) + IF Last(s) \in T THEN 1 ELSE 0
<1>. DEFINE a == Front(s)
<1>1. Len(s) \in Nat \ {0}
  BY LenProperties, EmptySeq
<1>2. a \in Seq(S) /\ Len(a) = Len(s) - 1 /\ \A i \in 1 .. Len(s) - 1 : a[i] = s[i]
  <2>1. a = SubSeq(s, 1, Len(s) - 1)
    BY DEF Front
  <2>2. Len(s) \in 1 .. Len(s)
    BY <1>1
  <2>3. /\ SubSeq(s, 1, Len(s) - 1) \in Seq(S) /\ Len(SubSeq(s, 1, Len(s) - 1)) = Len(s) - 1
        /\ \A i \in 1 .. Len(s) - 1 : SubSeq(s, 1, Len(s) - 1)[i] = s[i]
    BY <2>2, PartsFacts, ZenonT(30)
  <2>. QED  BY <2>1, <2>3
<1>3. Last(s) \in S
  BY <1>1, ElementOfSeq DEF Last
<1>4. s = Append(a, Last(s))
  <2>. HIDE DEF a
  <2>1. /\ Append(a, Last(s)) \in Seq(S) /\ Len(Append(a, Last(s))) = Len(s)
        /\ \A i \in 1 .. Len(s) - 1 : Append(a, Last(s))[i] = s[i]
        /\ Append(a, Last(s))[Len(s) - 1 + 1] = Last(s)
    BY <1>1, <1>2, <1>3, AppendProperties
  <2>2. Len(s) - 1 + 1 = Len(s)
    BY <1>1
  <2>3. \A i \in 1 .. Len(s) : i \in 1 .. Len(s) - 1 \/ i = Len(s)
    BY <1>1
  <2>4. \A i \in 1 .. Len(s) : Append(a, Last(s))[i] = s[i]
    BY <2>1, <2>2, <2>3 DEF Last
  <2>. QED  BY <2>1, <2>4, SeqEqual
<1>. HIDE DEF a
<1>5. Many(Append(a, Last(s)), T) = Many(a, T) + IF Last(s) \in T THEN 1 ELSE 0
  BY <1>2, <1>3, ManyAppend
<1>. QED  BY <1>2, <1>4, <1>5 DEF a

LEMMA ManyTail ==
  ASSUME NEW S, NEW s \in Seq(S), s # <<>>, NEW T
  PROVE  /\ Tail(s) \in Seq(S) /\ Many(Tail(s), T) \in Nat
         /\ Many(s, T) = Many(Tail(s), T) + IF s[1] \in T THEN 1 ELSE 0
<1>. DEFINE a == Tail(s)
            W == {i \in DOMAIN s : s[i] \in T}
            V == {i \in DOMAIN a : a[i] \in T}
            f == [i \in V |-> i + 1]
<1>1. Len(s) \in Nat \ {0} /\ DOMAIN s = 1 .. Len(s)
  BY LenProperties, EmptySeq
<1>2. /\ a \in Seq(S) /\ DOMAIN a = 1 .. Len(s) - 1
      /\ \A i \in 1 .. Len(s) - 1 : a[i] = s[i + 1]
  BY <1>1, HeadTailProperties, LenProperties
<1>. HIDE DEF a
<1>3. IsFiniteSet(V) /\ IsFiniteSet(W) /\ Cardinality(V) \in Nat
  BY <1>2, ManyType DEF Many
<1>4. /\ \A i \in 1 .. Len(s) - 1 : i + 1 \in 1 .. Len(s) /\ i + 1 # 1
      /\ \A k \in 1 .. Len(s) : k # 1 => k - 1 \in 1 .. Len(s) - 1 /\ k - 1 + 1 = k
      /\ \A i, k \in 1 .. Len(s) - 1 : i + 1 = k + 1 => i = k
      /\ 1 \in 1 .. Len(s)
  BY <1>1
<1>5. f \in Bijection(V, W \ {1})
  <2>1. f \in [V -> W \ {1}]
    BY <1>1, <1>2, <1>4
  <2>2. \A i, k \in V : f[i] = f[k] => i = k
    BY <1>2, <1>4
  <2>3. \A k \in W \ {1} : \E i \in V : f[i] = k
    <3>. SUFFICES ASSUME NEW k \in W, k # 1 PROVE \E i \in V : f[i] = k
      OBVIOUS
    <3>1. k - 1 \in 1 .. Len(s) - 1 /\ k - 1 + 1 = k
      BY <1>1, <1>4
    <3>2. a[k - 1] = s[k]
      BY <1>2, <3>1
    <3>. QED  BY <1>2, <3>1, <3>2
  <2>. HIDE DEF f, V, W
  <2>. QED  BY <2>1, <2>2, <2>3, Fun_IsBij
<1>6. Cardinality(W \ {1}) = Cardinality(V)
  BY <1>3, <1>5, FS_Bijection DEF ExistsBijection
<1>7. 1 \in W <=> s[1] \in T
  BY <1>1, <1>4
<1>. HIDE DEF V, W
<1>8. Cardinality(W) \in Nat /\ Cardinality(W \ {1}) = IF 1 \in W THEN Cardinality(W) - 1 ELSE Cardinality(W)
  BY <1>3, FS_RemoveElement, FS_CardinalityType
<1>9. Cardinality(W) = Cardinality(V) + IF s[1] \in T THEN 1 ELSE 0
  BY <1>3, <1>6, <1>7, <1>8
<1>. QED  BY <1>2, <1>3, <1>9 DEF Many, V, W, a

LEMMA ManyConcat ==
  ASSUME NEW S, NEW s \in Seq(S), NEW r \in Seq(S), NEW T, \A i \in DOMAIN r : r[i] \notin T
  PROVE  Many(s \o r, T) = Many(s, T)
<1>1. /\ DOMAIN (s \o r) = 1 .. Len(s) + Len(r) /\ DOMAIN s = 1 .. Len(s)
      /\ \A i \in 1 .. Len(s) + Len(r) : (s \o r)[i] = IF i <= Len(s) THEN s[i] ELSE r[i - Len(s)]
      /\ Len(s) \in Nat /\ Len(r) \in Nat /\ DOMAIN r = 1 .. Len(r)
  BY ConcatProperties, LenProperties
<1>2. \A i \in 1 .. Len(s) : i \in 1 .. Len(s) + Len(r) /\ i <= Len(s)
  BY <1>1
<1>3. \A i \in 1 .. Len(s) + Len(r) : i \in 1 .. Len(s) \/ (~(i <= Len(s)) /\ i - Len(s) \in 1 .. Len(r))
  BY <1>1
<1>4. {i \in DOMAIN (s \o r) : (s \o r)[i] \in T} = {i \in DOMAIN s : s[i] \in T}
  BY <1>1, <1>2, <1>3
<1>. QED  BY <1>4 DEF Many

(* What the strokes say is not changed by those that follow.               *)
LEMMA StaysSaid ==
  ASSUME NEW n \in Nat, \A i \in 1 .. n : typed'[i] = typed[i]
  PROVE  /\ Shifted(n)' = Shifted(n) /\ CapsOn(n)' = CapsOn(n) /\ NumOn(n)' = NumOn(n)
         /\ n # 0 => Means(n)' = Means(n)
<1>1. ASSUME NEW l \in 0 .. n
      PROVE  Shifted(l)' = Shifted(l) /\ CapsOn(l)' = CapsOn(l) /\ NumOn(l)' = NumOn(l)
  <2>1. \A i \in 1 .. l : typed'[i] = typed[i]
    BY <1>1
  <2>2. \A s : {i \in 1 .. l : typed'[i] = s} = {i \in 1 .. l : typed[i] = s}
    BY <2>1
  <2>3. LastShift(l)' = LastShift(l) /\ LastShift(l) \subseteq 1 .. l
    BY <2>1 DEF LastShift
  <2>4. Shifted(l)' = Shifted(l)
    BY <2>1, <2>3 DEF Shifted
  <2>5. CapsOn(l)' = CapsOn(l) /\ NumOn(l)' = NumOn(l)
    BY <2>2, SMTT(30) DEF CapsOn, NumOn, Hit
  <2>. QED  BY <2>4, <2>5
<1>2. n \in 0 .. n /\ (n # 0 => n - 1 \in 0 .. n /\ n \in 1 .. n)
  OBVIOUS
<1>3. n # 0 => /\ Shifted(n - 1)' = Shifted(n - 1) /\ CapsOn(n - 1)' = CapsOn(n - 1)
               /\ NumOn(n - 1)' = NumOn(n - 1) /\ typed'[n] = typed[n]
  BY <1>1, <1>2
<1>4. n # 0 => Means(n)' = Means(n)
  BY <1>3 DEF Means
<1>. QED  BY <1>1, <1>2, <1>4

(* What one stroke changes.                                                *)
LEMMA HitNext ==
  ASSUME NEW n \in Nat, NEW s
  PROVE  /\ Hit(s, n) \in Nat
         /\ Hit(s, n + 1) = Hit(s, n) + IF typed[n + 1] = s THEN 1 ELSE 0
<1>. DEFINE W == {i \in 1 .. n : typed[i] = s}
            V == {i \in 1 .. n + 1 : typed[i] = s}
<1>1. IsFiniteSet(W)
  <2>1. IsFiniteSet(1 .. n)
    BY FS_Interval
  <2>. QED  BY <2>1, FS_Subset
<1>2. n + 1 \notin W
  OBVIOUS
<1>3. V = IF typed[n + 1] = s THEN W \union {n + 1} ELSE W
  <2>1. \A i : i \in 1 .. n + 1 <=> i \in 1 .. n \/ i = n + 1
    OBVIOUS
  <2>. QED  BY <2>1
<1>. HIDE DEF V, W
<1>4. Cardinality(W) \in Nat /\ Cardinality(W \union {n + 1}) = Cardinality(W) + 1
  BY <1>1, <1>2, FS_AddElement, FS_CardinalityType
<1>5. Cardinality(V) = Cardinality(W) + IF typed[n + 1] = s THEN 1 ELSE 0
  BY <1>3, <1>4
<1>. QED  BY <1>4, <1>5 DEF Hit, V, W

LEMMA NextSaid ==
  ASSUME NEW n \in Nat
  PROVE  /\ Shifted(n + 1) <=> IF typed[n + 1] \in {"shift", "unshift"} THEN typed[n + 1] = "shift"
                               ELSE Shifted(n)
         /\ CapsOn(n + 1) = (CapsOn(n) # (typed[n + 1] = "caps"))
         /\ NumOn(n + 1) = (NumOn(n) # (typed[n + 1] = "num"))
<1>1. \A i : i \in 1 .. n + 1 <=> i \in 1 .. n \/ i = n + 1
  OBVIOUS
<1>2. LastShift(n + 1) = IF typed[n + 1] \in {"shift", "unshift"} THEN LastShift(n) \union {n + 1}
                         ELSE LastShift(n)
  BY <1>1 DEF LastShift
<1>3. LastShift(n) \subseteq 1 .. n
  BY DEF LastShift
<1>4. ASSUME typed[n + 1] \in {"shift", "unshift"}
      PROVE  Shifted(n + 1) <=> typed[n + 1] = "shift"
  <2>1. \A i \in LastShift(n + 1) : i <= n + 1
    BY DEF LastShift
  <2>2. \A i \in LastShift(n + 1) : n + 1 <= i => i = n + 1
    BY DEF LastShift
  <2>3. n + 1 \in LastShift(n + 1)
    BY <1>2, <1>4
  <2>. QED  BY <2>1, <2>2, <2>3 DEF Shifted
<1>5. ASSUME typed[n + 1] \notin {"shift", "unshift"}
      PROVE  Shifted(n + 1) <=> Shifted(n)
  <2>1. LastShift(n + 1) = LastShift(n)
    BY <1>2, <1>5
  <2>. QED  BY <2>1 DEF Shifted
<1>6. \A k \in Nat : (k + 1) % 2 = 1 <=> ~(k % 2 = 1)
  OBVIOUS
<1>7. CapsOn(n + 1) = (CapsOn(n) # (typed[n + 1] = "caps"))
  <2>1. /\ Hit("caps", n) \in Nat
        /\ Hit("caps", n + 1) = Hit("caps", n) + IF typed[n + 1] = "caps" THEN 1 ELSE 0
    BY HitNext
  <2>2. CASE typed[n + 1] = "caps"
    BY <1>6, <2>1, <2>2 DEF CapsOn
  <2>3. CASE typed[n + 1] # "caps"
    BY <2>1, <2>3 DEF CapsOn
  <2>. QED  BY <2>2, <2>3
<1>8. NumOn(n + 1) = (NumOn(n) # (typed[n + 1] = "num"))
  <2>1. /\ Hit("num", n) \in Nat
        /\ Hit("num", n + 1) = Hit("num", n) + IF typed[n + 1] = "num" THEN 1 ELSE 0
    BY HitNext
  <2>2. CASE typed[n + 1] = "num"
    BY <1>6, <2>1, <2>2 DEF NumOn
  <2>3. CASE typed[n + 1] # "num"
    BY <2>1, <2>3 DEF NumOn
  <2>. QED  BY <2>2, <2>3
<1>. QED  BY <1>4, <1>5, <1>7, <1>8

LEMMA NothingSaid == ~Shifted(0) /\ ~CapsOn(0) /\ ~NumOn(0)
<1>1. LastShift(0) = {} /\ \A s : {i \in 1 .. 0 : typed[i] = s} = {}
  BY DEF LastShift
<1>2. \A s : Hit(s, 0) = 0
  BY <1>1, FS_EmptySet DEF Hit
<1>3. 0 % 2 = 0
  OBVIOUS
<1>. QED  BY <1>1, <1>2, <1>3 DEF Shifted, CapsOn, NumOn

(* What puts, waits and commands do to the keys there are.                 *)
Keys2 == keys \in Seq(Key) /\ dropped \subseteq Key /\ waiting \in Seq(Wait)

SameKeys(w) == Len(w) = Len(waiting) /\ \A i \in 1 .. Len(waiting) : w[i].key = waiting[i].key

(* One key more, as nothing more.                                          *)
Adds(k) ==
  /\ AllKeys' = AllKeys \union {k}
  /\ \A n \in Nat : Times(n)' <= Times(n) + IF k.n = n THEN 1 ELSE 0

Keeps == AllKeys' = AllKeys /\ \A n \in Nat : Times(n)' <= Times(n)

LEMMA WaitFacts ==
  ASSUME NEW s \in Seq(Wait)
  PROVE  \A i \in 1 .. Len(s) : s[i] \in Wait /\ s[i].key \in Key
<1>1. \A e \in Wait : e.key \in Key
  BY DEF Wait
<1>2. \A i \in 1 .. Len(s) : s[i] \in Wait
  BY ElementOfSeq
<1>. QED  BY <1>1, <1>2

LEMMA WaitKeysType ==
  ASSUME Keys2
  PROVE  /\ WaitKeys \in Seq(Key) /\ Len(WaitKeys) = Len(waiting)
         /\ \A i \in 1 .. Len(waiting) : WaitKeys[i] = waiting[i].key
         /\ \A n : Times(n) \in Nat /\ Many(keys, OfStroke(n)) \in Nat
                   /\ Many(WaitKeys, OfStroke(n)) \in Nat
<1>1. Len(waiting) \in Nat /\ DOMAIN waiting = 1 .. Len(waiting)
  BY LenProperties DEF Keys2
<1>2. \A i \in 1 .. Len(waiting) : waiting[i].key \in Key
  BY WaitFacts DEF Keys2
<1>3. WaitKeys \in [1 .. Len(waiting) -> Key]
  BY <1>1, <1>2 DEF WaitKeys
<1>4. WaitKeys \in Seq(Key) /\ Len(WaitKeys) = Len(waiting)
  BY <1>1, <1>3, IsASeq, LenProperties
<1>5. \A n : Many(keys, OfStroke(n)) \in Nat /\ Many(WaitKeys, OfStroke(n)) \in Nat
  BY <1>4, ManyType DEF Keys2
<1>. QED  BY <1>1, <1>4, <1>5 DEF WaitKeys, Times

LEMMA SameWaitKeys ==
  ASSUME Keys2, waiting' \in Seq(Wait), SameKeys(waiting')
  PROVE  WaitKeys' = WaitKeys
<1>1. /\ Len(waiting) \in Nat /\ DOMAIN waiting = 1 .. Len(waiting)
      /\ DOMAIN waiting' = 1 .. Len(waiting')
  BY LenProperties DEF Keys2
<1>2. DOMAIN waiting' = DOMAIN waiting
  BY <1>1 DEF SameKeys
<1>. QED  BY <1>1, <1>2 DEF SameKeys, WaitKeys

(* A key that the queue takes or drops.                                    *)
LEMMA PutAdds ==
  ASSUME Keys2, NEW k \in Key, Put(k)
  PROVE  /\ ToSet(keys') \union dropped' = ToSet(keys) \union dropped \union {k}
         /\ \A n \in Nat : Many(keys', OfStroke(n))
                             <= Many(keys, OfStroke(n)) + IF k.n = n THEN 1 ELSE 0
<1>1. keys \in Seq(Key) /\ dropped \subseteq Key
  BY DEF Keys2
<1>2. CASE keys' = Append(keys, k) /\ dropped' = dropped
  <2>1. ToSet(keys') = ToSet(keys) \union {k}
    BY <1>1, <1>2, AppendFacts
  <2>2. ASSUME NEW n \in Nat
        PROVE  Many(keys', OfStroke(n)) <= Many(keys, OfStroke(n)) + IF k.n = n THEN 1 ELSE 0
    <3>1. /\ Many(keys', OfStroke(n)) = Many(keys, OfStroke(n)) + IF k \in OfStroke(n) THEN 1 ELSE 0
          /\ Many(keys, OfStroke(n)) \in Nat
      BY <1>1, <1>2, ManyAppend, ManyType, ZenonT(30)
    <3>2. k \in OfStroke(n) <=> k.n = n
      BY DEF OfStroke
    <3>. QED  BY <3>1, <3>2
  <2>. QED  BY <1>2, <2>1, <2>2
<1>3. CASE keys' = keys /\ dropped' = dropped \union {k}
  <2>1. \A n : Many(keys, OfStroke(n)) \in Nat
    BY <1>1, ManyType
  <2>. QED  BY <1>3, <2>1
<1>. QED  BY <1>2, <1>3 DEF Put

LEMMA AddsByPut ==
  ASSUME Keys2, NEW k \in Key, Put(k), waiting' \in Seq(Wait), SameKeys(waiting')
  PROVE  Adds(k)
<1>1. WaitKeys' = WaitKeys
  BY SameWaitKeys
<1>2. AllKeys' = AllKeys \union {k}
  BY <1>1, PutAdds DEF AllKeys
<1>3. ASSUME NEW n \in Nat
      PROVE  Times(n)' <= Times(n) + IF k.n = n THEN 1 ELSE 0
  <2>1. Many(keys', OfStroke(n)) <= Many(keys, OfStroke(n)) + IF k.n = n THEN 1 ELSE 0
    BY PutAdds
  <2>2. Times(n)' = Many(keys', OfStroke(n)) + Many(WaitKeys, OfStroke(n))
    BY <1>1 DEF Times, OfStroke, Many
  <2>3. Many(keys, OfStroke(n)) \in Nat /\ Many(WaitKeys, OfStroke(n)) \in Nat
    BY WaitKeysType
  <2>4. Many(keys', OfStroke(n)) \in Nat
    <3>1. keys' \in Seq(Key)
      BY AppendProperties, SMTT(30) DEF Put, Keys2
    <3>. QED  BY <3>1, ManyType
  <2>. QED  BY <2>1, <2>2, <2>3, <2>4 DEF Times
<1>. QED  BY <1>2, <1>3 DEF Adds

(* A key that waits until its LED command is done.                         *)
LEMMA AddsByToggle ==
  ASSUME Keys2, NEW w \in Seq(Wait), SameKeys(w), NEW e \in Wait,
         waiting' = Append(w, e), keys' = keys, dropped' = dropped
  PROVE  Adds(e.key)
<1>1. Len(w) = Len(waiting) /\ Len(w) \in Nat /\ e.key \in Key
  BY LenProperties DEF SameKeys, Wait
<1>2. /\ waiting' \in Seq(Wait) /\ Len(waiting') = Len(waiting) + 1
      /\ \A i \in 1 .. Len(waiting) : waiting'[i].key = waiting[i].key
      /\ waiting'[Len(waiting) + 1] = e
  BY <1>1, AppendProperties DEF SameKeys
<1>3. WaitKeys' = Append(WaitKeys, e.key)
  <2>1. /\ WaitKeys \in Seq(Key) /\ Len(WaitKeys) = Len(waiting)
        /\ \A i \in 1 .. Len(waiting) : WaitKeys[i] = waiting[i].key
    BY WaitKeysType
  <2>2. /\ WaitKeys' \in Seq(Key) /\ Len(WaitKeys') = Len(waiting) + 1
        /\ \A i \in 1 .. Len(waiting) + 1 : WaitKeys'[i] = waiting'[i].key
    <3>1. DOMAIN waiting' = 1 .. Len(waiting) + 1
      BY <1>2, LenProperties
    <3>2. \A i \in 1 .. Len(waiting) + 1 : waiting'[i].key \in Key
      BY <1>2, WaitFacts
    <3>3. WaitKeys' \in [1 .. Len(waiting) + 1 -> Key] /\ Len(waiting) + 1 \in Nat
      BY <1>1, <3>1, <3>2 DEF WaitKeys
    <3>. QED  BY <3>1, <3>3, IsASeq, LenProperties DEF WaitKeys
  <2>3. /\ Append(WaitKeys, e.key) \in Seq(Key) /\ Len(Append(WaitKeys, e.key)) = Len(waiting) + 1
        /\ \A i \in 1 .. Len(waiting) : Append(WaitKeys, e.key)[i] = WaitKeys[i]
        /\ Append(WaitKeys, e.key)[Len(waiting) + 1] = e.key
    BY <1>1, <2>1, AppendProperties
  <2>4. \A i \in 1 .. Len(waiting) + 1 : i \in 1 .. Len(waiting) \/ i = Len(waiting) + 1
    BY <1>1
  <2>5. \A i \in 1 .. Len(waiting) + 1 : WaitKeys'[i] = Append(WaitKeys, e.key)[i]
    BY <1>2, <2>1, <2>2, <2>3, <2>4
  <2>. QED  BY <2>2, <2>3, <2>5, SeqEqual
<1>4. ToSet(WaitKeys') = ToSet(WaitKeys) \union {e.key}
  BY <1>1, <1>3, WaitKeysType, AppendFacts
<1>5. AllKeys' = AllKeys \union {e.key}
  BY <1>4 DEF AllKeys
<1>6. ASSUME NEW n \in Nat
      PROVE  Times(n)' <= Times(n) + IF e.key.n = n THEN 1 ELSE 0
  <2>1. Many(WaitKeys', OfStroke(n)) = Many(WaitKeys, OfStroke(n)) + IF e.key \in OfStroke(n) THEN 1 ELSE 0
    BY <1>1, <1>3, WaitKeysType, ManyAppend
  <2>2. Times(n)' = Many(keys, OfStroke(n)) + Many(WaitKeys', OfStroke(n))
    BY DEF Times, OfStroke, Many
  <2>3. Many(keys, OfStroke(n)) \in Nat /\ Many(WaitKeys, OfStroke(n)) \in Nat
    BY WaitKeysType
  <2>4. e.key \in OfStroke(n) <=> e.key.n = n
    BY <1>1 DEF OfStroke
  <2>. QED  BY <2>1, <2>2, <2>3, <2>4 DEF Times
<1>. QED  BY <1>5, <1>6 DEF Adds

LEMMA KeepsWaiting ==
  ASSUME Keys2, keys' = keys, dropped' = dropped, waiting' \in Seq(Wait), SameKeys(waiting')
  PROVE  Keeps
<1>1. WaitKeys' = WaitKeys
  BY SameWaitKeys
<1>2. \A n : Times(n) \in Nat /\ Times(n)' = Times(n)
  BY <1>1, WaitKeysType DEF Times, OfStroke, Many
<1>. QED  BY <1>1, <1>2 DEF Keeps, AllKeys

(* A command that is done puts its key.                                    *)
LEMMA KeepsDone ==
  ASSUME Keys2, waiting # <<>>, waiting' = Front(waiting), Put(Last(waiting).key)
  PROVE  Keeps
<1>. DEFINE k == Last(waiting).key
            l == Len(waiting)
<1>1. l \in Nat \ {0} /\ l \in 1 .. l /\ DOMAIN waiting = 1 .. l
  BY LenProperties, EmptySeq DEF Keys2
<1>2. Last(waiting) = waiting[l] /\ k \in Key
  BY <1>1, WaitFacts DEF Keys2, Last
<1>3. /\ WaitKeys \in Seq(Key) /\ Len(WaitKeys) = l
      /\ \A i \in 1 .. l : WaitKeys[i] = waiting[i].key
      /\ \A n : Many(keys, OfStroke(n)) \in Nat
  BY WaitKeysType
<1>4. WaitKeys # <<>> /\ Last(WaitKeys) = k
  BY <1>1, <1>2, <1>3, EmptySeq DEF Last
<1>5. /\ waiting' \in Seq(Wait) /\ Len(waiting') = l - 1
      /\ \A i \in 1 .. l - 1 : waiting'[i] = waiting[i]
  BY ManyFront DEF Keys2
<1>6. /\ Front(WaitKeys) \in Seq(Key) /\ Len(Front(WaitKeys)) = l - 1
      /\ \A i \in 1 .. l - 1 : Front(WaitKeys)[i] = WaitKeys[i]
      /\ \A T : Many(WaitKeys, T) = Many(Front(WaitKeys), T) + IF k \in T THEN 1 ELSE 0
  BY <1>3, <1>4, ManyFront
<1>7. \A i \in 1 .. l - 1 : i \in 1 .. l
  BY <1>1
<1>8. WaitKeys' = Front(WaitKeys)
  <2>1. DOMAIN waiting' = 1 .. l - 1
    BY <1>5, LenProperties
  <2>2. DOMAIN Front(WaitKeys) = 1 .. l - 1
    BY <1>6, LenProperties
  <2>3. WaitKeys' \in [1 .. l - 1 -> Key] /\ \A i \in 1 .. l - 1 : WaitKeys'[i] = waiting[i].key
    <3>1. \A i \in 1 .. l - 1 : waiting[i].key \in Key
      BY <1>7, WaitFacts DEF Keys2
    <3>. QED  BY <1>5, <2>1, <3>1 DEF WaitKeys
  <2>4. l - 1 \in Nat
    BY <1>1
  <2>5. WaitKeys' \in Seq(Key) /\ Len(WaitKeys') = l - 1
    BY <2>3, <2>4, IsASeq, LenProperties
  <2>6. \A i \in 1 .. l - 1 : WaitKeys'[i] = Front(WaitKeys)[i]
    BY <1>3, <1>6, <1>7, <2>3, SMTT(30)
  <2>. QED  BY <1>6, <2>5, <2>6, SeqEqual
<1>9. ToSet(WaitKeys) = ToSet(Front(WaitKeys)) \union {k}
  <2>1. DOMAIN WaitKeys = 1 .. l /\ DOMAIN Front(WaitKeys) = 1 .. l - 1
    BY <1>3, <1>6, LenProperties
  <2>2. \A i \in 1 .. l : i \in 1 .. l - 1 \/ i = l
    BY <1>1, UpTo
  <2>3. l \in DOMAIN WaitKeys /\ WaitKeys[l] = k
    BY <1>1, <1>2, <1>3, <2>1
  <2>4. \A i \in DOMAIN WaitKeys : i \in DOMAIN Front(WaitKeys) \/ WaitKeys[i] = k
    BY <2>1, <2>2, <2>3
  <2>5. \A i \in DOMAIN Front(WaitKeys) : i \in DOMAIN WaitKeys /\ Front(WaitKeys)[i] = WaitKeys[i]
    BY <1>6, <1>7, <2>1
  <2>. HIDE DEF k
  <2>. QED  BY <2>3, <2>4, <2>5 DEF ToSet
<1>10. AllKeys' = AllKeys
  BY <1>2, <1>8, <1>9, PutAdds DEF AllKeys
<1>11. ASSUME NEW n \in Nat
       PROVE  Times(n)' <= Times(n)
  <2>1. Many(keys', OfStroke(n)) <= Many(keys, OfStroke(n)) + IF k.n = n THEN 1 ELSE 0
    BY <1>2, PutAdds
  <2>2. Many(WaitKeys, OfStroke(n)) = Many(Front(WaitKeys), OfStroke(n)) + IF k \in OfStroke(n) THEN 1 ELSE 0
    BY <1>6
  <2>3. Times(n)' = Many(keys', OfStroke(n)) + Many(Front(WaitKeys), OfStroke(n))
    BY <1>8 DEF Times, OfStroke, Many
  <2>4. k \in OfStroke(n) <=> k.n = n
    BY <1>2 DEF OfStroke
  <2>5. Many(keys, OfStroke(n)) \in Nat /\ Many(Front(WaitKeys), OfStroke(n)) \in Nat
    BY <1>3, <1>6, ManyType
  <2>6. Many(keys', OfStroke(n)) \in Nat
    <3>1. keys' \in Seq(Key)
      BY <1>2, AppendProperties DEF Put, Keys2
    <3>. QED  BY <3>1, ManyType
  <2>. HIDE DEF k
  <2>. QED  BY <2>1, <2>2, <2>3, <2>4, <2>5, <2>6 DEF Times
<1>. QED  BY <1>10, <1>11 DEF Keeps

(* What the flags say is kept by a step that leaves the strokes.           *)
LEMMA SameSaid ==
  ASSUME typed' = typed, NEW n \in Nat
  PROVE  /\ Shifted(n)' = Shifted(n) /\ CapsOn(n)' = CapsOn(n) /\ NumOn(n)' = NumOn(n)
         /\ n # 0 => Means(n)' = Means(n)
BY StaysSaid

LEMMA FlagsAfter ==
  ASSUME typed' = typed, DriverOK, DriverOK', NEW m \in Nat, NEW j, FlagsRight(m, j),
         shift' = (IF typed[m + 1] \in {"shift", "unshift"} THEN typed[m + 1] = "shift" ELSE shift),
         caps' = (caps # (typed[m + 1] = "caps")), num' = (num # (typed[m + 1] = "num")),
         ext' = FALSE, skip' = 0
  PROVE  FlagsRight(m + 1, 0)'
<1>1. m + 1 \in Nat
  OBVIOUS
<1>2. /\ Shifted(m + 1)' = Shifted(m + 1) /\ CapsOn(m + 1)' = CapsOn(m + 1)
      /\ NumOn(m + 1)' = NumOn(m + 1)
  BY <1>1, SameSaid
<1>3. shift = Shifted(m) /\ caps = CapsOn(m) /\ num = NumOn(m)
  BY DEF FlagsRight
<1>4. shift' = Shifted(m + 1)
  BY <1>3, NextSaid DEF Shifted
<1>5. caps' = CapsOn(m + 1) /\ num' = NumOn(m + 1)
  BY <1>3, NextSaid DEF CapsOn, NumOn
<1>6. ~(0 > 0) /\ SkipAt(0) = 0
  BY DEF SkipAt
<1>. QED  BY <1>2, <1>4, <1>5, <1>6 DEF FlagsRight

LEMMA FlagsWithin ==
  ASSUME typed' = typed, NEW m \in Nat, NEW j, FlagsRight(m, j), UNCHANGED <<shift, caps, num>>,
         NEW i \in 0 .. 5, ext' = (i > 0 /\ typed[m + 1] = "arrow"),
         skip' = IF typed[m + 1] = "pause" THEN SkipAt(i) ELSE 0
  PROVE  FlagsRight(m, i)'
<1>1. Shifted(m)' = Shifted(m) /\ CapsOn(m)' = CapsOn(m) /\ NumOn(m)' = NumOn(m)
  BY SameSaid
<1>. QED  BY <1>1 DEF FlagsRight

LEMMA MeansOf ==
  ASSUME NEW n, NEW m, n - 1 = m
  PROVE  /\ typed[n] = "letter" => Means(n) = (Shifted(m) # CapsOn(m))
         /\ typed[n] = "digit" => Means(n) = Shifted(m)
         /\ typed[n] = "pad" => Means(n) = NumOn(m)
         /\ typed[n] \notin {"letter", "digit", "pad"} => Means(n) = FALSE
BY DEF Means

(* The keys after a step that adds one, or none.                           *)
LEMMA GivenType ==
  ASSUME NEW m, NEW j, NEW n
  PROVE  Given(m, j, n) \in {0, 1, 2}
BY DEF Given

LEMMA KeysAfter ==
  ASSUME typed' = typed, typed \in Seq(Typed), Keys2, Keys2',
         NEW m, NEW j, NEW mm, NEW jj, NEW K, KeysRight(m, j),
         AllKeys' = AllKeys \union K, \A k \in K : IF k.code = "resend" THEN k.n = 0 ELSE RightKey(k),
         \A n \in DOMAIN typed : Gave(mm, jj, n) => Gave(m, j, n) \/ \E k \in K : k.n = n,
         \A n \in DOMAIN typed : Given(m, j, n) <= Given(mm, jj, n),
         \A n \in DOMAIN typed :
           Times(n)' <= Times(n) + IF Given(m, j, n) < Given(mm, jj, n) THEN 1 ELSE 0
  PROVE  KeysRight(mm, jj)'
<1>1. DOMAIN typed = 1 .. Len(typed) /\ Len(typed) \in Nat
  BY LenProperties
<1>2. \A n \in DOMAIN typed : n \in Nat /\ n # 0
  BY <1>1
<1>3. \A k : RightKey(k) => RightKey(k)'
  <2>. SUFFICES ASSUME NEW k, RightKey(k) PROVE RightKey(k)'
    OBVIOUS
  <2>1. k.n \in DOMAIN typed
    BY DEF RightKey
  <2>2. PICK n : n = k.n
    OBVIOUS
  <2>3. Means(n)' = Means(n)
    BY <1>2, <2>1, <2>2, SameSaid
  <2>4. k.comb = Means(n) /\ k.ext = (typed[n] = "arrow")
    BY <2>2 DEF RightKey
  <2>5. Means(k.n)' = Means(n)'
    BY <2>2
  <2>. QED  BY <2>1, <2>2, <2>3, <2>4, <2>5 DEF RightKey
<1>4. \A k \in AllKeys' : IF k.code = "resend" THEN k.n = 0 ELSE RightKey(k)'
  <2>. SUFFICES ASSUME NEW k \in AllKeys \union K
                PROVE  IF k.code = "resend" THEN k.n = 0 ELSE RightKey(k)'
    OBVIOUS
  <2>1. IF k.code = "resend" THEN k.n = 0 ELSE RightKey(k)
    BY DEF KeysRight
  <2>. QED  BY <1>3, <2>1
<1>5. \A n \in DOMAIN typed : Gave(mm, jj, n)' => \E k \in AllKeys' : k.n = n
  <2>1. \A n \in DOMAIN typed : Gave(mm, jj, n)' = Gave(mm, jj, n)
    BY DEF Gave
  <2>. QED  BY <2>1 DEF KeysRight
<1>6. \A n \in DOMAIN typed : Times(n)' <= Given(mm, jj, n)'
  <2>. SUFFICES ASSUME NEW n \in DOMAIN typed PROVE Times(n)' <= Given(mm, jj, n)'
    OBVIOUS
  <2>1. Given(mm, jj, n)' = Given(mm, jj, n)
    BY DEF Given, Gave
  <2>2. Times(n) <= Given(m, j, n)
    BY DEF KeysRight
  <2>3. Times(n) \in Nat
    BY WaitKeysType
  <2>4. Times(n)' \in Nat
    <3>1. Many(keys', OfStroke(n)) \in Nat /\ Many(WaitKeys', OfStroke(n)) \in Nat
      <4>1. waiting' \in Seq(Wait) /\ keys' \in Seq(Key)
        BY DEF Keys2
      <4>2. Len(waiting') \in Nat /\ DOMAIN waiting' = 1 .. Len(waiting')
        BY <4>1, LenProperties
      <4>3. WaitKeys' \in [1 .. Len(waiting') -> Key]
        BY <4>1, <4>2, WaitFacts DEF WaitKeys
      <4>4. WaitKeys' \in Seq(Key)
        BY <4>2, <4>3, IsASeq
      <4>. QED  BY <4>1, <4>4, ManyType
    <3>2. Times(n)' = Many(keys', OfStroke(n)) + Many(WaitKeys', OfStroke(n))
      BY DEF Times, OfStroke, Many
    <3>. QED  BY <3>1, <3>2
  <2>5. Given(m, j, n) \in {0, 1, 2} /\ Given(mm, jj, n) \in {0, 1, 2}
    BY GivenType
  <2>6. Given(m, j, n) <= Given(mm, jj, n)
    OBVIOUS
  <2>7. Times(n)' <= Times(n) + IF Given(m, j, n) < Given(mm, jj, n) THEN 1 ELSE 0
    OBVIOUS
  <2>. QED  BY <2>1, <2>2, <2>3, <2>4, <2>5, <2>6, <2>7
<1>. QED  BY <1>4, <1>5, <1>6 DEF KeysRight

(* A stroke that gives its key, the first or the second of Pause, or none. *)
LEMMA KeyGiven ==
  ASSUME typed' = typed, typed \in Seq(Typed), Keys2, Keys2', NEW m \in Nat, m < Len(typed),
         NEW j \in 0 .. 5, KeysRight(m, j), NEW k, k.code # "resend", k.n = m + 1, RightKey(k), Adds(k),
         NEW mm, NEW jj,
         \/ typed[m + 1] # "pause" /\ mm = m + 1 /\ jj = 0
         \/ typed[m + 1] = "pause" /\ j \in {0, 3} /\ mm = m /\ jj = j + 1
  PROVE  KeysRight(mm, jj)'
<1>1. DOMAIN typed = 1 .. Len(typed) /\ Len(typed) \in Nat
  BY LenProperties
<1>2. \A n \in DOMAIN typed : Gave(mm, jj, n) => Gave(m, j, n) \/ n = m + 1
  BY <1>1 DEF Gave
<1>3. \A n \in DOMAIN typed : n # m + 1 => Given(mm, jj, n) = Given(m, j, n)
  BY <1>1 DEF Given, Gave
<1>4. Given(m, j, m + 1) < Given(mm, jj, m + 1)
  <2>1. ~(m + 1 <= m) /\ m + 1 <= m + 1
    OBVIOUS
  <2>2. CASE typed[m + 1] # "pause" /\ mm = m + 1 /\ jj = 0
    <3>1. Given(m, j, m + 1) = 0 /\ Given(mm, jj, m + 1) = 1
      BY <2>1, <2>2 DEF Given, Gave
    <3>. QED  BY <3>1
  <2>3. CASE typed[m + 1] = "pause" /\ j = 0 /\ mm = m /\ jj = 1
    <3>1. Given(m, j, m + 1) = 0 /\ Given(mm, jj, m + 1) = 1
      BY <2>1, <2>3 DEF Given, Gave
    <3>. QED  BY <3>1
  <2>4. CASE typed[m + 1] = "pause" /\ j = 3 /\ mm = m /\ jj = 4
    <3>1. Given(m, j, m + 1) = 1 /\ Given(mm, jj, m + 1) = 2
      BY <2>1, <2>4 DEF Given, Gave
    <3>. QED  BY <3>1
  <2>. QED  BY <2>2, <2>3, <2>4
<1>5. \A n \in DOMAIN typed : Given(m, j, n) <= Given(mm, jj, n)
  <2>. SUFFICES ASSUME NEW n \in DOMAIN typed PROVE Given(m, j, n) <= Given(mm, jj, n)
    OBVIOUS
  <2>1. Given(m, j, n) \in {0, 1, 2} /\ Given(mm, jj, n) \in {0, 1, 2}
    BY GivenType
  <2>2. CASE n = m + 1
    BY <1>4, <2>1, <2>2
  <2>3. CASE n # m + 1
    <3>1. Given(mm, jj, n) = Given(m, j, n)
      BY <1>3, <2>3
    <3>. QED  BY <2>1, <3>1
  <2>. QED  BY <2>2, <2>3
<1>6. \A n \in DOMAIN typed :
        Times(n)' <= Times(n) + IF Given(m, j, n) < Given(mm, jj, n) THEN 1 ELSE 0
  <2>. SUFFICES ASSUME NEW n \in DOMAIN typed
                PROVE  Times(n)' <= Times(n) + IF Given(m, j, n) < Given(mm, jj, n) THEN 1 ELSE 0
    OBVIOUS
  <2>1. Times(n)' <= Times(n) + IF k.n = n THEN 1 ELSE 0
    BY <1>1 DEF Adds
  <2>2. CASE n = m + 1
    BY <1>4, <2>1, <2>2
  <2>3. CASE n # m + 1
    <3>1. Given(mm, jj, n) = Given(m, j, n) /\ Given(m, j, n) \in {0, 1, 2}
      BY <1>3, <2>3, GivenType
    <3>2. ~(Given(m, j, n) < Given(mm, jj, n))
      BY <3>1
    <3>. QED  BY <2>1, <2>3, <3>2
  <2>. QED  BY <2>2, <2>3
<1>. DEFINE K == {k}
<1>7. AllKeys' = AllKeys \union K
  BY DEF Adds
<1>8. \A x \in K : IF x.code = "resend" THEN x.n = 0 ELSE RightKey(x)
  OBVIOUS
<1>9. \A n \in DOMAIN typed : Gave(mm, jj, n) => Gave(m, j, n) \/ \E x \in K : x.n = n
  BY <1>2
<1>. HIDE DEF K
<1>. QED  BY <1>5, <1>6, <1>7, <1>8, <1>9, KeysAfter

LEMMA NoKeyGiven ==
  ASSUME typed' = typed, typed \in Seq(Typed), Keys2, Keys2', NEW m \in Nat,
         NEW j \in 0 .. 5, KeysRight(m, j), Keeps, NEW mm, NEW jj,
         \/ mm = m /\ jj = j
         \/ typed[m + 1] = "arrow" /\ mm = m
         \/ typed[m + 1] = "pause" /\ j \in {1, 2, 4} /\ mm = m /\ jj = j + 1
         \/ typed[m + 1] = "pause" /\ j = 5 /\ mm = m + 1 /\ jj = 0
  PROVE  KeysRight(mm, jj)'
<1>1. DOMAIN typed = 1 .. Len(typed) /\ Len(typed) \in Nat
  BY LenProperties
<1>2. \A n \in DOMAIN typed : Gave(mm, jj, n) => Gave(m, j, n)
  BY <1>1 DEF Gave
<1>3. ASSUME NEW n \in DOMAIN typed
      PROVE  Given(m, j, n) = Given(mm, jj, n)
  <2>1. n \in Nat /\ (n <= m + 1 <=> n <= m \/ n = m + 1) /\ ~(m + 1 <= m)
    BY <1>1
  <2>2. CASE mm = m /\ jj = j
    BY <2>2
  <2>3. CASE typed[m + 1] = "arrow" /\ mm = m
    BY <2>1, <2>3 DEF Given, Gave
  <2>4. CASE typed[m + 1] = "pause" /\ j \in {1, 2, 4} /\ mm = m /\ jj = j + 1
    BY <2>1, <2>4 DEF Given, Gave
  <2>5. CASE typed[m + 1] = "pause" /\ j = 5 /\ mm = m + 1 /\ jj = 0
    BY <2>1, <2>5 DEF Given, Gave
  <2>. QED  BY <2>2, <2>3, <2>4, <2>5
<1>4. \A n \in DOMAIN typed : Given(m, j, n) \in {0, 1, 2}
  BY GivenType
<1>5. \A n \in DOMAIN typed : /\ Given(m, j, n) <= Given(mm, jj, n)
                              /\ ~(Given(m, j, n) < Given(mm, jj, n))
  BY <1>3, <1>4
<1>6. \A n \in DOMAIN typed :
        Times(n)' <= Times(n) + IF Given(m, j, n) < Given(mm, jj, n) THEN 1 ELSE 0
  <2>. SUFFICES ASSUME NEW n \in DOMAIN typed PROVE Times(n)' <= Times(n) + 0
    BY <1>5
  <2>1. Times(n)' <= Times(n) /\ Times(n) \in Nat
    BY <1>1, WaitKeysType, SMTT(30) DEF Keeps
  <2>. QED  BY <2>1
<1>7. AllKeys' = AllKeys \union {}
  BY DEF Keeps
<1>. QED  BY <1>2, <1>5, <1>6, <1>7, KeysAfter, SMTT(30)

(* The LED command of a lock key keeps the key until it is done.           *)
LEMMA ToggleWait ==
  ASSUME NEW b, NEW rest, NEW w, Toggle(b, rest, w), Entry(b) \in Key
  PROVE  /\ out' = Append(rest, Ack)
         /\ \E e \in Wait : waiting' = Append(w, e) /\ e.key = Entry(b)
<1>1. 0 \in 0 .. MaxTries
  OBVIOUS
<1>2. Lit(caps', num') \in SUBSET LockKey
  BY DEF Lit, LockKey
<1>3. \A l \in SUBSET LockKey, k \in Key :
        LET e == [sent |-> FALSE, tries |-> 0, leds |-> l, key |-> k]
        IN  e \in Wait /\ e.key = k
  BY <1>1 DEF Wait
<1>. DEFINE e == [sent |-> FALSE, tries |-> 0, leds |-> Lit(caps', num'), key |-> Entry(b)]
<1>4. e \in Wait /\ e.key = Entry(b)
  BY <1>2, <1>3
<1>5. waiting' = Append(w, e) /\ out' = Append(rest, Ack)
  BY DEF Toggle
<1>. HIDE DEF e
<1>. QED  BY <1>4, <1>5

(* A handled byte either changes nothing but the driver, or sends 0xED.    *)
LEMMA ConvertOut ==
  ASSUME NEW b, NEW rest, NEW w, Convert(b, rest, w), Entry(b) \in Key
  PROVE  \/ waiting' = w /\ out' = rest
         \/ /\ out' = Append(rest, Ack)
            /\ \E e \in Wait : waiting' = Append(w, e) /\ e.key = Entry(b)
<1>1. CASE Toggle(b, rest, w)
  BY <1>1, ToggleWait
<1>2. CASE Plain(rest, w)
  BY <1>2 DEF Plain
<1>3. Toggle(b, rest, w) \/ Plain(rest, w)
  BY DEF Convert, Skip, PauseKey, Prefix, PlainKey
<1>. QED  BY <1>1, <1>2, <1>3

Same == typed' = typed /\ typed \in Seq(Typed) /\ Keys2 /\ Keys2' /\ DriverOK /\ DriverOK'

(* A stroke of one byte: a lock key, or one that gives its key at once.    *)
LEMMA SingleHandled ==
  ASSUME Same, NEW m \in Nat, m < Len(typed), FlagsRight(m, 0), KeysRight(m, 0),
         typed[m + 1] \notin {"arrow", "pause"}, typed[m + 1] \in KeyStroke,
         NEW b \in Byte, b.code = typed[m + 1], b.n = m + 1, Entry(b) \in Key,
         NEW rest, NEW w \in Seq(Wait), SameKeys(w), Convert(b, rest, w)
  PROVE  FlagsRight(m + 1, 0)' /\ KeysRight(m + 1, 0)'
<1>. DEFINE s == typed[m + 1]
<1>1. skip = 0 /\ ext = FALSE
  <2>1. ~(0 > 0)
    OBVIOUS
  <2>. QED  BY <2>1 DEF FlagsRight
<1>2. s \in {"letter", "digit", "pad", "shift", "unshift", "caps", "num"}
  BY DEF KeyStroke, Bytes
<1>3. shift = Shifted(m) /\ caps = CapsOn(m) /\ num = NumOn(m)
  BY DEF FlagsRight
<1>4. RightKey(Entry(b)) /\ Entry(b).code = s /\ Entry(b).n = m + 1
  <2>1. Entry(b).code = s /\ Entry(b).n = m + 1 /\ Entry(b).comb = UseCombined(s) /\ Entry(b).ext = ext
    BY DEF Entry
  <2>2. m + 1 - 1 = m /\ m + 1 \in DOMAIN typed
    <3>1. DOMAIN typed = 1 .. Len(typed) /\ Len(typed) \in Nat
      BY LenProperties DEF Same
    <3>. QED  BY <3>1
  <2>3. /\ s = "letter" => Means(m + 1) = (Shifted(m) # CapsOn(m))
        /\ s = "digit" => Means(m + 1) = Shifted(m)
        /\ s = "pad" => Means(m + 1) = NumOn(m)
        /\ s \notin {"letter", "digit", "pad"} => Means(m + 1) = FALSE
    <3>1. PICK n : n = m + 1
      OBVIOUS
    <3>2. n - 1 = m
      BY <3>1
    <3>3. /\ typed[n] = "letter" => Means(n) = (Shifted(m) # CapsOn(m))
          /\ typed[n] = "digit" => Means(n) = Shifted(m)
          /\ typed[n] = "pad" => Means(n) = NumOn(m)
          /\ typed[n] \notin {"letter", "digit", "pad"} => Means(n) = FALSE
      BY <3>2, MeansOf
    <3>. QED  BY <3>1, <3>3
  <2>4. UseCombined(s) = Means(m + 1)
    BY <1>1, <1>2, <1>3, <2>3 DEF UseCombined
  <2>5. s # "arrow"
    BY <1>2
  <2>. QED  BY <1>1, <2>1, <2>2, <2>4, <2>5 DEF RightKey
<1>5. Toggle(b, rest, w) \/ PlainKey(b, rest, w)
  BY <1>1, <1>2 DEF Convert, Skip, PauseKey, Prefix
<1>6. CASE Toggle(b, rest, w)
  <2>1. s \in {"caps", "num"}
    BY <1>6 DEF Toggle, LockKey
  <2>2. FlagsRight(m + 1, 0)'
    <3>1. /\ shift' = shift /\ caps' = (caps # (s = "caps")) /\ num' = (num # (s = "num"))
          /\ ext' = FALSE /\ skip' = 0
      BY <1>1, <1>6 DEF Toggle
    <3>2. s \notin {"shift", "unshift"}
      BY <2>1
    <3>. QED  BY <3>1, <3>2, FlagsAfter DEF Same
  <2>3. Adds(Entry(b))
    <3>1. PICK e \in Wait : waiting' = Append(w, e) /\ e.key = Entry(b)
      BY <1>6, ToggleWait
    <3>2. keys' = keys /\ dropped' = dropped
      BY <1>6 DEF Toggle, entered
    <3>. QED  BY <3>1, <3>2, AddsByToggle DEF Same
  <2>4. s # "pause" /\ s # "resend"
    BY <2>1
  <2>. QED  BY <1>4, <2>2, <2>3, <2>4, KeyGiven DEF Same
<1>7. CASE PlainKey(b, rest, w)
  <2>1. s \notin {"caps", "num"}
    BY <1>7 DEF PlainKey, LockKey
  <2>2. FlagsRight(m + 1, 0)'
    <3>1. /\ shift' = (IF s \in {"shift", "unshift"} THEN s = "shift" ELSE shift)
          /\ caps' = caps /\ num' = num /\ ext' = FALSE /\ skip' = 0
      BY <1>1, <1>7 DEF PlainKey
    <3>2. s # "caps" /\ s # "num"
      BY <2>1
    <3>3. caps' = (caps # (s = "caps")) /\ num' = (num # (s = "num"))
      BY <3>1, <3>2 DEF Same, DriverOK
    <3>. QED  BY <3>1, <3>3, FlagsAfter DEF Same
  <2>3. Adds(Entry(b))
    <3>1. waiting' = w /\ Put(Entry(b))
      BY <1>7 DEF PlainKey, Plain
    <3>. QED  BY <3>1, AddsByPut DEF Same
  <2>4. s # "pause" /\ s # "resend"
    BY <1>2
  <2>. QED  BY <1>4, <2>2, <2>3, <2>4, KeyGiven DEF Same
<1>. QED  BY <1>5, <1>6, <1>7

(* A keypad key behind its prefix 0xE0.                                    *)
LEMMA ArrowHandled ==
  ASSUME Same, NEW m \in Nat, m < Len(typed), NEW j \in {0, 1}, FlagsRight(m, j), KeysRight(m, j),
         typed[m + 1] = "arrow",
         NEW b \in Byte, b.code = (IF j = 0 THEN "E0" ELSE "pad"), b.n = m + 1, Entry(b) \in Key,
         NEW rest, NEW w \in Seq(Wait), SameKeys(w), Convert(b, rest, w)
  PROVE  IF j = 0 THEN FlagsRight(m, 1)' /\ KeysRight(m, 1)'
         ELSE FlagsRight(m + 1, 0)' /\ KeysRight(m + 1, 0)'
<1>1. skip = 0 /\ ext = (j > 0)
  BY DEF FlagsRight
<1>2. CASE j = 0
  <2>1. Prefix(b, rest, w)
    BY <1>1, <1>2 DEF Convert, Skip, PauseKey, PlainKey, Toggle, LockKey
  <2>2. /\ ext' = TRUE /\ skip' = 0 /\ UNCHANGED <<shift, caps, num>>
        /\ waiting' = w /\ keys' = keys /\ dropped' = dropped
    BY <1>1, <2>1 DEF Prefix, Plain, entered
  <2>3. FlagsRight(m, 1)'
    <3>1. 1 \in 0 .. 5 /\ 1 > 0
      OBVIOUS
    <3>. QED  BY <2>2, <3>1, FlagsWithin DEF Same
  <2>4. Keeps
    BY <2>2, KeepsWaiting DEF Same
  <2>5. KeysRight(m, 1)'
    <3>1. j \in 0 .. 5
      BY <1>2
    <3>. QED  BY <2>4, <3>1, NoKeyGiven DEF Same
  <2>. QED  BY <1>2, <2>3, <2>5
<1>3. CASE j = 1
  <2>1. PlainKey(b, rest, w) /\ ext = TRUE /\ b.code = "pad"
    <3>1. j > 0 /\ j # 0
      BY <1>3
    <3>2. ext = TRUE /\ b.code = "pad"
      BY <1>1, <3>1
    <3>. QED  BY <1>1, <3>2 DEF Convert, Skip, PauseKey, Prefix, Toggle, LockKey
  <2>2. /\ ext' = FALSE /\ skip' = 0 /\ UNCHANGED <<shift, caps, num>>
        /\ waiting' = w /\ Put(Entry(b))
    BY <1>1, <2>1 DEF PlainKey, Plain
  <2>3. FlagsRight(m + 1, 0)'
    <3>1. caps' = (caps # FALSE) /\ num' = (num # FALSE)
      BY <2>2 DEF Same, DriverOK
    <3>2. ~("arrow" \in {"shift", "unshift"}) /\ "arrow" # "caps" /\ "arrow" # "num"
      OBVIOUS
    <3>3. /\ shift' = (IF typed[m + 1] \in {"shift", "unshift"} THEN typed[m + 1] = "shift" ELSE shift)
          /\ caps' = (caps # (typed[m + 1] = "caps")) /\ num' = (num # (typed[m + 1] = "num"))
      BY <2>2, <3>1, <3>2
    <3>. QED  BY <2>2, <3>3, FlagsAfter DEF Same
  <2>4. Adds(Entry(b))
    BY <2>2, AddsByPut DEF Same
  <2>5. RightKey(Entry(b)) /\ Entry(b).code # "resend" /\ Entry(b).n = m + 1
    <3>1. m + 1 \in DOMAIN typed
      <4>1. DOMAIN typed = 1 .. Len(typed) /\ Len(typed) \in Nat
        BY LenProperties DEF Same
      <4>. QED  BY <4>1
    <3>2. Means(m + 1) = FALSE /\ UseCombined("pad") = FALSE
      BY <2>1 DEF Means, UseCombined
    <3>. QED  BY <2>1, <3>1, <3>2 DEF RightKey, Entry
  <2>6. KeysRight(m + 1, 0)'
    <3>1. j \in 0 .. 5 /\ typed[m + 1] # "pause"
      BY <1>3
    <3>. QED  BY <2>4, <2>5, <3>1, KeyGiven DEF Same
  <2>. QED  BY <1>3, <2>3, <2>6
<1>. QED  BY <1>2, <1>3

(* Pause: 0xE1 gives its key and two codes are skipped, twice.             *)
LEMMA PauseHandled ==
  ASSUME Same, NEW m \in Nat, m < Len(typed), NEW j \in 0 .. 5, FlagsRight(m, j), KeysRight(m, j),
         typed[m + 1] = "pause",
         NEW b \in Byte, j \in {0, 3} => b.code = "E1", b.n = m + 1, Entry(b) \in Key,
         [code |-> b.code, n |-> b.n, comb |-> FALSE, ext |-> FALSE] \in Key,
         NEW rest, NEW w \in Seq(Wait), SameKeys(w), Convert(b, rest, w)
  PROVE  IF j < 5 THEN FlagsRight(m, j + 1)' /\ KeysRight(m, j + 1)'
         ELSE FlagsRight(m + 1, 0)' /\ KeysRight(m + 1, 0)'
<1>0. typed[m + 1] # "arrow"
  OBVIOUS
<1>1. ext = FALSE /\ skip = SkipAt(j)
  BY <1>0 DEF FlagsRight
<1>2. CASE j \in {0, 3}
  <2>. DEFINE k == [code |-> b.code, n |-> b.n, comb |-> FALSE, ext |-> FALSE]
  <2>1. skip = 0 /\ b.code = "E1"
    BY <1>1, <1>2 DEF SkipAt
  <2>2. PauseKey(b, rest, w)
    BY <2>1 DEF Convert, Skip, Prefix, PlainKey, Toggle, LockKey
  <2>3. /\ ext' = ext /\ skip' = 2 /\ UNCHANGED <<shift, caps, num>>
        /\ waiting' = w /\ Put(k)
    BY <2>2 DEF PauseKey, Plain
  <2>4. j + 1 \in 0 .. 5 /\ j + 1 > 0 /\ j + 1 \in {1, 4} /\ j < 5
    BY <1>2
  <2>5. FlagsRight(m, j + 1)'
    <3>1. PICK i \in 0 .. 5 : i = j + 1
      BY <2>4
    <3>2. skip' = SkipAt(i)
      BY <2>3, <2>4, <3>1 DEF SkipAt
    <3>3. ext' = (i > 0 /\ typed[m + 1] = "arrow")
      BY <1>0, <1>1, <2>3
    <3>4. FlagsRight(m, i)'
      BY <2>3, <3>2, <3>3, FlagsWithin DEF Same
    <3>. QED  BY <3>1, <3>4
  <2>6. Adds(k)
    BY <2>3, AddsByPut DEF Same
  <2>7. RightKey(k) /\ k.code # "resend" /\ k.n = m + 1
    <3>1. m + 1 \in DOMAIN typed
      <4>1. DOMAIN typed = 1 .. Len(typed) /\ Len(typed) \in Nat
        BY LenProperties DEF Same
      <4>. QED  BY <4>1
    <3>2. Means(m + 1) = FALSE
      BY DEF Means
    <3>. QED  BY <2>1, <3>1, <3>2 DEF RightKey
  <2>. HIDE DEF k
  <2>8. KeysRight(m, j + 1)'
    <3>1. PICK i \in 0 .. 5 : i = j + 1
      BY <2>4
    <3>2. KeysRight(m, i)'
      BY <1>2, <2>6, <2>7, <3>1, KeyGiven DEF Same
    <3>. QED  BY <3>1, <3>2
  <2>. QED  BY <2>4, <2>5, <2>8
<1>3. CASE j \in {1, 2, 4, 5}
  <2>1. skip > 0 /\ skip = IF j \in {1, 4} THEN 2 ELSE 1
    BY <1>1, <1>3 DEF SkipAt
  <2>2. Skip(b, rest, w)
    BY <2>1 DEF Convert, PauseKey, Prefix, PlainKey, Toggle
  <2>3. /\ ext' = ext /\ skip' = skip - 1 /\ UNCHANGED <<shift, caps, num>>
        /\ waiting' = w /\ keys' = keys /\ dropped' = dropped
    BY <2>2 DEF Skip, Plain, entered
  <2>4. Keeps
    BY <2>3, KeepsWaiting DEF Same
  <2>5. CASE j < 5
    <3>1. PICK i \in 0 .. 5 : i = j + 1
      BY <2>5
    <3>2. skip' = SkipAt(i) /\ ext' = (i > 0 /\ typed[m + 1] = "arrow")
      <4>1. CASE j \in {1, 4}
        <5>1. skip' = 1 /\ i \in {2, 5} /\ i \notin {1, 4}
          BY <2>1, <2>3, <3>1, <4>1
        <5>. QED  BY <1>0, <1>1, <2>3, <5>1 DEF SkipAt
      <4>2. CASE j = 2
        <5>1. skip' = 0 /\ i \notin {1, 4} /\ i \notin {2, 5}
          BY <2>1, <2>3, <3>1, <4>2
        <5>. QED  BY <1>0, <1>1, <2>3, <5>1 DEF SkipAt
      <4>. QED  BY <1>3, <2>5, <4>1, <4>2
    <3>3. FlagsRight(m, i)'
      BY <2>3, <3>2, FlagsWithin DEF Same
    <3>4. KeysRight(m, i)'
      BY <1>3, <2>4, <2>5, <3>1, NoKeyGiven DEF Same
    <3>. QED  BY <2>5, <3>1, <3>3, <3>4
  <2>6. CASE j = 5
    <3>1. skip' = 0
      BY <2>1, <2>3, <2>6
    <3>2. ~("pause" \in {"shift", "unshift"}) /\ "pause" # "caps" /\ "pause" # "num"
      OBVIOUS
    <3>3. caps' = (caps # FALSE) /\ num' = (num # FALSE)
      BY <2>3 DEF Same, DriverOK
    <3>4. /\ shift' = (IF typed[m + 1] \in {"shift", "unshift"} THEN typed[m + 1] = "shift" ELSE shift)
          /\ caps' = (caps # (typed[m + 1] = "caps")) /\ num' = (num # (typed[m + 1] = "num"))
      BY <2>3, <3>2, <3>3
    <3>5. FlagsRight(m + 1, 0)'
      BY <1>1, <2>3, <3>1, <3>4, FlagsAfter DEF Same
    <3>6. KeysRight(m + 1, 0)'
      BY <2>4, <2>6, NoKeyGiven DEF Same
    <3>. QED  BY <2>6, <3>5, <3>6
  <2>. QED  BY <2>5, <2>6
<1>. QED  BY <1>2, <1>3

(* A keyboard that asks for a byte once more makes a key of no stroke.     *)
LEMMA ResendHandled ==
  ASSUME Same, NEW m \in Nat, FlagsRight(m, 0), KeysRight(m, 0), Entry(Resend) \in Key,
         NEW rest, NEW w \in Seq(Wait), SameKeys(w), Convert(Resend, rest, w)
  PROVE  FlagsRight(m, 0)' /\ KeysRight(m, 0)'
<1>. DEFINE k == Entry(Resend)
<1>1. ~(0 > 0) /\ SkipAt(0) = 0 /\ 0 \in 0 .. 5
  BY DEF SkipAt
<1>2. skip = 0 /\ Resend.code = "resend" /\ k.code = "resend" /\ k.n = 0
  BY <1>1 DEF FlagsRight, Resend, Entry
<1>3. PlainKey(Resend, rest, w)
  BY <1>2 DEF Convert, Skip, PauseKey, Prefix, Toggle, LockKey
<1>4. /\ ext' = FALSE /\ skip' = 0 /\ UNCHANGED <<shift, caps, num>>
      /\ waiting' = w /\ Put(k)
  BY <1>2, <1>3 DEF PlainKey, Plain
<1>5. FlagsRight(m, 0)'
  <2>1. PICK i \in 0 .. 5 : i = 0
    BY <1>1
  <2>2. ext' = (i > 0 /\ typed[m + 1] = "arrow")
    BY <1>1, <1>4, <2>1
  <2>3. skip' = IF typed[m + 1] = "pause" THEN SkipAt(i) ELSE 0
    BY <1>1, <1>4, <2>1
  <2>4. FlagsRight(m, i)'
    BY <1>4, <2>2, <2>3, FlagsWithin DEF Same
  <2>. QED  BY <2>1, <2>4
<1>6. Adds(k)
  BY <1>4, AddsByPut DEF Same
<1>. HIDE DEF k
<1>. DEFINE K == {k}
<1>7. AllKeys' = AllKeys \union K /\ \A x \in K : IF x.code = "resend" THEN x.n = 0 ELSE RightKey(x)
  BY <1>2, <1>6 DEF Adds
<1>8. ASSUME NEW n \in DOMAIN typed
      PROVE  /\ Given(m, 0, n) <= Given(m, 0, n) /\ ~(Given(m, 0, n) < Given(m, 0, n))
             /\ Times(n)' <= Times(n) + 0
  <2>1. n \in Nat /\ n # 0
    <3>1. DOMAIN typed = 1 .. Len(typed)
      BY LenProperties DEF Same
    <3>. QED  BY <3>1
  <2>2. Given(m, 0, n) \in {0, 1, 2}
    BY GivenType
  <2>3. Times(n)' <= Times(n) + IF k.n = n THEN 1 ELSE 0
    BY <1>6, <2>1 DEF Adds
  <2>. QED  BY <1>2, <2>1, <2>2, <2>3
<1>. HIDE DEF K
<1>9. KeysRight(m, 0)'
  BY <1>7, <1>8, KeysAfter DEF Same
<1>. QED  BY <1>5, <1>9

(* A byte that is handled takes the story one byte further.                *)
LEMMA StrokeHandled ==
  ASSUME Same, typed \in Seq(KeyStroke), out \in Seq(Byte), out # <<>>, out[1].n # 0,
         NEW m \in Nat, NEW j \in 0 .. 5, NEW p, Story(out, typed, m, j, p),
         FlagsRight(m, j), KeysRight(m, j), Entry(out[1]) \in Key,
         [code |-> out[1].code, n |-> out[1].n, comb |-> FALSE, ext |-> FALSE] \in Key,
         NEW w \in Seq(Wait), SameKeys(w), Convert(out[1], Tail(out), w)
  PROVE  \E mm \in Nat, jj \in 0 .. 5 :
           /\ \E q : Story(Tail(out), typed, mm, jj, q)
           /\ FlagsRight(mm, jj)' /\ KeysRight(mm, jj)'
<1>. DEFINE c == Bytes[typed[m + 1]]
            s == typed[m + 1]
            done == j + 1 = Len(c)
<1>1. /\ out[1].n = m + 1 /\ m < Len(typed) /\ j < Len(c) /\ out[1].code = c[j + 1]
      /\ \E q : Story(Tail(out), typed, IF done THEN m + 1 ELSE m, IF done THEN 0 ELSE j + 1, q)
  BY StoryNext
<1>2. s \in KeyStroke /\ m + 1 \in Nat
  <2>1. Len(typed) \in Nat /\ m + 1 \in 1 .. Len(typed)
    BY <1>1, LenProperties
  <2>. QED  BY <2>1, ElementOfSeq
<1>3. out[1] \in Byte
  <2>1. Len(out) \in Nat \ {0}
    BY LenProperties, EmptySeq
  <2>2. 1 \in 1 .. Len(out)
    BY <2>1
  <2>. QED  BY <2>2, ElementOfSeq
<1>4. /\ Len(c) = IF s = "arrow" THEN 2 ELSE IF s = "pause" THEN 6 ELSE 1
      /\ \A k \in 1 .. Len(c) :
           c[k] = CASE s = "arrow" -> IF k = 1 THEN "E0" ELSE "pad"
                    [] s = "pause" -> CASE k \in {1, 4} -> "E1" [] k = 2 -> "ctrl"
                                        [] k = 3 -> "num" [] k = 5 -> "unctrl"
                                        [] OTHER -> "unnum"
                    [] OTHER -> s
  BY <1>2, CodesOf
<1>5. PICK q : Story(Tail(out), typed, IF done THEN m + 1 ELSE m, IF done THEN 0 ELSE j + 1, q)
  BY <1>1
<1>6. CASE s \notin {"arrow", "pause"}
  <2>1. Len(c) = 1
    BY <1>4, <1>6
  <2>2. j = 0 /\ done /\ 1 \in 1 .. Len(c) /\ j + 1 = 1
    BY <1>1, <2>1
  <2>3. out[1].code = s
    BY <1>1, <1>4, <1>6, <2>2
  <2>4. FlagsRight(m + 1, 0)' /\ KeysRight(m + 1, 0)'
    BY <1>1, <1>2, <1>3, <1>6, <2>2, <2>3, SingleHandled
  <2>5. Story(Tail(out), typed, m + 1, 0, q)
    BY <1>5, <2>2
  <2>. QED  BY <1>2, <2>4, <2>5
<1>7. CASE s = "arrow"
  <2>1. Len(c) = 2
    BY <1>4, <1>7
  <2>2. j \in {0, 1} /\ j + 1 \in 1 .. Len(c) /\ (j + 1 = 1 <=> j = 0)
    BY <1>1, <2>1
  <2>3. out[1].code = IF j = 0 THEN "E0" ELSE "pad"
    BY <1>1, <1>4, <1>7, <2>2
  <2>4. IF j = 0 THEN FlagsRight(m, 1)' /\ KeysRight(m, 1)'
        ELSE FlagsRight(m + 1, 0)' /\ KeysRight(m + 1, 0)'
    BY <1>1, <1>3, <1>7, <2>2, <2>3, ArrowHandled
  <2>5. CASE j = 0
    <3>1. ~done /\ j + 1 = 1 /\ 1 \in 0 .. 5
      BY <2>1, <2>5
    <3>2. Story(Tail(out), typed, m, 1, q)
      BY <1>5, <3>1
    <3>. QED  BY <2>4, <2>5, <3>1, <3>2
  <2>6. CASE j = 1
    <3>1. done /\ 0 \in 0 .. 5
      BY <2>1, <2>6
    <3>2. Story(Tail(out), typed, m + 1, 0, q)
      BY <1>5, <3>1
    <3>. QED  BY <1>2, <2>4, <2>6, <3>1, <3>2
  <2>. QED  BY <2>2, <2>5, <2>6
<1>8. CASE s = "pause"
  <2>1. Len(c) = 6
    BY <1>4, <1>8
  <2>2. j + 1 \in 1 .. Len(c) /\ (j \in {0, 3} => j + 1 \in {1, 4})
    BY <2>1
  <2>3. j \in {0, 3} => out[1].code = "E1"
    BY <1>1, <1>4, <1>8, <2>2
  <2>4. IF j < 5 THEN FlagsRight(m, j + 1)' /\ KeysRight(m, j + 1)'
        ELSE FlagsRight(m + 1, 0)' /\ KeysRight(m + 1, 0)'
    BY <1>1, <1>3, <1>8, <2>3, PauseHandled
  <2>5. CASE j < 5
    <3>1. ~done /\ j + 1 \in 0 .. 5
      BY <2>1, <2>5
    <3>2. Story(Tail(out), typed, m, j + 1, q)
      BY <1>5, <3>1
    <3>. QED  BY <2>4, <2>5, <3>1, <3>2
  <2>6. CASE j = 5
    <3>1. done /\ 0 \in 0 .. 5 /\ ~(j < 5)
      BY <2>1, <2>6
    <3>2. Story(Tail(out), typed, m + 1, 0, q)
      BY <1>5, <3>1
    <3>. QED  BY <1>2, <2>4, <2>6, <3>1, <3>2
  <2>7. j < 5 \/ j = 5
    OBVIOUS
  <2>. QED  BY <2>5, <2>6, <2>7
<1>. QED  BY <1>6, <1>7, <1>8

LEMMA ByteHandled ==
  ASSUME Same, typed \in Seq(KeyStroke), out \in Seq(Byte), out # <<>>, out[1] # Ack,
         NEW m \in Nat, NEW j \in 0 .. 5, Known(m, j), Entry(out[1]) \in Key,
         [code |-> out[1].code, n |-> out[1].n, comb |-> FALSE, ext |-> FALSE] \in Key,
         NEW w \in Seq(Wait), SameKeys(w), Convert(out[1], Tail(out), w)
  PROVE  \E mm \in Nat, jj \in 0 .. 5 : Known(mm, jj)'
<1>1. PICK p : Story(out, typed, m, j, p)
  BY DEF Known
<1>2. FlagsRight(m, j) /\ KeysRight(m, j) /\ Len(typed) \in Nat
  BY LenProperties DEF Known
<1>3. \E mm \in Nat, jj \in 0 .. 5 :
        /\ \E q : Story(Tail(out), typed, mm, jj, q)
        /\ FlagsRight(mm, jj)' /\ KeysRight(mm, jj)'
  <2>1. CASE out[1].n # 0
    BY <1>1, <1>2, <2>1, StrokeHandled
  <2>2. CASE out[1].n = 0
    <3>1. 1 \in DOMAIN out
      <4>1. DOMAIN out = 1 .. Len(out) /\ Len(out) \in Nat \ {0}
        BY LenProperties, EmptySeq
      <4>. QED  BY <4>1
    <3>2. out[1] = Resend
      BY <1>1, <2>2, <3>1 DEF Story, Aligned
    <3>3. j = 0 /\ \E q : Story(Tail(out), typed, m, j, q)
      BY <1>1, <1>2, <2>2, StoryPass
    <3>4. FlagsRight(m, 0)' /\ KeysRight(m, 0)'
      BY <1>2, <3>2, <3>3, ResendHandled
    <3>. QED  BY <3>3, <3>4
  <2>. QED  BY <2>1, <2>2
<1>4. PICK mm \in Nat, jj \in 0 .. 5 :
        /\ \E q : Story(Tail(out), typed, mm, jj, q)
        /\ FlagsRight(mm, jj)' /\ KeysRight(mm, jj)'
  BY <1>3
<1>5. Tail(out) \in Seq(Byte)
  BY HeadTailProperties
<1>6. \E q : Story(out', typed, mm, jj, q)
  <2>1. PICK q : Story(Tail(out), typed, mm, jj, q)
    BY <1>4
  <2>2. \E x : Story(Append(Tail(out), Ack), typed, mm, jj, x)
    BY <1>2, <1>5, <2>1, StoryAppend
  <2>3. out' = Tail(out) \/ out' = Append(Tail(out), Ack)
    BY ConvertOut
  <2>. QED  BY <2>1, <2>2, <2>3
<1>7. Known(mm, jj)'
  BY <1>4, <1>6 DEF Known, Same
<1>. QED  BY <1>7

(* A command that is sent is one more that waits.                          *)
LEMMA AcksStayAwaited ==
  ASSUME out \in Seq(Byte), out # <<>>, out[1] # Ack, waiting \in Seq(Wait), AcksAwaited,
         Entry(out[1]) \in Key,
         NEW w \in Seq(Wait), SameKeys(w), Convert(out[1], Tail(out), w)
  PROVE  AcksAwaited'
<1>1. /\ Tail(out) \in Seq(Byte) /\ Many(Tail(out), {Ack}) \in Nat
      /\ Many(out, {Ack}) = Many(Tail(out), {Ack}) + IF out[1] \in {Ack} THEN 1 ELSE 0
  BY ManyTail
<1>2. Many(out, {Ack}) = Many(Tail(out), {Ack})
  BY <1>1
<1>3. Len(waiting) \in Nat /\ Len(w) = Len(waiting)
  BY LenProperties DEF SameKeys
<1>4. CASE waiting' = w /\ out' = Tail(out)
  BY <1>2, <1>3, <1>4 DEF AcksAwaited, Many
<1>5. CASE out' = Append(Tail(out), Ack) /\ \E e \in Wait : waiting' = Append(w, e)
  <2>1. Len(waiting') = Len(waiting) + 1
    BY <1>3, <1>5, AppendProperties
  <2>2. Many(Append(Tail(out), Ack), {Ack}) = Many(Tail(out), {Ack}) + 1
    <3>1. Ack \in {Ack} /\ Ack \in Byte
      BY CodeFacts
    <3>2. \A T : Many(Append(Tail(out), Ack), T) = Many(Tail(out), T) + IF Ack \in T THEN 1 ELSE 0
      <4>. DEFINE r == Tail(out)
      <4>1. r \in Seq(Byte)
        BY <1>1
      <4>. HIDE DEF r
      <4>2. \A T : Many(Append(r, Ack), T) = Many(r, T) + IF Ack \in T THEN 1 ELSE 0
        BY <3>1, <4>1, ManyAppend
      <4>. QED  BY <4>2 DEF r
    <3>. QED  BY <3>1, <3>2
  <2>3. Many(out', {Ack}) <= Len(waiting')
    BY <1>1, <1>2, <1>3, <1>5, <2>1, <2>2 DEF AcksAwaited
  <2>. QED  BY <2>3 DEF AcksAwaited, Many
<1>6. \/ waiting' = w /\ out' = Tail(out)
      \/ out' = Append(Tail(out), Ack) /\ \E e \in Wait : waiting' = Append(w, e)
  BY ConvertOut, ZenonT(30)
<1>. QED  BY <1>4, <1>5, <1>6

(* An acknowledgement is read, or the last one once more.                  *)
LEMMA AckPassed ==
  ASSUME out \in Seq(Byte), waiting \in Seq(Wait), waiting # <<>>, AcksAwaited, NextByte = Ack,
         NEW m \in Nat, NEW j \in 0 .. 5, Known(m, j), Len(typed) \in Nat
  PROVE  /\ \E q : Story(Rest, typed, m, j, q)
         /\ Many(Rest, {Ack}) \in Nat /\ Many(Rest, {Ack}) + 1 <= Len(waiting)
<1>1. PICK p : Story(out, typed, m, j, p)
  BY DEF Known
<1>2. Len(waiting) \in Nat /\ Len(waiting) >= 1
  <2>1. Len(waiting) \in Nat \ {0}
    BY LenProperties, EmptySeq
  <2>. QED  BY <2>1
<1>3. CASE out = <<>>
  <2>1. Rest = out
    BY <1>3 DEF Rest
  <2>2. {i \in DOMAIN out : out[i] \in {Ack}} = {}
    BY <1>3
  <2>3. Many(out, {Ack}) = 0
    BY <2>2, FS_EmptySet DEF Many
  <2>. QED  BY <1>1, <1>2, <2>1, <2>3
<1>4. CASE out # <<>>
  <2>1. Rest = Tail(out) /\ out[1] = Ack
    BY <1>4 DEF Rest, NextByte
  <2>2. Ack.n = 0
    BY DEF Ack
  <2>3. \E q : Story(Tail(out), typed, m, j, q)
    BY <1>1, <1>4, <2>1, <2>2, StoryPass
  <2>4. /\ Many(Tail(out), {Ack}) \in Nat
        /\ Many(out, {Ack}) = Many(Tail(out), {Ack}) + IF out[1] \in {Ack} THEN 1 ELSE 0
    BY <1>4, ManyTail
  <2>5. Many(out, {Ack}) = Many(Tail(out), {Ack}) + 1
    BY <2>1, <2>4
  <2>. QED  BY <1>2, <2>1, <2>3, <2>4, <2>5 DEF AcksAwaited
<1>. QED  BY <1>3, <1>4

(* A step that leaves the strokes, the flags and the keys.                 *)
LEMMA StillKnown ==
  ASSUME Same, UNCHANGED <<shift, caps, num, ext, skip>>, Keeps, NEW m \in Nat, NEW j \in 0 .. 5,
         Known(m, j), \E q : Story(out', typed, m, j, q)
  PROVE  Known(m, j)'
<1>1. FlagsRight(m, j) /\ KeysRight(m, j)
  BY DEF Known
<1>2. ext' = (j > 0 /\ typed[m + 1] = "arrow") /\ skip' = IF typed[m + 1] = "pause" THEN SkipAt(j) ELSE 0
  BY <1>1 DEF FlagsRight
<1>3. FlagsRight(m, j)'
  BY <1>1, <1>2, FlagsWithin DEF Same
<1>4. KeysRight(m, j)'
  BY <1>1, NoKeyGiven DEF Same
<1>. QED  BY <1>3, <1>4 DEF Known, Same

LEMMA SameFacts ==
  ASSUME KeyboardInv, KeyboardInv'
  PROVE  /\ Keys2 /\ Keys2' /\ DriverOK /\ DriverOK' /\ typed \in Seq(Typed)
         /\ typed \in Seq(KeyStroke) /\ Len(typed) \in Nat
         /\ typed' = typed => Same
<1>1. TypeOK /\ TypeOK'
  BY DEF KeyboardInv
<1>2. DriverOK /\ DriverOK'
  BY <1>1 DEF TypeOK, DriverOK
<1>3. Keys2 /\ Keys2'
  BY <1>1 DEF TypeOK, Keys2, Wait
<1>4. typed \in Seq(Typed)
  BY <1>1 DEF TypeOK
<1>5. Len(typed) \in Nat /\ \A i \in 1 .. Len(typed) : typed[i] \in Typed
  BY <1>4, LenProperties, ElementOfSeq
<1>6. typed \in Seq(KeyStroke)
  <2>1. DOMAIN typed = 1 .. Len(typed) /\ typed = [i \in 1 .. Len(typed) |-> typed[i]]
    BY <1>4, LenProperties
  <2>2. \A i \in 1 .. Len(typed) : typed[i] \in KeyStroke
    BY <1>5
  <2>. QED  BY <1>5, <2>1, <2>2, IsASeq
<1>. QED  BY <1>2, <1>3, <1>4, <1>5, <1>6 DEF Same

(* The byte at the head of out is handled, by the handler or in a wait.    *)
LEMMA CodeKnown ==
  ASSUME KeyboardInv, KeyboardInv', KeysKnown, ~astray, typed' = typed,
         out # <<>>, out[1] # Ack, NEW w \in Seq(Wait), SameKeys(w),
         Convert(out[1], Tail(out), w)
  PROVE  KeysKnown'
<1>1. /\ Same /\ typed \in Seq(KeyStroke) /\ out \in Seq(Byte) /\ waiting \in Seq(Wait)
  BY SameFacts DEF KeyboardInv, TypeOK, Wait
<1>2. out[1] \in Byte
  BY <1>1, HeadTailProperties
<1>3. Entry(out[1]) \in Key /\ [code |-> out[1].code, n |-> out[1].n, comb |-> FALSE, ext |-> FALSE] \in Key
  BY <1>2, EntryFacts DEF KeyboardInv
<1>4. AcksAwaited /\ \E m \in Nat, j \in 0 .. 5 : Known(m, j)
  BY DEF KeysKnown
<1>5. PICK m \in Nat, j \in 0 .. 5 : Known(m, j)
  BY <1>4
<1>6. \E mm \in Nat, jj \in 0 .. 5 : Known(mm, jj)'
  BY <1>1, <1>3, <1>5, ByteHandled
<1>7. AcksAwaited'
  BY <1>1, <1>3, <1>4, AcksStayAwaited
<1>. QED  BY <1>6, <1>7 DEF KeysKnown

LEMMA InterruptKnown ==
  ASSUME KeyboardInv, KeyboardInv', KeysKnown, ~astray, Interrupt
  PROVE  KeysKnown'
<1>1. waiting = <<>> /\ out # <<>> /\ typed' = typed /\ Convert(out[1], Tail(out), waiting)
  BY DEF Interrupt
<1>2. out \in Seq(Byte) /\ waiting \in Seq(Wait) /\ SameKeys(waiting)
  BY DEF KeyboardInv, TypeOK, Wait, SameKeys
<1>3. out[1] # Ack
  <2>1. /\ Many(Tail(out), {Ack}) \in Nat
        /\ Many(out, {Ack}) = Many(Tail(out), {Ack}) + IF out[1] \in {Ack} THEN 1 ELSE 0
    BY <1>1, <1>2, ManyTail
  <2>2. Many(out, {Ack}) <= 0
    BY <1>1 DEF KeysKnown, AcksAwaited
  <2>. QED  BY <2>1, <2>2
<1>. QED  BY <1>1, <1>2, <1>3, CodeKnown

LEMMA OtherCodeKnown ==
  ASSUME KeyboardInv, KeyboardInv', KeysKnown, ~astray, OtherCode
  PROVE  KeysKnown'
<1>. DEFINE e == [Top EXCEPT !.tries = @ + 1]
            w == [waiting EXCEPT ![Len(waiting)].tries = @ + 1]
<1>1. waiting \in Seq(Wait) /\ InWait /\ Top.tries < MaxTries
  BY DEF KeyboardInv, TypeOK, Wait, OtherCode, MayRead
<1>2. Len(waiting) \in 1 .. Len(waiting) /\ Top = waiting[Len(waiting)] /\ Top \in Wait
  BY <1>1, TopFacts
<1>3. e \in Wait /\ e.key = Top.key
  BY <1>1, <1>2, TriesCounted DEF Wait
<1>4. w = [waiting EXCEPT ![Len(waiting)] = e]
  BY <1>2
<1>5. Convert(NextByte, Rest, w) /\ NextByte # Ack /\ typed' = typed /\ astray' = (astray \/ out = <<>>)
  BY DEF OtherCode
<1>. HIDE DEF e, w
<1>6. w \in Seq(Wait) /\ SameKeys(w)
  <2>1. /\ w \in Seq(Wait) /\ Len(w) = Len(waiting) /\ w[Len(waiting)] = e
        /\ \A i \in 1 .. Len(waiting) : i # Len(waiting) => w[i] = waiting[i]
    BY <1>1, <1>2, <1>3, <1>4, ExceptSeq
  <2>. QED  BY <1>2, <1>3, <2>1 DEF SameKeys
<1>7. CASE out = <<>>
  BY <1>5, <1>7 DEF KeysKnown
<1>8. CASE out # <<>>
  <2>1. NextByte = out[1] /\ Rest = Tail(out)
    BY <1>8 DEF NextByte, Rest
  <2>. QED  BY <1>5, <1>6, <1>8, <2>1, CodeKnown
<1>. QED  BY <1>7, <1>8

LEMMA FirstAckKnown ==
  ASSUME KeyboardInv, KeyboardInv', KeysKnown, ~astray, FirstAck
  PROVE  KeysKnown'
<1>1. /\ waiting \in Seq(Wait) /\ waiting' \in Seq(Wait) /\ out \in Seq(Byte) /\ waiting # <<>>
      /\ NextByte = Ack /\ SendLeds(Rest) /\ InWait
  BY DEF KeyboardInv, TypeOK, Wait, FirstAck, MayRead, InWait
<1>2. /\ typed' = typed /\ UNCHANGED <<shift, caps, num, ext, skip>>
      /\ keys' = keys /\ dropped' = dropped
      /\ \E answer \in {Ack, Resend} : out' = Append(Rest, answer)
  BY <1>1 DEF SendLeds, driver, entered
<1>3. Same /\ Len(typed) \in Nat
  BY <1>2, SameFacts
<1>4. SameKeys(waiting')
  <2>. DEFINE e == [[Top EXCEPT !.sent = TRUE] EXCEPT !.tries = 0]
  <2>1. Len(waiting) \in 1 .. Len(waiting) /\ Top = waiting[Len(waiting)] /\ Top \in Wait
    BY <1>1, TopFacts
  <2>2. e \in Wait /\ e.key = Top.key
    <3>1. 0 \in 0 .. MaxTries
      OBVIOUS
    <3>. QED  BY <2>1, <3>1 DEF Wait
  <2>3. waiting' = [waiting EXCEPT ![Len(waiting)] = e]
    BY <1>1, <2>1 DEF SendLeds
  <2>. HIDE DEF e
  <2>4. /\ Len(waiting') = Len(waiting) /\ waiting'[Len(waiting)] = e
        /\ \A i \in 1 .. Len(waiting) : i # Len(waiting) => waiting'[i] = waiting[i]
    BY <1>1, <2>1, <2>2, <2>3, ExceptSeq
  <2>. QED  BY <2>1, <2>2, <2>4 DEF SameKeys
<1>5. Keeps
  BY <1>1, <1>2, <1>3, <1>4, KeepsWaiting DEF Same
<1>6. AcksAwaited /\ \E m \in Nat, j \in 0 .. 5 : Known(m, j)
  BY DEF KeysKnown
<1>7. PICK m \in Nat, j \in 0 .. 5 : Known(m, j)
  BY <1>6
<1>8. /\ \E q : Story(Rest, typed, m, j, q)
      /\ Many(Rest, {Ack}) \in Nat /\ Many(Rest, {Ack}) + 1 <= Len(waiting)
  BY <1>1, <1>3, <1>6, <1>7, AckPassed
<1>9. Rest \in Seq(Byte)
  BY NextByteFacts DEF KeyboardInv
<1>10. PICK answer \in {Ack, Resend} : out' = Append(Rest, answer)
  BY <1>2
<1>11. \E q : Story(out', typed, m, j, q)
  BY <1>3, <1>8, <1>9, <1>10, StoryAppend
<1>12. Known(m, j)'
  BY <1>2, <1>3, <1>5, <1>7, <1>11, StillKnown
<1>13. AcksAwaited'
  <2>1. answer \in Byte
    BY CodeFacts
  <2>2. \A T : Many(out', T) = Many(Rest, T) + IF answer \in T THEN 1 ELSE 0
    BY <1>9, <1>10, <2>1, ManyAppend
  <2>3. Many(out', {Ack}) = Many(Rest, {Ack}) + IF answer \in {Ack} THEN 1 ELSE 0
    BY <2>2
  <2>4. Len(waiting') = Len(waiting) /\ Len(waiting) \in Nat
    BY <1>1, <1>4, LenProperties DEF SameKeys
  <2>5. Many(out', {Ack}) <= Len(waiting')
    BY <1>8, <2>3, <2>4
  <2>. QED  BY <2>5 DEF AcksAwaited, Many
<1>. QED  BY <1>12, <1>13 DEF KeysKnown

LEMMA SecondAckKnown ==
  ASSUME KeyboardInv, KeyboardInv', KeysKnown, ~astray, SecondAck
  PROVE  KeysKnown'
<1>1. /\ waiting \in Seq(Wait) /\ out \in Seq(Byte) /\ waiting # <<>>
      /\ NextByte = Ack /\ CommandDone(Rest)
  BY DEF KeyboardInv, TypeOK, Wait, SecondAck, MayRead, InWait
<1>2. /\ typed' = typed /\ UNCHANGED <<shift, caps, num, ext, skip>> /\ out' = Rest
      /\ waiting' = Front(waiting) /\ Put(Last(waiting).key)
  BY <1>1 DEF CommandDone, driver, Top
<1>3. Same /\ Len(typed) \in Nat
  BY <1>2, SameFacts
<1>4. Keeps
  BY <1>1, <1>2, <1>3, KeepsDone DEF Same
<1>5. AcksAwaited /\ \E m \in Nat, j \in 0 .. 5 : Known(m, j)
  BY DEF KeysKnown
<1>6. PICK m \in Nat, j \in 0 .. 5 : Known(m, j)
  BY <1>5
<1>7. /\ \E q : Story(Rest, typed, m, j, q)
      /\ Many(Rest, {Ack}) \in Nat /\ Many(Rest, {Ack}) + 1 <= Len(waiting)
  BY <1>1, <1>3, <1>5, <1>6, AckPassed
<1>8. Known(m, j)'
  BY <1>2, <1>3, <1>4, <1>6, <1>7, StillKnown
<1>9. AcksAwaited'
  <2>1. Len(waiting') = Len(waiting) - 1
    BY <1>1, <1>2, ManyFront
  <2>2. Len(waiting) \in Nat
    BY <1>1, LenProperties
  <2>3. Many(out', {Ack}) <= Len(waiting')
    BY <1>2, <1>7, <2>1, <2>2
  <2>. QED  BY <2>3 DEF AcksAwaited, Many
<1>. QED  BY <1>8, <1>9 DEF KeysKnown

(* A step that touches neither the strokes nor the driver.                 *)
LEMMA IdleKnown ==
  ASSUME KeyboardInv, KeyboardInv', KeysKnown, ~astray,
         UNCHANGED <<typed, out, shift, caps, num, ext, skip, waiting, keys, dropped>>
  PROVE  KeysKnown'
<1>1. Same /\ SameKeys(waiting')
  BY SameFacts DEF SameKeys
<1>2. Keeps
  BY <1>1, KeepsWaiting DEF Same, Keys2
<1>3. AcksAwaited /\ \E m \in Nat, j \in 0 .. 5 : Known(m, j)
  BY DEF KeysKnown
<1>4. PICK m \in Nat, j \in 0 .. 5 : Known(m, j)
  BY <1>3
<1>5. \E q : Story(out', typed, m, j, q)
  BY <1>4 DEF Known
<1>6. Known(m, j)'
  BY <1>1, <1>2, <1>4, <1>5, StillKnown
<1>7. AcksAwaited'
  BY <1>3 DEF AcksAwaited, Many
<1>. QED  BY <1>6, <1>7 DEF KeysKnown

LEMMA TypeKnown ==
  ASSUME KeyboardInv, KeyboardInv', KeysKnown, ~astray, NEW s \in Typed, Type(s)
  PROVE  KeysKnown'
<1>. DEFINE more == [i \in DOMAIN Bytes[s] |-> [code |-> Bytes[s][i], n |-> Len(typed) + 1]]
            l == Len(typed)
<1>1. /\ typed' = Append(typed, s) /\ out' = out \o more /\ waiting' = waiting
      /\ UNCHANGED <<shift, caps, num, ext, skip, keys, dropped>> /\ l < MaxTyped
  BY DEF Type, driver, entered
<1>2. /\ Keys2 /\ Keys2' /\ typed \in Seq(KeyStroke) /\ l \in Nat /\ s \in KeyStroke
      /\ out \in Seq(Byte)
  BY SameFacts DEF KeyboardInv, TypeOK
<1>3. DOMAIN typed = 1 .. l
  BY <1>2, LenProperties
<1>4. /\ DOMAIN typed' = 1 .. l + 1
      /\ \A i \in 1 .. l : typed'[i] = typed[i]
  BY <1>1, <1>2, AppendProperties, LenProperties
<1>5. AcksAwaited /\ \E m \in Nat, j \in 0 .. 5 : Known(m, j)
  BY DEF KeysKnown
<1>6. PICK m \in Nat, j \in 0 .. 5 : Known(m, j)
  BY <1>5
<1>7. PICK p : Story(out, typed, m, j, p)
  BY <1>6 DEF Known
<1>8. m <= l /\ (j > 0 => m < l) /\ FlagsRight(m, j) /\ KeysRight(m, j)
  BY <1>2, <1>6, <1>7 DEF Known, Story, Midway
<1>9. \E q : Story(out', typed', m, j, q)
  <2>1. l + 1 \in 0 .. MaxTyped
    BY <1>1, <1>2
  <2>. QED  BY <1>1, <1>2, <1>7, <2>1, StoryType
<1>10. FlagsRight(m, j)'
  <2>1. \A i \in 1 .. m : typed'[i] = typed[i]
    BY <1>2, <1>4, <1>8
  <2>2. Shifted(m)' = Shifted(m) /\ CapsOn(m)' = CapsOn(m) /\ NumOn(m)' = NumOn(m)
    BY <2>1, StaysSaid
  <2>3. j > 0 => typed'[m + 1] = typed[m + 1]
    BY <1>2, <1>4, <1>8
  <2>4. ~(j > 0) => SkipAt(j) = 0
    BY DEF SkipAt
  <2>5. /\ ext' = (j > 0 /\ typed'[m + 1] = "arrow")
        /\ skip' = IF typed'[m + 1] = "pause" THEN SkipAt(j) ELSE 0
    BY <1>1, <1>8, <2>3, <2>4 DEF FlagsRight
  <2>. QED  BY <1>1, <1>8, <2>2, <2>5 DEF FlagsRight
<1>11. WaitKeys' = WaitKeys /\ AllKeys' = AllKeys /\ \A n : Times(n)' = Times(n)
  BY <1>1 DEF WaitKeys, AllKeys, Times, OfStroke, Many
<1>12. ASSUME NEW k, RightKey(k)
       PROVE  RightKey(k)'
  <2>1. k.n \in DOMAIN typed
    BY <1>12 DEF RightKey
  <2>2. PICK n : n = k.n
    OBVIOUS
  <2>3. n \in Nat /\ n # 0 /\ n \in 1 .. l /\ \A i \in 1 .. n : i \in 1 .. l
    BY <1>2, <1>3, <2>1, <2>2
  <2>4. Means(n)' = Means(n)
    BY <1>4, <2>3, StaysSaid
  <2>5. Means(k.n)' = Means(n)'
    BY <2>2
  <2>6. k.n \in DOMAIN typed' /\ typed'[k.n] = typed[k.n]
    BY <1>2, <1>4, <2>2, <2>3
  <2>. QED  BY <1>12, <2>2, <2>4, <2>5, <2>6 DEF RightKey
<1>13. KeysRight(m, j)'
  <2>1. \A k \in AllKeys' : IF k.code = "resend" THEN k.n = 0 ELSE RightKey(k)'
    BY <1>8, <1>11, <1>12 DEF KeysRight
  <2>2. ASSUME NEW n \in 1 .. l
        PROVE  Gave(m, j, n)' = Gave(m, j, n) /\ Given(m, j, n)' = Given(m, j, n)
    BY <1>4 DEF Gave, Given
  <2>3. PICK z \in Nat : z = l + 1
    BY <1>2
  <2>4. /\ ~(z <= m) /\ ~(z = m + 1 /\ j > 0) /\ z \notin DOMAIN typed /\ z # 0
        /\ \A n \in DOMAIN typed' : n \in DOMAIN typed \/ n = z
    BY <1>2, <1>3, <1>4, <1>8, <2>3
  <2>5. ~Gave(m, j, z)' /\ Given(m, j, z)' = 0
    BY <2>4 DEF Gave, Given
  <2>6. Times(z) = 0
    <3>1. \A k \in AllKeys : k.n # z
      BY <1>8, <2>4 DEF KeysRight, RightKey
    <3>2. /\ \A i \in DOMAIN keys : keys[i] \in AllKeys
          /\ \A i \in DOMAIN WaitKeys : WaitKeys[i] \in AllKeys
      BY DEF AllKeys, ToSet
    <3>3. /\ {i \in DOMAIN keys : keys[i] \in OfStroke(z)} = {}
          /\ {i \in DOMAIN WaitKeys : WaitKeys[i] \in OfStroke(z)} = {}
      BY <3>1, <3>2 DEF OfStroke
    <3>4. Many(keys, OfStroke(z)) = 0 /\ Many(WaitKeys, OfStroke(z)) = 0
      BY <3>3, FS_EmptySet DEF Many
    <3>. QED  BY <3>4 DEF Times
  <2>7. ASSUME NEW n \in DOMAIN typed'
        PROVE  /\ Gave(m, j, n)' => \E k \in AllKeys' : k.n = n
               /\ Times(n)' <= Given(m, j, n)'
    <3>1. CASE n \in DOMAIN typed
      BY <1>3, <1>8, <1>11, <2>2, <3>1 DEF KeysRight
    <3>2. CASE n = z
      BY <1>11, <2>5, <2>6, <3>2
    <3>. QED  BY <2>4, <2>7, <3>1, <3>2
  <2>. QED  BY <2>1, <2>7 DEF KeysRight
<1>14. AcksAwaited'
  <2>1. more \in Seq(Byte) /\ \A i \in DOMAIN more : more[i] \notin {Ack}
    <3>1. PICK h \in Nat : DOMAIN Bytes[s] = 1 .. h
      BY <1>2, StrokeFacts
    <3>2. l + 1 \in 0 .. MaxTyped /\ l + 1 # 0
      BY <1>1, <1>2
    <3>3. \A i \in 1 .. h : [code |-> Bytes[s][i], n |-> l + 1] \in Byte
      BY <1>2, <3>1, <3>2, CodeFacts DEF Byte
    <3>4. more \in Seq(Byte)
      BY <3>1, <3>3, IsASeq
    <3>5. \A i \in DOMAIN more : more[i].n = l + 1
      OBVIOUS
    <3>6. Ack.n = 0
      BY DEF Ack
    <3>. QED  BY <3>2, <3>4, <3>5, <3>6
  <2>. HIDE DEF more
  <2>2. Many(out \o more, {Ack}) = Many(out, {Ack})
    BY <1>2, <2>1, ManyConcat
  <2>3. Many(out', {Ack}) <= Len(waiting')
    BY <1>1, <1>5, <2>2 DEF AcksAwaited
  <2>. QED  BY <2>3 DEF AcksAwaited, Many
<1>15. Known(m, j)'
  BY <1>9, <1>10, <1>13 DEF Known
<1>. QED  BY <1>6, <1>14, <1>15 DEF KeysKnown

LEMMA InitKnown == Init => KeysKnown
<1>. SUFFICES ASSUME Init PROVE KeysKnown
  OBVIOUS
<1>1. /\ typed = <<>> /\ out = <<>> /\ waiting = <<>> /\ keys = <<>> /\ dropped = {}
      /\ ~shift /\ ~caps /\ ~num /\ ~ext /\ skip = 0
      /\ shift = FALSE /\ caps = FALSE /\ num = FALSE /\ ext = FALSE
  BY DEF Init
<1>2. \A T : Many(<<>>, T) = 0
  <2>1. \A T : {i \in DOMAIN <<>> : <<>>[i] \in T} = {}
    OBVIOUS
  <2>. QED  BY <2>1, FS_EmptySet DEF Many
<1>3. AcksAwaited
  BY <1>1, <1>2 DEF AcksAwaited
<1>4. Story(out, typed, 0, 0, <<>>)
  <2>1. DOMAIN out = {} /\ Len(typed) = 0 /\ 0 + 1 .. Len(typed) = {}
    BY <1>1
  <2>2. 0 \in 0 .. Len(typed) /\ 0 \in 0 .. 5 /\ ~(0 > 0)
    BY <2>1
  <2>3. <<>> \in [DOMAIN out -> 0 .. 5]
    BY <2>1
  <2>. QED  BY <2>1, <2>2, <2>3 DEF Story, Aligned, Ordered, Covered, Midway
<1>5. FlagsRight(0, 0)
  <2>1. SkipAt(0) = 0 /\ ~(0 > 0)
    BY DEF SkipAt
  <2>2. Shifted(0) = FALSE /\ CapsOn(0) = FALSE /\ NumOn(0) = FALSE
    BY NothingSaid DEF Shifted, CapsOn, NumOn
  <2>. QED  BY <1>1, <2>1, <2>2 DEF FlagsRight
<1>6. KeysRight(0, 0)
  <2>1. WaitKeys = <<>>
    BY <1>1 DEF WaitKeys
  <2>2. ToSet(<<>>) = {}
    BY DEF ToSet
  <2>3. AllKeys = {}
    BY <1>1, <2>1, <2>2 DEF AllKeys
  <2>4. DOMAIN typed = {}
    BY <1>1
  <2>. QED  BY <2>3, <2>4 DEF KeysRight
<1>7. 0 \in Nat /\ 0 \in 0 .. 5
  OBVIOUS
<1>8. \E m \in Nat, j \in 0 .. 5 : Known(m, j)
  BY <1>4, <1>5, <1>6, <1>7 DEF Known
<1>. QED  BY <1>3, <1>8 DEF KeysKnown

LEMMA StepKnown ==
  ASSUME KeyboardInv, KeyboardInv', KeysKnown, [Next]_vars
  PROVE  KeysKnown'
<1>1. CASE astray
  <2>1. astray'
    BY <1>1 DEF Next, Type, Interrupt, OtherCode, FirstAck, SecondAck, GiveUp, Getch, vars
  <2>. QED  BY <2>1 DEF KeysKnown
<1>2. CASE ~astray
  <2>1. CASE \E s \in Typed : Type(s)
    BY <1>2, <2>1, TypeKnown
  <2>2. CASE Interrupt
    BY <1>2, <2>2, InterruptKnown
  <2>3. CASE OtherCode
    BY <1>2, <2>3, OtherCodeKnown
  <2>4. CASE FirstAck
    BY <1>2, <2>4, FirstAckKnown
  <2>5. CASE SecondAck
    BY <1>2, <2>5, SecondAckKnown
  <2>6. CASE GiveUp
    BY <2>6 DEF GiveUp, KeysKnown
  <2>7. CASE Getch
    BY <1>2, <2>7, IdleKnown DEF Getch, device, driver
  <2>8. CASE UNCHANGED vars
    BY <1>2, <2>8, IdleKnown DEF vars, device, driver, entered
  <2>. QED  BY <2>1, <2>2, <2>3, <2>4, <2>5, <2>6, <2>7, <2>8 DEF Next
<1>. QED  BY <1>1, <1>2

(* What is known of the keys says that they are the strokes.               *)
LEMMA KnownMeans == KeyboardInv /\ KeysKnown => KeysExact
<1>. SUFFICES ASSUME KeyboardInv, KeysKnown PROVE KeysExact
  OBVIOUS
<1>1. TypeOK /\ Keys2 /\ typed \in Seq(Typed)
  BY DEF KeyboardInv, TypeOK, Keys2, Wait
<1>2. DOMAIN typed = 1 .. Len(typed) /\ Len(typed) \in Nat
  BY <1>1, LenProperties
<1>3. Hits = {k \in AllKeys : k.code # "resend"}
  <2>1. ToSet(WaitKeys) = {waiting[i].key : i \in DOMAIN waiting}
    BY DEF ToSet, WaitKeys
  <2>. QED  BY <2>1 DEF Hits, AllKeys
<1>4. ASSUME ~astray
      PROVE  \E m \in Nat, j \in 0 .. 5 : Known(m, j)
  BY <1>4 DEF KeysKnown
<1>5. KeysMean
  <2>. SUFFICES ASSUME ~astray, NEW k \in Hits
                PROVE  k.comb = Means(k.n) /\ k.ext = (typed[k.n] = "arrow")
    BY DEF KeysMean
  <2>. QED  BY <1>3, <1>4 DEF Known, KeysRight, RightKey
<1>6. KeysComplete
  <2>. SUFFICES ASSUME out = <<>>, ~astray
                PROVE  /\ {k.n : k \in Hits} = DOMAIN typed
                       /\ \A n \in DOMAIN typed :
                            Cardinality({i \in DOMAIN keys : keys[i].n = n})
                              <= IF typed[n] = "pause" THEN 2 ELSE 1
    BY DEF KeysComplete
  <2>1. PICK m \in Nat, j \in 0 .. 5 : Known(m, j)
    BY <1>4
  <2>2. KeysRight(m, j) /\ \E p : Story(out, typed, m, j, p)
    BY <2>1 DEF Known
  <2>3. m = Len(typed)
    <3>1. m \in 0 .. Len(typed) /\ \E p : Covered(out, typed, m, j, p)
      BY <2>2 DEF Story
    <3>2. \A n \in m + 1 .. Len(typed) : FALSE
      BY <3>1 DEF Covered
    <3>3. m + 1 \notin m + 1 .. Len(typed)
      BY <3>2
    <3>4. m \in Nat /\ m <= Len(typed)
      BY <1>2, <3>1
    <3>5. ~(m + 1 <= Len(typed))
      BY <1>2, <3>3, <3>4
    <3>6. \A x, y \in Nat : x <= y /\ ~(x + 1 <= y) => x = y
      OBVIOUS
    <3>7. Len(typed) \in Nat
      BY <1>2
    <3>. QED  BY <3>4, <3>5, <3>6, <3>7
  <2>4. {k.n : k \in Hits} = DOMAIN typed
    <3>1. \A k \in Hits : k.n \in DOMAIN typed
      BY <1>3, <2>2 DEF KeysRight, RightKey
    <3>2. ASSUME NEW n \in DOMAIN typed
          PROVE  \E k \in Hits : k.n = n
      <4>1. Gave(m, j, n) /\ n # 0
        BY <1>2, <2>3 DEF Gave
      <4>2. PICK k \in AllKeys : k.n = n
        BY <2>2, <4>1 DEF KeysRight
      <4>3. k.code # "resend"
        BY <2>2, <4>1, <4>2 DEF KeysRight
      <4>. QED  BY <1>3, <4>2, <4>3
    <3>. QED  BY <3>1, <3>2
  <2>5. ASSUME NEW n \in DOMAIN typed
        PROVE  Cardinality({i \in DOMAIN keys : keys[i].n = n}) <= IF typed[n] = "pause" THEN 2 ELSE 1
    <3>1. \A i \in DOMAIN keys : keys[i] \in OfStroke(n) <=> keys[i].n = n
      <4>1. \A i \in DOMAIN keys : keys[i] \in Key
        BY <1>1, LenProperties, ElementOfSeq DEF Keys2
      <4>. QED  BY <4>1 DEF OfStroke
    <3>2. Cardinality({i \in DOMAIN keys : keys[i].n = n}) = Many(keys, OfStroke(n))
      <4>1. {i \in DOMAIN keys : keys[i].n = n} = {i \in DOMAIN keys : keys[i] \in OfStroke(n)}
        BY <3>1
      <4>. QED  BY <4>1 DEF Many
    <3>3. n <= m
      BY <1>2, <2>3
    <3>4. Given(m, j, n) = IF typed[n] = "pause" THEN 2 ELSE 1
      BY <3>3 DEF Given
    <3>5. Times(n) <= Given(m, j, n)
      BY <2>2 DEF KeysRight
    <3>6. Many(keys, OfStroke(n)) \in Nat /\ Many(WaitKeys, OfStroke(n)) \in Nat
      BY <1>1, WaitKeysType
    <3>7. Times(n) = Many(keys, OfStroke(n)) + Many(WaitKeys, OfStroke(n))
      BY DEF Times
    <3>. QED  BY <3>2, <3>4, <3>5, <3>6, <3>7
  <2>. QED  BY <2>4, <2>5
<1>. QED  BY <1>1, <1>5, <1>6 DEF KeysExact

(* However strokes, lock keys and acknowledgements nest, for any number of *)
(* strokes and any bound on the waits: as long as no wait took a code for  *)
(* a new one or gave up, every key means what its stroke meant, and once   *)
(* everything sent was read every stroke has given its key once, Pause     *)
(* twice, and no acknowledgement has become one.                           *)
THEOREM KeysAreTheStrokes == Spec => []KeysExact
<1>1. Init => KeyboardInv /\ KeysKnown
  BY InitKept, InitKnown
<1>2. KeyboardInv /\ KeyboardInv' /\ KeysKnown /\ [Next]_vars => KeysKnown'
  BY StepKnown
<1>3. KeyboardInv /\ KeysKnown => KeysExact
  BY KnownMeans
<1>. QED  BY <1>1, <1>2, <1>3, KeyboardInvariantHolds, PTL DEF Spec
=============================================================================
