------------------------------- MODULE Shell -------------------------------
(***************************************************************************)
(* The shell's line editor and command parser (02.Kernel64/src/            *)
(* console_shell.c) on the text console it prints to (console.c).  The     *)
(* shell edits a line in a buffer on its stack and echoes every key; Enter *)
(* looks the first word up in the command table and passes the rest to the *)
(* handler.  Other tasks print to the same console (the idle task, user    *)
(* programs through kSysWrite) and nothing serialises them: a print reads  *)
(* the cursor, draws, and sets the cursor in a later step.                 *)
(*                                                                         *)
(* A print draws its string in one step.  Cells outside video memory hold  *)
(* nothing.  A handler is what it prints and how it reads its parameters.  *)
(* Two writes of the code leave their buffer, and the model says where:    *)
(* the terminator of a full line, and the copy of a parameter (see         *)
(* `strays` and `overran`).                                                *)
(***************************************************************************)
EXTENDS Integers, Sequences, SequencesExt

CONSTANTS
  Width, Height,  \* CONSOLE_WIDTH, CONSOLE_HEIGHT: 80 and 25 in the code
  TabStop,        \* 8 in kConsolePrintString
  BufSize,        \* CONSOLESHELL_MAX_COM_BUFF_SIZE: 300
  ParamSize,      \* a handler's buffer for a parameter: 30, or 100
  Prompt,         \* CONSOLESHELL_PROG_MSG
  Letters,        \* what the other keys type
  Commands,       \* the words of gtCommandTable without cls
  Cls,            \* the word cls
  Outputs,        \* what a handler may print
  OtherTexts,     \* what another task may print
  StartRows,      \* rows the cursor may be in when the shell starts
  Junk,           \* what the shell's stack may hold before the first line
  MaxLines,       \* bound on the lines entered
  MaxOthers       \* bound on the prints of other tasks

Sp == " "
Nl == "\n"
Tab == "\t"
Nul == "nul"
Cells == 0 .. Width * Height - 1
LastRow == (Height - 1) * Width
Actors == {"shell", "other"}
NoPrint == <<>>

ASSUME ShellAssumption ==
  /\ Width \in Nat \ {0} /\ Height \in Nat \ {0} /\ TabStop \in Nat \ {0}
  /\ BufSize \in Nat /\ ParamSize \in Nat \ {0} /\ Len(Prompt) + BufSize <= LastRow
  /\ {Sp, Nl, Tab, Nul} \intersect Letters = {}
  /\ \A t \in {Prompt} \union Outputs \union OtherTexts : t \in Seq(ToSet(t))
  /\ {Nl, Tab} \intersect ToSet(Prompt) = {}
  /\ \A c \in Commands \union {Cls} : c \in Seq(Letters) /\ Len(c) \in 1 .. BufSize - 2
  /\ StartRows \subseteq 0 .. Height - 1

VARIABLES
  screen,   \* video memory
  ofs,      \* gtConsoleManager.iCurPrintOfs
  pend,     \* the cursor each actor still has to set after drawing, if any
  pc,       \* what the shell does next
  buf,      \* vcCmdBuff
  beyond,   \* the byte of the stack right behind vcCmdBuff
  idx,      \* iCmdBuffIdx
  line,     \* ghost: the characters typed and not erased since the prompt
  peak,     \* ghost: how far the buffer may hold characters
  alone,    \* ghost: the prompt fitted, and nobody else has printed since
  calm,     \* ghost: no two prints have overlapped since the prompt
  lines, others,  \* counters for the bounds
  ran,      \* the line entered (ghost) and its handler's parameters, until the prompt
  strays    \* ghost: the bytes stored through vcCmdBuff outside it

console == <<screen, ofs, pend>>
stack == <<buf, beyond, strays>>
editor == <<stack, idx, line, peak>>
counters == <<lines, others>>
shellVars == <<console, pc, editor, alone, calm, counters, ran>>

-----------------------------------------------------------------------------
(* kConsolePrintString: the text drawn from the cursor on, a newline and a *)
(* tab only move, and at the end the screen scrolls by one row at most.    *)
(* The C remainder of a negative cursor is negative.                       *)
CRem(n, d) == IF 0 <= n THEN n % d ELSE -((-n) % d)

PutChar(d, c) ==
  CASE c = Nl  -> [at |-> d.at + Width - CRem(d.at, Width), cells |-> d.cells]
    [] c = Tab -> [at |-> d.at + TabStop - CRem(d.at, TabStop), cells |-> d.cells]
    [] OTHER   -> [at |-> d.at + 1,
                   cells |-> [p \in Cells |-> IF p = d.at THEN c ELSE d.cells[p]]]

Drawn(text) ==
  LET upto[i \in 0 .. Len(text)] ==
        IF i = 0 THEN [at |-> ofs, cells |-> screen] ELSE PutChar(upto[i - 1], text[i])
  IN upto[Len(text)]

(* Mutant: scrolling leaves the cursor at the top.                         *)
Scrolled_RowHome(d) ==
  IF d.at < Width * Height THEN d
  ELSE [at |-> 0,
        cells |-> [p \in Cells |-> IF p < LastRow THEN d.cells[p + Width] ELSE Sp]]

Scrolled(d) ==
  IF d.at < Width * Height THEN d
  ELSE [at |-> LastRow,
        cells |-> [p \in Cells |-> IF p < LastRow THEN d.cells[p + Width] ELSE Sp]]

ConsolePrintString(text) == Scrolled(Drawn(text))

(* Drawing and, in a later step, kSetCursor.                               *)
Idle(a) == pend[a] = NoPrint

Draws(a, cells, at) ==
  /\ screen' = cells
  /\ pend' = [pend EXCEPT ![a] = <<at>>]
  /\ UNCHANGED ofs

Printf(a, text) ==
  LET d == ConsolePrintString(text) IN Draws(a, d.cells, d.at)

(* The ghosts about a print of a.                                          *)
Overlaps(a) == \E b \in Actors \ {a} : ~Idle(b)
Watched(a) == /\ calm' = (calm /\ ~Overlaps(a))
              /\ alone' = (alone /\ a = "shell" /\ ~Overlaps(a))

SetCursor(a) ==
  /\ ~Idle(a)
  /\ ofs' = pend[a][1]
  /\ pend' = [pend EXCEPT ![a] = NoPrint]
  /\ UNCHANGED <<screen, pc, editor, alone, calm, counters, ran>>

OtherPrints ==
  /\ Idle("other") /\ others < MaxOthers
  /\ \E text \in OtherTexts : Printf("other", text)
  /\ Watched("other")
  /\ others' = others + 1
  /\ UNCHANGED <<pc, editor, lines, ran>>

-----------------------------------------------------------------------------
(* vcCmdBuff[i] = c.  The byte behind the array is padding of the shell's  *)
(* frame in this build; the model gives it to nobody, and says it is       *)
(* written.                                                                *)
Store(i, c) ==
  /\ buf' = IF i < BufSize THEN [buf EXCEPT ![i] = c] ELSE buf
  /\ beyond' = IF i = BufSize THEN c ELSE beyond
  /\ strays' = IF i < BufSize THEN strays ELSE strays \union {<<i, c>>}

(* What a string function sees: vcCmdBuff b and the byte behind it.        *)
Frame(b, behind) == [i \in 0 .. BufSize |-> IF i < BufSize THEN b[i] ELSE behind]

(* kExecuteCmd and the parameter list.  StrAt is the string that starts at *)
(* a byte of the frame (one that runs past the frame is cut there),        *)
(* SpaceFrom where the piece of a string that starts at i ends.            *)
StrAt(b, i) ==
  LET end == CHOOSE j \in i .. BufSize + 1 :
               /\ j = BufSize + 1 \/ b[j] = Nul
               /\ \A k \in i .. j - 1 : b[k] # Nul
  IN [k \in 1 .. end - i |-> b[i + k - 1]]

SpaceFrom(s, i) ==
  CHOOSE j \in i .. Len(s) : /\ j = Len(s) \/ s[j + 1] = Sp
                             /\ \A k \in i .. j - 1 : s[k + 1] # Sp

NotCommand == <<>>
ExecuteCmd(f) ==
  LET s == StrAt(f, 0)
      end == SpaceFrom(s, 0)
      word == SubSeq(s, 1, end)
      found == word \in Commands \union {Cls}
  IN [line |-> line, peak |-> peak,
      cmd |-> IF found THEN word ELSE NotCommand,
      arg |-> IF found THEN StrAt(f, end + 1) ELSE <<>>,
      params |-> <<>>, pos |-> 0, overran |-> FALSE]
NoRun == [line |-> <<>>, peak |-> 0, cmd |-> NotCommand, arg |-> <<>>,
          params |-> <<>>, pos |-> 0, overran |-> FALSE]

(* kGetNextParam, with the list's iCurPos as pos: the piece up to the next *)
(* space, empty where two spaces meet, is copied to the handler's buffer   *)
(* and terminated there.  The copy is as long as the piece's end is far    *)
(* from the start of the list: it reads and writes past the piece.  One    *)
(* that does not fit overruns the buffer.                                  *)
Wrote(r, end) == IF r.pos = 0 THEN end + 1 ELSE end

(* Mutant: goes on at the space it stopped at.                             *)
GetNextParam_AtSpace(r) ==
  LET end == SpaceFrom(r.arg, r.pos)
  IN IF Wrote(r, end) <= ParamSize
     THEN [r EXCEPT !.params = Append(@, SubSeq(r.arg, r.pos + 1, end)), !.pos = end]
     ELSE [r EXCEPT !.overran = TRUE]

GetNextParam(r) ==
  LET end == SpaceFrom(r.arg, r.pos)
  IN IF Wrote(r, end) <= ParamSize
     THEN [r EXCEPT !.params = Append(@, SubSeq(r.arg, r.pos + 1, end)), !.pos = end + 1]
     ELSE [r EXCEPT !.overran = TRUE]

-----------------------------------------------------------------------------
(* kStartConsoleShell.  A prompt that another task's output pushes past    *)
(* the end of the screen loses what is behind it: the screen scrolls only  *)
(* after all of it was drawn, and the cursor goes to the start of the row. *)
ShowPrompt ==
  /\ Idle("shell")
  /\ Printf("shell", Prompt)
  /\ calm' = (~Overlaps("shell") /\ ofs \in Cells)
  /\ alone' = (calm' /\ ofs + Len(Prompt) <= Width * Height)
  /\ pc' = "read"
  /\ ran' = NoRun
  /\ UNCHANGED others

(* The first prompt leaves the buffer as it is, the later ones clear it.   *)
FirstPrompt == pc = "start" /\ ShowPrompt /\ UNCHANGED <<editor, lines>>

NextPrompt ==
  /\ pc = "prompt" /\ ShowPrompt
  /\ buf' = [i \in 0 .. BufSize - 1 |-> Nul]
  /\ UNCHANGED <<beyond, strays>>
  /\ idx' = 0 /\ line' = <<>> /\ peak' = 0
  /\ lines' = lines + 1

(* A key that is not kept: the modifiers, and any other in a full buffer,  *)
(* changes nothing.                                                        *)
Reads == pc = "read" /\ Idle("shell")
CharOf(key) == IF key = Tab THEN Sp ELSE key

(* Mutant: takes one character too many.                                   *)
HasRoom_OneMore == idx <= BufSize

HasRoom == idx < BufSize

CharKey ==
  /\ Reads /\ HasRoom
  /\ \E key \in Letters \union {Sp, Tab} :
       /\ Store(idx, CharOf(key))
       /\ line' = Append(line, CharOf(key))
       /\ Printf("shell", <<CharOf(key)>>)
  /\ idx' = idx + 1
  /\ peak' = IF peak <= idx THEN idx + 1 ELSE peak
  /\ Watched("shell")
  /\ UNCHANGED <<pc, counters, ran>>

BlankAt(at) == [p \in Cells |-> IF p = at THEN Sp ELSE screen[p]]
(* Mutant: at the start of a row the cursor stays in that row.             *)
Erased_SameRow ==
  LET at == IF ofs % Width = 0 THEN ofs ELSE ofs - 1 IN Draws("shell", BlankAt(at), at)

Erased == Draws("shell", BlankAt(ofs - 1), ofs - 1)

BackspaceKey ==
  /\ Reads /\ 0 < idx
  /\ Erased
  /\ idx' = idx - 1
  /\ line' = Front(line)
  /\ Watched("shell")
  /\ UNCHANGED <<pc, stack, peak, counters, ran>>

EnterKey ==
  /\ Reads /\ lines < MaxLines
  /\ Printf("shell", <<Nl>>)
  /\ pc' = IF 0 < idx THEN "execute" ELSE "prompt"
  /\ Watched("shell")
  /\ UNCHANGED <<editor, counters, ran>>

(* Mutant: no terminator, so that what was erased is executed too.         *)
Terminate_Never == UNCHANGED stack

Terminate == Store(idx, Nul)

(* kCls: kCleanScreen, then the cursor goes to the second row.             *)
CleanScreen == [p \in Cells |-> Sp]
RunCls == Draws("shell", CleanScreen, Width)

(* The line is terminated and looked up.  kCls runs at once, another       *)
(* command's handler in steps of its own.                                  *)
Execute ==
  /\ pc = "execute" /\ Idle("shell")
  /\ Terminate
  /\ ran' = ExecuteCmd(Frame(buf', beyond'))
  /\ \/ /\ ran'.cmd = Cls
        /\ RunCls /\ Watched("shell") /\ pc' = "prompt"
     \/ /\ ran'.cmd = NotCommand
        /\ Printf("shell", Append(StrAt(Frame(buf', beyond'), 0), Nl))
        /\ Watched("shell") /\ pc' = "prompt"
     \/ /\ ran'.cmd \in Commands \ {Cls}
        /\ pc' = "handler"
        /\ UNCHANGED <<console, calm, alone>>
  /\ UNCHANGED <<idx, line, peak, counters>>

(* A handler asks for parameters as often as it likes: some stop at an     *)
(* empty one, createtask and changepriority do not look.                   *)
ReadParam ==
  /\ pc = "handler" /\ ~ran.overran /\ ran.pos < Len(ran.arg)
  /\ ran' = GetNextParam(ran)
  /\ UNCHANGED <<console, pc, editor, alone, calm, counters>>

HandlerEnds ==
  /\ pc = "handler" /\ Idle("shell")
  /\ \E text \in Outputs : Printf("shell", text)
  /\ pc' = "prompt"
  /\ Watched("shell")
  /\ UNCHANGED <<editor, counters, ran>>

(* An overrun that stayed among the handler's own variables ends like any  *)
(* other handler; one that reached its saved registers or return address   *)
(* ends the model: nothing is said of the shell from there on.             *)
GoesAstray ==
  /\ pc \in {"handler", "astray"} /\ ran.overran
  /\ pc' = "astray"
  /\ UNCHANGED <<console, editor, alone, calm, counters, ran>>

ShellInit ==
  /\ screen = CleanScreen
  /\ \E row \in StartRows : ofs = row * Width
  /\ pend = [a \in Actors |-> NoPrint]
  /\ pc = "start"
  /\ \E c \in Junk : buf = [i \in 0 .. BufSize - 1 |-> c]
  /\ beyond \in Junk /\ strays = {}
  /\ idx = 0 /\ line = <<>> /\ peak = BufSize + 1
  /\ alone = TRUE /\ calm = TRUE
  /\ lines = 0 /\ others = 0
  /\ ran = NoRun

ShellNext ==
  \/ FirstPrompt \/ NextPrompt
  \/ CharKey \/ BackspaceKey \/ EnterKey
  \/ Execute \/ ReadParam \/ HandlerEnds \/ GoesAstray
  \/ OtherPrints
  \/ \E a \in Actors : SetCursor(a)

ShellSpec == ShellInit /\ [][ShellNext]_shellVars

-----------------------------------------------------------------------------
(* The types, and the cursor stays inside video memory as long as no two   *)
(* prints overlap, also when all of the line will have been erased: what   *)
(* other tasks print into the line, and scrolling, never bring the cursor  *)
(* closer to the top of the screen than the characters in the buffer       *)
(* (kPrintf, kConsolePrintString and the backspace of kStartConsoleShell). *)
CursorOnScreen ==
  /\ screen \in [Cells -> Letters \union {Sp} \union ToSet(Prompt)
                          \union UNION {ToSet(t) : t \in Outputs \union OtherTexts}]
  /\ pc \in {"start", "read", "execute", "handler", "astray", "prompt"}
  /\ idx \in 0 .. BufSize /\ idx = Len(line)
  /\ Reads /\ calm => ofs \in Cells /\ idx <= ofs

(* When the shell waits for a key, the prompt fitted on the screen and     *)
(* nobody else has printed since, the prompt and the line as it will be    *)
(* executed stand right before the cursor, however the line has been       *)
(* edited, wrapped and scrolled (the character and backspace branches of   *)
(* kStartConsoleShell on kConsolePrintString).                             *)
LineShown ==
  Reads /\ alone =>
    LET shown == Prompt \o line
    IN /\ Len(shown) <= ofs
       /\ \A i \in 1 .. Len(shown) : screen[ofs - Len(shown) + i - 1] = shown[i]
       /\ \A i \in 1 .. Len(line) : buf[i - 1] = line[i]

(* The command is the first word of the line when that is one, and it is   *)
(* given everything after the first space.  A line of one word gives the   *)
(* handler nothing, unless more had been typed and erased again, or the    *)
(* line is the first one: erasing leaves the bytes in the buffer, the      *)
(* first buffer is never cleared, and the handler's string starts one byte *)
(* after the terminator (kExecuteCmd).  A full line is no exception,       *)
(* although its terminator falls behind the buffer.                        *)
RunsLine(r) ==
  LET spaces == {i \in 1 .. Len(r.line) : r.line[i] = Sp}
      word == IF spaces = {} THEN r.line
              ELSE SubSeq(r.line, 1, (CHOOSE i \in spaces : \A j \in spaces : i <= j) - 1)
      rest == SubSeq(r.line, Len(word) + 2, Len(r.line))
      known == Commands \union {Cls}
  IN /\ r.cmd = IF word \in known THEN word ELSE NotCommand
     /\ r.cmd \in known /\ (spaces # {} \/ r.peak <= Len(r.line) + 1) => r.arg = rest

(* The parameters w a handler has read are the first pieces of its string  *)
(* s, cut at every single space: two spaces that meet give an empty one,   *)
(* which kGetNextParam returns as length 0, like the end of the list.      *)
AreWords(w, s) ==
  LET arg == Append(s, Sp)
      behind[i \in 0 .. Len(w)] == IF i = 0 THEN 0 ELSE behind[i - 1] + Len(w[i]) + 1
  IN \A i \in 1 .. Len(w) :
       /\ Sp \notin ToSet(w[i])
       /\ behind[i] <= Len(arg)
       /\ SubSeq(arg, behind[i - 1] + 1, behind[i]) = Append(w[i], Sp)

(* What runs is what was typed, whatever was typed and erased before, on a *)
(* full line too, and the parameters read are its words.  The shell writes *)
(* outside its line buffer nothing but the terminator of a full line, one  *)
(* byte behind it, and only a parameter string at least as long as the     *)
(* handler's buffer overruns that one (kStartConsoleShell, kExecuteCmd and *)
(* kGetNextParam; what else such an overrun does is not modelled).         *)
RunsWhatWasTyped ==
  /\ ran # NoRun => RunsLine(ran)
  /\ AreWords(ran.params, ran.arg)
  /\ ran.overran => ParamSize <= Len(ran.arg)
  /\ strays \subseteq {<<BufSize, Nul>>}
=============================================================================
