------------------------------- MODULE Lexer --------------------------------
(***************************************************************************)
(* Syntax highlighting of SciTECO code (lexer.c): a parser in lexing mode  *)
(* is fed with the document, which is only styled as far as it is shown    *)
(* and restyled behind every change, from the last place on a line before  *)
(* it where the parser was in its start state.                             *)
(*                                                                         *)
(* Characters are names: "nl", "ESC" and "^Q" are control characters,      *)
(* "bad" is an invalid byte and "~" no command; "I" takes a string, "FR"   *)
(* two, "^U" a register and a string, "Q" a register.  Positions count     *)
(* characters from 0.                                                      *)
(***************************************************************************)
EXTENDS Integers, Sequences, SequencesExt, FiniteSetsExt

CONSTANTS
  Scenarios,   \* documents, the edits of each, and the label the interpreter searches
  MaxEdits     \* bound: edits of a document

VARIABLES
  scenario,    \* [text, edits, skips, fold, macrodef]
  text,        \* the document: external, like the following
  gap,         \* SCI_GETGAPPOSITION: the document is in two pieces, before and behind it
  endStyled,   \* SCI_GETENDSTYLED
  styles,      \* the styles of the characters
  states,      \* the line states: columns of clean parser states, or -1
  levels,      \* the fold levels of the lines
  passive,     \* lexing has changed nothing else
  fresh,       \* ghost: the document has been styled after its last edit
  edits        \* ghost: the number of edits so far

vars == <<scenario, text, gap, endStyled, styles, states, levels, passive, fresh, edits>>

-----------------------------------------------------------------------------
(* Lines of the text t.                                                    *)

Newlines(t, n) == {i \in 1..n : t[i] = "nl"}
LineOf(t, pos) == Cardinality(Newlines(t, pos))
LineCount(t) == LineOf(t, Len(t)) + 1
LineStart(t, line) == IF line = 0 THEN 0 ELSE CHOOSE p \in Newlines(t, Len(t)) : LineOf(t, p) = line

-----------------------------------------------------------------------------
(* The parser in lexing mode.                                              *)

Noops == {"nl", " "}
Digits == {"1"}
Operators == {"+", "-", "*", "#"}

(* strings: the string arguments that follow; builds: they may have string *)
(* building constructs; skipped: the label the interpreter searches.       *)
Fresh(skipped) ==
  [st |-> "start", at |-> FALSE, strings |-> 0, builds |-> TRUE, escape |-> "ESC", nesting |-> 1,
   quoted |-> FALSE, name |-> 0, label |-> <<>>, table |-> {}, skips |-> skipped, mode |-> "lexing"]

Error(m) == [m EXCEPT !.st = "error"]
IsStart(m) == m.st \in {"start", "escape"}
To(m, st) == [m EXCEPT !.st = st]
Expects(m, st, n, builds) == [m EXCEPT !.st = st, !.strings = n, !.builds = builds]

(* Simple transitions: of these commands only I, F and ^U take an @.       *)
Transition(m, c) ==
  CASE c = "F"   -> To(m, "fcommand")
    [] c = "I"   -> Expects(m, "string", 1, TRUE)
    [] c = "^U"  -> Expects(m, "qreg", 1, FALSE)
    [] m.at      -> Error(m)
    [] c = "!"   -> To(m, "label")
    [] c = "Q"   -> Expects(m, "qreg", 0, TRUE)
    [] c = "ESC" -> To(m, "escape")
    [] c \in Operators \cup {"{", "}", "Z"} -> To(m, "start")
    [] OTHER     -> Error(m)

(* teco_state_start_input(): colons are ignored, a second @ is an error.   *)
StartInput(m, c) ==
  CASE c \in Noops \cup Digits \cup {"@"} /\ m.at -> Error(m)
    [] c \in Noops \cup Digits \cup {":"} -> To(m, "start")
    [] c = "@" -> [To(m, "start") EXCEPT !.at = TRUE]
    [] OTHER -> Transition(m, c)

EscapeInput(m, c) == IF c = "ESC" THEN To(m, "start") ELSE StartInput(m, c)
FInput(m, c) == IF c = "R" THEN Expects(m, "string", 2, TRUE) ELSE Error(m)

(* Labels are collected and defined even though nothing is executed.       *)
Defined(m) == [To(m, "start") EXCEPT !.label = <<>>, !.table = @ \cup {m.label}]
LabelInput(m, c) ==
  CASE m.label = <<>> /\ c = "*" -> To(m, "blockcomment")
    [] m.label = <<>> /\ c = "!" -> To(m, "eolcomment")
    [] c # "!" -> [m EXCEPT !.label = Append(@, c)]
    [] m.label = m.skips /\ m.label \notin m.table -> [Defined(m) EXCEPT !.skips = <<>>, !.mode = "normal"]
    [] OTHER -> Defined(m)

CommentInput(m, c) ==
  CASE m.st = "eolcomment" -> IF c = "nl" THEN To(m, "start") ELSE m
    [] m.st = "blockcomment" -> IF c = "*" THEN To(m, "star") ELSE m
    [] m.st = "star" -> IF c = "!" THEN To(m, "start") ELSE To(m, "blockcomment")

(* Names of one character, or of two behind a number sign.                 *)
QRegInput(m, c) ==
  CASE m.name = 0 /\ c = "#" -> [m EXCEPT !.name = 2]
    [] m.name = 2 -> [m EXCEPT !.name = 1]
    [] OTHER -> [To(m, IF m.strings = 0 THEN "start" ELSE "string") EXCEPT !.name = 0]

(* The end of a string: behind all but the last one in braces follows a    *)
(* new delimiter.                                                          *)
StringDone(m) ==
  IF m.strings = 1
  THEN [To(m, "start") EXCEPT !.escape = "ESC", !.nesting = 1, !.strings = 0]
  ELSE [m EXCEPT !.at = (m.escape = "{"), !.nesting = 1, !.strings = @ - 1]

(* Braces nest; other delimiters end the string at once.                   *)
Nesting(m, c) ==
  CASE m.quoted -> m.nesting
    [] m.escape = "{" /\ c = "{" -> m.nesting + 1
    [] m.escape = "{" /\ c = "}" -> m.nesting - 1
    [] m.escape # "{" /\ c = m.escape -> m.nesting - 1
    [] OTHER -> m.nesting

(* teco_state_expectstring_input().                                        *)
StringInput(m, c) ==
  CASE m.at /\ c \in Noops -> m
    [] m.at -> [m EXCEPT !.at = FALSE, !.escape = c]
    [] Nesting(m, c) = 0 -> StringDone(m)
    [] OTHER -> [m EXCEPT !.nesting = Nesting(m, c), !.quoted = (m.builds /\ ~m.quoted /\ c = "^Q")]

Input(m, c) ==
  CASE m.st = "start"    -> StartInput(m, c)
    [] m.st = "escape"   -> EscapeInput(m, c)
    [] m.st = "fcommand" -> FInput(m, c)
    [] m.st = "label"    -> LabelInput(m, c)
    [] m.st = "string"   -> StringInput(m, c)
    [] m.st = "qreg"     -> QRegInput(m, c)
    [] OTHER             -> CommentInput(m, c)

(* The styles of the states, and what a comment or label starts with.      *)
StyleOf(st) ==
  CASE st \in {"start", "escape", "fcommand"} -> "command"
    [] st \in {"blockcomment", "star", "eolcomment"} -> "comment"
    [] OTHER -> st

(* teco_lexer_getstyle(): the machine that has been fed with c, the style. *)
StyleBefore(m, c) ==
  CASE IsStart(m) /\ c \in Digits    -> "number"
    [] IsStart(m) /\ c \in Operators -> "operator"
    [] OTHER -> StyleOf(m.st)

Styled(m, next, c) ==
  IF next.st = "error"
  THEN [machine |-> Fresh(m.skips), style |-> "invalid"]
  ELSE [machine |-> next,
        style |-> IF StyleOf(next.st) \in {"comment", "label"} THEN StyleOf(next.st) ELSE StyleBefore(m, c)]

GetStyle(m, c) == Styled(m, Input(m, c), c)

-----------------------------------------------------------------------------
(* teco_lexer_step().  A run of the lexer: both machines, the piece of text *)
(* from start on and the place in it, the last clean column of the line,   *)
(* and what it has set.  The properties "fold" and "lexer.sciteco.macrodef" *)
(* switch folding and the machine for macros off.                          *)

InBraces(m) == m.escape = "{"
FoldLevel(m) == m.nesting - 1 + (IF InBraces(m) THEN 1 ELSE 0)
Level(n, header) == [level |-> n, header |-> header]

(* Braces that open a string make their line a header.                     *)
Folded(run, m, next) ==
  CASE run.fold /\ FoldLevel(next) > FoldLevel(m) ->
         [run.levels EXCEPT ![run.line + 1] = Level(FoldLevel(m), TRUE)]
    [] run.fold /\ FoldLevel(next) <= FoldLevel(m) /\ run.col = 0 ->
         [run.levels EXCEPT ![run.line + 1] = Level(FoldLevel(m), FALSE)]
    [] OTHER -> run.levels

(* Comments start one character before they are recognised.                *)
SetStyles(ss, pos, style) ==
  [i \in DOMAIN ss |-> IF i \in (pos + (IF style = "comment" THEN 0 ELSE 1))..(pos + 1) THEN style ELSE ss[i]]

(* The character c has been given a style, the machines are now main and   *)
(* macro.                                                                  *)
Placed(run, c, main, macro, style, folds) ==
  LET col == IF c = "nl" THEN 0 ELSE run.col + 1
      clean == style # "invalid" /\ IsStart(main) /\ ~main.at
  IN [run EXCEPT !.main = main, !.macro = macro, !.levels = folds, !.pc = @ + 1,
        !.styles = SetStyles(@, run.start + run.pc, style),
        !.states = IF c = "nl" THEN [@ EXCEPT ![run.line + 1] = run.safe] ELSE @,
        !.line = IF c = "nl" THEN @ + 1 ELSE @, !.col = col,
        !.safe = IF clean THEN col ELSE IF c = "nl" THEN -1 ELSE @]

(* What is in braces is styled as a macro by a machine of its own.         *)
PlacedInMacro(run, c, g) ==
  IF run.macrodef /\ (InBraces(run.main) \/ InBraces(g.machine))
  THEN Placed(run, c, g.machine, GetStyle(run.macro, c).machine, GetStyle(run.macro, c).style,
              Folded(run, run.main, g.machine))
  ELSE Placed(run, c, g.machine, run.macro, g.style, Folded(run, run.main, g.machine))

(* A hash-bang line is a comment without a clean state.                    *)
IsHashBang(run, t) == run.line = 0 /\ run.col = 0 /\ t[run.start + 1] = "#"
BangLength(t) == IF LineCount(t) = 1 THEN Len(t) ELSE LineStart(t, 1)
HashBang(run, t) ==
  [run EXCEPT !.styles = [i \in DOMAIN @ |-> IF i <= BangLength(t) THEN "comment" ELSE @[i]],
              !.states = [@ EXCEPT ![1] = -1], !.line = 1, !.safe = 0, !.pc = BangLength(t)]

Step(run, t) ==
  LET c == t[run.start + run.pc + 1] IN
  CASE IsHashBang(run, t) -> HashBang(run, t)
    [] ~IsHashBang(run, t) /\ c = "bad" -> Placed(run, c, run.main, run.macro, "invalid", run.levels)
    [] OTHER -> PlacedInMacro(run, c, GetStyle(run.main, c))

-----------------------------------------------------------------------------
(* teco_lexer_style().                                                     *)

RECURSIVE Steps(_, _, _)
Steps(run, t, len) == IF run.pc >= len THEN run ELSE Steps(Step(run, t), t, len)

(* The piece before the gap; a hash-bang line is lexed beyond it.          *)
IsSplit(start, gapPos, end) == start < gapPos /\ gapPos < end
BeforeGap(run, t, gapPos, end) ==
  IF ~IsSplit(run.start, gapPos, end) THEN run
  ELSE LET r == Steps(run, t, gapPos - run.start) IN [r EXCEPT !.start = @ + r.pc, !.pc = 0]
Pieces(run, t, gapPos, end) ==
  LET r == BeforeGap(run, t, gapPos, end) IN Steps(r, t, end - r.start)

(* The state of the last line.                                             *)
Finished(run) ==
  [run EXCEPT !.states = IF run.line < Len(@) THEN [@ EXCEPT ![run.line + 1] = run.safe] ELSE @]

(* From the column col of a line to end, in a text with a gap; the styles, *)
(* line states and fold levels of before are in old.                       *)
Lexed(t, gapPos, end, line, col, old) ==
  LET run == [main |-> Fresh(scenario.skips), macro |-> Fresh(scenario.skips), line |-> line, col |-> col,
              safe |-> col, start |-> LineStart(t, line) + col, pc |-> 0,
              fold |-> scenario.fold, macrodef |-> scenario.macrodef,
              styles |-> old.styles, states |-> old.states, levels |-> old.levels]
  IN Finished(Pieces(run, t, gapPos, end))

(* The line to restart on: the last one before that of pos with a clean    *)
(* state, or the first one.  Faulty: the line before, whatever its state.  *)
RestartLineBefore(t, ls, pos) == Max({0, LineOf(t, pos) - 1})
RestartLine(t, ls, pos) ==
  Max({l \in 0..(LineOf(t, pos) - 1) : ls[l + 1] >= 0} \cup {0})
RestartCol(t, ls, pos) ==
  IF LineOf(t, pos) = 0 THEN 0 ELSE Max({0, ls[RestartLine(t, ls, pos) + 1]})

RestartLineNow == RestartLine(text, states, endStyled)
RestartColNow == RestartCol(text, states, endStyled)
Restyled(end) ==
  Lexed(text, gap, end, RestartLineNow, RestartColNow,
        [styles |-> styles, states |-> states, levels |-> levels])

-----------------------------------------------------------------------------
(* The document, external: Scintilla keeps styles, line states and fold    *)
(* levels with the text and asks for styles up to the end of a line.       *)

Unstyled(n) == [i \in 1..n |-> "default"]
Init ==
  /\ scenario \in Scenarios
  /\ text = scenario.text
  /\ gap = Len(text)
  /\ endStyled = 0
  /\ styles = Unstyled(Len(text))
  /\ states = [l \in 1..LineCount(text) |-> 0]
  /\ levels = [l \in 1..LineCount(text) |-> Level(0, FALSE)]
  /\ passive = TRUE
  /\ fresh = FALSE
  /\ edits = 0

(* SCI_GETRANGEPOINTER of start and a length moves the gap to start if it  *)
(* is in that range: here the length is the position of the gap.           *)
GapMoved(start, end) == IF IsSplit(start, gap, end) /\ start > 0 THEN start ELSE gap

StyleNeeded(end) ==
  /\ end > endStyled
  /\ end = Len(text) \/ text[end] = "nl"
  /\ \E run \in {Restyled(end)} :
       /\ styles' = run.styles /\ states' = run.states /\ levels' = run.levels
       /\ passive' = (passive /\ run.main.mode = "lexing" /\ run.macro.mode = "lexing")
  /\ gap' = GapMoved(LineStart(text, RestartLineNow) + RestartColNow, end)
  /\ endStyled' = end
  /\ fresh' = TRUE
  /\ UNCHANGED <<scenario, text, edits>>

(* PerLine: a new line gets the data of the line it is inserted before;    *)
(* a removed one leaves its header to the line before.                     *)
InsertedLine(s, line, default) == InsertAt(s, line + 1, IF line < Len(s) THEN s[line + 1] ELSE default)
RemovedLevel(s, line) ==
  LET left == RemoveAt(s, line + 1)
  IN IF line = Len(left) THEN [left EXCEPT ![line].header = FALSE]
     ELSE [left EXCEPT ![line].header = @ \/ s[line + 1].header]

LineInserted(pos) ==
  LineOf(text, pos) + (IF pos > 0 /\ pos = LineStart(text, LineOf(text, pos)) THEN 0 ELSE 1)

Insertion(pos, c) ==
  /\ text' = InsertAt(text, pos + 1, c)
  /\ styles' = InsertAt(styles, pos + 1, "default")
  /\ IF c = "nl"
     THEN /\ states' = InsertedLine(states, LineInserted(pos), 0)
          /\ levels' = InsertedLine(levels, LineInserted(pos), Level(0, FALSE))
     ELSE UNCHANGED <<states, levels>>

Deletion(pos) ==
  /\ text' = RemoveAt(text, pos + 1)
  /\ styles' = RemoveAt(styles, pos + 1)
  /\ IF text[pos + 1] = "nl"
     THEN /\ states' = RemoveAt(states, LineOf(text, pos) + 2)
          /\ levels' = RemovedLevel(levels, LineOf(text, pos) + 1)
     ELSE UNCHANGED <<states, levels>>

Edit(pos, c) ==
  /\ edits < MaxEdits
  /\ \/ c # "" /\ pos <= Len(text) /\ Insertion(pos, c)
     \/ c = "" /\ pos < Len(text) /\ Deletion(pos)
  /\ gap' = IF c = "" THEN pos ELSE pos + 1
  /\ endStyled' = Min({endStyled, pos})
  /\ fresh' = FALSE
  /\ edits' = edits + 1
  /\ UNCHANGED <<scenario, passive>>

Next ==
  \/ \E end \in 1..Len(text) : StyleNeeded(end)
  \/ \E e \in scenario.edits : Edit(e[1], e[2])

Spec == Init /\ [][Next]_vars

-----------------------------------------------------------------------------
(* Properties.                                                             *)

(* Restyling from the last clean state before a change gives every styled  *)
(* character, clean state and fold level that styling the whole document   *)
(* in one piece would give, wherever the gap splits it: no edit leaves     *)
(* stale colours or folds (teco_lexer_style(), "we search for the first    *)
(* line before start that has a known clean parser state").                *)
Whole ==
  Lexed(text, 0, endStyled, 0, 0,
        [styles |-> Unstyled(Len(text)), states |-> [l \in DOMAIN states |-> 0],
         levels |-> [l \in DOMAIN levels |-> Level(0, FALSE)]])
StyledLines == 1..(LineOf(text, endStyled - 1) + 1)
AsStyledAtOnce(whole) ==
  /\ SubSeq(styles, 1, endStyled) = SubSeq(whole.styles, 1, endStyled)
  /\ \A l \in StyledLines : states[l] = whole.states[l] /\ levels[l] = whole.levels[l]
StylesAreFresh == fresh => AsStyledAtOnce(Whole)

(* "Parse, but don't execute" (parser.h, TECO_MODE_LEXING): highlighting a *)
(* document leaves the label alone that the interpreter searches.          *)
LexingIsPassive == passive
=============================================================================
