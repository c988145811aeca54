--------------------------- MODULE StringBuilding ---------------------------
(***************************************************************************)
(* String arguments: how characters become strings (parser.c) and names of *)
(* Q-Registers (qreg.c).                                                   *)
(*                                                                         *)
(* A machine collects the argument of a command.  It contains a string     *)
(* building machine, which contains a machine for register names, which    *)
(* contains a string building machine for long names, and so on: level[k]  *)
(* are the fields of the k-th string building machine and of the register  *)
(* machine in it.  All assignments that can be rubbed out push a token.    *)
(*                                                                         *)
(* Characters are names; "^A" is a control character and "ESC" escape.     *)
(***************************************************************************)
EXTENDS Integers, Sequences, SequencesExt

CONSTANTS
  Globals,     \* the global Q-Registers: names to their [string, number]
  Locals,      \* the local ones
  CharCodes,   \* the valid codepoints: numbers to characters
  Depth        \* bound: string building machines in each other

-----------------------------------------------------------------------------
(* Characters.                                                             *)

Capital == [a |-> "A", b |-> "B", e |-> "E", n |-> "N", p |-> "P", q |-> "Q",
            r |-> "R", u |-> "U", v |-> "V", w |-> "W"]
Capitals == {Capital[c] : c \in DOMAIN Capital}
ToUpper(c) == IF c \in DOMAIN Capital THEN Capital[c] ELSE c
ToLower(c) == IF c \in Capitals THEN CHOOSE l \in DOMAIN Capital : Capital[l] = c ELSE c

(* TECO_CTL_KEY() and TECO_CTL_ECHO().                                     *)
Echoes == Capitals \cup {"[", "]", "^", "@"}
CtlKey(c) == CASE c = "[" -> "ESC" [] c = "]" -> "^]" [] c = "^" -> "^^" [] c = "@" -> "^@"
               [] c \in Capitals -> (CHOOSE p \in {<<"A", "^A">>, <<"B", "^B">>, <<"E", "^E">>,
                    <<"N", "^N">>, <<"P", "^P">>, <<"Q", "^Q">>, <<"R", "^R">>, <<"U", "^U">>,
                    <<"V", "^V">>, <<"W", "^W">>} : p[1] = c)[2]
               [] OTHER -> c
Controls == {CtlKey(c) : c \in Echoes}
Echo(c) == CHOOSE e \in Echoes : CtlKey(e) = c

Folded(mode, s) ==
  CASE mode = "upper" -> [i \in DOMAIN s |-> ToUpper(s[i])]
    [] mode = "lower" -> [i \in DOMAIN s |-> ToLower(s[i])]
    [] OTHER -> s

Digit == <<"0", "1", "2", "3", "4", "5", "6", "7", "8", "9">>
Format(n) == IF n < 10 THEN <<Digit[n + 1]>> ELSE <<Digit[(n \div 10) + 1], Digit[(n % 10) + 1]>>
IsDigit(c) == Contains(Digit, c)
Decimal(s) == FoldLeft(LAMBDA n, c : 10 * n + (CHOOSE d \in 0..9 : Digit[d + 1] = c), 0, s)

(* teco_globber_escape_pattern(), and g_shell_quote() as far as it matters. *)
Wild == {"*", "?", "["}
EscapePattern(s) ==
  FlattenSeq([i \in DOMAIN s |-> IF s[i] \in Wild THEN <<"[", s[i], "]">> ELSE <<s[i]>>])
ShellQuote(s) == <<"'">> \o s \o <<"'">>

-----------------------------------------------------------------------------
(* The machine, its assignments and its undo tokens.                       *)

NewLevel == [state |-> "start", mode |-> "normal", code |-> <<>>,
             spec |-> "start", name |-> <<>>, nesting |-> 0, table |-> "global"]
NewMachine(executes, at) ==
  [executes |-> executes, level |-> [k \in 1..(Depth + 1) |-> NewLevel],
   string |-> <<>>, escape |-> "ESC", nesting |-> 1, at |-> at,
   ended |-> FALSE, err |-> "none", tokens |-> <<>>]

(* Level 0 stands for the fields of the argument itself.                   *)
Field(m, k, f) == IF k = 0 THEN m[f] ELSE m.level[k][f]
Assign(m, k, f, v) == IF k = 0 THEN [m EXCEPT ![f] = v] ELSE [m EXCEPT !.level[k][f] = v]
Token(m, k, f) == [m EXCEPT !.tokens = Append(@, [k |-> k, f |-> f, v |-> Field(m, k, f)])]
Undoable(m, k, f, v) == Assign(Token(m, k, f), k, f, v)

(* A transition of a machine.                                              *)
GoTo(m, k, f, state) == IF Field(m, k, f) = state THEN m ELSE Undoable(m, k, f, state)
Fail(m, err) == [m EXCEPT !.err = err]

RunToken(m, t) == Assign(m, t.k, t.f, t.v)
Undone(m, n) ==
  [FoldRight(LAMBDA t, y : RunToken(y, t), SubSeq(m.tokens, n + 1, Len(m.tokens)), m)
     EXCEPT !.tokens = SubSeq(m.tokens, 1, n)]

(* The string that level k builds: the argument or the name of a register. *)
Add(m, k, s) ==
  IF ~m.executes THEN m
  ELSE IF k = 1 THEN [m EXCEPT !.string = @ \o s] ELSE [m EXCEPT !.level[k - 1].name = @ \o s]
AddFolded(m, k, s) == Add(m, k, Folded(m.level[k].mode, s))

(* A long name may be the argument of all other states, too.               *)
OfRegister == {"num", "u", "q", "quote", "n"}
InName(m, k) == m.level[k].state \in OfRegister /\ m.level[k].spec = "string"
Active(m) == CHOOSE k \in 1..(Depth + 1) : ~InName(m, k) /\ \A j \in 1..(k - 1) : InName(m, j)

-----------------------------------------------------------------------------
(* Names of Q-Registers.                                                   *)

(* A register machine is used again for the next name, and so are all the  *)
(* machines in it.  (No token restores the table.)                         *)
ResetLevel(m, k) ==
  LET state == GoTo(GoTo(m, k, "spec", "start"), k + 1, "state", "start")
      mode == Undoable(state, k + 1, "mode", "normal")
      name == Undoable(Undoable(mode, k, "name", <<>>), k, "nesting", 0)
  IN Assign(name, k, "table", "global")
SpecReset(m, k) == FoldLeft(ResetLevel, m, [i \in 1..(Depth + 1 - k) |-> k + i - 1])

Names(m, k) == IF m.level[k].table = "global" THEN Globals ELSE Locals
AddName(m, k, c) == IF m.executes THEN Undoable(m, k, "name", Append(m.level[k].name, c)) ELSE m

(* A character by its number, if there is such a character.                *)
Codepoint(m, k, n) ==
  IF n \in DOMAIN CharCodes THEN AddFolded(m, k, <<CharCodes[n]>>) ELSE Fail(m, "codepoint")

(* What a register contributes to the string.                              *)
WithoutNull(m, s, added) == IF Contains(s, "^@") THEN Fail(m, "contains null") ELSE added
QuotedString(m, k, s) == WithoutNull(m, s, AddFolded(m, k, ShellQuote(s)))
PatternString(m, k, s) == WithoutNull(m, s, AddFolded(m, k, EscapePattern(s)))
Expanded(m, k, reg) ==
  CASE m.level[k].state = "num" -> AddFolded(m, k, Format(reg.number))
    [] m.level[k].state = "u" -> Codepoint(m, k, reg.number)
    [] m.level[k].state = "q" -> AddFolded(m, k, reg.string)
    [] m.level[k].state = "quote" -> QuotedString(m, k, reg.string)
    [] m.level[k].state = "n" -> PatternString(m, k, reg.string)

(* Mutant: a register machine that is only parsing is never done.          *)
SpecDoneExecuting(m, k) ==
  LET name == m.level[k].name
      y == GoTo(m, k, "spec", "start")
  IN IF ~m.executes THEN y
     ELSE IF name \notin DOMAIN Names(m, k) THEN Fail(m, "invalid register")
     ELSE GoTo(Expanded(y, k, Names(m, k)[name]), k, "state", "start")

(* teco_state_qregspec_done() and what the string building machine makes   *)
(* of the register.                                                        *)
SpecDone(m, k) ==
  LET name == m.level[k].name
      y == GoTo(m, k, "spec", "start")
  IN IF ~m.executes THEN GoTo(y, k, "state", "start")
     ELSE IF name \notin DOMAIN Names(m, k) THEN Fail(m, "invalid register")
     ELSE GoTo(Expanded(y, k, Names(m, k)[name]), k, "state", "start")

SpecGlobal(m, k, c) ==
  CASE c = "^" -> GoTo(m, k, "spec", "caret")
    [] c = "#" -> GoTo(m, k, "spec", "first")
    [] c = "[" -> GoTo(Undoable(m, k, "nesting", m.level[k].nesting + 1), k, "spec", "string")
    [] OTHER -> SpecDone(AddName(m, k, ToUpper(c)), k)

SpecInput(m, k, c) ==
  LET spec == m.level[k].spec IN
  CASE spec = "start" /\ c = "." -> GoTo(Undoable(m, k, "table", "local"), k, "spec", "global")
    [] spec = "start" /\ c # "." -> SpecGlobal(m, k, c)
    [] spec = "global" -> SpecGlobal(m, k, c)
    [] spec = "caret" -> IF ToUpper(c) \in Echoes THEN SpecDone(AddName(m, k, CtlKey(ToUpper(c))), k)
                         ELSE Fail(m, "syntax")
    [] spec = "first" -> GoTo(AddName(m, k, ToUpper(c)), k, "spec", "second")
    [] spec = "second" -> SpecDone(AddName(m, k, ToUpper(c)), k)

-----------------------------------------------------------------------------
(* String building.                                                        *)

Escaped(m, k, c) == GoTo(AddFolded(m, k, <<c>>), k, "state", "start")

(* Mutant: ^P without a token for the mode.                                *)
CtlWithoutToken(m, k, chr) ==
  LET c == ToUpper(chr) IN
  CASE c = "P" -> GoTo(Assign(m, k, "mode", "disabled"), k, "state", "start")
    [] c = "^" -> GoTo(Add(m, k, <<"^">>), k, "state", "start")
    [] c \in {"Q", "R"} -> GoTo(m, k, "state", "escaped")
    [] c = "V" -> GoTo(m, k, "state", "lower")
    [] c = "W" -> GoTo(m, k, "state", "upper")
    [] c = "E" -> GoTo(m, k, "state", "ctle")
    [] c \notin Echoes -> GoTo(Add(m, k, <<"^", c>>), k, "state", "start")
    [] OTHER -> GoTo(Add(m, k, <<CtlKey(c)>>), k, "state", "start")

(* The character behind a caret, or a control character.                   *)
Ctl(m, k, chr) ==
  LET c == ToUpper(chr) IN
  CASE c = "^" -> GoTo(Add(m, k, <<"^">>), k, "state", "start")
    [] c = "P" -> GoTo(Undoable(m, k, "mode", "disabled"), k, "state", "start")
    [] c \in {"Q", "R"} -> GoTo(m, k, "state", "escaped")
    [] c = "V" -> GoTo(m, k, "state", "lower")
    [] c = "W" -> GoTo(m, k, "state", "upper")
    [] c = "E" -> GoTo(m, k, "state", "ctle")
    [] c \notin Echoes -> GoTo(Add(m, k, <<"^", c>>), k, "state", "start")
    [] OTHER -> GoTo(Add(m, k, <<CtlKey(c)>>), k, "state", "start")

Start(m, k, c) ==
  IF m.level[k].mode = "disabled" \/ c = "^^" THEN Escaped(m, k, c)
  ELSE IF c = "^" THEN GoTo(m, k, "state", "ctl")
  ELSE IF c \in Controls THEN Ctl(m, k, Echo(c))
  ELSE Escaped(m, k, c)

(* ^V and ^W: one character, or all that follow.                           *)
CaseCtl(m, k, chr, mode, again) ==
  LET c == ToUpper(chr)
      y == IF ~m.executes THEN m
           ELSE IF c = again THEN Undoable(m, k, "mode", mode)
           ELSE Add(m, k, <<CtlKey(c)>>)
  IN GoTo(y, k, "state", "start")
OneCase(m, k, c, mode, again, ctl) ==
  IF c = "^" THEN GoTo(m, k, "state", ctl)
  ELSE IF c \in Controls THEN CaseCtl(m, k, Echo(c), mode, again)
  ELSE GoTo(Add(m, k, Folded(mode, <<c>>)), k, "state", "start")

ConstructOf(c) ==
  CASE c = "\\" -> "num" [] c = "U" -> "u" [] c = "<" -> "code"
    [] c = "Q" -> "q" [] c = "@" -> "quote" [] c = "N" -> "n" [] OTHER -> "none"
CtlE(m, k, c) ==
  LET construct == ConstructOf(ToUpper(c)) IN
  IF construct = "none" THEN GoTo(AddFolded(m, k, <<"^E", c>>), k, "state", "start")
  ELSE GoTo(SpecReset(m, k), k, "state", construct)

(* ^E<...>.  (Codes are decimal numbers here.)                             *)
IsNumber(code) == code # <<>> /\ \A i \in DOMAIN code : IsDigit(code[i])
EndCode(m, k) ==
  IF IsNumber(m.level[k].code)
  THEN GoTo(Undoable(Codepoint(m, k, Decimal(m.level[k].code)), k, "code", <<>>), k, "state", "start")
  ELSE Fail(m, "codepoint")
Code(m, k, c) ==
  CASE c # ">" /\ m.executes -> Undoable(m, k, "code", Append(m.level[k].code, c))
    [] c # ">" /\ ~m.executes -> m
    [] c = ">" /\ m.executes -> EndCode(m, k)
    [] c = ">" /\ ~m.executes -> GoTo(m, k, "state", "start")

(* teco_machine_stringbuilding_input() of the innermost machine.           *)
Build(m, k, c) ==
  LET state == m.level[k].state IN
  CASE state = "start" -> Start(m, k, c)
    [] state = "ctl" -> Ctl(m, k, c)
    [] state = "escaped" -> Escaped(m, k, c)
    [] state = "lower" -> OneCase(m, k, c, "lower", "V", "lower ctl")
    [] state = "upper" -> OneCase(m, k, c, "upper", "W", "upper ctl")
    [] state = "lower ctl" -> CaseCtl(m, k, c, "lower", "V")
    [] state = "upper ctl" -> CaseCtl(m, k, c, "upper", "W")
    [] state = "ctle" -> CtlE(m, k, c)
    [] state = "code" -> Code(m, k, c)
    [] state \in OfRegister -> SpecInput(m, k, c)

(* A character of a long name: brackets count unless a construct is        *)
(* unfinished (teco_state_qregspec_string_input()).                        *)
NameInput(m, k, c) ==
  LET atStart == m.level[k + 1].state = "start"
      nesting == m.level[k].nesting
      y == IF atStart /\ c = "[" THEN Undoable(m, k, "nesting", nesting + 1)
           ELSE IF atStart /\ c = "]" THEN Undoable(m, k, "nesting", nesting - 1)
           ELSE m
  IN IF atStart /\ c = "]" /\ nesting = 1 THEN SpecDone(y, k)
     ELSE Build(IF m.executes THEN Token(y, k, "name") ELSE y, k + 1, c)

StringInput(m, c) ==
  LET k == Active(m) IN IF k > 1 THEN NameInput(m, k - 1, c) ELSE Build(m, 1, c)

-----------------------------------------------------------------------------
(* teco_state_expectstring_input(): the terminator, then the string.       *)

Noop == {" "}

NestingAfter(m, c) ==
  IF m.level[1].state # "start" THEN m.nesting
  ELSE IF m.escape = "{"
       THEN CASE c = "{" -> m.nesting + 1 [] c = "}" -> m.nesting - 1 [] OTHER -> m.nesting
  ELSE IF ToUpper(c) = m.escape THEN m.nesting - 1 ELSE m.nesting

(* The command is done: the string is taken and the machines are reset.    *)
Done(m) ==
  LET y == GoTo(SpecReset(m, 1), 1, "state", "start")
      z == Assign(Undoable(y, 1, "mode", "normal"), 0, "nesting", 1)
  IN Undoable(Undoable(z, 0, "escape", "ESC"), 0, "ended", TRUE)

Input(m, c) ==
  IF m.at /\ c \in Noop THEN m
  ELSE IF m.at THEN Undoable(Undoable(m, 0, "at", FALSE), 0, "escape", ToUpper(c))
  ELSE LET nesting == NestingAfter(m, c)
           y == IF nesting = m.nesting THEN m ELSE Undoable(m, 0, "nesting", nesting)
       IN IF nesting = 0 THEN Done(y)
          ELSE StringInput(IF m.executes THEN Token(y, 0, "string") ELSE y, c)

InputAll(m, s) == FoldLeft(LAMBDA y, c : IF y.err = "none" /\ ~y.ended THEN Input(y, c) ELSE y, m, s)

(* teco_machine_stringbuilding_escape(): what is typed for s to be built.  *)
EscapedFor(escape, s) ==
  FlattenSeq([i \in DOMAIN s |->
    IF ToUpper(s[i]) = escape \/ <<escape, s[i]>> \in {<<"[", "]">>, <<"{", "}">>}
    THEN <<"^Q", s[i]>> ELSE <<s[i]>>])
=============================================================================
