------------------------------- MODULE Interp -------------------------------
(***************************************************************************)
(* The interpreter of SciTECO: macros, loops, conditionals and gotos       *)
(* (parser.c, core-commands.c, goto-commands.c).  A program is a sequence  *)
(* of commands, every one of which stands for all of its characters:       *)
(*                                                                         *)
(*   "0".."9" "+" "-" "," "(" ")"  arithmetics (Expressions.tla)           *)
(*   "<" ">" ";" "F<" "F>"      loops       ":"  the colon modifier        *)
(*   "?" "|" "'" "F|" "F'"      conditionals ("N)                          *)
(*   "!a" "Oa" "Oa,b"           labels and gotos                           *)
(*   "M"                        a macro call: any of Macros                *)
(*   "$"                        escape; "$" "$" returns                    *)
(*   "^C"                       returns with the next character, or exits  *)
(*   "C"                        a command with an argument and an effect   *)
(*                                                                         *)
(* A macro invocation is a frame                                           *)
(*                                                                         *)
(*   text, pc      the program and the index of the next command           *)
(*   mode, nest    flags.mode and nest_level                               *)
(*   colon, esc    flags.modifier_colon; current is teco_state_escape      *)
(*   ctlc          current is teco_state_ctlc                              *)
(*   fp, braces    loop_stack_fp and parent_brace_level                    *)
(*   table         goto_table: the index behind a label, or 0              *)
(*   complete      goto_table.complete                                     *)
(*                                                                         *)
(* and the frame at the top runs.                                          *)
(***************************************************************************)
EXTENDS Expressions

CONSTANTS
  Macros,        \* the programs a macro call may execute
  Labels,        \* the names of labels
  Implied,       \* the search result that ";" implies
  UndoEnabled,   \* teco_undo_enabled: in interactive mode
  MaxDepth       \* bound on the depth of macro calls

ASSUME InterpAssumption == Implied \in Int /\ UndoEnabled \in BOOLEAN /\ MaxDepth \in Nat

VARIABLES
  x,             \* the expression stacks
  frames,        \* the macro invocations
  loops,         \* teco_loop_stack
  skip,          \* teco_goto_skip_label, or "none"
  backup,        \* teco_goto_backup_pc, or 0
  err,           \* the error that has stopped everything, or "none"
  trace,         \* the arguments of the effects so far
  tokens         \* undo tokens of the loop stack, the latest one last

vars == <<x, frames, loops, skip, backup, err, trace, tokens>>

-----------------------------------------------------------------------------
(* The frame that runs.                                                    *)

NoLabels == [l \in Labels |-> 0]
Frame(text) == [text |-> text, pc |-> 1, mode |-> "normal", nest |-> 0,
                colon |-> 0, esc |-> FALSE, ctlc |-> FALSE, fp |-> Len(loops),
                braces |-> x.level, table |-> NoLabels, complete |-> FALSE]

top == Last(frames)
(* The command line is a macro that never ends.                            *)
AtCommandLine == UndoEnabled /\ Len(frames) = 1

HasNext == err = "none" /\ frames # <<>> /\ top.pc <= Len(top.text)
Running == HasNext /\ ~top.ctlc
Ended == err = "none" /\ frames # <<>> /\ top.pc > Len(top.text) /\ ~AtCommandLine

cmd == top.text[top.pc]
normal == top.mode = "normal"

(* An escape is executed by the command that follows it.                   *)
X == IF top.esc /\ normal THEN DiscardArgs(x) ELSE x

(* The frame behind the command, and the frames with that one on top.      *)
next == [top EXCEPT !.pc = @ + 1, !.esc = FALSE]
Put(f) == frames' = Append(Front(frames), f)

Colons == {"<", ">", ";", "F<", "F>", "Oa", "Ob", "Oa,b", "M"}

MaxColons == IF cmd \in Colons THEN 1 ELSE 0

(* One of the commands cs is next and it is executed, or only parsed.      *)
Executes(cs) == Running /\ cmd \in cs /\ normal /\ OK(X) /\ top.colon <= MaxColons
Parses(cs) == Running /\ cmd \in cs /\ ~normal

Throw(why) ==
  /\ err' = why
  /\ UNCHANGED <<x, frames, loops, skip, backup, trace, tokens>>

(* A command ends with the stacks y and the frame f, or with an error.     *)
Finish(y, f) ==
  IF OK(y) THEN x' = y /\ Put(f) /\ err' = err
  ELSE x' = y /\ err' = y.err /\ UNCHANGED frames

Remember(token) == tokens' = IF UndoEnabled THEN Append(tokens, token) ELSE tokens

-----------------------------------------------------------------------------
(* Arithmetics, and commands with an argument.                             *)

DigitNames == <<"0", "1", "2", "3", "4", "5", "6", "7", "8", "9">>
DigitValue == CHOOSE d \in 0..9 : DigitNames[d + 1] = cmd

Calculate ==
  /\ Executes(Range(DigitNames) \cup {"+", "-", ",", "(", ")"})
  /\ Finish(CASE cmd = "+" -> PushCalc(X, "ADD")
              [] cmd = "-" -> Minus(X)
              [] cmd = "," -> Comma(X)
              [] cmd = "(" -> Open(X)
              [] cmd = ")" -> BraceClose(X)
              [] OTHER -> Digit(X, DigitValue), next)
  /\ UNCHANGED <<loops, skip, backup, trace, tokens>>

Effect ==
  /\ Executes({"C"})
  /\ \E arg \in {PopNumCalc(X, 1)} :
     /\ Finish(arg.x, next)
     /\ trace' = IF OK(arg.x) THEN Append(trace, arg.n) ELSE trace
  /\ UNCHANGED <<loops, skip, backup, tokens>>

Escape ==
  /\ Running /\ cmd = "$" /\ ~top.esc
  /\ normal => top.colon = 0
  /\ Put([next EXCEPT !.esc = TRUE])
  /\ UNCHANGED <<x, loops, skip, backup, err, trace, tokens>>

Colon ==
  /\ Running /\ normal /\ cmd = ":" /\ OK(X) /\ top.colon < 2
  /\ Finish(X, [next EXCEPT !.colon = @ + 1])
  /\ UNCHANGED <<loops, skip, backup, trace, tokens>>

(* Modifiers on the wrong command, and escapes that fail.                  *)
Reject ==
  /\ Running /\ normal
  /\ ~(cmd = "$" /\ top.esc)
  /\ \/ ~OK(X) /\ Throw(X.err)
     \/ /\ OK(X) /\ top.colon > (IF cmd = ":" THEN 1 ELSE MaxColons)
        /\ Throw("Unexpected modifier")

(* Whatever has no meaning for the parser is ignored in parse-only mode.   *)
Ignore ==
  /\ Running /\ ~normal
  /\ \/ cmd \in Range(DigitNames) \cup {"+", "-", ",", "(", ")", "C", ":", ";", "F<",
                                          "F>", "F|", "F'", "M", "Oa", "Ob", "Oa,b"}
     \/ cmd = "$" /\ top.esc
     \/ cmd \in {"<", ">"} /\ top.mode # "loop"
     \/ cmd \in {"?", "'"} /\ top.mode \notin {"cond", "force"}
     \/ cmd = "|" /\ ~(top.mode = "cond" /\ top.nest = 0)
  /\ Put(next)
  /\ UNCHANGED <<x, loops, skip, backup, err, trace, tokens>>

-----------------------------------------------------------------------------
(* Loops.                                                                  *)

LoopOpen ==
  /\ Executes({"<"})
  /\ \E arg \in {PopNumCalc(X, -1)}, pass \in {top.colon > 0} :
        \/ ~OK(arg.x) /\ Throw(arg.x.err)
        \/ /\ OK(arg.x) /\ arg.n # 0
           /\ Finish(IF pass THEN arg.x ELSE BraceOpen(arg.x), [next EXCEPT !.colon = 0])
           /\ loops' = Append(loops, [pc |-> next.pc, counter |-> arg.n, brace |-> arg.x.level, pass |-> pass])
           /\ Remember([op |-> "remove", i |-> Len(loops) + 1])
           /\ UNCHANGED <<skip, backup, trace>>
        \/ /\ OK(arg.x) /\ arg.n = 0
           /\ Finish(arg.x, [next EXCEPT !.colon = 0, !.mode = "loop"])
           /\ UNCHANGED <<loops, skip, backup, trace, tokens>>

InAnyLoop == loops # <<>>
InLoop == Len(loops) > top.fp
ctx == Last(loops)

(* The values that an iteration leaves on the stack.                       *)
EndIteration(y) ==
  IF ctx.pass THEN y
  ELSE IF top.colon > 0
  THEN Then(BraceClose(y), LAMBDA z : IF ctx.counter # 1 THEN BraceOpen(z) ELSE z)
  ELSE Then(DiscardArgs(y), LAMBDA z : IF ctx.counter = 1 THEN BraceClose(z) ELSE z)

(* One iteration less; infinite loops do not count.                        *)
CountNothing == UNCHANGED <<loops, tokens>>
CountDownForgetting ==
  /\ loops' = [loops EXCEPT ![Len(loops)].counter = @ - 1]
  /\ tokens' = tokens
CountDown ==
  /\ loops' = [loops EXCEPT ![Len(loops)].counter = @ - 1]
  /\ IF AtCommandLine THEN Remember([op |-> "set", i |-> Len(loops), counter |-> ctx.counter])
                      ELSE tokens' = tokens

(* The end of a loop, where f is the frame if it was the last iteration.   *)
CloseLoop(f) ==
  \/ ~InLoop /\ Throw("Loop end without start")
  \/ /\ InLoop /\ X.level # ctx.brace + (IF ctx.pass THEN 0 ELSE 1)
     /\ Throw("Brace left open")
  \/ /\ InLoop /\ X.level = ctx.brace + (IF ctx.pass THEN 0 ELSE 1)
     /\ \E y \in {EndIteration(X)} :
        \/ ~OK(y) /\ Throw(y.err)
        \/ /\ OK(y) /\ ctx.counter = 1
           /\ Finish(y, f)
           /\ loops' = Front(loops)
           /\ Remember([op |-> "insert", i |-> Len(loops), ctx |-> ctx])
           /\ UNCHANGED <<skip, backup, trace>>
        \/ /\ OK(y) /\ ctx.counter # 1
           /\ Finish(y, [next EXCEPT !.pc = ctx.pc, !.colon = 0])
           /\ IF ctx.counter >= 0 THEN CountDown ELSE UNCHANGED <<loops, tokens>>
           /\ UNCHANGED <<skip, backup, trace>>

LoopClose == Executes({">"}) /\ CloseLoop([next EXCEPT !.colon = 0])

(* A break takes the context off the loop stack before it knows whether    *)
(* the braces can be closed; the undo token comes last.                    *)
LeaveLoop(y) ==
  Then(DiscardArgs(y), LAMBDA z : IF ctx.pass THEN z ELSE BraceReturn(z, ctx.brace, 0))

Break ==
  /\ Executes({";"})
  /\ \/ ~InLoop /\ Throw("; only allowed in loops")
     \/ /\ InLoop
        /\ \E arg \in {PopNumCalc(X, Implied)}, breaks \in BOOLEAN :
           /\ breaks <=> (arg.n >= 0) # (top.colon > 0)
           /\ \/ ~OK(arg.x) /\ Throw(arg.x.err)
              \/ /\ OK(arg.x) /\ ~breaks
                 /\ Finish(arg.x, [next EXCEPT !.colon = 0])
                 /\ UNCHANGED <<loops, skip, backup, trace, tokens>>
              \/ /\ OK(arg.x) /\ breaks
                 /\ loops' = Front(loops)
                 /\ \E z \in {LeaveLoop(arg.x)} :
                    /\ Finish(z, [next EXCEPT !.colon = 0, !.mode = "loop"])
                    /\ IF OK(z) THEN Remember([op |-> "insert", i |-> Len(loops), ctx |-> ctx])
                                ELSE tokens' = tokens
                 /\ UNCHANGED <<skip, backup, trace>>

(* F<: the modifier is left alone outside of loops.                        *)
LoopStart ==
  /\ Executes({"F<"})
  /\ Finish(IF InLoop /\ ctx.pass THEN X
            ELSE IF InLoop /\ top.colon > 0 THEN Then(BraceClose(X), BraceOpen)
            ELSE DiscardArgs(X),
            IF InLoop THEN [next EXCEPT !.pc = ctx.pc, !.colon = 0] ELSE [next EXCEPT !.pc = 1])
  /\ UNCHANGED <<loops, skip, backup, trace, tokens>>

LoopEnd ==
  /\ Executes({"F>"}) /\ InLoop
  /\ CloseLoop([next EXCEPT !.colon = 0, !.mode = "loop"])

(* Skipping to the end of a loop.                                          *)
SkipLoopUnnested ==
  /\ Parses({"<", ">"}) /\ top.mode = "loop"
  /\ Put(IF cmd = "<" THEN next ELSE [next EXCEPT !.mode = "normal"])
  /\ UNCHANGED <<x, loops, skip, backup, err, trace, tokens>>
SkipLoop ==
  /\ Parses({"<", ">"}) /\ top.mode = "loop"
  /\ Put(IF cmd = "<" THEN [next EXCEPT !.nest = @ + 1]
         ELSE IF top.nest > 0 THEN [next EXCEPT !.nest = @ - 1]
         ELSE [next EXCEPT !.mode = "normal"])
  /\ UNCHANGED <<x, loops, skip, backup, err, trace, tokens>>

-----------------------------------------------------------------------------
(* Conditionals.                                                           *)

Condition ==
  /\ Executes({"?"})
  /\ \E y \in {Eval(X, FALSE)} :
     \/ ~OK(y) /\ Throw(y.err)
     \/ OK(y) /\ Args(y) = 0 /\ Throw("Argument expected")
     \/ /\ OK(y) /\ Args(y) > 0
        /\ Finish(PopNum(y), [next EXCEPT !.mode = IF TopNum(y) # 0 THEN "normal" ELSE "cond"])
        /\ UNCHANGED <<loops, skip, backup, trace, tokens>>

(* Commands that do nothing but to choose what is skipped.                 *)
Skips ==
  /\ Executes({"|", "F|", "F'", "'"})
  /\ Finish(X, [next EXCEPT !.mode = CASE cmd \in {"|", "F|"} -> "cond"
                                       [] cmd = "F'" -> "force" [] OTHER -> "normal"])
  /\ UNCHANGED <<loops, skip, backup, trace, tokens>>

SkipCondition ==
  /\ Parses({"?", "'", "|"}) /\ top.mode \in {"cond", "force"}
  /\ cmd = "|" => top.mode = "cond" /\ top.nest = 0
  /\ Put(IF cmd = "?" THEN [next EXCEPT !.nest = @ + 1]
         ELSE IF top.nest > 0 THEN [next EXCEPT !.nest = @ - 1]
         ELSE [next EXCEPT !.mode = "normal"])
  /\ UNCHANGED <<x, loops, skip, backup, err, trace, tokens>>

-----------------------------------------------------------------------------
(* Labels and gotos.                                                       *)

LabelOf(c) == CASE c = "!a" -> "a" [] c = "!b" -> "b"
Targets(c) == CASE c = "Oa" -> <<"a">> [] c = "Ob" -> <<"b">> [] c = "Oa,b" -> <<"a", "b">>

LabelError(l) == CASE l = "a" -> "Label a not found" [] l = "b" -> "Label b not found"
                   [] OTHER -> "Label (null) not found"

(* Labels are entered into the table in every mode.                        *)
Label ==
  /\ Running /\ cmd \in {"!a", "!b"}
  /\ normal => OK(X) /\ top.colon = 0
  /\ LET l == LabelOf(cmd)
         new == top.table[l] = 0
         found == new /\ skip = l
         f == [next EXCEPT !.table[l] = IF new THEN next.pc ELSE @]
     IN /\ Put(IF found THEN [f EXCEPT !.mode = "normal"] ELSE f)
        /\ skip' = IF found THEN "none" ELSE skip
        /\ backup' = IF found THEN 0 ELSE backup
  /\ x' = X
  /\ UNCHANGED <<loops, err, trace, tokens>>

GotoLabel(y, f, l) ==
  \/ /\ top.table[l] # 0
     /\ Finish(y, [f EXCEPT !.pc = top.table[l]])
     /\ UNCHANGED <<skip, backup, loops, trace, tokens>>
  \/ /\ top.table[l] = 0 /\ ~top.complete
     /\ Finish(y, [f EXCEPT !.mode = "goto"])
     /\ skip' = l
     /\ backup' = IF top.colon > 0 THEN next.pc ELSE 0
     /\ UNCHANGED <<loops, trace, tokens>>
  \/ /\ top.table[l] = 0 /\ top.complete
     /\ IF top.colon > 0
        THEN Finish(y, f) /\ UNCHANGED <<skip, backup, loops, trace, tokens>>
        ELSE Throw(LabelError(skip))

Goto ==
  /\ Executes({"Oa", "Ob", "Oa,b"})
  /\ \E arg \in {PopNumCalc(X, 0)}, f \in {[next EXCEPT !.colon = 0]} :
        \/ ~OK(arg.x) /\ Throw(arg.x.err)
        \/ /\ OK(arg.x) /\ arg.n \notin 0..(Len(Targets(cmd)) - 1)
           /\ Finish(arg.x, f) /\ UNCHANGED <<skip, backup, loops, trace, tokens>>
        \/ /\ OK(arg.x) /\ arg.n \in 0..(Len(Targets(cmd)) - 1)
           /\ GotoLabel(arg.x, f, Targets(cmd)[arg.n + 1])

-----------------------------------------------------------------------------
(* Macro calls, their end, and returns.                                    *)

Call ==
  /\ Executes({"M"}) /\ Len(frames) < MaxDepth
  /\ x' = X
  /\ \E text \in Macros : frames' = Append(Front(frames), [next EXCEPT !.colon = 0]) \o <<Frame(text)>>
  /\ UNCHANGED <<loops, skip, backup, err, trace, tokens>>

(* ^C does nothing but to look at what follows, in every mode.             *)
ControlC ==
  /\ Running /\ cmd = "^C"
  /\ normal => OK(X) /\ top.colon = 0
  /\ \/ AtCommandLine /\ Throw("^C is not allowed to terminate command-lines")
     \/ /\ ~AtCommandLine
        /\ x' = IF normal THEN X ELSE x
        /\ Put([next EXCEPT !.ctlc = TRUE])
        /\ UNCHANGED <<loops, skip, backup, err, trace, tokens>>
FollowsControlC == HasNext /\ top.ctlc

(* ^C^C leaves all macros at once, and the program with them.              *)
Exit ==
  /\ FollowsControlC /\ normal /\ cmd = "^C"
  /\ \/ UndoEnabled /\ Throw("^C^C not allowed in interactive mode")
     \/ /\ ~UndoEnabled
        /\ \E y \in {Eval(x, FALSE)} : x' = y /\ err' = IF OK(y) THEN "quit" ELSE y.err
        /\ UNCHANGED <<frames, loops, skip, backup, trace, tokens>>

(* Where nothing is executed, ^C^C is passed over; what follows a single   *)
(* ^C is the next command.                                                 *)
PassControlC ==
  /\ FollowsControlC /\ ~normal
  /\ Put([(IF cmd = "^C" THEN next ELSE top) EXCEPT !.ctlc = FALSE])
  /\ UNCHANGED <<x, loops, skip, backup, err, trace, tokens>>

(* $$, ^C, or F> outside of loops.  The braces that the macro has opened   *)
(* are closed and its loops are left; that is not undone.                  *)
Returns ==
  \/ Running /\ normal /\ cmd = "$" /\ top.esc
  \/ Executes({"F>"}) /\ ~InLoop
  \/ FollowsControlC /\ normal /\ cmd # "^C"

Return ==
  /\ Returns /\ ~AtCommandLine
  /\ \E z \in {ReturnTo(IF cmd = "$" THEN x ELSE X, top.braces)} :
     \/ ~OK(z) /\ Throw(z.err)
     \/ /\ OK(z)
        /\ x' = z
        /\ loops' = SubSeq(loops, 1, top.fp)
        /\ frames' = Front(frames)
        /\ UNCHANGED <<skip, backup, err, trace, tokens>>

(* The end of the text: a goto whose label has not been found is given up, *)
(* or it is an error like a loop that has not been closed.                 *)
GiveUpGotoAtEnd ==
  /\ Ended /\ backup # 0
  /\ Put([top EXCEPT !.esc = FALSE, !.ctlc = FALSE, !.mode = "normal",
            !.complete = TRUE])
  /\ skip' = "none" /\ backup' = 0
  /\ UNCHANGED <<x, loops, err, trace, tokens>>
GiveUpGoto ==
  /\ Ended /\ backup # 0
  /\ Put([top EXCEPT !.pc = backup, !.esc = FALSE, !.ctlc = FALSE, !.mode = "normal",
            !.complete = TRUE])
  /\ skip' = "none" /\ backup' = 0
  /\ UNCHANGED <<x, loops, err, trace, tokens>>

(* A macro may end behind an escape or a ^C.                               *)
EndOfLookahead == IF top.esc THEN DiscardArgs(x) ELSE x
EndOfMacro ==
  /\ Ended /\ backup = 0
  /\ \E y \in {EndOfLookahead} :
     \/ /\ skip # "none"
        /\ err' = LabelError(skip) /\ skip' = "none"
        /\ UNCHANGED <<x, frames, loops, backup, trace, tokens>>
     \/ skip = "none" /\ InLoop /\ Throw("Unterminated loop")
     \/ skip = "none" /\ ~InLoop /\ ~OK(y) /\ Throw(y.err)
     \/ /\ skip = "none" /\ ~InLoop /\ OK(y)
        /\ x' = y
        /\ frames' = Front(frames)
        /\ UNCHANGED <<loops, skip, backup, err, trace, tokens>>

Step ==
  \/ Calculate \/ Effect \/ Escape \/ Colon \/ Reject \/ Ignore
  \/ LoopOpen \/ LoopClose \/ Break \/ LoopStart \/ LoopEnd \/ SkipLoop
  \/ Condition \/ Skips \/ SkipCondition \/ Label \/ Goto
  \/ Call \/ ControlC \/ Exit \/ PassControlC \/ Return \/ GiveUpGoto \/ EndOfMacro
=============================================================================
