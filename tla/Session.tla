------------------------------ MODULE Session -------------------------------
(***************************************************************************)
(* The interpreter at the command line.  Commands are typed in, executed   *)
(* at once, rejected when they fail, rubbed out and interrupted, and a     *)
(* return terminates the command line (cmdline.c).  Everything is undone   *)
(* by undo tokens.  Most of them are scalars and strings whose tokens hold *)
(* the old value; these are restored from a copy here.  The loop stack is  *)
(* an array that tokens insert into and remove from by index, without      *)
(* looking at what there is: these tokens are run.                         *)
(***************************************************************************)
EXTENDS Interp

CONSTANTS
  Typed,        \* the commands that are typed in
  MaxLine,      \* bound on the length of the command line
  MaxTokens,    \* bound on the undo tokens of the loop stack, and on the effects
  MaxOps,       \* bound on the operator stack
  MaxNum,       \* bound on the numbers
  MaxLines      \* bound on the number of command lines

(* There is a command line in interactive mode only (main.c).              *)
ASSUME SessionAssumption == UndoEnabled

VARIABLES
  saved,        \* for every command: what was there before it was typed
  lines         \* the number of command lines terminated

sessionVars == <<vars, saved, lines>>

Idle == err = "none" /\ Len(frames) = 1 /\ top.pc > Len(top.text)

-----------------------------------------------------------------------------
(* Undoing.                                                                *)

(* Tokens of the loop stack are calls of GArray functions.  A removal      *)
(* beyond the end is refused by GLib, an insertion beyond it fills up.     *)
Unknown == [pc |-> 0, counter |-> 0, brace |-> 0, pass |-> FALSE]
Fits(token, s) == token.i <= (IF token.op = "insert" THEN Len(s) + 1 ELSE Len(s))
RunToken(token, s) ==
  CASE token.op = "remove" -> IF Fits(token, s) THEN RemoveAt(s, token.i) ELSE s
    [] token.op = "set" -> IF Fits(token, s) THEN [s EXCEPT ![token.i].counter = token.counter] ELSE s
    [] token.op = "insert" ->
         IF Fits(token, s) THEN InsertAt(s, token.i, token.ctx)
         ELSE s \o [k \in 1..(token.i - 1 - Len(s)) |-> Unknown] \o <<token.ctx>>

(* teco_undo_pop(): the loop stack after the tokens above n have been run. *)
Undone(n) ==
  LET f[k \in n..Len(tokens)] ==
        IF k = Len(tokens) THEN loops ELSE RunToken(tokens[k + 1], f[k + 1])
  IN f[n]

Undo ==
  LET s == Last(saved) IN
  /\ loops' = Undone(s.tokens)
  /\ tokens' = SubSeq(tokens, 1, s.tokens)
  /\ x' = s.x /\ frames' = s.frames /\ skip' = s.skip /\ backup' = s.backup /\ trace' = s.trace
  /\ saved' = Front(saved)
  /\ err' = "none"
  /\ UNCHANGED lines

-----------------------------------------------------------------------------
(* The user.                                                               *)

Type ==
  /\ Idle /\ Len(top.text) < MaxLine
  /\ \E c \in Typed : Put([top EXCEPT !.text = Append(@, c)])
  /\ saved' = Append(saved, [x |-> x, frames |-> frames, skip |-> skip, backup |-> backup,
                             trace |-> trace, tokens |-> Len(tokens), loops |-> loops])
  /\ UNCHANGED <<x, loops, skip, backup, err, trace, tokens, lines>>

(* Infinite loops can be interrupted, but go on for as long as they may.    *)
Bounded == /\ Len(tokens) < MaxTokens /\ Len(trace) < MaxTokens /\ Len(x.ops) < MaxOps
           /\ \A i \in DOMAIN x.nums : Abs(x.nums[i]) <= MaxNum
Execution == Bounded /\ Step /\ UNCHANGED <<saved, lines>>

(* Loops need not end: interrupting them is an error like all others.      *)
Interrupt == err = "none" /\ ~Idle /\ Throw("Interrupted") /\ UNCHANGED <<saved, lines>>

RejectKey == err # "none" /\ Undo
Rubout == Idle /\ saved # <<>> /\ Undo

(* The next command line, after y has been evaluated.                      *)
StartLine(y) ==
  /\ x' = [Clear EXCEPT !.sign = y.sign]
  /\ loops' = <<>> /\ tokens' = <<>> /\ saved' = <<>>
  /\ frames' = <<[top EXCEPT !.text = <<>>, !.pc = 1, !.esc = FALSE, !.table = NoLabels]>>
  /\ lines' = lines + 1
  /\ UNCHANGED <<skip, backup, err, trace>>

(* A return at the command line terminates it.  The machine is not reset,  *)
(* and neither is the prefix sign.                                         *)
Terminate ==
  /\ AtCommandLine /\ Returns /\ lines < MaxLines
  /\ \E y \in {Eval(IF cmd = "$" THEN x ELSE X, FALSE)} :
     \/ ~OK(y) /\ Throw(y.err) /\ UNCHANGED <<saved, lines>>
     \/ OK(y) /\ StartLine(y)

-----------------------------------------------------------------------------
CommandLine == [text |-> <<>>, pc |-> 1, mode |-> "normal", nest |-> 0,
                colon |-> 0, esc |-> FALSE, ctlc |-> FALSE, fp |-> 0, braces |-> 0,
                table |-> NoLabels, complete |-> FALSE]

Init ==
  /\ x = Clear /\ loops = <<>> /\ skip = "none" /\ backup = 0
  /\ err = "none" /\ trace = <<>> /\ tokens = <<>>
  /\ frames = <<CommandLine>>
  /\ saved = <<>> /\ lines = 0

Next == Type \/ Execution \/ Interrupt \/ RejectKey \/ Rubout \/ Terminate
Spec == Init /\ [][Next]_sessionVars

-----------------------------------------------------------------------------
(* Properties.                                                             *)

(* Every token finds the entry that it is about, when all are run.         *)
TokensFit ==
  LET f[k \in 0..Len(tokens)] ==
        IF k = Len(tokens) THEN loops ELSE RunToken(tokens[k + 1], f[k + 1])
  IN \A k \in DOMAIN tokens : Fits(tokens[k], f[k])

(* At any time, in the middle of a command or of a macro that it calls,    *)
(* running the tokens brings back the loop stack that there was before a   *)
(* command, for every command of the line: rubbing out may be necessary    *)
(* whenever there is an error or an interruption.  It does not hold where  *)
(* ; fails closing the braces of its loop, as in <1(+; - the loop is gone  *)
(* by then, its token is not pushed yet - and when a macro returns from    *)
(* within an open loop, <$$ (see the README).                              *)
RuboutRestoresLoops == TokensFit /\ \A i \in DOMAIN saved : Undone(saved[i].tokens) = saved[i].loops

(* A macro never touches the loops of its caller: their contexts hold      *)
(* positions in the caller's text.                                         *)
CallersLoopsAreSafe ==
  [][Len(frames) > 1 /\ Len(frames') > 1 /\ Execution
       => Len(loops') >= top.fp /\ SubSeq(loops', 1, top.fp) = SubSeq(loops, 1, top.fp)]_sessionVars

=============================================================================
