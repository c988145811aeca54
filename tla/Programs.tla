------------------------------ MODULE Programs ------------------------------
(***************************************************************************)
(* The interpreter, which knows neither structure nor the whole macro, but *)
(* only the mode it is in, how deeply it is nested and the labels it has   *)
(* met, executes programs as their structure says, and texts full of gotos *)
(* as if it knew all labels (GotoSpec).  A statement of a program is       *)
(*                                                                         *)
(*   [k |-> "effect", n]            nC                                     *)
(*   [k |-> "loop", n, body]        n< body >                              *)
(*   [k |-> "if", n, then, else]    n"N then | else '                      *)
(*   [k |-> "call"]                 Mq, where q contains Callee            *)
(*   [k |-> a jump]                 one of Jumps                           *)
(*                                                                         *)
(* and a program is a sequence of statements.                              *)
(***************************************************************************)
EXTENDS Interp

CONSTANTS
  Callee,      \* the program that is called
  Structured,  \* the programs that are executed
  Texts        \* the texts of gotos and labels that are executed

-----------------------------------------------------------------------------
(* The commands of a program.                                              *)

Jumps == [break |-> <<"0", ";">>, stay |-> <<"0", ":", ";">>, continue |-> <<"F>">>,
          return |-> <<"$", "$">>, leave |-> <<"^C", "0">>, exit |-> <<"^C", "^C">>,
          toElse |-> <<"F|">>, toEnd |-> <<"F'">>]

RECURSIVE Text(_)
StatementText(s) ==
  CASE s.k = "effect" -> <<DigitNames[s.n + 1], "C">>
    [] s.k = "loop" -> <<DigitNames[s.n + 1], "<">> \o Text(s.body) \o <<">">>
    [] s.k = "if" -> <<DigitNames[s.n + 1], "?">> \o Text(s.then) \o <<"|">> \o Text(s.else) \o <<"'">>
    [] s.k = "call" -> <<"M">>
    [] OTHER -> Jumps[s.k]
Text(p) == FlattenSeq([i \in DOMAIN p |-> StatementText(p[i])])

-----------------------------------------------------------------------------
(* The effects of a program, and the jump that it ends with, or "none".    *)

Done(effects) == [effects |-> effects, jump |-> "none"]
After(effects, rest) == [rest EXCEPT !.effects = effects \o @]

RECURSIVE Meaning(_), Iterate(_, _)
StatementMeaning(s) ==
  CASE s.k = "effect" -> Done(<<s.n>>)
    [] s.k = "stay" -> Done(<<>>)
    [] s.k = "loop" -> Iterate(s.body, s.n)
    [] s.k = "if" ->
         LET m == Meaning(IF s.n # 0 THEN s.then ELSE s.else)
             e == IF m.jump = "toElse" /\ s.n # 0 THEN After(m.effects, Meaning(s.else)) ELSE m
         IN IF e.jump \in {"toElse", "toEnd"} THEN Done(e.effects) ELSE e
    [] s.k = "call" -> LET m == Meaning(Callee) IN IF m.jump = "exit" THEN m ELSE Done(m.effects)
    [] s.k = "leave" -> [effects |-> <<>>, jump |-> "return"]
    [] OTHER -> [effects |-> <<>>, jump |-> s.k]

Meaning(p) ==
  IF p = <<>> THEN Done(<<>>)
  ELSE LET m == StatementMeaning(Head(p)) IN
       IF m.jump = "none" THEN After(m.effects, Meaning(Tail(p))) ELSE m

Iterate(body, n) ==
  IF n = 0 THEN Done(<<>>)
  ELSE LET m == Meaning(body) IN
       CASE m.jump = "break" -> Done(m.effects)
         [] m.jump \in {"return", "exit"} -> m
         [] OTHER -> After(m.effects, Iterate(body, n - 1))

-----------------------------------------------------------------------------
(* The interpreter executes a program or a text.                           *)

VARIABLES
  program,     \* the program, or none
  text,        \* the macro that is executed
  tick         \* changes with every step, so that a loop of one command is no stutter
progVars == <<program, text, tick, vars>>

None == <<>>
IsStructured == program # None

Init ==
  /\ \/ program \in Structured /\ text = Text(program)
     \/ program = None /\ text \in Texts
  /\ tick = FALSE
  /\ x = Clear /\ loops = <<>> /\ skip = "none" /\ backup = 0
  /\ err = "none" /\ trace = <<>> /\ tokens = <<>>
  /\ frames = <<[text |-> text, pc |-> 1, mode |-> "normal", nest |-> 0,
                 colon |-> 0, esc |-> FALSE, ctlc |-> FALSE, fp |-> 0, braces |-> 0,
                 table |-> NoLabels, complete |-> FALSE]>>

Finished == frames = <<>> \/ err # "none"

Next == \/ Step /\ tick' = ~tick /\ UNCHANGED <<program, text>>
        \/ Finished /\ UNCHANGED progVars

(* The interpreter goes on until it is finished.  As it is never stuck     *)
(* before (there is no deadlock), this is weak fairness of Next.           *)
GoesOn == []<><<TRUE>>_progVars \/ <>[]Finished
Spec == Init /\ [][Next]_progVars /\ GoesOn

-----------------------------------------------------------------------------
(* Properties of programs.                                                 *)

(* A program has the effects that its structure says, in their order, and  *)
(* leaves nothing behind: neither loops nor braces nor values.  Only a     *)
(* break outside of all loops is an error, and only an exit ends it all.   *)
MeansItsStructure ==
  IsStructured =>
    LET m == Meaning(program) IN
    /\ frames = <<>> => /\ trace = m.effects /\ m.jump \notin {"break", "exit"}
                        /\ loops = <<>> /\ x = Clear
    /\ err # "none" => /\ trace = m.effects
                       /\ m.jump = IF err = "quit" THEN "exit" ELSE "break"

(* Every program comes to its end; gotos may loop for ever.                *)
Terminates == <>(Finished \/ ~IsStructured)

-----------------------------------------------------------------------------
(* Properties of gotos.  In the refinement mapping a goto that parses is   *)
(* at its destination already.  Programs are not followed.                 *)

First(l) == LET D == {i \in DOMAIN text : text[i] = (IF l = "a" THEN "!a" ELSE "!b")} IN
            IF D = {} THEN 0 ELSE Min(D)

Parsing == frames # <<>> /\ top.mode = "goto"
Lost == Parsing /\ First(skip) = 0 /\ backup = 0

mappedText == IF IsStructured THEN <<>> ELSE text
mappedPc == CASE IsStructured -> 1
              [] ~IsStructured /\ (err # "none" \/ Lost) -> 0
              [] ~IsStructured /\ err = "none" /\ frames = <<>> -> Len(text) + 1
              [] ~IsStructured /\ err = "none" /\ Parsing /\ ~Lost ->
                   IF First(skip) # 0 THEN First(skip) + 1 ELSE backup
              [] OTHER -> top.pc
mappedColon == IF IsStructured \/ err # "none" \/ frames = <<>> THEN 0 ELSE top.colon
mappedFailed == ~IsStructured /\ (err # "none" \/ Lost)

Abstract == INSTANCE GotoSpec WITH text <- mappedText, pc <- mappedPc, colon <- mappedColon,
                                   failed <- mappedFailed

(* Parsing ahead and the table of labels cannot be told from a goto that   *)
(* knows the whole macro.                                                  *)
GotosAreDirect == Abstract!GotoSpec

(* An error about a label says which one: "Label not found" is thrown with *)
(* the name of a label (goto-commands.c:169).                              *)
ErrorNamesLabel == err # LabelError("none")
=============================================================================
