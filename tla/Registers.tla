----------------------------- MODULE Registers ------------------------------
(***************************************************************************)
(* Q-Registers (qreg.c, qreg-commands.c): the commands that set, append    *)
(* to, push, pop, load, edit, copy and read registers, with everything     *)
(* that their undo tokens restore; macros with local registers; rubout.    *)
(* Plain registers keep their string in a document, external ones ("$",    *)
(* the clipboards) stand for something outside of SciTECO.  "*" stands for *)
(* the current buffer: its string is the file name, which cannot be set,   *)
(* its number the buffer's, which edits a buffer when it is set.           *)
(***************************************************************************)
EXTENDS Documents, FiniteSets

CONSTANTS
  Globals, External, \* registers; the external ones are global
  Strings,           \* the strings that commands are given
  MaxText,           \* bound on the length of a register
  MaxStack,          \* bound on the push-down list
  MaxCommands,       \* bound on the commands
  Macros,            \* the commands that call macros
  Cases,             \* which of the special cases below may happen
  InitStates         \* registers and push-down lists in the beginning

ASSUME RegistersAssumption == External \subseteq Globals /\ Globals \cap Locals = {}

VARIABLES
  ed,       \* the editor, see Documents
  macro,    \* the macro that is running: "none", "M" or "EI"; or "crashed"
  history,  \* ghost: for each command that can be rubbed out, the number of
            \* tokens before it, and what the user saw then
  count,    \* the number of commands so far
  touched   \* ghost: the registers that the last command named

vars == <<ed, macro, history, count, touched>>

IsExternal(q) == q \in External
IsBuffer(q) == q = "*"
(* The string of "*" is not exchanged, but the document that it has, too.  *)
SwapsDocuments(q) == ~IsExternal(q) \/ IsBuffer(q)
Registers == Globals \cup (IF macro = "none" THEN {} ELSE Locals)
StringOf(e, q) == IF IsExternal(q) THEN e.outside[q] ELSE Text(e, e.regs[q].doc)

(* What the user can see: registers with their strings and dots, the       *)
(* push-down list, and what is edited.                                     *)
DotOf(e, q) == IF q = e.current THEN e.view.dot ELSE e.regs[q].dot
SeenRegister(e, q) == [int |-> e.regs[q].int, text |-> StringOf(e, q), dot |-> DotOf(e, q)]
SeenEntry(e, c) == [int |-> c.int, text |-> Text(e, c.doc), doc |-> c.doc]
Seen(e) == [regs |-> [q \in Globals |-> SeenRegister(e, q)], current |-> e.current,
            stack |-> [i \in DOMAIN e.stack |-> SeenEntry(e, e.stack[i])]]

-----------------------------------------------------------------------------
(* The functions of a register.                                            *)

Failed(e) == [e EXCEPT !.failed = TRUE]

(* teco_current_doc_undo_edit(), undo_edit() and edit().                   *)
UndoEdit(e) ==
  IF e.current = "none" THEN UndoCurrent(e)
  ELSE UndoEditCurrent(UpdateFromView(UndoCurrent(e), Reg(e.current)))
ShowString(e, q) ==
  LET f == Enter(e, Reg(q)) IN
  IF IsExternal(q) THEN UndoSci(ReplaceText(f, e.outside[q])) ELSE f
EditRegister(e, q) ==
  [ShowString(e, q) EXCEPT !.current = q,
                           !.table = IF MustUndo(q) THEN "globals" ELSE "locals"]

(* There is one buffer, which has number 1.                                *)
GetInteger(e, q) == IF IsBuffer(q) THEN 1 ELSE e.regs[q].int
EditBufferById(e, id) ==
  IF id = 1 THEN [e EXCEPT !.current = "none", !.table = "none"] ELSE Failed(e)

UndoSetInteger(e, q) ==
  CASE IsBuffer(q) -> UndoEdit(e)
    [] ~IsBuffer(q) /\ MustUndo(q) -> UndoInt(e, Reg(q))
    [] OTHER -> e
SetInteger(e, q, n) == IF IsBuffer(q) THEN EditBufferById(e, n) ELSE [e EXCEPT !.regs[q].int = n]

(* A directory or a clipboard may refuse a string, and "*" always does.    *)
UndoSetString(e, q) ==
  CASE IsBuffer(q) -> e
    [] IsExternal(q) /\ ~IsBuffer(q) -> UndoOutside(e, q)
    [] ~IsExternal(q) /\ MustUndo(q) -> DocUndoSetString(e, Reg(q))
    [] OTHER -> e
SetString(e, q, text, refused) ==
  CASE IsExternal(q) /\ (refused \/ IsBuffer(q)) -> Failed(e)
    [] IsExternal(q) /\ ~refused /\ ~IsBuffer(q) -> [e EXCEPT !.outside[q] = text]
    [] OTHER -> DocSetString(e, Reg(q), text)
GetString(e, q) == IF IsExternal(q) THEN e ELSE DocGetString(e, Reg(q))

AppendTokens(e, q) ==
  IF MustUndo(q)
  THEN UndoSci(UndoDot(UndoEditCurrent(UpdateFromView(e, Reg(q))), Reg(q)))
  ELSE e
AppendPlain(e, q, text) ==
  LET f == EditCurrent(AppendText(Enter(AppendTokens(e, q), Reg(q)), text)) IN
  CASE text = <<>> -> e
    [] text # <<>> /\ MustUndo(q) -> DocUndoEdit(f, Reg(q))
    [] OTHER -> f
AppendString(e, q, text, refused) ==
  IF IsExternal(q) THEN SetString(UndoSetString(e, q), q, e.outside[q] \o text, refused)
  ELSE AppendPlain(e, q, text)

(* The view is saved, and given back to the register that is edited.       *)
Save(e, q, refused) ==
  LET f == EditCurrent(ShowString(e, q)) IN IF refused THEN Failed(f) ELSE f

UndoSetEolMode(e, q) ==
  IF MustUndo(q) THEN DocUndoEdit(UndoEditCurrent(UpdateFromView(e, Reg(q))), Reg(q)) ELSE e
SetEolMode(e, q) == EditCurrent(Enter(e, Reg(q)))

(* Files are loaded into the document that the register has already.  What *)
(* has been read when reading fails stays there, and the view, too.        *)
Outcomes == {"loaded", "missing", "broken"}
LoadPlain(e, q, text, outcome) ==
  LET f == Enter(UndoSetString(e, q), Reg(q))
      g == UndoSetEolMode([f EXCEPT !.regs[q].dot = 0], q)
      h == ReplaceText(g, text)
      read == [h EXCEPT !.view.dot = 0, !.docs[h.view.doc].loaded = TRUE] IN
  CASE outcome = "missing" -> Failed(g)
    [] outcome = "broken"  -> Failed(read)
    [] outcome = "loaded"  -> EditCurrent(read)
LoadExternal(e, q, text, outcome) ==
  IF outcome = "missing" THEN Failed(e)
  ELSE SetString(UndoSetString(e, q), q, text, outcome = "broken")
Load(e, q, text, outcome) ==
  IF IsExternal(q) THEN LoadExternal(e, q, text, outcome) ELSE LoadPlain(e, q, text, outcome)

-----------------------------------------------------------------------------
(* The push-down list.                                                     *)

(* g_array_append_val(): the array moves when it is full.                  *)
AppendEntry(e, c) == [e EXCEPT !.stack = Append(@, c),
                               !.array = IF Len(e.stack) >= Capacity * 2 ^ @ THEN @ + 1 ELSE @]

StackPush(e, q) ==
  LET f == GetString(e, q)
      g == AppendEntry(f, [int |-> GetInteger(e, q), doc |-> 0, dot |-> 0])
      p == Entry(g, Len(g.stack))
      h == DocSetString(g, p, StringOf(f, q)) IN
  Push(SetCtx(h, p, [Ctx(h, p) EXCEPT !.dot = f.regs[q].dot]), [kind |-> "remove last"])

UndoExchangeOfEntry(e, q, p) == DocUndoExchange(e, p)
UndoExchange(e, q, p) ==
  IF ~SwapsDocuments(q) THEN DocUndoSetString(UndoOutside(e, q), p)
  ELSE DocUndoExchange(IF MustUndo(q) THEN DocUndoExchange(e, Reg(q)) ELSE e, p)
Exchange(e, q, p, refused) ==
  IF SwapsDocuments(q) THEN DocExchange(e, Reg(q), p)
  ELSE LET f == SetString(DocGetString(e, p), q, Text(e, Ctx(e, p).doc), refused) IN
       IF f.failed THEN f ELSE DocSetString(f, p, e.outside[q])

(* The last element goes to an undo token.                                 *)
PassEntry(e) ==
  LET f == [e EXCEPT !.stack = Front(@)] IN
  IF e.undo THEN Push(f, [kind |-> "entry", entry |-> Last(e.stack)])
  ELSE Release(f, Last(e.stack).doc)
StackPop(e, q, refused) ==
  LET p == Entry(e, Len(e.stack))
      f == SetInteger(UndoSetInteger(e, q), q, Last(e.stack).int)
      g == Exchange(UndoExchange(f, q, p), q, p, refused) IN
  CASE e.stack = <<>> -> Failed(e)
    [] e.stack # <<>> /\ f.failed -> f
    [] e.stack # <<>> /\ ~f.failed /\ g.failed -> g
    [] OTHER -> PassEntry(g)

-----------------------------------------------------------------------------
(* Commands.                                                               *)

Idle == ~ed.failed /\ ~ed.dangling
MayExecute ==
  /\ Idle /\ Cardinality(Unused(ed)) >= 3
  /\ macro # "crashed" /\ count < MaxCommands

(* A command that is given at the command line can be rubbed out by itself *)
(* and the commands of a macro with it.                                    *)
Executed(e, named) ==
  /\ ed' = e /\ touched' = named /\ count' = count + 1 /\ UNCHANGED macro
  /\ history' = IF macro = "none"
                THEN Append(history, [tokens |-> Len(ed.tokens), seen |-> Seen(ed)])
                ELSE history
Fits(e) == \A d \in DOMAIN e.docs : Len(e.docs[d].text) <= MaxText
External_(q) == IF IsExternal(q) /\ ~IsBuffer(q) THEN BOOLEAN ELSE {FALSE}

(* U and %, which may fail for its argument after it has pushed its token. *)
SetIntegerCommand == \E q \in Registers, n \in {1, 2} :
  /\ n = 2 => IsBuffer(q)
  /\ Executed(SetInteger(UndoSetInteger(ed, q), q, n), {q})

IncreaseFails == \E q \in Registers : Executed(Failed(UndoSetInteger(ed, q)), {q})

(* ^U, EU and X, where the arguments are characters in front of the text.  *)
(* EU asks the register for its encoding first.                            *)
SetOrAppend(e, q, text, colon, refused) ==
  IF colon THEN AppendString(e, q, text, refused)
  ELSE SetString(UndoSetString(e, q), q, text, refused)
SetOrAppendAll(e, q, args, text, colon, refused) ==
  LET f == SetOrAppend(IF colon THEN GetString(e, q) ELSE e, q, args, colon, refused) IN
  CASE args = <<>> -> SetOrAppend(e, q, text, colon, refused)
    [] args # <<>> /\ f.failed -> f
    [] OTHER -> AppendString(f, q, text, refused)
SetStringCommand ==
  \E q \in Registers, args, text \in Strings, colon, building, refused \in BOOLEAN :
    /\ refused \in External_(q)
    /\ \E e \in {SetOrAppendAll(IF building THEN GetString(ed, q) ELSE ed, q, args, text, colon, refused)} :
         Fits(e) /\ Executed(e, {q})

(* EG sets a register to the output of a process, piece by piece.  The line *)
(* ends follow, even if the register has refused the text or the process   *)
(* has failed.                                                             *)
SetOutput(e, q, text, more, refused) ==
  LET f == SetString(UndoSetString(e, q), q, text, refused) IN
  CASE text = <<>> -> e
    [] text # <<>> /\ (more = <<>> \/ f.failed) -> f
    [] OTHER -> AppendString(f, q, more, refused)
ExecuteCommand ==
  \E q \in Registers, text, more \in Strings, eol, refused, fails, colon \in BOOLEAN :
    /\ refused \in External_(q) /\ (text = <<>> => more = <<>> /\ ~eol)
    /\ \E e \in {SetOutput(ed, q, text, more, refused)} :
       \E f \in {IF eol THEN SetEolMode(UndoSetEolMode(e, q), q) ELSE e} :
         Fits(f) /\ Executed([f EXCEPT !.failed = ~colon /\ (@ \/ fails)], {q})

(* EQ with and without a file name, EB                                     *)
EditCommand == \E q \in Registers :
  Executed(EditRegister(UndoEdit(ed), q), {q})
LoadCommand == \E q \in Registers, text \in Strings, outcome \in Outcomes :
  /\ (outcome # "loaded" /\ ~MustUndo(q) => "failing load into local" \in Cases)
  /\ Executed(Load(ed, q, text, outcome), {q})
EditBuffer ==
  Executed(EditBufferById(UndoEdit(ed), 1), {})

(* E%.  Saving an external register brings its string into the document,   *)
(* and pushes a token that undoes what was last done in the document the   *)
(* view shows by then.                                                     *)
SaveCommand == \E q \in Registers, refused \in BOOLEAN :
  /\ (IsExternal(q) /\ ed.undo => "save external" \in Cases)
  /\ Executed(Save(ed, q, refused), IF IsExternal(q) THEN {q} ELSE {})

(* [ and ], whose errors become values with a colon.                       *)
PushCommand == \E q \in Registers :
  /\ Len(ed.stack) < MaxStack
  /\ Executed(StackPush(ed, q), {})
PopCommand == \E q \in Registers, refused \in BOOLEAN, colon \in BOOLEAN :
  /\ refused \in External_(q)
  /\ q = ed.current /\ ~IsBuffer(q) => "pop into edited" \in Cases
  /\ ~MustUndo(q) => "pop into local" \in Cases
  /\ \E e \in {StackPop(ed, q, refused)} :
       Executed(IF colon THEN [e EXCEPT !.failed = FALSE] ELSE e, {q})

(* Q with an argument or a colon                                           *)
ReadCommand == \E q \in Registers :
  Executed(IF IsExternal(q) THEN ed ELSE EditCurrent(Enter(ed, Reg(q))), {})

(* Commands in the document of the register that is being edited.          *)
Editing == ed.current # "none"
Edited(e) == IF MustUndo(e.current) THEN UndoSci(e) ELSE e
InsertText(e, text) ==
  LET old == Text(e, e.view.doc)  dot == e.view.dot IN
  IF text = <<>> THEN e
  ELSE ChangeText(e, SubSeq(old, 1, dot) \o text \o SubSeq(old, dot + 1, Len(old)), dot + Len(text), dot)
(* J, and U on the register ":", which has its token before it looks.      *)
SetDot(e, n) == IF n > Len(Text(e, e.view.doc)) THEN Failed(e) ELSE [e EXCEPT !.view.dot = n]
UndoSetDot(e) == IF MustUndo(e.current) THEN UndoGoto(e) ELSE e
MoveCommand == \E dot \in 0..MaxText :
  /\ Editing /\ dot <= Len(Text(ed, ed.view.doc)) /\ dot # ed.view.dot
  /\ Executed([UndoSetDot(ed) EXCEPT !.view.dot = dot], {ed.current})
SetDotCommand == \E n \in 0..MaxText :
  /\ Editing /\ Executed(SetDot(UndoSetDot(ed), n), {ed.current})
GetCommand == \E q \in Registers :
  /\ Editing
  /\ \E e \in {InsertText(GetString(ed, q), StringOf(ed, q))} :
       /\ Fits(e) /\ Executed(IF StringOf(ed, q) = <<>> THEN e ELSE Edited(e), {ed.current})

(* @X moves a range of the document to a register.  A range that is not in *)
(* the document is not deleted.                                            *)
DeleteText(e, from, len) ==
  LET old == Text(e, e.view.doc) IN
  IF from + len > Len(old) THEN e
  ELSE ChangeText(e, SubSeq(old, 1, from) \o SubSeq(old, from + len + 1, Len(old)),
                  Least(e.view.dot, from), from + len)
MoveToRegister == \E q \in Registers, from \in 0..MaxText, len \in 1..MaxText, refused \in BOOLEAN :
  /\ Editing /\ refused \in External_(q)
  /\ from + len <= Len(Text(ed, ed.view.doc))
  /\ LET text == SubSeq(Text(ed, ed.view.doc), from + 1, from + len)
         e == SetString(UndoSetString(ed, q), q, text, refused)
         f == IF MustUndo(ed.current) THEN UndoSci(UndoGoto(e)) ELSE e IN
     Executed(IF e.failed THEN e ELSE DeleteText(f, from, len), {q, ed.current})

-----------------------------------------------------------------------------
(* Macros with local registers.                                            *)

NewRegister == [int |-> 0, doc |-> 0, dot |-> 0]
ClearLocals(e) ==
  FoldLeft(LAMBDA f, q : [Release(f, f.regs[q].doc) EXCEPT !.regs[q] = NewRegister],
           e, SetToSeq(Locals))

(* M takes the macro from a register, EI from a file.                      *)
Call == \E kind \in Macros, q \in Globals :
  /\ macro = "none" /\ macro' = kind
  /\ ed' = IF kind = "M" THEN GetString(ed, q) ELSE ed
  /\ history' = Append(history, [tokens |-> Len(ed.tokens), seen |-> Seen(ed)])
  /\ count' = count + 1 /\ touched' = {}

(* A local register that is about to be freed must not be edited.  EI does *)
(* not look.                                                               *)
StillEdited(e) == macro = "M" /\ e.table = "locals"
Return ==
  /\ Idle /\ macro \in {"M", "EI"} /\ ~StillEdited(ed)
  /\ ed' = ClearLocals(ed) /\ macro' = "none"
  /\ UNCHANGED <<history, count>> /\ touched' = {}
(* The message names the register that is being edited, which is a null    *)
(* pointer when teco_qreg_table_current was not restored by a rubout.      *)
ReturnFails ==
  /\ Idle /\ macro \in {"M", "EI"} /\ StillEdited(ed)
  /\ ed' = Failed(ed)
  /\ macro' = IF ed.current = "none" THEN "crashed" ELSE macro
  /\ UNCHANGED <<history, count>> /\ touched' = {}

-----------------------------------------------------------------------------
(* Rubout and the end of the command line.                                 *)

Undone(e) == [RunTokens(ClearLocals(e), Last(history).tokens + 1) EXCEPT !.failed = FALSE]
Rubout ==
  /\ ed.undo /\ ~ed.dangling /\ history # <<>> /\ macro # "crashed"
  /\ (macro = "none" \/ ed.failed)
  /\ ed' = Undone(ed) /\ history' = Front(history)
  /\ macro' = "none"
  /\ UNCHANGED count /\ touched' = {}
Terminate ==
  /\ Idle /\ macro = "none" /\ history # <<>> /\ ed.undo
  /\ ed' = DropTokens(ed) /\ history' = <<>>
  /\ UNCHANGED <<macro, count>> /\ touched' = {}

Init ==
  /\ ed \in InitStates
  /\ macro = "none"
  /\ history = <<>> /\ count = 0 /\ touched = {}

Command ==
  \/ SetIntegerCommand \/ IncreaseFails \/ SetStringCommand \/ ExecuteCommand \/ EditCommand \/ LoadCommand
  \/ EditBuffer \/ SaveCommand \/ PushCommand \/ PopCommand \/ ReadCommand
  \/ MoveCommand \/ SetDotCommand \/ GetCommand \/ MoveToRegister \/ Call

Next == (MayExecute /\ Command) \/ Return \/ ReturnFails \/ Rubout \/ Terminate

Spec == Init /\ [][Next]_vars

-----------------------------------------------------------------------------
(* Properties.                                                             *)

IsLoaded(e, d) == d # 0 /\ e.docs[d].loaded
Restored(e, seen) ==
  /\ e.current = seen.current
  /\ \A q \in Globals : /\ e.regs[q].int = seen.regs[q].int
                        /\ IsLoaded(e, e.regs[q].doc) \/ StringOf(e, q) = seen.regs[q].text
  /\ Len(e.stack) = Len(seen.stack)
  /\ \A i \in DOMAIN e.stack :
       /\ e.stack[i].int = seen.stack[i].int
       /\ IsLoaded(e, e.stack[i].doc) \/ Text(e, e.stack[i].doc) = seen.stack[i].text

(* Rubbing out a command restores the strings and numbers of all registers *)
(* and of the push-down list, and what is edited, whichever commands it    *)
(* was built from and wherever it failed - but for the text of documents   *)
(* that files were loaded into.                                            *)
RuboutRestores ==
  [][Len(history') < Len(history) => Restored(ed', Last(history).seen) \/ Terminate]_vars

(* The references of a document are the registers, elements of the         *)
(* push-down list, undo tokens and the view that hold it: none is freed    *)
(* too early or never, and no token uses what has been freed.              *)
Holders(e, d) ==
  Cardinality({q \in DOMAIN e.regs : e.regs[q].doc = d})
  + Cardinality({i \in DOMAIN e.stack : e.stack[i].doc = d})
  + Cardinality({i \in DOMAIN e.tokens : Owned(e.tokens[i]) = d})
  + (IF e.view.doc = d THEN 1 ELSE 0)
ReferencesAreHeld ==
  /\ ~ed.dangling
  /\ \A d \in DOMAIN ed.docs : ed.docs[d].refs = Holders(ed, d)

(* Between commands the view shows the register that is being edited, and  *)
(* that one exists.                                                        *)
EditedIsShown ==
  ~ed.failed /\ ed.current # "none" =>
    /\ ed.current \in Registers
    /\ ed.view.doc = ed.regs[ed.current].doc

(* A command that succeeds changes no register but the ones it names: not  *)
(* its string, its number, nor the dot it has when it is edited (again).   *)
OnlyNamedChanges ==
  [][count' > count /\ ~ed'.failed =>
       \A q \in Globals \ touched' : SeenRegister(ed', q) = SeenRegister(ed, q)]_vars

(* A macro fails in the end only when it leaves a local register edited.   *)
MacroFailsRightly == [][ReturnFails => ed.current \in Locals]_vars

(* Rubout restores the dots of all registers, and what was loaded.         *)
RuboutRestoresDots ==
  [][Len(history') < Len(history) =>
       (\A q \in Globals : DotOf(ed', q) = Last(history).seen.regs[q].dot) \/ Terminate]_vars
RuboutUnloads ==
  [][Len(history') < Len(history) =>
       \/ /\ Seen(ed').stack = Last(history).seen.stack
          /\ \A q \in Globals : StringOf(ed', q) = Last(history).seen.regs[q].text
       \/ Terminate]_vars

(* A colon-modified ] that fails leaves everything as it was.              *)
PopIsAtomic ==
  [][Len(history') > Len(history) /\ PopCommand /\ Len(ed'.stack) = Len(ed.stack) =>
       Seen(ed') = Seen(ed)]_vars
=============================================================================
