------------------------------ MODULE Cmdline ------------------------------
(***************************************************************************)
(* The interactive command line of SciTECO (cmdline.c): key presses and    *)
(* key macros, execution one byte at a time so that undo tokens get the    *)
(* offset of their character, rubout, reinsertion, command line            *)
(* replacement, errors and termination.                                    *)
(*                                                                         *)
(* The undo stack appears as what Undo promises: heads[i + 1] is the       *)
(* editor as it was before the first change by a character at offset i or  *)
(* later.  The characters' effects are those of CmdChars.                  *)
(***************************************************************************)
EXTENDS CmdChars

CONSTANTS
  Usages,         \* how the command line is used, see usage
  Replacements(_),\* what the replacement register may contain at }, by the command line
  WordChars,      \* bytes of words in string arguments (SCI_GETWORDCHARS)
  CtlU,           \* the character ^U outside of string arguments
  ReturnMayFail,  \* evaluating the arguments of $$ may fail
  MaxLen          \* bound: key presses begin on command lines shorter than this

ASSUME CmdlineAssumption ==
  /\ ReturnMayFail \in BOOLEAN
  /\ MaxLen \in Nat
  /\ Leads \cap Conts = {} /\ CtlU \notin Leads

VARIABLES
  usage,          \* what one key press may be (sequences of keys), whether the replacement
                  \* register may be used, and whether a character may be interrupted or
                  \* exceed the memory limit
  str, effLen,    \* teco_cmdline.str, effective_len
  pc, macroPc,    \* teco_cmdline.pc, machine.macro_pc
  modifier,       \* teco_cmdline.modifier_enabled
  oldStr, replPc, \* old_cmdline and repl_pc of teco_cmdline_insert()
  ed,             \* the machine and all the editor state behind it
  heads,          \* teco_undo_heads
  lastCmdline,    \* teco_last_cmdline
  keys,           \* the keys of the key press still to be processed
  startPc,        \* start_pc of teco_cmdline_keypress()
  op,             \* the loop a key's handler is in
  executing,      \* teco_cmdline_insert() is executing
  pressed,        \* ghost: the state at the key press, or at the last $$ in it
  outcome         \* ghost: how the key press went

lineVars == <<str, effLen, modifier>>
execVars == <<pc, macroPc, oldStr, replPc, executing>>
keyVars  == <<keys, startPc, pressed, outcome>>
vars == <<usage, str, effLen, pc, macroPc, modifier, oldStr, replPc, ed, heads, lastCmdline,
          keys, startPc, op, executing, pressed, outcome>>

Text == SubSeq(str, 1, effLen)

(* A key is a character, or the end of line sequence, to be inserted, or   *)
(* an immediate editing command, or ^U, which is one in strings only.      *)
Char(data) == [k |-> "ins", data |-> data]
Edit(name) == [k |-> name, data |-> <<>>]

Bytes == Commands \cup Noops \cup QCommands \cup Strings \cup Leads \cup Conts
           \cup {At, Esc, BraceOpen, BraceClose, CtlU}

Ops == {"idle", "key", "inMods", "inCmd", "inNoops", "inConstruct", "inWord", "inNonWord", "inString",
        "outNoops", "outCmd", "outMods", "outConstruct", "outNonWord", "outWord", "outString"}

Editors == [eff : Seq(Bytes), st : {"start", "escape", "qreg", "string"}, at : BOOLEAN,
            delim : Seq(Bytes), res : Nat, editing : BOOLEAN]

TypeOK ==
  /\ str \in Seq(Bytes) /\ oldStr \in Seq(Bytes) /\ lastCmdline \in Seq(Bytes)
  /\ effLen \in Nat /\ pc \in Nat /\ macroPc \in Nat /\ replPc \in Nat /\ startPc \in Nat
  /\ modifier \in BOOLEAN /\ executing \in BOOLEAN
  /\ ed \in Editors
  /\ heads \in Seq(Editors)
  /\ op \in Ops
  /\ outcome \in {"none", "rejected", "restored"}

Press(line, text, e, ks) == [line |-> line, text |-> text, ed |-> e, keys |-> ks]

Init ==
  /\ usage \in Usages
  /\ str = <<>> /\ effLen = 0 /\ pc = 0 /\ macroPc = 0
  /\ modifier = FALSE
  /\ oldStr = <<>> /\ replPc = 0
  /\ ed = Blank
  /\ heads = <<>>
  /\ lastCmdline = <<>>
  /\ keys = <<>> /\ startPc = 0 /\ op = "idle" /\ executing = FALSE
  /\ pressed = Press(<<>>, <<>>, Blank, <<>>) /\ outcome = "none"

-----------------------------------------------------------------------------
(* The undo stack.                                                         *)

(* The lists after a token has been pushed at offset pc, the editor being  *)
(* e: teco_undo_push_size().                                               *)
Pushed(e) == heads \o [i \in 1..(pc + 1 - Len(heads)) |-> e]

(* teco_undo_pop(n), of the lists h, in the editor e.                      *)
PopEditor(h, e, n) == IF Len(h) > n THEN h[n + 1] ELSE e
PopHeads(h, n)     == IF Len(h) > n THEN SubSeq(h, 1, n) ELSE h

UndoPop(n) ==
  /\ ed' = PopEditor(heads, ed, n)
  /\ heads' = PopHeads(heads, n)

-----------------------------------------------------------------------------
(* Insertion and rubout of characters.                                     *)

(* teco_cmdline_insert(): text that is at the beginning of the rubbed-out  *)
(* part is taken from there; other text discards it.                       *)
Insert(data) ==
  /\ IF IsPrefix(data, SubSeq(str, effLen + 1, Len(str)))
     THEN /\ effLen' = effLen + Len(data)
          /\ UNCHANGED <<str, modifier>>
     ELSE /\ str' = Text \o data
          /\ effLen' = effLen + Len(data)
          /\ modifier' = (modifier /\ effLen = Len(str))
  /\ macroPc' = effLen /\ pc' = effLen
  /\ oldStr' = <<>> /\ replPc' = 0
  /\ executing' = TRUE
  /\ UNCHANGED <<ed, heads, lastCmdline, startPc, pressed, outcome>>

(* teco_cmdline_rubin(): the next character of the rubbed-out part, or     *)
(* nothing if there is none.                                               *)
Rubin == Insert(IF effLen < Len(str) THEN CharAt(str, effLen) ELSE <<>>)

(* teco_cmdline_rubout(): back to the beginning of the last character.     *)
(* Faulty: a character is one byte.                                        *)
CharStartsBytewise == 0..(effLen - 1)

CharStarts == {p \in 0..(effLen - 1) : str[p + 1] \notin Conts}
(* Faulty: pops what follows the character; discards the rubbed-out part.  *)
RuboutOffByOne ==
  /\ IF CharStarts # {}
     THEN /\ effLen' = Max(CharStarts)
          /\ UndoPop(effLen)
     ELSE UNCHANGED <<effLen, ed, heads>>
  /\ UNCHANGED <<str, modifier, execVars, lastCmdline, startPc, pressed, outcome>>
Rubout ==
  /\ IF CharStarts # {}
     THEN /\ effLen' = Max(CharStarts)
          /\ UndoPop(effLen')
     ELSE UNCHANGED <<effLen, ed, heads>>
  /\ UNCHANGED <<str, modifier, execVars, lastCmdline, startPc, pressed, outcome>>

-----------------------------------------------------------------------------
(* teco_cmdline_keypress().                                                *)

KeyPress(ks) ==
  /\ op = "idle"
  /\ Len(str) < MaxLen \/ \A i \in 1..Len(ks) : ks[i].k # "ins"
  /\ keys' = ks
  /\ startPc' = effLen
  /\ op' = "key"
  /\ pressed' = Press(str, Text, ed, ks)
  /\ outcome' = "none"
  /\ UNCHANGED <<lineVars, execVars, ed, heads, lastCmdline>>

EndKeyPress ==
  /\ op = "key" /\ ~executing /\ keys = <<>>
  /\ op' = "idle"
  /\ UNCHANGED <<lineVars, execVars, ed, heads, lastCmdline, keyVars>>

(* The next key, in any state of the machine.                              *)
NextKey(k) ==
  /\ op = "key" /\ ~executing
  /\ keys # <<>> /\ Head(keys).k = k
  /\ keys' = Tail(keys)

InsertKey ==
  /\ NextKey("ins")
  /\ Insert(Head(keys).data)
  /\ op' = op

ToggleKey ==
  /\ NextKey("^G")
  /\ modifier' = ~modifier
  /\ UNCHANGED <<str, effLen, execVars, ed, heads, lastCmdline, startPc, op, pressed, outcome>>

CharKey ==
  /\ NextKey("^H")
  /\ IF modifier THEN Rubin ELSE Rubout
  /\ op' = op

(* ^W of teco_state_command_process_edit_cmd: the loops follow.            *)
WordKeyCommand ==
  /\ NextKey("^W") /\ IsStart(ed)
  /\ op' = IF modifier THEN "inMods" ELSE "outNoops"
  /\ UNCHANGED <<lineVars, execVars, ed, heads, lastCmdline, startPc, pressed, outcome>>

(* ^W of teco_state_process_edit_cmd: a do loop, its first turn included.  *)
(* Strings chain to it at the beginning of the argument.                   *)
WordKeyConstruct ==
  /\ NextKey("^W")
  /\ ed.st = "qreg" \/ (ed.st = "string" /\ ~modifier /\ ed.res = 0)
  /\ IF modifier THEN Rubin ELSE Rubout
  /\ op' = IF modifier THEN "inConstruct" ELSE "outConstruct"

(* ^W of teco_state_stringbuilding_start_process_edit_cmd.                 *)
WordKeyString ==
  /\ NextKey("^W") /\ ed.st = "string"
  /\ \/ /\ modifier
        /\ op' = "inWord"
        /\ UNCHANGED <<lineVars, execVars, ed, heads, lastCmdline, startPc, pressed, outcome>>
     \/ /\ ~modifier /\ ed.res > 0
        /\ Rubout
        /\ op' = IF str[effLen] \in WordChars THEN "outWord" ELSE "outNonWord"

(* ^U of teco_state_stringbuilding_start_process_edit_cmd; elsewhere ^U is *)
(* a character of its own.                                                 *)
StringKey ==
  /\ NextKey("^U")
  /\ \/ /\ ed.st = "string"
        /\ op' = IF modifier THEN "inString" ELSE "outString"
        /\ UNCHANGED <<lineVars, execVars, ed, heads, lastCmdline, startPc, pressed, outcome>>
     \/ /\ ed.st # "string"
        /\ Insert(<<CtlU>>)
        /\ op' = op

-----------------------------------------------------------------------------
(* The loops of the key handlers.                                          *)

Tailed == effLen < Len(str)
NextIn(S) == Tailed /\ str[effLen + 1] \in S
PrevIn(S) == effLen > 0 /\ str[effLen] \in S

(* One turn of the loop o: while cond, body; then on to the loop next.     *)
Loop(o, cond, body, next) ==
  /\ op = o /\ ~executing
  /\ \/ cond /\ body /\ op' = o
     \/ /\ ~cond
        /\ op' = next
        /\ UNCHANGED <<lineVars, execVars, ed, heads, lastCmdline, startPc, pressed, outcome>>
  /\ UNCHANGED keys

(* The same before a do loop, the first turn of which follows at once.     *)
LoopThenDo(o, cond, body, next) ==
  /\ op = o /\ ~executing
  /\ body
  /\ op' = IF cond THEN o ELSE next
  /\ UNCHANGED keys

(* Faulty: the end of the rubbed-out part is not seen; the last character  *)
(* decides what is a modifier.                                             *)
ReinsertCommandAll == Loop("inCmd", ~IsStart(ed), Rubin, "inNoops")
RuboutModsByChar   == Loop("outMods", IsStart(ed) /\ PrevIn({At}), Rubout, "key")

ReinsertMods      == LoopThenDo("inMods", IsStart(ed) /\ NextIn({At}), Rubin, "inCmd")
ReinsertCommand   == Loop("inCmd", ~IsStart(ed) /\ Tailed, Rubin, "inNoops")
ReinsertNoops     == Loop("inNoops", IsStart(ed) /\ NextIn(Noops), Rubin, "key")
ReinsertConstruct == Loop("inConstruct", ~IsStart(ed) /\ Tailed, Rubin, "key")
RuboutNoops       == LoopThenDo("outNoops", IsStart(ed) /\ PrevIn(Noops), Rubout, "outCmd")
RuboutCommand     == Loop("outCmd", ~IsStart(ed), Rubout, "outMods")
RuboutMods        == Loop("outMods", IsStart(ed) /\ ed.at /\ effLen > 0, Rubout, "key")
RuboutConstruct   == Loop("outConstruct", ~IsStart(ed), Rubout, "key")

(* The string building machine is in its start state all the time: it is   *)
(* reset there at the end of the string.                                   *)
ReinsertWord      == Loop("inWord", NextIn(WordChars), Rubin, "inNonWord")
ReinsertNonWord   == Loop("inNonWord", Tailed /\ ~NextIn(WordChars), Rubin, "key")
ReinsertString    == Loop("inString", Tailed, Rubin, "key")
RuboutNonWord     == Loop("outNonWord", ed.res > 0 /\ ~PrevIn(WordChars), Rubout, "outWord")
RuboutWord        == Loop("outWord", ed.res > 0 /\ PrevIn(WordChars), Rubout, "key")
RuboutString      == Loop("outString", ed.res > 0, Rubout, "key")

-----------------------------------------------------------------------------
(* Execution, teco_cmdline_insert()'s loop: one byte at a time.            *)

Executing == op # "idle" /\ executing

(* Handlers that give up do so because of an error: it ends their loops.   *)
Propagate == executing' = FALSE /\ op' = "key"

(* The byte at pc has been executed as a part of its character.            *)
SkipByte ==
  /\ Executing /\ pc < effLen /\ macroPc > pc
  /\ pc' = pc + 1
  /\ UNCHANGED <<lineVars, macroPc, oldStr, replPc, executing, ed, heads, lastCmdline, op, keyVars>>

(* The character at pc is executed.                                        *)
Reading == Executing /\ pc < effLen /\ macroPc = pc /\ pc < Len(str)

(* Characters that make $$ fail: while the command line is being edited,   *)
(* or because of its arguments.                                            *)
ReturnFails(c) == IsReturn(ed, c) /\ (ed.editing \/ ReturnMayFail)
Throws(c) == IsReturn(ed, c) \/ IsReplace(ed, c)

ExecOk ==
  /\ Reading
  /\ LET c == CharAt(str, pc) IN
       /\ ~Throws(c) /\ Accepts(ed, c)
       /\ ed' = Execute(ed, c)
       /\ heads' = IF ed' = ed THEN heads ELSE Pushed(ed)
       /\ macroPc' = pc + Len(c)
  /\ pc' = pc + 1
  /\ UNCHANGED <<lineVars, oldStr, replPc, executing, lastCmdline, op, keyVars>>

(* What the character c may have done before it failed: nothing, something *)
(* undo tokens have been pushed for, or, $$, something they have not.      *)
Failures(c) ==
  {[e |-> ed, h |-> heads], [e |-> [ed EXCEPT !.eff = @ \o c], h |-> Pushed(ed)]}
ReturnFailures ==
  {[e |-> IF ed.editing THEN ed ELSE [ed EXCEPT !.st = "start"], h |-> heads]}

Failed(f) ==
  /\ Reading
  /\ LET c == CharAt(str, pc) IN
       \/ /\ ReturnFails(c)
          /\ f \in ReturnFailures
       \/ /\ ~Throws(c) /\ (usage.fails \/ ~Accepts(ed, c))
          /\ f \in Failures(c)

(* Faulty: what the new command line did is not undone.                    *)
RestoreOnTop(f) ==
  /\ Failed(f) /\ oldStr # <<>>
  /\ ed' = f.e /\ heads' = f.h
  /\ str' = oldStr /\ oldStr' = <<>>
  /\ macroPc' = replPc /\ pc' = replPc
  /\ effLen' = effLen - 1
  /\ outcome' = "restored"
  /\ UNCHANGED <<modifier, replPc, executing, lastCmdline, op, keys, startPc, pressed>>

(* An error in the new command line: the old one is replayed.              *)
Restore(f) ==
  /\ Failed(f) /\ oldStr # <<>>
  /\ ed' = PopEditor(f.h, f.e, replPc)
  /\ heads' = PopHeads(f.h, replPc)
  /\ str' = oldStr /\ oldStr' = <<>>
  /\ macroPc' = replPc /\ pc' = replPc
  /\ effLen' = effLen - 1
  /\ outcome' = "restored"
  /\ UNCHANGED <<modifier, replPc, executing, lastCmdline, op, keys, startPc, pressed>>

(* Faulty: what the character did before it failed is not undone.          *)
RejectKeepingEffects(f) ==
  /\ Failed(f) /\ oldStr = <<>>
  /\ ed' = f.e /\ heads' = f.h
  /\ effLen' = startPc /\ macroPc' = startPc
  /\ keys' = <<>>
  /\ outcome' = "rejected"
  /\ Propagate
  /\ UNCHANGED <<str, modifier, pc, oldStr, replPc, lastCmdline, startPc, pressed>>

(* Any other error: teco_cmdline_keypress() rubs out what the key press    *)
(* has inserted.                                                           *)
Reject(f) ==
  /\ Failed(f) /\ oldStr = <<>>
  /\ ed' = PopEditor(f.h, f.e, startPc)
  /\ heads' = PopHeads(f.h, startPc)
  /\ effLen' = startPc /\ macroPc' = startPc
  /\ keys' = <<>>
  /\ outcome' = "rejected"
  /\ Propagate
  /\ UNCHANGED <<str, modifier, pc, oldStr, replPc, lastCmdline, startPc, pressed>>

ExecFail == Reading /\ \E f \in Failures(CharAt(str, pc)) \cup ReturnFailures : Restore(f) \/ Reject(f)

(* teco_string_diff(): the length of the common prefix, in bytes.          *)
Diff(a, b) == Max({n \in 0..Min({Len(a), Len(b)}) : SubSeq(a, 1, n) = SubSeq(b, 1, n)})

(* The command line is replaced by the register's contents.                *)
ExecReplace(new) ==
  /\ Reading /\ IsReplace(ed, CharAt(str, pc)) /\ usage.replaces
  /\ pc' = Diff(str, new)
  /\ UndoPop(pc')
  /\ oldStr' = str /\ str' = new /\ effLen' = Len(new)
  /\ macroPc' = pc' /\ replPc' = pc'
  /\ UNCHANGED <<modifier, executing, lastCmdline, op, keyVars>>

(* The command line is terminated; the keys after the return continue.     *)
ExecReturn ==
  /\ Reading
  /\ LET c == CharAt(str, pc) IN IsReturn(ed, c) /\ ~ed.editing
  /\ heads' = <<>>
  /\ ed' = Blank
  /\ lastCmdline' = str
  /\ str' = <<>> /\ effLen' = 0 /\ startPc' = 0
  /\ pressed' = Press(<<>>, <<>>, Blank, keys)
  /\ Propagate
  /\ macroPc' = pc + 1
  /\ UNCHANGED <<modifier, pc, oldStr, replPc, keys, outcome>>

EndInsert ==
  /\ Executing /\ pc >= effLen
  /\ executing' = FALSE
  /\ UNCHANGED <<lineVars, pc, macroPc, oldStr, replPc, ed, heads, lastCmdline, op, keyVars>>

-----------------------------------------------------------------------------
Exec == SkipByte \/ ExecOk \/ ExecFail \/ (\E new \in Replacements(str) : ExecReplace(new))
          \/ ExecReturn \/ EndInsert

Handlers ==
  \/ InsertKey \/ ToggleKey \/ CharKey \/ WordKeyCommand \/ WordKeyConstruct
  \/ WordKeyString \/ StringKey
  \/ ReinsertMods \/ ReinsertCommand \/ ReinsertNoops \/ ReinsertConstruct
  \/ ReinsertWord \/ ReinsertNonWord \/ ReinsertString
  \/ RuboutNoops \/ RuboutCommand \/ RuboutMods \/ RuboutConstruct
  \/ RuboutWord \/ RuboutNonWord \/ RuboutString

Internal == Exec \/ Handlers \/ EndKeyPress
Next == ((\E ks \in usage.keys : KeyPress(ks)) \/ Internal) /\ UNCHANGED usage

Spec == Init /\ [][Next]_vars

(* The program runs: a key press, once begun, is processed.                *)
FairSpec == Spec /\ WF_vars(Internal /\ UNCHANGED usage)

-----------------------------------------------------------------------------
(* Properties.                                                             *)

Cursor == IF executing THEN macroPc ELSE effLen

(* The editor is always in the state that executing the effective command  *)
(* line from its beginning leads to, whatever has been rubbed out,         *)
(* reinserted, rejected or replaced in between (main promise of            *)
(* teco_cmdline_insert() and teco_cmdline_rubout()).                       *)
InSync == effLen <= Len(str) /\ Cursor <= Len(str) /\ ed = RunText(SubSeq(str, 1, Cursor))

(* A key press is a unity: if anything in it fails, the effective command  *)
(* line and the editor are as before the key press, or as at the last $$   *)
(* in it (teco_cmdline_keypress()).                                        *)
Unity == outcome = "rejected" => Text = pressed.text /\ ed = pressed.ed

(* If the new command line fails, } fails: the old one is back, executed   *)
(* up to the } (teco_cmdline_insert(), old_cmdline).                       *)
BackupRestores ==
  outcome = "restored" /\ op = "idle" /\ pressed.keys = <<Char(<<BraceClose>>)>>
    => Text = pressed.text /\ ed = pressed.ed

(* The assertion in teco_cmdline_insert(): the command line is not         *)
(* replaced while it is being replaced.                                    *)
NoNestedReplacement == Reading /\ IsReplace(ed, CharAt(str, pc)) => oldStr = <<>>

Pressed(k) == op = "idle" /\ outcome = "none" /\ pressed.keys = <<Edit(k)>>

(* The places between the lengths a and b where the text could be cut      *)
(* because a command is complete, be it for the modifiers.                 *)
Cuts(t, a, b) ==
  {n \in (a + 1)..(b - 1) : t[n] \notin Leads /\ IsStart(RunText(SubSeq(t, 1, n)))
                             /\ ~RunText(SubSeq(t, 1, n)).at}

(* Where only white space follows up to b.                                 *)
OnlyNoops(t, n, b) == \A i \in (n + 1)..b : t[i] \in Noops

(* ^W where a command may begin rubs out exactly one command, and with the *)
(* modifier reinserts exactly one: its modifiers and the white space after *)
(* it included, and nothing of its neighbours (unless it replaces all).    *)
WordIsOneCommand ==
  Pressed("^W") /\ IsStart(pressed.ed) /\ ~usage.replaces
    => /\ ~modifier =>
            /\ IsPrefix(Text, pressed.text)
            /\ pressed.text # <<>> => Text # pressed.text
            /\ IsStart(ed) /\ ~ed.at
            /\ \A n \in Cuts(pressed.text, effLen, Len(pressed.text)) :
                 OnlyNoops(pressed.text, n, Len(pressed.text))
       /\ modifier =>
            /\ IsPrefix(pressed.text, Text)
            /\ Tailed => Text # pressed.text /\ IsStart(ed) /\ ~ed.at /\ str[effLen + 1] \notin Noops
            /\ \A n \in Cuts(Text, Len(pressed.text), effLen) : OnlyNoops(Text, n, effLen)

(* ^U with the modifier reinserts the rest of a string argument and stops  *)
(* at its terminating character.                                           *)
StringStopsAtTerminator ==
  Pressed("^U") /\ modifier /\ pressed.ed.st = "string"
    => \A n \in Len(pressed.text)..(effLen - 1) : RunText(SubSeq(str, 1, n)).st = "string"

(* Every key press is processed to its end: no loop of a handler and no    *)
(* replacement goes on for ever.                                           *)
KeyPressEnds == op # "idle" ~> op = "idle"

(* The command line does what CmdlineSpec promises, with Cursor as cursor. *)
Line == INSTANCE CmdlineSpec WITH line <- str, cursor <- Cursor, editor <- ed, last <- lastCmdline
EditableLine == Line!CmdSpec
=============================================================================
