------------------------------ MODULE CmdChars ------------------------------
(***************************************************************************)
(* What the characters of a command line do to the editor, as far as the   *)
(* command line itself (cmdline.c) can tell.  The editor is a record:      *)
(*                                                                         *)
(*   eff      the effects so far, one entry per character that had one     *)
(*   st       the state of teco_cmdline.machine: "start", "escape",        *)
(*            "qreg" (a Q-Register name is expected) or "string"           *)
(*   at       the @-modifier flag                                          *)
(*   delim    the character that ends string arguments                     *)
(*   res      the bytes in the current string argument                     *)
(*   editing  the command line replacement register is being edited        *)
(*                                                                         *)
(* A command line is a sequence of bytes in UTF-8: a character is one byte *)
(* or a lead byte followed by one continuation byte.                       *)
(***************************************************************************)
EXTENDS Integers, SequencesExt

CONSTANTS
  Commands,    \* characters that are complete commands
  Noops,       \* white space: teco_is_noop()
  QCommands,   \* commands that expect a Q-Register name
  Strings,     \* commands that expect a string argument
  At,          \* the @-modifier
  Esc,         \* the escape character, or $
  BraceOpen, BraceClose,
  Leads, Conts \* lead and continuation bytes of two-byte characters

Blank == [eff |-> <<>>, st |-> "start", at |-> FALSE, delim |-> <<Esc>>, res |-> 0, editing |-> FALSE]

IsStart(e) == e.st \in {"start", "escape"}

(* A character the parser does not accept, in the state e.                 *)
Rejected(e) == [e EXCEPT !.st = "rejected"]

(* Executing character c where a command may begin: teco_state_start_input *)
(* and, the discarding of arguments that $ has put off being an effect of  *)
(* its own, teco_state_escape_input.                                       *)
Command(e, c) ==
  LET b == IF e.st = "escape" THEN [e EXCEPT !.st = "start", !.eff = Append(@, Esc)] ELSE e IN
  CASE c[1] \in Noops /\ ~e.at -> b
    [] c[1] = At /\ ~e.at -> [b EXCEPT !.at = TRUE]
    [] c[1] \in Commands -> [b EXCEPT !.eff = @ \o c, !.at = FALSE]
    [] c[1] \in QCommands /\ ~e.at -> [b EXCEPT !.st = "qreg"]
    [] c[1] \in Strings -> [b EXCEPT !.st = "string"]
    [] c[1] = Esc /\ e.st = "start" /\ ~e.at -> [b EXCEPT !.st = "escape"]
    [] c[1] = BraceOpen /\ ~e.at -> [b EXCEPT !.eff = @ \o c, !.editing = TRUE]
    [] OTHER -> Rejected(e)

(* A character of a string argument: with the @-modifier the first one     *)
(* that is not white space is the delimiter.                               *)
StringChar(e, c) ==
  CASE e.at /\ c[1] \in Noops -> e
    [] e.at /\ c[1] \notin Noops -> [e EXCEPT !.at = FALSE, !.delim = c]
    [] ~e.at /\ c = e.delim -> [e EXCEPT !.eff = @ \o c, !.st = "start", !.delim = <<Esc>>, !.res = 0]
    [] OTHER -> [e EXCEPT !.eff = @ \o c, !.res = @ + Len(c)]

(* The state after the character c, executed without an error.             *)
Execute(e, c) ==
  CASE e.st = "string" -> StringChar(e, c)
    [] e.st = "qreg"   -> [e EXCEPT !.eff = @ \o c, !.st = "start"]
    [] IsStart(e)      -> Command(e, c)
    [] OTHER           -> e

Accepts(e, c) == Execute(e, c).st # "rejected"

(* Characters that throw something which is not an error of theirs.        *)
IsReturn(e, c)  == e.st = "escape" /\ c = <<Esc>>
IsReplace(e, c) == IsStart(e) /\ c = <<BraceClose>> /\ ~e.at /\ e.editing

-----------------------------------------------------------------------------
(* Bytes and characters.  Offsets count from 0, as in the code.            *)

(* The character at offset i: g_utf8_get_char(), g_utf8_next_char().       *)
CharAt(s, i) == IF s[i + 1] \in Leads THEN SubSeq(s, i + 1, i + 2) ELSE <<s[i + 1]>>

(* The state after the text t: what the bytes do one after the other, the  *)
(* lead byte of a character waiting for the other one.                     *)
RunByte(m, b) ==
  IF b \in Leads THEN [m EXCEPT !.lead = <<b>>]
                 ELSE [e |-> Execute(m.e, m.lead \o <<b>>), lead |-> <<>>]
RunText(t) == FoldLeft(RunByte, [e |-> Blank, lead |-> <<>>], t).e
=============================================================================
