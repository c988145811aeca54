------------------------------ MODULE MCCmdline ------------------------------
(***************************************************************************)
(* Instances of Cmdline for TLC: the characters, what a key press may be   *)
(* and what the replacement register may contain.                          *)
(***************************************************************************)
EXTENDS Cmdline

MCLead == "lead"
MCCont == "cont"
Umlaut == <<MCLead, MCCont>>

Typed(c) == <<Char(<<c>>)>>
Pressing(k) == <<Edit(k)>>
EditKeys == {Pressing(k) : k \in {"^G", "^H", "^W", "^U"}}

(* Bound: one command line, and the rest of the key press that ends it.    *)
OneLine == lastCmdline = <<>> \/ op # "idle"

(* Commands, white space, modifiers, Q-Register names, strings with        *)
(* multi-byte characters, and key macros that fail in the middle or return.*)
Macro(s) == FlattenSeq([i \in DOMAIN s |-> IF s[i] = MCLead THEN <<Char(Umlaut)>> ELSE Typed(s[i])])
EditingKeys == EditKeys \cup {Typed(c) : c \in {"A", " ", "Q", "I", "@", "$"}} \cup {<<Char(Umlaut)>>} \cup
  {Macro(<<"I", MCLead, "$">>), Macro(<<"A", MCLead>>), Macro(<<"$", "$", "A">>), Macro(<<"$", "$", MCLead>>)}

(* The command line is replaced: every new command line that fails is as   *)
(* long as the old one.                                                    *)
ReplaceKeys == {Pressing("^H"), Pressing("^G"), Pressing("^W")} \cup {Typed(c) : c \in {"A", "{", "}"}}
Failing(n) == [i \in 1..n |-> IF i = n THEN CtlU ELSE "A"]
SameLength(line) ==
  LET n == Len(line) - 1 IN
  {SubSeq(line, 1, k) \o <<"A", "A">> : k \in {i \in 0..n : i = 0 \/ line[i] = "A"}} \cup {<<>>}
    \cup {Failing(Len(line))}

(* Key presses of all kinds, for the question whether they end.  There are *)
(* no strings: reinserting their words goes on behind their end, and for   *)
(* ever if there is a } there that fails (StringStopsAtTerminator).        *)
AllKeys == ReplaceKeys \cup {Typed("@"), Typed("Q"), Macro(<<"A", MCLead>>)}

(* New command lines that fail and are shorter or longer than the old one, *)
ShorterFails(line) == {Failing(Len(line) - 1)}
LongerFails(line) == {Failing(Len(line) + 1)}
(* ... or that replace it again,                                           *)
ReplacesAgain(line) == {<<"{", "}">>}
(* ... or that differ from the old one within a character.                 *)
Cont2 == "cont2"
OtherUmlaut(line) == {<<"I", MCLead, Cont2, "$">>}
OtherUmlautKeys == {Typed("I") \o <<Char(Umlaut)>> \o Typed("$") \o Typed("{") \o Typed("}")}

(* Key macros with rubouts before what fails.                              *)
RuboutMacros == {Typed("A"), Pressing("^H"), Pressing("^H") \o Typed("Q") \o <<Char(Umlaut)>> \o <<Char(Umlaut)>>}

(* What is needed to reinsert strings.                                     *)
ReinsertKeys == {Typed(c) : c \in {"I", "A", "$"}} \cup {Pressing("^H"), Pressing("^G"), Pressing("^U")}

(* How the command line is used: commands and strings are edited, without  *)
(* and with errors at any time, and the command line is replaced.          *)
Usage(ks, replaces, fails) == [keys |-> ks, replaces |-> replaces, fails |-> fails]
CharKeys(chars) == {Typed(c) : c \in chars} \cup {<<Char(Umlaut)>>}
CommandKeys ==
  {Pressing(k) : k \in {"^G", "^H", "^W"}} \cup CharKeys({"A", " ", "Q", "@"})
    \cup {Macro(<<"A", MCLead>>), Macro(<<"$", "$", MCLead>>)}
StringKeys == EditKeys \cup CharKeys({"A", "I", "@", "$"}) \cup {Macro(<<"I", MCLead, "$">>)}
FewStringKeys == EditKeys \cup {Typed(c) : c \in {"A", "I", "$"}} \cup {Macro(<<"I", MCLead, "$">>)}

MCUsages == {Usage(CommandKeys, FALSE, TRUE), Usage(StringKeys, FALSE, FALSE),
             Usage(FewStringKeys, FALSE, TRUE), Usage(AllKeys, TRUE, FALSE)}

(* Usages with deviations, see the README.                                 *)
MCEditing     == {Usage(EditingKeys, FALSE, FALSE)}
MCRubouts     == {Usage(RuboutMacros, FALSE, FALSE)}
MCReplaces    == {Usage(AllKeys, TRUE, FALSE)}
MCInterrupted == {Usage(AllKeys, TRUE, TRUE)}
MCOtherUmlaut == {Usage(OtherUmlautKeys, TRUE, FALSE)}
MCReinserts   == {Usage(ReinsertKeys, FALSE, FALSE)}
=============================================================================
