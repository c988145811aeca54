------------------------------ MODULE MCLexer -------------------------------
(* Small documents for Lexer with all insertions and deletions of some     *)
(* characters in them.                                                     *)
EXTENDS Lexer

(* Edits at all the positions of a set; "" deletes.                        *)
Edited(t, positions, cs) ==
  [text |-> t, edits |-> positions \X cs, skips |-> <<>>, fold |-> TRUE, macrodef |-> TRUE]
All(t) == 0..(Len(t) + 1)
Everywhere(t, cs) == Edited(t, All(t), cs)

MCScenarios == {
  Everywhere(<<"Z", "nl", "!", "*", "nl", "*", "!", "1", "nl", "Z">>, {"", "!", "*", "nl"}),
  Everywhere(<<"@", "I", "{", "nl", "Z", "{", "1", "}", "nl", "}", "1", "nl">>, {"", "{", "}", "nl"}),
  Everywhere(<<"@", "F", "R", "{", "1", "}", "nl", "{", "}", "+", "nl">>, {"", "@", "nl"}),
  Everywhere(<<"I", "^Q", "ESC", "nl", "1", "ESC", "Q", "nl", "!", "1", "!", "nl">>, {"", "ESC", "~", "bad"}),
  Everywhere(<<"1", "^U", "#", "nl", "1", "ESC", "nl", "!", "!", "1", "nl", "F", "1">>, {"", "#", "@"}),
  [Everywhere(<<"@", "I", "{", "1", "nl", "{", "}", "+", "}", "nl">>, {"", "}"})
     EXCEPT !.fold = FALSE, !.macrodef = FALSE],
  Edited(<<"#", "!", "nl", "@", "I", "{", "!", "1", "!", "}", "nl", "1", "+">>, 11..13, {"", "1", "!", "@"}) }

(* Scenarios with deviations, see the README.                              *)
MCMacros == {Everywhere(<<"@", "I", "{", "1", "}", "nl", "@", "I", "{", "1", "}">>, {"I"})}
MCBangs == {Edited(<<"@", "I", "{", "}", "nl", "1">>, {0}, {"#"})}
MCBytes == {Edited(<<"1", "nl", "@", "I", "{", "}", "nl">>, {2, 5}, {"", "bad"})}
MCSkips == {[Everywhere(<<"1", "nl", "!", "1", "!", "nl">>, {""}) EXCEPT !.skips = <<"1">>]}
=============================================================================
