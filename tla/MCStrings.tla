----------------------------- MODULE MCStrings ------------------------------
(* Small directories, registers and lists of names for Arguments.          *)
EXTENDS Arguments

MCGlobals == [n \in {<<"A">>, <<"A", "B">>, <<"A", "]">>} |->
  [string |-> IF n = <<"A">> THEN <<"a", "*">> ELSE <<"b">>, number |-> IF n = <<"A">> THEN 10 ELSE 1]]
MCLocals == [n \in {<<"A">>} |-> [string |-> <<"B">>, number |-> 2]]
MCCharCodes == [n \in {10, 1} |-> IF n = 1 THEN "^A" ELSE "b"]

MCFiles == {<<"a", "b">>, <<"a", "[", "b">>, <<"b", "/">>, <<"b", "/", "a">>, <<".", "a">>,
            <<"e", "}">>, <<"e", "{", "a">>}
MCBracketDirs == {<<"a", "b">>, <<"b", "[", "/">>, <<"b", "[", "/", "a">>}
MCCarets == {<<"a", "^", "b">>, <<"b", "b">>}
MCHome == <<"b">>
MCSymbols == {<<"A", "B">>, <<"A", "N">>, <<"B">>}
MCLexerSymbols == {<<"E", "Q">>, <<"E", "R">>}
MCLabels == {<<"a">>, <<"a", "b">>, <<"b", "a">>}
MCTopics == {<<"E", "B">>, <<"e", "q">>, <<"N">>}

Typing(command, at, keys) == [command |-> command, executes |-> TRUE, at |-> at, keys |-> keys]
MCCases == {
  Typing("insert", FALSE, {"^", "E", "Q", "[", "]", "a"}),
  Typing("insert", FALSE, {"^", "V", "W", "P", "a"}),
  Typing("insert", TRUE, {"{", "}", "^Q", "a"}),
  Typing("insert", TRUE, {"/", "^", "E", "N", "A"}),
  Typing("file", TRUE, {"a", "e", "{", "/", "[", "}"}),
  Typing("file", FALSE, {"a", "~", "/", "ESC"}),
  Typing("glob", TRUE, {"a", "b", "/", "e"}),
  Typing("dir", TRUE, {"b", "/", "~"}),
  Typing("execute", FALSE, {"a", " ", ">"}),
  Typing("symbols", FALSE, {"a", "b", ",", "e"}),
  Typing("goto", FALSE, {"a", "b", ","}),
  Typing("help", TRUE, {"/", "e", "n"}) }

(* Deviations: a command that is skipped, two local names in an argument,  *)
(* patterns (with MCBracketDirs).                                          *)
MCGlobs == {Typing("glob", FALSE, {"a", "b"})}
MCSkipped == {[Typing("file", FALSE, {"b"}) EXCEPT !.executes = FALSE]}
MCLocalNames == {Typing("insert", FALSE, {"^", "E", "Q", ".", "A"})}
=============================================================================
