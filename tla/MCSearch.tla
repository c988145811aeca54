------------------------------ MODULE MCSearch ------------------------------
(* Documents of two lines, one in UTF-8 and one of single bytes, and the   *)
(* commands that are typed.                                                *)
EXTENDS Search

MCWide == [u |-> <<"u1", "u2">>]
MCNarrow == [cp \in {0, 161} |-> IF cp = 161 THEN [u |-> "u8"] ELSE [c \in {} |-> c]]
K(cmd, args) == [cmd |-> cmd, args |-> args, colons |-> 0, at |-> FALSE]
Colons(k, n) == [k EXCEPT !.colons = n]
At(k) == [k EXCEPT !.at = TRUE]

MCBeginnings ==
  {[texts |-> << <<"a", "u1", "u2", "nl", "a">>, <<"b", "a">> >>, utf8 |-> TRUE, earlier |-> <<"a">>],
   [texts |-> << <<"a", " ", "nl", "a">>, <<>> >>, utf8 |-> FALSE, earlier |-> <<>>]}
MCMoves == {K("J", <<4>>), K("C", <<>>), K("R", <<-2>>), K("L", <<>>), K("B", <<>>),
            At(K("P", <<>>)), K("V", <<>>), K("Y", <<>>), K("K", <<0>>),
            Colons(K("D", <<1, 3>>), 1), K("BACKSLASH", <<"1">>)}
MCQueries == {K("T", <<1>>), K("EE", <<UTF8>>), K("EE", <<161>>), Colons(K("EE", <<UTF8>>), 1),
              Colons(K("EE", <<161>>), 1)}
MCSearches == {K("S", <<>>), K("S", <<-2>>), K("S", <<3, 0>>), Colons(K("S", <<>>), 2), K("N", <<>>),
               K("N", <<-2>>), K("FK", <<>>), K("FD", <<-1>>), K("FS", <<>>), K("FR", <<>>), K("FN", <<>>)}
MCInsertions == {K("I", <<"a">>), K("^I", <<>>)}
MCCommands == MCMoves \cup MCQueries \cup MCSearches \cup MCInsertions
MCWords == [s \in {"start"} |-> {}]
           @@ [s \in {"N", "FN"} |-> {<<"a">>, <<"b">>}]
           @@ [s \in {"S"} |-> {<<"a">>, <<"u">>, <<"^N">>, <<"^EM", "^X">>, <<"^E[", "a", ",", "]">>}]
           @@ [s \in Searches |-> {<<"a">>, <<"u">>}]
           @@ [s \in Insertions |-> {<<"u">>, <<"b">>}]
           @@ [s \in Ignoring |-> {<<"a">>}]

(* What the documented deviations of the code are shown with.              *)
MCAlternatives == [MCWords EXCEPT !["N"] = {<<"a">>, <<"^E[">>, <<",">>, <<"]">>}]
MCIncomplete == [MCWords EXCEPT !["N"] = {<<"a">>, <<"b">>, <<"^EM">>, <<"^N">>}]
MCBackwardKills == {K("FK", <<-1>>)}
MCStraddles == {K("FK", <<0, 3>>), K("C", <<>>)}
MCEmpties == [MCWords EXCEPT !["FD"] = {<<"^E[", "a", ",", "]">>}, !["FS"] = {<<"^E[", "a", ",", "]">>}]
MCAll == {K("N", <<>>)}
MCEncodings == {K("EE", <<UTF8>>), K("EE", <<161>>), Colons(K("EE", <<UTF8>>), 1),
                Colons(K("EE", <<0>>), 1)}
MCEmptying == {K("D", <<-1>>), K("BACKSLASH", <<"1">>), Colons(K("EE", <<0>>), 1)}
MCNothing == {[texts |-> << <<>>, <<"a">> >>, utf8 |-> TRUE, earlier |-> <<>>]}
=============================================================================
