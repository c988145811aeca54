----------------------------- MODULE MCSession ------------------------------
EXTENDS Session

(* Macros that loop, break, return, jump and fail at their end or in their *)
(* loops.                                                                  *)
MCMacros == {<<"2", "<", "0", ";", ">">>, <<"0", "<", "<", ">", ">", "<">>,
             <<"0", ";">>, <<"2", "<", ">", "^C", "0">>, <<"^C", "^C">>,
             <<"2", "<", "5", ",", "F>">>, <<"(", "$">>, <<"Oa">>}
MCNone == {}
MCReturnInLoop == {<<"<", "$", "$">>}
=============================================================================
