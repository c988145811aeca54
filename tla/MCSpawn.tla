------------------------------ MODULE MCSpawn -------------------------------
(***************************************************************************)
(* Processes for TLC.  The document has a line and a half; ranges without  *)
(* and with a line end are piped, the process writes a character or a line *)
(* end at a time.                                                          *)
(***************************************************************************)
EXTENDS Spawn

MCText == <<"a", "LF">>
MCReturnText == <<"a", "CR", "LF">>
MCArguments == {[kind |-> "none"], [kind |-> "lines", n |-> -1],
                [kind |-> "chars", from |-> 1, to |-> 2], [kind |-> "chars", from |-> 1, to |-> 0]}
MCChunks == {<<"o">>, <<"CR", "LF">>}
MCAll == {[kind |-> "chars", from |-> 0, to |-> Len(Text)]}
MCWrong == {[kind |-> "none"], [kind |-> "chars", from |-> 1, to |-> 0]}
=============================================================================
