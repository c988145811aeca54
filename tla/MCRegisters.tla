---------------------------- MODULE MCRegisters -----------------------------
(***************************************************************************)
(* Registers for TLC: two plain registers, of which one has never been     *)
(* set, the working directory, the current buffer, a local register; texts *)
(* of up to two characters; a push-down list with one element already,     *)
(* which the view still shows.                                             *)
(***************************************************************************)
EXTENDS Registers

MCGlobals == {"A", "B", "$", "*"}
MCStrings == {<<>>, <<"a">>}
MCDoc(text, refs) == [text |-> text, undo |-> <<[text |-> <<>>, dot |-> 0]>>,
                      refs |-> refs, loaded |-> FALSE]
MCEditor(undo) ==
  [docs |-> [d \in 1..MaxDocs |->
              CASE d = 2 -> MCDoc(<<"b", "c">>, 1) [] d = 3 -> MCDoc(<<"d">>, 2) [] OTHER -> Free],
   view |-> [doc |-> 3, dot |-> 0],
   regs |-> [q \in Globals \cup Locals |->
               IF q = "A" THEN [int |-> 2, doc |-> 2, dot |-> 1] ELSE NewRegister],
   current |-> "none", table |-> "none",
   stack |-> <<[int |-> 3, doc |-> 3, dot |-> 1]>>, array |-> 0,
   outside |-> [q \in External |-> <<"e">>],
   tokens |-> <<>>, undo |-> undo, failed |-> FALSE, dangling |-> FALSE]
MCInitStates == {MCEditor(undo) : undo \in BOOLEAN}
=============================================================================
